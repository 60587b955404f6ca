CONSTANTS
    Hours = 2
    Minutes = 2
    Seconds = 3
    On2 <- OnAtOne
    Off2 <- OffAtOne
    ThSeconds = {1}
    StoredTimes = {65535}
    UserTimes = {}
SPECIFICATION Spec
PROPERTIES
    Off2IsObeyed
