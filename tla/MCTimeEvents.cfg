CONSTANTS
    Hours = 2
    Minutes = 2
    Seconds = 2
    On2 <- OnAtOne
    Off2 <- OffAtOne
    ThSeconds = {1}
    StoredTimes = {65535}
    UserTimes = {1, 25500}
SPECIFICATION Spec
INVARIANTS
    TypeOK
    AlarmIsAttended
PROPERTIES
    AlarmsGoOn
    NoSecondIsMissed
    NoSecondTwice
    ScheduleIsObeyed
    NewTimeIsObeyed
