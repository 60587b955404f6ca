CONSTANTS
    PbufMax = 7
    MboxLen = 10
SPECIFICATION Spec
INVARIANTS
    TypeOK
    CoreIsExclusive
    PbufsAreOwned
    PostsNeverBlock
    ConnOutlivesUse
PROPERTIES
    WaitersAreWoken
