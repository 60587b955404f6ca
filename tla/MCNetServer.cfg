CONSTANTS
    Temps <- TheTemps
    Hums = {45}
    Backlog = 1
    MaxRequests = 2
SPECIFICATION Spec
INVARIANTS
    TypeOK
    SilenceMeansFresh
    ErrorMeansNoData
    OnlyGoodTemperatures
    OneSocket
PROPERTIES
    ClientsAreServed
