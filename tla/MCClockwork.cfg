CONSTANTS
    Args <- Given
    StartDates <- Start
    Garbage = {31, 255}
    TicksPerSet = 1
    ClimateFrames <- Room
    Fills = {8}
    Sessions <- Runs
    Word = 64
SPECIFICATION ClockSpec
INVARIANTS
    ClockTypeOK
    TubesShowTheTime
    DateIsRight
    NeverUnderflows
    StrokesAreExact
PROPERTIES
    SilenceReturns
CHECK_DEADLOCK FALSE
