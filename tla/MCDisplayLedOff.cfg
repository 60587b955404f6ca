CONSTANTS
    Frames = {f1}
    StartFrames = 1
    Colors = {0, 1}
    DefaultColor = 1
    BadColor = 65535
    LedStates = {0, 1}
SPECIFICATION Spec
INVARIANTS
    OffMeansNoLight
