CONSTANTS
    Frames = {f1, f2}
    StartFrames = 2
    Colors = {0, 1, 2}
    DefaultColor = 1
    BadColor = 65535
    LedStates = {}
SPECIFICATION Spec
INVARIANTS
    WorkingMeansAwake
