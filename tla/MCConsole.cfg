CONSTANTS
    Letters <- TheLetters
    Space = " "
    Passwd <- ThePasswd
    Commands <- TheCommands
    Parames <- TheParames
    Pages <- ThePages
    VarsSize = 1
    StringSize = 2
    InputSize = 4
    QueueSize = 1
SPECIFICATION Spec
INVARIANTS
    TypeOK
    LineIsWhatWasTyped
PROPERTIES
    LinesAreAnswered
    QueuedIsSent
