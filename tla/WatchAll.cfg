SPECIFICATION FairSpec
CONSTANTS
    MaxEvents = 3
    MaxFaults = 1
    MaxLines = 2
    LookBack = 1
    Foci <- MCFoci
INVARIANT MessagesSound
PROPERTY TroubleTold
PROPERTY TroubleStopped
CHECK_DEADLOCK FALSE
