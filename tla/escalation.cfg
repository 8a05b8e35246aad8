SPECIFICATION FairSpec
CONSTANTS
    Worker = {w1}
    Last = 5
    Deadline = 1
    D = 1
    R = 1
    MaxLevel = 3
    Height = 2
    MaxFaults = 1
    MaxNotes = 1
INVARIANTS
    ObserversAreDue
PROPERTIES
    SilenceStaysOnRecord
    ReleasedByAnAnswer
    WatchIsKept
    SilentIsSeen
    AnsweredIsReleased
CHECK_DEADLOCK FALSE
