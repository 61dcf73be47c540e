SPECIFICATION Spec
CHECK_DEADLOCK FALSE
CONSTANTS
    MaxName = 6
    MaxEntry = 5
    Names <- HostNames
    EntryLists <- Lists
INVARIANTS
    AnswerIsCover
