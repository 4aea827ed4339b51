CONSTANTS
    Conns = {c1, c2}
    MaxActive = 1
SPECIFICATION FairSpec
INVARIANTS SlotsMatchHandlers CleanEndIsNoError 
PROPERTIES ClientEndFreesSlot HandlersPooled
CHECK_DEADLOCK FALSE
