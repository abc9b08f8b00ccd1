CONSTANTS
    Threads = {th1}
    Tokens = {t1, t2}
    NoToken = NoToken
    MaxIter = 2
    ChatIter = 2
    ConfirmTTL = 1
    ThreadMemoryTTL = 0
    MaxCalls = 2
    MaxQueue = 2
SPECIFICATION FairSpec
INVARIANTS
    CallsAreAnswered
PROPERTIES
    ImplementsApprovals
    TurnEnds
    TurnGetsShorter
