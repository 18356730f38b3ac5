\* Three parties sign; one request may fail.
\* A lost message stalls its receiver for ever: the system really may stop.
SPECIFICATION FairSpec
CHECK_DEADLOCK FALSE
CONSTANTS
    N = 3
    Kind <- SignKind
    Stage <- SignStage
    MaxLost = 1
INVARIANTS TypeOK OverflowOnlyWhileSending MistypedOnlyAtTheEdge NothingLate StallsOnlyOverLoss
PROPERTIES InStep AllComplete
