\* Two calls, one unit of quota or none set, one slot, at most one store error.
CONSTANTS
    r1 = r1
    r2 = r2
    Request <- MCRequest
    Caller = caller
    Org = org
    NoQuota = NoQuota
    NoKey = NoKey
    NoRecord = NoRecord
    Nil = Nil
    NotAnObject = NotAnObject
    Limit = 1
    Allowance = {1}
    Calls <- MCCalls
    MaxFaults = 1
SPECIFICATION FairSpec
INVARIANTS TypeOK ErrorNotCharged SuccessCharged NoSilentSubstitution FreeCallsTouchNothing AnsweredHoldsNoSlot KeyRunsOnce
PROPERTIES EveryCallEnds
CHECK_DEADLOCK FALSE
