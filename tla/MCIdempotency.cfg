\* Claims live two ticks, results three, attempts at most one; one Redis error.
CONSTANTS
    r1 = r1
    r2 = r2
    r3 = r3
    r4 = r4
    b1 = b1
    b2 = b2
    Request <- MCRequest
    Body <- MCBody
    Carried <- MCCarried
    NoRecord = NoRecord
    ClaimTTL = 2
    DoneTTL = 3
    MaxRun = 1
    MaxFaults = 1
SPECIFICATION FairSpec
INVARIANTS TypeOK NeverRunTwice ReplayFaithful RunnerOwnsClaim
PROPERTIES ClaimEnds
CHECK_DEADLOCK FALSE
