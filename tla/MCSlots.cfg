CONSTANTS
    r1 = r1
    r2 = r2
    r3 = r3
    s1 = s1
    s2 = s2
    Request <- MCRequest
    Subject = {s1, s2}
    SubjectOf <- MCSubjectOf
    Org = org
    NoKey = NoKey
    Limit = 1
    SlotTTL = 2
    MaxHold = 1
    MaxFaults = 1
SYMMETRY RequestSymmetry
SPECIFICATION Spec
INVARIANTS TypeOK LimitRespected NothingLeaks NoExpiryUnderHolder
