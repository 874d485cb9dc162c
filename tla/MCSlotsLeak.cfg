\* One slot, no Redis error: a crash leaks it while another request keeps trying.
CONSTANTS
    r1 = r1
    r2 = r2
    r3 = r3
    s1 = s1
    s2 = s2
    Request <- MCTwoRequests
    Subject = {s1}
    SubjectOf <- MCOneSubject
    Org = org
    NoKey = NoKey
    Limit = 1
    SlotTTL = 2
    MaxHold = 1
    MaxFaults = 0
SPECIFICATION FairSpec
PROPERTIES LeakReclaimed
