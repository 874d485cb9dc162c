\* Calls one after another: a member of the organization, at every phase of
\* its own bucket and the organization's, and a caller outside it.
CONSTANTS
    Request = {r1}
    Caller = {k1, k2}
    Member = {k1}
    Org = Org
    Plans = {0}
    Default = 1
    Top = 1
    NoValue = NoValue
    Window = 2
    BucketTTL = 4
    MaxHold = 0
SPECIFICATION FairSpec
PROPERTY PatientServed
