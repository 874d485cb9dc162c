\* Two overlapping calls of one caller of an organization and a default of two
\* requests a window.
CONSTANTS
    Request = {r1, r2}
    Caller = {k1}
    Member = {k1}
    Org = Org
    Plans = {}
    Default = 2
    Top = 2
    NoValue = NoValue
    Window = 2
    BucketTTL = 4
    MaxHold = 1
SYMMETRY RequestSymmetry
SPECIFICATION Spec
INVARIANTS TypeOK WithinBudget
