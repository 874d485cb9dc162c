\* Four concurrent reservations, allowances of none, zero and two units.
CONSTANTS
    Request = {r1, r2, r3, r4}
    Allowance = {0, 2}
    NoQuota = NoQuota
SYMMETRY RequestSymmetry
SPECIFICATION Spec
INVARIANTS TypeOK NoOverrun NegativeOnlyWhileShort Settled StaysUnmetered
CHECK_DEADLOCK FALSE
