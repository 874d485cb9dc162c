CONSTANTS
    Emission = {e1, e2, e3}
SPECIFICATION Spec
INVARIANTS NeverWedged
CHECK_DEADLOCK FALSE
