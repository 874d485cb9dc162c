CONSTANTS
    Emission = {e1, e2, e3, e4}
SYMMETRY EmissionSymmetry
SPECIFICATION Spec
INVARIANTS TypeOK NoEventLost NoIdleDuplicate BacklogFlushed
CHECK_DEADLOCK FALSE
