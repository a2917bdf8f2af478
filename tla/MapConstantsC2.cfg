SPECIFICATION Spec
INVARIANT C2AsCommented
CHECK_DEADLOCK FALSE
