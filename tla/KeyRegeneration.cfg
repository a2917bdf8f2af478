SPECIFICATION Spec
CONSTANT MaxMishaps = 4
PROPERTY Recovers
CHECK_DEADLOCK FALSE
