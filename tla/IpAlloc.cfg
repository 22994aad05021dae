SPECIFICATION Spec
CONSTANTS
    Base = 2
    Octets = 3
INVARIANT LeastFree
PROPERTY Terminates
CHECK_DEADLOCK FALSE
