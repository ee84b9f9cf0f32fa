CONSTANTS
    Enrollments = {a, b, c, d}
    MaxRounds = 3
SPECIFICATION Spec
PROPERTY
    PassTogether
CHECK_DEADLOCK FALSE
