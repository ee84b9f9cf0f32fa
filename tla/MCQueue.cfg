CONSTANTS
    Items = {a, b, c, d, e}
    NoItem = NoItem
SPECIFICATION Spec
SYMMETRY Symmetry
PROPERTY
    Implements
CHECK_DEADLOCK FALSE
