SPECIFICATION HeapSpec
CONSTANTS
    Items = {i1, i2, i3, i4, i5, i6}
    Priorities = {1, 2}
    None = None
SYMMETRY Symmetry
CHECK_DEADLOCK FALSE
INVARIANT GreatestFirst
