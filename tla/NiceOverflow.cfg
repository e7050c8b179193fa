\* Increments past either end of the range, small ones, and the largest.
SPECIFICATION Spec
CONSTANTS
    Lowers = {3, 2147483647}
    Raises = {2, 30}
    AdminLowers = {4}
    AdminRaises = {5}
    Ceilings = {0, 40}
    MaxAdmin = 2
INVARIANTS
    PositiveLowers
CHECK_DEADLOCK FALSE
