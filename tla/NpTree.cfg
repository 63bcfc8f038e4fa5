\* Trees of one or two leaves, alignments good and bad, three calls.
SPECIFICATION Spec
CONSTANTS
    s1 = s1
    s2 = s2
    Structures = {s1, s2}
    Dtypes <- MCDtypes
    ItemSize <- MCItemSize
    Restored <- MCRestored
    Castable = {"u1", "i2"}
    Objects = {"O"}
    Arrays <- MCArrays
    Alignments = {1, 3, 4}
    MaxLeaves = 2
    MaxCalls = 3
SYMMETRY StructureSymmetry
INVARIANTS LayoutSound RoundTrip
PROPERTIES OnlyLeavesWritten
CHECK_DEADLOCK FALSE
