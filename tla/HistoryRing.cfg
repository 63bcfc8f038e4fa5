\* Two writers and a reader, a ring of two slots, a buffer created twice.
SPECIFICATION Spec
CONSTANTS
    w1 = w1
    w2 = w2
    r1 = r1
    Writers = {w1, w2}
    Readers = {r1}
    NumSlots = 2
    SlotUnits = 2
    Sizes = {0, 2, 3}
    HasMeta = TRUE
    MaxMsgs = 4
    MaxSpoilt = 2
    MaxCreates = 2
SYMMETRY WriterSymmetry
INVARIANTS HistoryIntact LatestUnlessLapped VersionsTell
CHECK_DEADLOCK FALSE
