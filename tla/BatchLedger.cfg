SPECIFICATION Spec
CONSTANTS
    l1 = l1
    l2 = l2
    l3 = l3
    Lines = {l1, l2, l3}
    Stays <- TwoStays
    Batches = {b1, b2, b3}
    Procs = {p1, p2}
    NoBatch = NoBatch
SYMMETRY Symmetry
INVARIANTS
    OneEntryPerBatchedLine
CHECK_DEADLOCK FALSE
