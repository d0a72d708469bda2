SPECIFICATION Spec
CONSTANTS
    Guests = {g1, g2}
    Holds = {h1, h2}
    Procs = {p1}
    Ranges <- TwoOverlapping
    BookPlans = {"DEPOSIT_50", "PAY_ON_ARRIVAL"}
    BlockRanges <- NoBlocks
    RCEvents = {"ADMIN_CANCELLED", "BALANCE_DUE_TRIGGERED", "BALANCE_PAID", "CHECKED_IN"}
    Refunds = {0}
    NoGuest = NoGuest
    NoHold = NoHold
INVARIANTS
    NoDoubleOccupancy
CHECK_DEADLOCK FALSE
