\* Nights: two guests, two holds, two requests, two ranges that overlap.
\* Money: two orders, attempts on the first may be declined; one request, two refunds,
\* lists of two.
SPECIFICATION BookingsSpec
CONSTANTS
    Guests = {g1, g2}
    Holds = {h1, h2}
    Procs = {p1, p2}
    Ranges <- TwoOverlapping
    BookPlans = {"DEPOSIT_50", "PAY_ON_ARRIVAL"}
    BlockRanges <- NoBlocks
    RCEvents = {"ADMIN_CANCELLED", "BALANCE_DUE_TRIGGERED", "BALANCE_PAID", "CHECKED_IN"}
    Refunds = {0}
    NoGuest = NoGuest
    NoHold = NoHold
    Orders = {1, 2}
    Declinable = {1}
    Clients = {q1}
    Total = 2
    RefundPcts = {0, 50, 100}
    MoveEvents = {"BALANCE_DUE_TRIGGERED", "CHECKED_IN", "STAY_COMPLETED"}
    MaxRefunds = 2
    ReconLimit = 2
    NoOrder = NoOrder
SYMMETRY Symmetry
INVARIANTS
    BookingsTypeOK
    LiveHoldsDisjoint
    BookingKeepsItsHold
    SoldOnceUnlessRevived
    HoldOverrunOnlyByLateBooking
    BookedOnceUnlessDemoted
    PaidInFullUnlessDemoted
    UnbookedCaptureIsExtra
    EachRefundWithinCollected
CHECK_DEADLOCK FALSE
