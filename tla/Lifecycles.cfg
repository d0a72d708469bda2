\* Holds: two guests, two holds, one request, a host's block, Pay Later plans.
\* Outbox: two rows, two API instances, a batch of one row, two attempts, one death.
\* Captures: three orders, lists of two, a price that does not split evenly.
SPECIFICATION LifecyclesSpec
CONSTANTS
    Guests = {g1, g2}
    Holds = {h1, h2}
    Procs = {p1}
    Ranges <- TwoOverlapping
    BookPlans = {"PAY_LATER"}
    BlockRanges <- OneBlock
    RCEvents = {"ADMIN_CANCELLED"}
    Refunds = {0}
    NoGuest = NoGuest
    NoHold = NoHold
    MaxRow = 2
    w1 = w1
    w2 = w2
    Worker = {w1, w2}
    MaxAttempts = 2
    Limit = 1
    MaxDeaths = 1
    Orders = {1, 2, 3}
    Declinable = {}
    Clients = {q1}
    Total = 3
    RefundPcts = {100}
    MoveEvents = {"CHECKED_IN"}
    MaxRefunds = 1
    ReconLimit = 2
    NoOrder = NoOrder
INVARIANTS
    SentOnceUnlessDisturbed
PROPERTIES
    BoardSpec
    ExpiredHoldsReaped
    EveryRowSettles
    ReconRecovers
CHECK_DEADLOCK FALSE
