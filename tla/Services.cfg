\* Payout: three lines of two bookings, two overlapping requests, three batches.
\* Experiences: two requests, two idempotency keys, capacity 2 and after an edit 1 or 2.
\* Tokens: two logins, three tokens, two requests.
\* Amounts: prices that leave every kind of remainder; 3, 6 and 12 months.
\* Idempotency: one key, two bodies, two requests at a time.
\* Planner: two requests, two API processes (by the names of the stays: one symmetry
\* serves both), two leases, two messages, a cap of one.
\* Rewards: two stays, one deposit, two processes, two tiers to reach.
SPECIFICATION ServicesSpec
CONSTANTS
    l1 = l1
    l2 = l2
    l3 = l3
    k1 = k1
    k2 = k2
    s1 = s1
    s2 = s2
    d1 = d1
    p1 = p1
    p2 = p2
    Lines = {l1, l2, l3}
    Stays <- TwoStays
    Batches = {b1, b2, b3}
    Procs = {p1, p2}
    NoBatch = NoBatch
    Caller = {p1, p2}
    Key = {k1, k2}
    Capacities = {1, 2}
    MaxParty = 2
    MaxContent = 2
    MaxFamily = 2
    MaxToken = 3
    Client = {p1, p2}
    Stay = {s1, s2}
    Deposit = {d1}
    Process = {p1, p2}
    Thresholds = {2, 3}
    None = None
    Attempt = {p1, p2}
    IdemKey = {k1}
    Body = {x1, x2}
    StayPrices = {1, 2, 3, 5, 8, 13, 21, 34, 1005, 1006}
    AddOnPrices = {0, 4, 7, 110}
    Api = {s1, s2}
    Call = {p1, p2}
    Cap = 1
    MaxCost = 1
    MaxChat = 2
    NoApi = NoApi
    Discounts = {0, 5, 20}
    MonthOptions = {3, 6, 12}
SYMMETRY ServicesSymmetry
INVARIANTS
    ServicesTypeOK
    LinesFollowBatches
    SeatsWithinCapacity
    ApprovedAsVettedUnlessRaced
    OneUsableTokenUnlessForked
    StolenIfShownTwice
    
    PointsAddUpUnlessCrossed
    CreditedOnceUnlessCrossed
    DepositedOnceUnlessCrossed
    CapturesAddUp
    HandledOnceUnlessTorn
    PlanFollowsTalkUnlessOverlapped
    OverrunIsInFlight
PROPERTIES
    SoldOnlyWhileApproved
    LeaseFreedByItsProcess
CHECK_DEADLOCK FALSE
