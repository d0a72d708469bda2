\* Dunning: three instalments, the second ordered twice; one sweep dies.
\* Tickets: two bookings, two workers, one scan, lists of one; one sweep is cut.
\* Alarm: one incident, two operators, two channels, three tries.
\* Concierge: two messages, two sweeps, one of them cut short.
SPECIFICATION JobsSpec
CONSTANTS
    Months = 3
    Orders <- AnOrderEachAndOneTwice
    Declinable <- TheDoubledOne
    Procs = {p1}
    MoveEvents = {"CHECKED_IN"}
    MaxDeaths = 1
    t1 = t1
    t2 = t2
    Trip = {t1, t2}
    TripPlan = "FULL"
    TripEvents = {"PAYMENT_CONFIRMED_FULL", "ADMIN_CANCELLED", "STAY_COMPLETED"}
    Sweeper = {w1, w2}
    Scanner = {h1}
    SweepLimit = 1
    MaxCuts = 1
    NoTrip = NoTrip
    Operator = {p1, p2}
    Channel = {c1, c2}
    MaxTries = 3
    NoOne = NoOne
    Writer = {m1, m2}
    Monitor = {s1, s2}
    MaxStops = 1
    NoWriter = NoWriter
INVARIANTS
    JobsTypeOK
    PaidInOrder
    PaidWhenComplete
    ClockFollowsTalkUnlessMistimed
PROPERTIES
    ArrearsAreDunned
    CancelledIsVoided
    SealedWhileInReach
    IncidentAdvancesUnlessCrossed
    EveryChannelIsTried
    LapseIsAlerted
CHECK_DEADLOCK FALSE
