SPECIFICATION PaySpec
CONSTANTS
    Orders = {1, 2}
    Declinable = {1, 2}
    Clients = {p1}
    Total = 2
    RefundPcts = {0, 50, 100}
    MoveEvents = {"BALANCE_DUE_TRIGGERED", "CHECKED_IN", "STAY_COMPLETED"}
    MaxRefunds = 2
    ReconLimit = 2
    NoOrder = NoOrder
INVARIANTS
    RefundsWithinCollected
CHECK_DEADLOCK FALSE
