SPECIFICATION FairSpec
CONSTANTS
    Months = 3
    Orders <- AnOrderEachAndOneTwice
    Declinable <- TheDoubledOne
    Procs = {p1}
    MoveEvents = {"CHECKED_IN"}
    MaxDeaths = 1
PROPERTIES
    DefaultCancelsBooking
CHECK_DEADLOCK FALSE
