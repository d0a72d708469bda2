\* Two bookings, one worker whose list has room for one, nobody scans.
SPECIFICATION PassFairSpec
CONSTANTS
    Trip = {t1, t2}
    TripPlan = "FULL"
    TripEvents = {"PAYMENT_CONFIRMED_FULL", "STAY_COMPLETED"}
    Sweeper = {w1}
    Scanner = {}
    SweepLimit = 1
    MaxCuts = 0
    NoTrip = NoTrip
PROPERTIES
    CompletedIsSealed
CHECK_DEADLOCK FALSE
