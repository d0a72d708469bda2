SPECIFICATION AmountsSpec
CONSTANTS
    StayPrices = {1, 2, 3, 5, 8, 13, 21, 34, 1005, 1006}
    AddOnPrices = {0, 4, 7, 110}
    Discounts = {0, 5, 20}
    MonthOptions = {3, 6, 12}
INVARIANTS
    DepositAndBalanceSumToShare
CHECK_DEADLOCK FALSE
