------------------------- MODULE BookingStateMachine -------------------------
(***************************************************************************)
(* The booking state machine of booking/state-machine.ts: its statuses,    *)
(* its transition table and what BookingStateMachine.transition makes of a *)
(* status it is handed.  The machine never re-reads the row: it looks up   *)
(* the status the CALLER read, and overwrites the row by id.  Which status *)
(* the caller read, and when, is modelled by the modules that EXTEND this  *)
(* one; here is only the pure table.                                       *)
(***************************************************************************)
EXTENDS Integers

Statuses == {"PAYMENT_PENDING", "CONFIRMED_DEPOSIT", "CONFIRMED_PAID",
             "BALANCE_DUE", "CHECKED_IN", "COMPLETED", "CANCELLED", "REFUNDED"}

Plans == {"FULL", "DEPOSIT_50", "PAY_LATER", "PAY_ON_ARRIVAL"}

Cancellable == {"PAYMENT_PENDING", "CONFIRMED_DEPOSIT", "CONFIRMED_PAID",
                "BALANCE_DUE", "CHECKED_IN"}
Arrivable   == {"CONFIRMED_PAID", "CONFIRMED_DEPOSIT"}
Completable == Arrivable \cup {"CHECKED_IN"}
Refundable  == Completable \cup {"BALANCE_DUE", "COMPLETED", "CANCELLED"}

\* The targets of a row whose `to` is the function cancelTarget.
CancelTarget == "cancelTarget"

\* A row of the table: event, source statuses, target, plans its guard admits.
Row(event, from, to, plans) ==
    [event |-> event, from |-> from, to |-> to, plans |-> plans]

TRANSITIONS == {
    Row("PAYMENT_CONFIRMED_FULL",    {"PAYMENT_PENDING"}, "CONFIRMED_PAID",    {"FULL"}),
    Row("PAYMENT_CONFIRMED_DEPOSIT", {"PAYMENT_PENDING"}, "CONFIRMED_DEPOSIT", {"DEPOSIT_50"}),
    Row("PAY_LATER_FIRST_CAPTURED",  {"PAYMENT_PENDING"}, "CONFIRMED_DEPOSIT", {"PAY_LATER"}),
    Row("PAY_ON_ARRIVAL_RESERVED",   {"PAYMENT_PENDING"}, "CONFIRMED_DEPOSIT", {"PAY_ON_ARRIVAL"}),
    Row("MANUAL_CONFIRMED",          {"PAYMENT_PENDING"}, "CONFIRMED_PAID",    Plans),
    Row("PAY_LATER_INSTALMENT_CAPTURED", {"CONFIRMED_DEPOSIT"}, "CONFIRMED_DEPOSIT", {"PAY_LATER"}),
    Row("PAY_LATER_FINAL_CAPTURED",  {"CONFIRMED_DEPOSIT"}, "CONFIRMED_PAID",  {"PAY_LATER"}),
    Row("BALANCE_DUE_TRIGGERED",     {"CONFIRMED_DEPOSIT"}, "BALANCE_DUE",     Plans),
    Row("BALANCE_PAID", {"BALANCE_DUE", "CONFIRMED_DEPOSIT"}, "CONFIRMED_PAID", Plans),
    Row("GUEST_CANCELLED",           Cancellable, CancelTarget, Plans),
    Row("ADMIN_CANCELLED",           Cancellable, CancelTarget, Plans),
    Row("AUTO_CANCEL_UNPAID_BALANCE", {"BALANCE_DUE"}, CancelTarget, Plans),
    Row("AUTO_CANCEL_PAY_LATER_DEFAULT",
        {"PAYMENT_PENDING", "CONFIRMED_DEPOSIT", "BALANCE_DUE"}, CancelTarget, Plans),
    Row("CHECKED_IN",                Arrivable,   "CHECKED_IN", Plans),
    Row("STAY_COMPLETED",            Completable, "COMPLETED",  Plans),
    Row("AUTO_COMPLETED",            Completable, "COMPLETED",  Plans),
    Row("ADMIN_FULL_REFUND_ISSUED",  Refundable,  "REFUNDED",   Plans) }

Events == {t.event : t \in TRANSITIONS}

(***************************************************************************)
(* transition(): the row that matches the event and the status handed in,  *)
(* if its guard accepts the plan; otherwise the call throws, that is, the  *)
(* transition is not enabled.  A cancellation is REFUNDED when the caller  *)
(* computed a refund, else CANCELLED.                                      *)
(***************************************************************************)
Matches(t, event, status) == t.event = event /\ status \in t.from

CanFire(event, status, plan) ==
    \E t \in TRANSITIONS : Matches(t, event, status) /\ plan \in t.plans

TargetMisspelt(event, status, refund) ==   \* mutant: a status the schema does not have
    LET t == CHOOSE t \in TRANSITIONS : Matches(t, event, status)
    IN  IF t.to = "CONFIRMED_DEPOSIT" THEN "DEPOSIT_CONFIRMED" ELSE t.to

Target(event, status, refund) ==
    LET t == CHOOSE t \in TRANSITIONS : Matches(t, event, status)
    IN  IF t.to = CancelTarget
        THEN IF refund > 0 THEN "REFUNDED" ELSE "CANCELLED"
        ELSE t.to

=============================================================================
