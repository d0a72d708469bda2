------------------------------- MODULE PayLater -------------------------------
(***************************************************************************)
(* One Pay Later booking: its plan of monthly instalments, the orders that *)
(* pay them, the hourly dunning sweep and the requests that cancel or      *)
(* confirm the booking meanwhile (pay-later/pay-later.service.ts, the      *)
(* instalment branch of handlePaymentCaptured, initPayLaterInstalment-     *)
(* Payment, cancelDefaultedPayLater and cancelBookingInternal).            *)
(*                                                                         *)
(* A capture is one SERIALIZABLE transaction.  How its report reaches the  *)
(* handler is the business of module Payments: here a capture is reported  *)
(* any number of times, at any time.  The sweep and the cancellation read  *)
(* first and write by id later, with other transactions in between.        *)
(***************************************************************************)
EXTENDS BookingStateMachine

CONSTANTS Months,     \* number of instalments of the plan
          Orders,     \* gateway orders <<seq, n>>: the n-th for instalment seq
          Declinable, \* orders on which an attempt may be declined
          Procs,      \* concurrent READ COMMITTED requests
          MoveEvents, \* other READ COMMITTED events: check-in, completion
          MaxDeaths   \* bound on the sweeps that are cut short

Seqs == 1..Months

ASSUME MonthsAssumption == Months \in Nat \ {0, 1}
ASSUME OrdersAssumption == Orders \subseteq Seqs \X Nat /\ Declinable \subseteq Orders
ASSUME EventsAssumption == MoveEvents \subseteq {"CHECKED_IN", "STAY_COMPLETED"}
ASSUME BoundAssumption  == MaxDeaths \in Nat

VARIABLES status,   \* the booking's status
          plan,     \* the PayLaterPlan's status, "NONE" before the first capture
          paid,     \* instalments with a paidAt
          booked,   \* number of PAYMENT_CAPTURED ledger entries per instalment
          offline,  \* the offline payment of manualConfirm exists
          rows,     \* status of the Payment row of each order
          captured, \* orders the guest has paid at the gateway
          clock,    \* half months since the first capture
          sweep,    \* where the dunning job is
          deaths,   \* sweeps cut short so far
          task      \* what each READ COMMITTED request has read

vars == <<status, plan, paid, booked, offline, rows, captured, clock, sweep, deaths, task>>
ledger == <<paid, booked, offline>>

------------------------------------------------------------------------------
PlanStatuses == {"NONE", "SCHEDULED", "OVERDUE", "DEFAULTED", "COMPLETED", "CANCELLED"}
RowStatuses  == {"none", "INITIATED", "CAPTURED", "FAILED"}
Seq(o) == o[1]

\* buildSchedule: the first instalment is due at once, the others monthly.
\* The seven days of grace are shorter than a month: half of one here.
Due(s)       == clock > 2 * (s - 1)
OverGrace(s) == clock > 2 * (s - 1) + 1
MaxClock     == 2 * Months

Cancel      == "ADMIN_CANCELLED"
AutoCancel  == "AUTO_CANCEL_PAY_LATER_DEFAULT"
Manual      == "MANUAL_CONFIRMED"
CancelOps   == {Cancel, AutoCancel}
TaskType    == [stage : {"idle", "begun", "plan", "fresh"}, op : CancelOps \cup {Manual} \cup MoveEvents,
                seen : Statuses, drops : BOOLEAN]
IdleTask    == [stage |-> "idle", op |-> Cancel, seen |-> "PAYMENT_PENDING", drops |-> FALSE]

\* cancelPlan's UPDATE, not committed yet, locks the plan's row.
PlanLocked == \E p \in Procs : task[p].stage = "fresh" /\ task[p].drops

Init ==
    /\ status = "PAYMENT_PENDING" /\ plan = "NONE"
    /\ paid = {} /\ booked = [s \in Seqs |-> 0] /\ offline = FALSE
    /\ rows = [o \in Orders |-> "none"]
    /\ captured = {}
    /\ clock = 0
    /\ sweep = "idle" /\ deaths = 0
    /\ task = [p \in Procs |-> IdleTask]

------------------------------------------------------------------------------
(* The guest and the gateway *)

\* initPayment for the first instalment, which looks at no status, and
\* initPayLaterInstalmentPayment for the others, in order.
InitPaymentAnyOrder(o) ==   \* mutant: earlier arrears may stay unpaid
    /\ rows[o] = "none"
    /\ Seq(o) > 1 => plan \in {"SCHEDULED", "OVERDUE"} /\ Seq(o) \notin paid
    /\ rows' = [rows EXCEPT ![o] = "INITIATED"]
    /\ UNCHANGED <<status, plan, ledger, captured, clock, sweep, deaths, task>>

InitPayment(o) ==
    /\ rows[o] = "none"
    /\ Seq(o) > 1 =>
          /\ plan \in {"SCHEDULED", "OVERDUE"}
          /\ Seq(o) \notin paid
          /\ \A s \in 1..(Seq(o) - 1) : s \in paid
    /\ rows' = [rows EXCEPT ![o] = "INITIATED"]
    /\ UNCHANGED <<status, plan, ledger, captured, clock, sweep, deaths, task>>

GuestPays(o) ==
    /\ rows[o] # "none" /\ o \notin captured
    /\ captured' = captured \cup {o}
    /\ UNCHANGED <<status, plan, ledger, rows, clock, sweep, deaths, task>>

\* payment.failed of an earlier attempt, whatever the row says by now.
ReportFailure(o) ==
    /\ o \in Declinable /\ rows[o] \in {"INITIATED", "CAPTURED"}
    /\ rows' = [rows EXCEPT ![o] = "FAILED"]
    /\ UNCHANGED <<status, plan, ledger, captured, clock, sweep, deaths, task>>

------------------------------------------------------------------------------
(* The capture transaction *)

\* confirmPayment and createPlanFromFirstCapture.  The amount of a first
\* instalment is never the balance of a deposit, so settleBalance refuses a
\* second one; on a booking paid in full it is a no-op.
FirstCapture ==
    \/ /\ status = "PAYMENT_PENDING" /\ plan = "NONE"
       /\ status' = Target("PAY_LATER_FIRST_CAPTURED", status, 0)
       /\ plan' = "SCHEDULED"
       /\ paid' = {1}
       /\ booked' = [booked EXCEPT ![1] = @ + 1]
    \/ /\ status \in {"CONFIRMED_PAID", "COMPLETED"}
       /\ UNCHANGED <<status, plan, paid, booked>>

\* An instalment was paid: the ledger entry, and what becomes of the plan.
RecordInstalment(s) ==
    IF s \in paid THEN UNCHANGED <<paid, booked, plan>>
    ELSE /\ paid' = paid \cup {s}
         /\ booked' = [booked EXCEPT ![s] = @ + 1]
         /\ plan' = IF paid' = Seqs THEN "COMPLETED"
                    ELSE IF plan = "OVERDUE" /\ \A u \in Seqs \ paid' : ~Due(u) THEN "SCHEDULED"
                    ELSE plan
         /\ plan' # plan => ~PlanLocked

FinalWhenRecorded == plan' \in {"COMPLETED", "SCHEDULED"}   \* mutant

\* recordInstalmentCapture's result: replays answer with the plan's status.
Final == plan' = "COMPLETED"

LaterCapture(s) ==
    /\ plan # "NONE"
    /\ RecordInstalment(s)
    /\ LET event == IF Final THEN "PAY_LATER_FINAL_CAPTURED" ELSE "PAY_LATER_INSTALMENT_CAPTURED"
       IN  /\ CanFire(event, status, "PAY_LATER")
           /\ status' = Target(event, status, 0)

\* A report of a capture: it takes effect as a whole, or throws and is undone.
ReportCapture(o) ==
    /\ o \in captured /\ rows[o] # "CAPTURED"
    /\ rows' = [rows EXCEPT ![o] = "CAPTURED"]
    /\ IF Seq(o) = 1 THEN FirstCapture ELSE LaterCapture(Seq(o))
    /\ UNCHANGED <<offline, captured, clock, sweep, deaths, task>>

------------------------------------------------------------------------------
(* The dunning sweep: processOverdue and the processor around it *)

Tick ==
    /\ plan # "NONE" /\ clock < MaxClock
    /\ clock' = clock + 1
    /\ UNCHANGED <<status, plan, ledger, rows, captured, sweep, deaths, task>>

PastDue   == \E s \in Seqs \ paid : Due(s)
PastGrace == \E s \in Seqs \ paid : OverGrace(s)

SweepReads ==
    /\ sweep = "idle" /\ plan # "NONE"
    /\ sweep' = IF plan = "SCHEDULED" /\ PastDue THEN "late" ELSE "marked"
    /\ UNCHANGED <<status, plan, ledger, rows, captured, clock, deaths, task>>

\* updateMany by id: the status is not looked at again.
SweepMarksOverdue ==
    /\ sweep = "late" /\ ~PlanLocked
    /\ plan' = "OVERDUE" /\ sweep' = "marked"
    /\ UNCHANGED <<status, ledger, rows, captured, clock, deaths, task>>

SweepReadsScheduled ==   \* mutant: the query asks for the wrong status
    /\ sweep = "marked"
    /\ sweep' = IF plan = "SCHEDULED" /\ PastGrace THEN "default" ELSE "idle"
    /\ UNCHANGED <<status, plan, ledger, rows, captured, clock, deaths, task>>

SweepReadsOverdue ==
    /\ sweep = "marked"
    /\ sweep' = IF plan = "OVERDUE" /\ PastGrace THEN "default" ELSE "idle"
    /\ UNCHANGED <<status, plan, ledger, rows, captured, clock, deaths, task>>

SweepMarksDefaulted ==
    /\ sweep = "default" /\ ~PlanLocked
    /\ plan' = "DEFAULTED" /\ sweep' = "cancel"
    /\ UNCHANGED <<status, ledger, rows, captured, clock, deaths, task>>

\* cancelDefaultedPayLater reads the booking and starts the cancellation.
SweepCancels(p) ==
    /\ sweep = "cancel" /\ task[p].stage = "idle"
    /\ task' = IF status \in Cancellable \ {"CHECKED_IN"}
               THEN [task EXCEPT ![p] = [IdleTask EXCEPT !.stage = "begun", !.op = AutoCancel]]
               ELSE task
    /\ sweep' = "idle"
    /\ UNCHANGED <<status, plan, ledger, rows, captured, clock, deaths>>

\* A query throws or the worker dies; the retry starts from the top.
SweepDies ==
    /\ sweep # "idle" /\ deaths < MaxDeaths
    /\ sweep' = "idle" /\ deaths' = deaths + 1
    /\ UNCHANGED <<status, plan, ledger, rows, captured, clock, task>>

------------------------------------------------------------------------------
(* READ COMMITTED requests *)

Begin(p, t) ==
    /\ task[p].stage = "idle"
    /\ task' = [task EXCEPT ![p] = t]
    /\ UNCHANGED <<status, plan, ledger, rows, captured, clock, sweep, deaths>>

BeginCancel(p) ==
    /\ status \in Cancellable \ {"CHECKED_IN"}
    /\ Begin(p, [IdleTask EXCEPT !.stage = "begun", !.op = Cancel])

\* manualConfirm and the check-ins hand the machine what they read here.
BeginMove(p, op) ==
    /\ CanFire(op, status, "PAY_LATER")
    /\ Begin(p, [IdleTask EXCEPT !.stage = "fresh", !.op = op, !.seen = status])

Go(p, t) ==
    /\ task' = [task EXCEPT ![p] = t]
    /\ UNCHANGED <<status, plan, ledger, rows, captured, clock, sweep, deaths>>

\* cancelPlan's read.
ReadPlan(p) ==
    /\ task[p].stage = "begun"
    /\ Go(p, [task[p] EXCEPT !.stage = "plan",
                             !.drops = plan \notin {"NONE", "COMPLETED", "CANCELLED"}])

\* cancelPlan's UPDATE, then the fresh read of the booking.
ReadBooking(p) ==
    /\ task[p].stage = "plan" /\ CanFire(task[p].op, status, "PAY_LATER")
    /\ task[p].drops => ~PlanLocked
    /\ Go(p, [task[p] EXCEPT !.stage = "fresh", !.seen = status])

FinishCancel(p) ==
    LET t == task[p] IN
    /\ t.stage = "fresh" /\ t.op \in CancelOps
    /\ \E refund \in {0, 1} : status' = Target(t.op, t.seen, refund)
    /\ plan' = IF t.drops THEN "CANCELLED" ELSE plan
    /\ task' = [task EXCEPT ![p] = IdleTask]
    /\ UNCHANGED <<ledger, rows, captured, clock, sweep, deaths>>

FinishMove(p) ==
    LET t == task[p] IN
    /\ t.stage = "fresh" /\ t.op \in MoveEvents \cup {Manual}
    /\ t.op = Manual => ~offline                  \* the key manual-<id> is unique
    /\ status' = Target(t.op, t.seen, 0)
    /\ offline' = (offline \/ t.op = Manual)
    /\ task' = [task EXCEPT ![p] = IdleTask]
    /\ UNCHANGED <<plan, paid, booked, rows, captured, clock, sweep, deaths>>

Abort(p) ==
    /\ task[p].stage # "idle"
    /\ Go(p, IdleTask)

------------------------------------------------------------------------------
Sweep == SweepReads \/ SweepMarksOverdue \/ SweepReadsOverdue \/ SweepMarksDefaulted

Next ==
    \/ \E o \in Orders : InitPayment(o) \/ GuestPays(o) \/ ReportFailure(o) \/ ReportCapture(o)
    \/ Tick \/ SweepDies \/ Sweep
    \/ \E p \in Procs :
          \/ SweepCancels(p) \/ BeginCancel(p) \/ (\E op \in MoveEvents \cup {Manual} : BeginMove(p, op))
          \/ ReadPlan(p) \/ ReadBooking(p) \/ FinishCancel(p) \/ FinishMove(p) \/ Abort(p)

Spec == Init /\ [][Next]_vars

\* Time passes; the sweep runs every hour; every transaction ends, and a sweep
\* that waits for one goes on after it.  Guests owe nothing.
PlanFairness ==
    /\ WF_vars(Tick)
    /\ WF_vars(SweepReads) /\ SF_vars(SweepMarksOverdue)
    /\ WF_vars(SweepReadsOverdue) /\ SF_vars(SweepMarksDefaulted)
    /\ \A p \in Procs : SF_vars(SweepCancels(p))
                        /\ WF_vars(ReadPlan(p) \/ ReadBooking(p) \/ FinishCancel(p)
                                   \/ FinishMove(p) \/ Abort(p))
FairSpec == Spec /\ PlanFairness

------------------------------------------------------------------------------
(* Properties *)

\* Every status, instalment, row and request has the shape the code gives it.
TypeOK ==
    /\ status \in Statuses /\ plan \in PlanStatuses
    /\ paid \subseteq Seqs /\ booked \in [Seqs -> Nat] /\ offline \in BOOLEAN
    /\ rows \in [Orders -> RowStatuses] /\ captured \subseteq Orders
    /\ clock \in 0..MaxClock
    /\ sweep \in {"idle", "late", "marked", "default", "cancel"} /\ deaths \in 0..MaxDeaths
    /\ task \in [Procs -> TaskType]

\* An instalment has one ledger entry once it is paid and none before, however
\* many orders, reports and overwritten rows it went through (recordInstalment-
\* Capture's replay check).
InstalmentsBookedOnce == \A s \in Seqs : booked[s] = IF s \in paid THEN 1 ELSE 0

\* Arrears are cleared first: the paid instalments are the first ones, although
\* orders are paid and reported in any order (initPayLaterInstalmentPayment).
PaidInOrder == \A s \in paid : \A earlier \in 1..(s - 1) : earlier \in paid

\* A booking, and a plan, settled in full had every instalment paid, or were
\* confirmed by hand.
PaidWhenComplete ==
    /\ status = "CONFIRMED_PAID" => offline \/ paid = Seqs
    /\ plan = "COMPLETED" => paid = Seqs

\* An instalment left unpaid beyond its days of grace is found by the sweep:
\* the plan does not stay SCHEDULED or OVERDUE, unless the arrears are paid.
ArrearsAreDunned ==
    (plan \in {"SCHEDULED", "OVERDUE"} /\ PastGrace)
        ~> (plan \notin {"SCHEDULED", "OVERDUE"} \/ ~PastGrace)

\* The claim of jobs.scheduler.ts: a defaulted plan takes its booking with it.
DefaultCancelsBooking == (plan = "DEFAULTED") ~> (status # "CONFIRMED_DEPOSIT")
=============================================================================
