---------------------------- MODULE PayLater_proofs ----------------------------
(***************************************************************************)
(* The instalments of a Pay Later plan, for any number of months, orders   *)
(* and concurrent requests.                                                *)
(*                                                                         *)
(* Paid instalments only become more, so what an order was admitted on,    *)
(* its predecessors being paid, still holds when its capture is reported,  *)
(* however late; and a request that moves the booking has read a status    *)
(* that its event may leave.                                               *)
(***************************************************************************)
EXTENDS PayLater, BookingStateMachine_proofs

USE DEF vars, ledger

\* An order exists only for an instalment whose predecessors are paid, and
\* only orders that exist are paid.
OrdersInOrder ==
    /\ \A o \in Orders : rows[o] # "none" => 1..(Seq(o) - 1) \subseteq paid
    /\ \A o \in captured : rows[o] # "none"

\* The first capture finds nothing paid.
NoPlanNothingPaid == plan = "NONE" => paid = {}

\* A request about to fire an event has read a status that the event may leave.
TaskReadWell ==
    \A p \in Procs : task[p].stage = "fresh" => CanFire(task[p].op, task[p].seen, "PAY_LATER")

Extra == OrdersInOrder /\ NoPlanNothingPaid /\ TaskReadWell
IInv  == TypeOK /\ Extra /\ InstalmentsBookedOnce /\ PaidInOrder /\ PaidWhenComplete

------------------------------------------------------------------------------
(* What the events of this module make of a status. *)

LEMMA SingleTargets ==
    /\ \A t \in TRANSITIONS : t.event = "PAY_LATER_FIRST_CAPTURED" => t.to = "CONFIRMED_DEPOSIT"
    /\ \A t \in TRANSITIONS : t.event = "PAY_LATER_INSTALMENT_CAPTURED" => t.to = "CONFIRMED_DEPOSIT"
    /\ \A t \in TRANSITIONS : t.event = "CHECKED_IN" => t.to = "CHECKED_IN"
    /\ \A t \in TRANSITIONS : t.event = "STAY_COMPLETED" => t.to = "COMPLETED"
    /\ \A t \in TRANSITIONS : t.event \in CancelOps => t.to = CancelTarget
BY DEF TRANSITIONS, Row, CancelOps, Cancel, AutoCancel, CancelTarget

LEMMA TargetOf ==
    ASSUME NEW event, NEW s, NEW pl, NEW refund, NEW to, CanFire(event, s, pl), to # CancelTarget,
           \A t \in TRANSITIONS : t.event = event => t.to = to
    PROVE  Target(event, s, refund) = to
BY ChosenRow DEF Target, Matches

\* The events that end in CONFIRMED_PAID are the last instalment's and the
\* operator's.
LEMMA NeverPaid ==
    ASSUME NEW event \in CancelOps \cup MoveEvents \cup {"PAY_LATER_INSTALMENT_CAPTURED"},
           NEW s, NEW pl, NEW refund, CanFire(event, s, pl)
    PROVE  Target(event, s, refund) # "CONFIRMED_PAID"
<1>1. CASE event \in CancelOps
  <2> DEFINE t == CHOOSE t \in TRANSITIONS : Matches(t, event, s)
  <2>1. t \in TRANSITIONS /\ t.event = event
    BY ChosenRow DEF Matches
  <2>2. t.to = CancelTarget
    BY <1>1, <2>1, SingleTargets
  <2> QED
    BY <2>2 DEF Target
<1>2. CASE event \in MoveEvents
  <2>1. CASE event = "CHECKED_IN"
    BY <2>1, TargetOf, SingleTargets DEF CancelTarget
  <2>2. CASE event = "STAY_COMPLETED"
    BY <2>2, TargetOf, SingleTargets DEF CancelTarget
  <2> QED
    BY <1>2, <2>1, <2>2, EventsAssumption
<1>3. CASE event = "PAY_LATER_INSTALMENT_CAPTURED"
  BY <1>3, TargetOf, SingleTargets DEF CancelTarget
<1> QED
  BY <1>1, <1>2, <1>3

LEMMA FirstFires == CanFire("PAY_LATER_FIRST_CAPTURED", "PAYMENT_PENDING", "PAY_LATER")
BY DEF CanFire, Matches, TRANSITIONS, Row

------------------------------------------------------------------------------
(* What each kind of step does to the plan and to the booking. *)

\* Nothing is paid; the plan moves among the unfinished statuses or not at all.
PlanMove ==
    /\ UNCHANGED <<paid, booked>>
    /\ plan' = plan \/ plan' \in {"OVERDUE", "DEFAULTED", "CANCELLED"}

\* An instalment whose predecessors are paid is paid.
Payment(s) ==
    /\ s \in Seqs \ paid /\ 1..(s - 1) \subseteq paid
    /\ paid' = paid \cup {s} /\ booked' = [booked EXCEPT ![s] = booked[s] + 1]
    /\ plan' \in PlanStatuses \ {"NONE"} /\ (plan' = "COMPLETED" => paid' = Seqs)

\* Only the last instalment and an operator mark the booking as paid.
StatusMove ==
    /\ status' \in Statuses
    /\ status' = "CONFIRMED_PAID" => status = "CONFIRMED_PAID" \/ offline' \/ plan' = "COMPLETED"
    /\ offline => offline'

RowsMove ==
    /\ \A o \in Orders : rows'[o] # "none" => rows[o] # "none" \/ 1..(Seq(o) - 1) \subseteq paid
    /\ \A o \in captured' : rows'[o] # "none"

Move == (PlanMove \/ \E s \in Seqs : Payment(s)) /\ StatusMove /\ RowsMove

\* Steps that leave plan and booking alone.
LEMMA PlanQuiet ==
    ASSUME TypeOK, OrdersInOrder, UNCHANGED <<status, plan, paid, booked, offline>>
    PROVE  (PlanMove \/ \E s \in Seqs : Payment(s)) /\ StatusMove
BY DEF TypeOK, PlanMove, StatusMove

LEMMA QuietRows ==
    ASSUME OrdersInOrder, UNCHANGED <<rows, captured>> PROVE RowsMove
BY DEF OrdersInOrder, RowsMove

LEMMA GuestMoves ==
    ASSUME IInv, NEW o \in Orders, InitPayment(o) \/ GuestPays(o) \/ ReportFailure(o)
    PROVE  Move
<1> USE DEF IInv, Extra
<1>1. UNCHANGED <<status, plan, paid, booked, offline>>
  BY DEF InitPayment, GuestPays, ReportFailure
<1>2. CASE InitPayment(o)
  <2>1. 1..(Seq(o) - 1) \subseteq paid
    <3>1. Seq(o) \in Nat \ {0}
      BY OrdersAssumption, MonthsAssumption DEF Seq, Seqs
    <3> QED
      BY <1>2, <3>1 DEF InitPayment
  <2> QED
    BY <1>1, <1>2, <2>1, PlanQuiet DEF InitPayment, RowsMove, OrdersInOrder, Move, TypeOK
<1>3. CASE GuestPays(o)
  BY <1>1, <1>3, PlanQuiet DEF GuestPays, RowsMove, OrdersInOrder, Move, TypeOK
<1>4. CASE ReportFailure(o)
  BY <1>1, <1>4, PlanQuiet DEF ReportFailure, RowsMove, OrdersInOrder, Move, TypeOK
<1> QED
  BY <1>2, <1>3, <1>4

LEMMA CaptureMoves == ASSUME IInv, NEW o \in Orders, ReportCapture(o) PROVE Move
<1> USE DEF IInv, Extra
<1> DEFINE s == Seq(o)
<1>0. s \in Seqs /\ 1 \in Seqs
  BY OrdersAssumption, MonthsAssumption DEF Seq, Seqs
<1>1. RowsMove
  BY DEF ReportCapture, RowsMove, OrdersInOrder, TypeOK
<1>2. UNCHANGED offline
  BY DEF ReportCapture
<1>3. CASE s = 1 /\ UNCHANGED <<status, plan, paid, booked>>
  BY <1>1, <1>2, <1>3, PlanQuiet DEF Move
<1>4. CASE s = 1 /\ ~UNCHANGED <<status, plan, paid, booked>>
  <2>1. /\ status = "PAYMENT_PENDING" /\ plan = "NONE" /\ paid' = {1} /\ plan' = "SCHEDULED"
        /\ status' = Target("PAY_LATER_FIRST_CAPTURED", status, 0)
        /\ booked' = [booked EXCEPT ![1] = booked[1] + 1]
    BY <1>4 DEF ReportCapture, FirstCapture
  <2>2. status' = "CONFIRMED_DEPOSIT"
    BY <2>1, FirstFires, TargetOf, SingleTargets DEF CancelTarget
  <2>3. Payment(1)
    BY <1>0, <2>1 DEF Payment, NoPlanNothingPaid, PlanStatuses
  <2> QED
    BY <1>0, <1>1, <1>2, <2>2, <2>3 DEF Move, StatusMove, Statuses
<1>5. CASE s # 1
  <2>1. LaterCapture(s)
    BY <1>5 DEF ReportCapture
  <2>2. 1..(s - 1) \subseteq paid
    BY DEF ReportCapture, OrdersInOrder
  <2>3. PlanMove \/ Payment(s)
    <3>1. CASE s \in paid
      BY <2>1, <3>1 DEF LaterCapture, RecordInstalment, PlanMove
    <3>2. CASE s \notin paid
      <4>1. plan # "NONE" /\ plan # "COMPLETED"
        BY <1>0, <2>1, <3>2 DEF LaterCapture, PaidWhenComplete
      <4>2. /\ paid' = paid \cup {s} /\ booked' = [booked EXCEPT ![s] = booked[s] + 1]
            /\ \/ plan' = "COMPLETED" /\ paid' = Seqs
               \/ plan' \in {"SCHEDULED", plan}
        BY <2>1, <3>2 DEF LaterCapture, RecordInstalment
      <4> QED
        BY <1>0, <2>2, <3>2, <4>1, <4>2 DEF Payment, PlanStatuses, TypeOK
    <3> QED
      BY <3>1, <3>2
  <2>4. StatusMove
    <3>1. CASE Final
      <4>1. CanFire("PAY_LATER_FINAL_CAPTURED", status, "PAY_LATER")
            /\ status' = Target("PAY_LATER_FINAL_CAPTURED", status, 0)
        BY <2>1, <3>1 DEF LaterCapture
      <4>2. status' \in Statuses
        BY <4>1, TargetIsStatus
      <4> QED
        BY <1>2, <3>1, <4>2 DEF StatusMove, Final
    <3>2. CASE ~Final
      <4>1. CanFire("PAY_LATER_INSTALMENT_CAPTURED", status, "PAY_LATER")
            /\ status' = Target("PAY_LATER_INSTALMENT_CAPTURED", status, 0)
        BY <2>1, <3>2 DEF LaterCapture
      <4>2. status' \in Statuses /\ status' # "CONFIRMED_PAID"
        BY <4>1, TargetIsStatus, NeverPaid
      <4> QED
        BY <1>2, <4>2 DEF StatusMove
    <3> QED
      BY <3>1, <3>2
  <2> QED
    BY <1>0, <1>1, <2>3, <2>4 DEF Move
<1> QED
  BY <1>3, <1>4, <1>5

LEMMA SweepMoves ==
    ASSUME IInv, Tick \/ SweepDies \/ Sweep \/ \E p \in Procs : SweepCancels(p)
    PROVE  Move
<1> USE DEF IInv, Extra
<1>1. UNCHANGED <<status, paid, booked, offline, rows, captured>>
  BY DEF Tick, SweepDies, Sweep, SweepReads, SweepMarksOverdue, SweepReadsOverdue,
         SweepMarksDefaulted, SweepCancels
<1>2. plan' = plan \/ plan' \in {"OVERDUE", "DEFAULTED"}
  BY DEF Tick, SweepDies, Sweep, SweepReads, SweepMarksOverdue, SweepReadsOverdue,
         SweepMarksDefaulted, SweepCancels
<1> QED
  BY <1>1, <1>2, QuietRows DEF Move, PlanMove, StatusMove, TypeOK

LEMMA RequestMoves ==
    ASSUME IInv, NEW p \in Procs,
           \/ BeginCancel(p) \/ ReadPlan(p) \/ ReadBooking(p) \/ Abort(p)
           \/ \E op \in MoveEvents \cup {Manual} : BeginMove(p, op)
    PROVE  Move
<1>1. UNCHANGED <<status, plan, paid, booked, offline, rows, captured>>
  BY DEF BeginCancel, BeginMove, Begin, ReadPlan, ReadBooking, Abort, Go
<1> QED
  BY <1>1, PlanQuiet, QuietRows DEF Move, IInv, Extra

LEMMA FinishMoves ==
    ASSUME IInv, NEW p \in Procs, FinishCancel(p) \/ FinishMove(p)
    PROVE  Move
<1> USE DEF IInv, Extra
<1>1. CanFire(task[p].op, task[p].seen, "PAY_LATER")
  BY DEF FinishCancel, FinishMove, TaskReadWell
<1>2. UNCHANGED <<paid, booked, rows, captured>>
  BY DEF FinishCancel, FinishMove
<1>3. RowsMove
  BY <1>2, QuietRows
<1>4. CASE FinishCancel(p)
  <2>1. PICK refund \in {0, 1} : status' = Target(task[p].op, task[p].seen, refund)
    BY <1>4 DEF FinishCancel
  <2>2. status' \in Statuses /\ status' # "CONFIRMED_PAID"
    BY <1>1, <1>4, <2>1, TargetIsStatus, NeverPaid DEF FinishCancel
  <2>3. PlanMove /\ offline' = offline
    BY <1>2, <1>4 DEF FinishCancel, PlanMove
  <2> QED
    BY <1>3, <2>2, <2>3 DEF Move, StatusMove
<1>5. CASE FinishMove(p)
  <2>1. status' = Target(task[p].op, task[p].seen, 0) /\ plan' = plan
    BY <1>5 DEF FinishMove
  <2>2. status' \in Statuses
    BY <1>1, <2>1, TargetIsStatus
  <2>3. offline => offline'
    BY <1>5 DEF FinishMove
  <2>4. status' # "CONFIRMED_PAID" \/ offline'
    <3>1. CASE task[p].op = Manual
      BY <1>5, <3>1 DEF FinishMove
    <3>2. CASE task[p].op # Manual
      BY <1>1, <1>5, <2>1, <3>2, NeverPaid DEF FinishMove
    <3> QED
      BY <3>1, <3>2
  <2> QED
    BY <1>2, <1>3, <2>1, <2>2, <2>3, <2>4 DEF Move, PlanMove, StatusMove
<1> QED
  BY <1>4, <1>5

LEMMA EveryMove == ASSUME IInv, Next PROVE Move
BY GuestMoves, CaptureMoves, SweepMoves, RequestMoves, FinishMoves DEF Next

------------------------------------------------------------------------------
(* What each kind of step does to the requests. *)

\* A request that is ready to fire its event has just read the booking.
TaskMove ==
    \/ task' = task
    \/ \E p \in Procs : \E t \in TaskType :
          /\ task' = [task EXCEPT ![p] = t]
          /\ t.stage = "fresh" => CanFire(t.op, t.seen, "PAY_LATER")

LEMMA IdleIsTask == IdleTask \in TaskType /\ IdleTask.stage = "idle"
BY DEF IdleTask, TaskType, CancelOps, Statuses

LEMMA EveryTaskMove == ASSUME IInv, Next PROVE TaskMove
<1> USE DEF IInv, Extra, TypeOK
<1>1. ASSUME NEW o \in Orders, InitPayment(o) \/ GuestPays(o) \/ ReportFailure(o) \/ ReportCapture(o)
      PROVE  TaskMove
  BY <1>1 DEF InitPayment, GuestPays, ReportFailure, ReportCapture, TaskMove
<1>2. CASE Tick \/ SweepDies \/ Sweep
  BY <1>2 DEF Tick, SweepDies, Sweep, SweepReads, SweepMarksOverdue, SweepReadsOverdue,
              SweepMarksDefaulted, TaskMove
<1>3. ASSUME NEW p \in Procs, SweepCancels(p) PROVE TaskMove
  <2> DEFINE t == [IdleTask EXCEPT !.stage = "begun", !.op = AutoCancel]
  <2>1. t \in TaskType /\ t.stage = "begun"
    BY DEF IdleTask, TaskType, CancelOps, Statuses
  <2>2. task' = task \/ task' = [task EXCEPT ![p] = t]
    BY <1>3 DEF SweepCancels
  <2> QED
    BY <2>1, <2>2 DEF TaskMove
<1>4. ASSUME NEW p \in Procs, BeginCancel(p) PROVE TaskMove
  <2> DEFINE t == [IdleTask EXCEPT !.stage = "begun", !.op = Cancel]
  <2>1. t \in TaskType /\ t.stage = "begun"
    BY DEF IdleTask, TaskType, CancelOps, Statuses
  <2>2. task' = [task EXCEPT ![p] = t]
    BY <1>4 DEF BeginCancel, Begin
  <2> QED
    BY <2>1, <2>2 DEF TaskMove
<1>5. ASSUME NEW p \in Procs, NEW op \in MoveEvents \cup {Manual}, BeginMove(p, op) PROVE TaskMove
  <2> DEFINE t == [IdleTask EXCEPT !.stage = "fresh", !.op = op, !.seen = status]
  <2>1. t \in TaskType /\ t.op = op /\ t.seen = status
    BY DEF IdleTask, TaskType, CancelOps
  <2>2. task' = [task EXCEPT ![p] = t] /\ CanFire(op, status, "PAY_LATER")
    BY <1>5 DEF BeginMove, Begin
  <2> QED
    BY <2>1, <2>2 DEF TaskMove
<1>6. ASSUME NEW p \in Procs, ReadPlan(p) PROVE TaskMove
  <2> DEFINE drops == plan \notin {"NONE", "COMPLETED", "CANCELLED"}
             t == [task[p] EXCEPT !.stage = "plan", !.drops = drops]
  <2>1. drops \in BOOLEAN
    OBVIOUS
  <2> HIDE DEF drops
  <2>2. t \in TaskType /\ t.stage = "plan"
    BY <2>1 DEF TaskType
  <2>3. task' = [task EXCEPT ![p] = t]
    BY <1>6 DEF ReadPlan, Go, drops
  <2> HIDE DEF t
  <2> QED
    BY <2>2, <2>3 DEF TaskMove
<1>7. ASSUME NEW p \in Procs, ReadBooking(p) PROVE TaskMove
  <2> DEFINE t == [task[p] EXCEPT !.stage = "fresh", !.seen = status]
  <2>1. t \in TaskType /\ t.op = task[p].op /\ t.seen = status
    BY DEF TaskType
  <2>2. task' = [task EXCEPT ![p] = t] /\ CanFire(task[p].op, status, "PAY_LATER")
    BY <1>7 DEF ReadBooking, Go
  <2> QED
    BY <2>1, <2>2 DEF TaskMove
<1>8. ASSUME NEW p \in Procs, FinishCancel(p) \/ FinishMove(p) \/ Abort(p) PROVE TaskMove
  <2>1. task' = [task EXCEPT ![p] = IdleTask]
    BY <1>8 DEF FinishCancel, FinishMove, Abort, Go
  <2> QED
    BY <2>1, IdleIsTask DEF TaskMove
<1> QED
  BY <1>1, <1>2, <1>3, <1>4, <1>5, <1>6, <1>7, <1>8 DEF Next

LEMMA TaskStep == ASSUME IInv, Next PROVE task' \in [Procs -> TaskType] /\ TaskReadWell'
<1> USE DEF IInv, Extra, TypeOK
<1>1. CASE task' = task
  BY <1>1 DEF TaskReadWell
<1>2. ASSUME NEW p \in Procs, NEW t \in TaskType, task' = [task EXCEPT ![p] = t],
             t.stage = "fresh" => CanFire(t.op, t.seen, "PAY_LATER")
      PROVE  task' \in [Procs -> TaskType] /\ TaskReadWell'
  BY <1>2 DEF TaskReadWell
<1> QED
  BY <1>1, <1>2, EveryTaskMove DEF TaskMove

------------------------------------------------------------------------------
(* Types and tasks *)

LEMMA TypeStep == ASSUME IInv, Next PROVE TypeOK'
<1> USE DEF IInv, Extra, TypeOK
<1>1. /\ status' \in Statuses
      /\ plan' \in PlanStatuses
      /\ paid' \subseteq Seqs /\ booked' \in [Seqs -> Nat]
  <2>1. (PlanMove \/ \E s \in Seqs : Payment(s)) /\ StatusMove
    BY EveryMove DEF Move
  <2>2. CASE PlanMove
    BY <2>1, <2>2 DEF PlanMove, StatusMove, PlanStatuses
  <2>3. CASE \E s \in Seqs : Payment(s)
    BY <2>1, <2>3 DEF Payment, StatusMove
  <2> QED
    BY <2>1, <2>2, <2>3
<1>2. rows' \in [Orders -> RowStatuses] /\ captured' \subseteq Orders
  BY DEF Next, InitPayment, GuestPays, ReportFailure, ReportCapture, RowStatuses, Tick, SweepDies,
         Sweep, SweepReads, SweepMarksOverdue, SweepReadsOverdue, SweepMarksDefaulted, SweepCancels,
         BeginCancel, BeginMove, Begin, ReadPlan, ReadBooking, Go, FinishCancel, FinishMove, Abort
<1>3. clock' \in 0..MaxClock /\ deaths' \in 0..MaxDeaths
  <2>1. CASE Tick
    BY <2>1, MonthsAssumption DEF Tick, MaxClock
  <2>2. CASE SweepDies
    BY <2>2, BoundAssumption DEF SweepDies
  <2>3. CASE UNCHANGED <<clock, deaths>>
    BY <2>3
  <2> QED
    BY <2>1, <2>2, <2>3 DEF Next, InitPayment, GuestPays, ReportFailure, ReportCapture,
         Sweep, SweepReads, SweepMarksOverdue, SweepReadsOverdue, SweepMarksDefaulted, SweepCancels,
         BeginCancel, BeginMove, Begin, ReadPlan, ReadBooking, Go, FinishCancel, FinishMove, Abort
<1>4. sweep' \in {"idle", "late", "marked", "default", "cancel"}
  BY DEF Next, InitPayment, GuestPays, ReportFailure, ReportCapture, Tick, SweepDies,
         Sweep, SweepReads, SweepMarksOverdue, SweepReadsOverdue, SweepMarksDefaulted, SweepCancels,
         BeginCancel, BeginMove, Begin, ReadPlan, ReadBooking, Go, FinishCancel, FinishMove, Abort
<1>5. offline' \in BOOLEAN
  BY DEF Next, InitPayment, GuestPays, ReportFailure, ReportCapture, Tick, SweepDies,
         Sweep, SweepReads, SweepMarksOverdue, SweepReadsOverdue, SweepMarksDefaulted, SweepCancels,
         BeginCancel, BeginMove, Begin, ReadPlan, ReadBooking, Go, FinishCancel, FinishMove, Abort
<1>6. task' \in [Procs -> TaskType]
  BY TaskStep
<1> QED
  BY <1>1, <1>2, <1>3, <1>4, <1>5, <1>6

------------------------------------------------------------------------------
(* The invariant *)

\* One argument for every step: it pays the next instalment or none.
LEMMA LedgerStep ==
    ASSUME IInv, PlanMove \/ \E s \in Seqs : Payment(s)
    PROVE  /\ paid \subseteq paid' /\ paid' \subseteq Seqs
           /\ InstalmentsBookedOnce' /\ PaidInOrder' /\ NoPlanNothingPaid'
           /\ plan' = "COMPLETED" => paid' = Seqs
<1> USE DEF IInv, Extra, TypeOK
<1>1. CASE PlanMove
  BY <1>1 DEF PlanMove, InstalmentsBookedOnce, PaidInOrder, NoPlanNothingPaid, PaidWhenComplete
<1>2. ASSUME NEW s \in Seqs, Payment(s)
      PROVE  /\ paid \subseteq paid' /\ paid' \subseteq Seqs
             /\ InstalmentsBookedOnce' /\ PaidInOrder' /\ NoPlanNothingPaid'
             /\ plan' = "COMPLETED" => paid' = Seqs
  <2>1. paid \subseteq paid' /\ paid' \subseteq Seqs /\ (plan' = "COMPLETED" => paid' = Seqs)
    BY <1>2 DEF Payment
  <2>2. InstalmentsBookedOnce'
    BY <1>2 DEF Payment, InstalmentsBookedOnce
  <2>3. PaidInOrder'
    BY <1>2 DEF Payment, PaidInOrder
  <2>4. NoPlanNothingPaid'
    BY <1>2 DEF Payment, NoPlanNothingPaid
  <2> QED
    BY <2>1, <2>2, <2>3, <2>4
<1> QED
  BY <1>1, <1>2

LEMMA InitHolds == Init => IInv
<1> SUFFICES ASSUME Init PROVE IInv
  OBVIOUS
<1>1. TypeOK
  <2>1. booked \in [Seqs -> Nat] /\ rows \in [Orders -> RowStatuses]
    BY DEF Init, RowStatuses
  <2>2. clock \in 0..MaxClock /\ deaths \in 0..MaxDeaths
    BY MonthsAssumption, BoundAssumption DEF Init, MaxClock
  <2>3. task \in [Procs -> TaskType]
    BY IdleIsTask DEF Init
  <2> QED
    BY <2>1, <2>2, <2>3 DEF Init, TypeOK, Statuses, PlanStatuses
<1>2. Extra
  BY IdleIsTask DEF Init, Extra, OrdersInOrder, NoPlanNothingPaid, TaskReadWell
<1>3. InstalmentsBookedOnce /\ PaidInOrder /\ PaidWhenComplete
  BY DEF Init, InstalmentsBookedOnce, PaidInOrder, PaidWhenComplete
<1> QED
  BY <1>1, <1>2, <1>3 DEF IInv

LEMMA Step == IInv /\ [Next]_vars => IInv'
<1> SUFFICES ASSUME IInv, [Next]_vars PROVE IInv'
  OBVIOUS
<1>1. CASE Next
  <2>1. (PlanMove \/ \E s \in Seqs : Payment(s)) /\ StatusMove /\ RowsMove
    BY <1>1, EveryMove DEF Move
  <2>2. /\ paid \subseteq paid' /\ paid' \subseteq Seqs
        /\ InstalmentsBookedOnce' /\ PaidInOrder' /\ NoPlanNothingPaid'
        /\ plan' = "COMPLETED" => paid' = Seqs
    BY <2>1, LedgerStep
  <2>3. PaidWhenComplete'
    BY <2>1, <2>2 DEF StatusMove, PaidWhenComplete, IInv
  <2>4. OrdersInOrder'
    BY <2>1, <2>2 DEF RowsMove, OrdersInOrder, IInv, Extra
  <2> QED
    BY <1>1, <2>2, <2>3, <2>4, TypeStep, TaskStep DEF IInv, Extra
<1>2. CASE UNCHANGED vars
  BY <1>2 DEF IInv, Extra, TypeOK, OrdersInOrder, NoPlanNothingPaid, TaskReadWell,
              InstalmentsBookedOnce, PaidInOrder, PaidWhenComplete
<1> QED
  BY <1>1, <1>2

LEMMA Invariance == Spec => []IInv
BY InitHolds, Step, PTL DEF Spec

\* Every status, instalment, row and request has the shape the code gives it.
THEOREM PlanTyped == Spec => []TypeOK
BY Invariance, PTL DEF IInv

\* recordInstalmentCapture enters an instalment in the ledger once, whatever
\* number of orders and reports there are.
THEOREM LedgerBooksInstalmentsOnce == Spec => []InstalmentsBookedOnce
BY Invariance, PTL DEF IInv

\* initPayLaterInstalmentPayment's order of payment survives every delay of the
\* captures it admits.
THEOREM InstalmentsInOrder == Spec => []PaidInOrder
BY Invariance, PTL DEF IInv

\* Plan and booking are complete only when every instalment is paid, or an
\* operator has confirmed the booking.
THEOREM CompleteMeansPaid == Spec => []PaidWhenComplete
BY Invariance, PTL DEF IInv
===============================================================================
