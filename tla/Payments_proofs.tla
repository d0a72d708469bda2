---------------------------- MODULE Payments_proofs ----------------------------
(***************************************************************************)
(* The ledger of one booking, for any number of orders and of concurrent   *)
(* requests, and any price: webhook, reconciliation and retries together   *)
(* book a capture once, and a booking is paid in full only by payments.    *)
(***************************************************************************)
EXTENDS MCBookings, Reservation_proofs, FiniteSetTheorems, SequenceTheorems

USE DEF payVars, money, reports

\* The typing the proofs need.  The sums a refund starts from stay untyped.
Shape ==
    /\ plan \in {"FULL", "DEPOSIT_50"} /\ status \in Statuses
    /\ rows \in [Orders -> RowType]
    /\ attempts \in [Orders -> SUBSET Outcomes]
    /\ booked \in [Orders -> Nat]
    /\ DOMAIN task = Clients

\* Nothing is reported, captured or booked that the guest did not pay.
OnlyPaidIsReported ==
    /\ \A o \in Orders : rows[o].st = "none" => ~PaidAtGateway(o)
    /\ \A o \in Orders : rows[o].st = "CAPTURED" \/ booked[o] > 0 => PaidAtGateway(o)
    /\ \A e \in inbox : e.outcome = "captured" => PaidAtGateway(e.order)
    /\ recon.order \in Orders /\ recon.verdict = "captured" => PaidAtGateway(recon.order)

\* The row of a booked capture says so, until it is overwritten.
BookedIsCaptured ==
    \A o \in Orders \ demoted : booked[o] <= 1 /\ (booked[o] > 0 => rows[o].st = "CAPTURED")

\* Money came in; a deposit's worth came in.  Neither is ever undone, which is
\* why a status read long ago still witnesses them.
MoneyIn   == offline \/ \E o \in Orders : booked[o] > 0
DepositIn ==
    \/ offline \/ demoted # {}
    \/ \E o \in Orders : booked[o] > 0 /\ Amount(rows[o].kind) >= DepositAmount

Confirmed == {"CONFIRMED_DEPOSIT", "CONFIRMED_PAID", "BALANCE_DUE", "CHECKED_IN", "COMPLETED"}

StatusIsBacked ==
    /\ status \in Confirmed => MoneyIn
    /\ status \in AwaitsBalance => DepositIn

TaskIsBacked ==
    \A p \in Clients :
        /\ task[p].stage = "read" => task[p].op \in {Cancel, Refund}
        /\ task[p].stage = "fresh" =>
              /\ task[p].op \in MoveEvents \cup {Manual} => CanFire(task[p].op, task[p].seen, plan)
              /\ task[p].op \in MoveEvents => MoneyIn
              /\ task[p].op = "BALANCE_DUE_TRIGGERED" => DepositIn

PInv ==
    /\ Shape
    /\ OnlyPaidIsReported
    /\ BookedIsCaptured
    /\ StatusIsBacked
    /\ TaskIsBacked
    /\ PaidInFullUnlessDemoted
    /\ UnbookedCaptureIsExtra

------------------------------------------------------------------------------
(* What each kind of step does. *)

\* A report is used up: what it says was known before.
Reported == inbox' \subseteq inbox /\ (recon' = recon \/ recon' = NoRecon) /\ UNCHANGED task

LEMMA PayActions ==
    ASSUME Shape, OnlyPaidIsReported, PayNext
    PROVE  \/ \E o \in Orders, kind \in Kinds : InitPayment(o, kind)
           \/ \E o \in Orders, outcome \in Outcomes : Attempt(o, outcome)
           \/ \E e \in EventIds : ReceiveWebhook(e)
           \/ \E o \in Orders : ReconRead(o)
           \/ \E o \in Orders : Capture(o) /\ PaidAtGateway(o) /\ Reported
           \/ \E o \in Orders : MarkFailed(o) /\ Reported
           \/ UNCHANGED <<money, attempts>> /\ Reported
           \/ \E p \in Clients : BeginCancel(p) \/ ReadFresh(p) \/ RollBack(p)
                                \/ \E amount \in 1..Total : BeginRefund(p, amount)
           \/ \E p \in Clients : \E op \in TaskOps : BeginMove(p, op)
           \/ \E p \in Clients : FinishCancel(p) \/ FinishRefund(p)
           \/ \E p \in Clients : FinishMove(p)
           \/ \E p \in Clients : FinishManual(p)
<1>1. ASSUME NEW e \in EventIds, HandleWebhook(e)
      PROVE  \E o \in Orders : ((Capture(o) /\ PaidAtGateway(o)) \/ MarkFailed(o)) /\ Reported
  BY <1>1 DEF HandleWebhook, EventIds, OnlyPaidIsReported, Reported
<1>2. ASSUME NEW o \in Orders, ReconApply(o)
      PROVE  ((Capture(o) /\ PaidAtGateway(o)) \/ MarkFailed(o)) /\ Reported
  BY <1>2 DEF ReconApply, Finished, OnlyPaidIsReported, Reported
<1>3. ASSUME NEW e \in EventIds, LoseWebhook(e) PROVE UNCHANGED <<money, attempts>> /\ Reported
  BY <1>3 DEF LoseWebhook, Reported
<1>4. ASSUME NEW o \in Orders, ReconList(o) \/ ReconSkip(o)
      PROVE  UNCHANGED <<money, attempts>> /\ Reported
  BY <1>4 DEF ReconList, ReconSkip, Finished, Reported
<1>5. ASSUME ReconDies PROVE UNCHANGED <<money, attempts>> /\ Reported
  BY <1>5 DEF ReconDies, Reported
<1> QED
  BY <1>1, <1>2, <1>3, <1>4, <1>5 DEF PayNext, ClientStep

\* Only these events lead from a status to another in this module.
LEMMA SingleTargets ==
    /\ \A t \in TRANSITIONS : t.event = "PAYMENT_CONFIRMED_FULL" => t.to = "CONFIRMED_PAID"
    /\ \A t \in TRANSITIONS : t.event = "PAYMENT_CONFIRMED_DEPOSIT" => t.to = "CONFIRMED_DEPOSIT"
    /\ \A t \in TRANSITIONS : t.event = "BALANCE_PAID" => t.to = "CONFIRMED_PAID"
    /\ \A t \in TRANSITIONS : t.event = "BALANCE_DUE_TRIGGERED" => t.to = "BALANCE_DUE"
    /\ \A t \in TRANSITIONS : t.event = "CHECKED_IN" => t.to = "CHECKED_IN"
    /\ \A t \in TRANSITIONS : t.event = "STAY_COMPLETED" => t.to = "COMPLETED"
    /\ \A t \in TRANSITIONS : t.event = Manual => t.to = "CONFIRMED_PAID"
    /\ \A t \in TRANSITIONS : t.event = Cancel => t.to = CancelTarget
BY DEF TRANSITIONS, Row, Manual, Cancel, CancelTarget

LEMMA TargetOf ==
    ASSUME NEW event, NEW s, NEW pl, NEW refund, NEW to, CanFire(event, s, pl), to # CancelTarget,
           \A t \in TRANSITIONS : t.event = event => t.to = to
    PROVE  Target(event, s, refund) = to
BY ChosenRow DEF Target, Matches

LEMMA CancelTargets ==
    ASSUME NEW s, NEW pl, NEW refund, CanFire(Cancel, s, pl)
    PROVE  Target(Cancel, s, refund) \in {"CANCELLED", "REFUNDED"}
BY ChosenRow, SingleTargets DEF Target, Matches

LEMMA Amounts ==
    /\ DepositAmount \in Int /\ BalanceAmount \in Int
    /\ DepositAmount + BalanceAmount = Total
    /\ \A k \in Kinds : Amount(k) \in Int
<1>1. DepositAmount \in Int /\ Total \in Int
  BY AmountsAssumption DEF DepositAmount
<1>2. BalanceAmount \in Int /\ DepositAmount + BalanceAmount = Total
  BY <1>1 DEF BalanceAmount
<1> QED
  BY <1>1, <1>2 DEF Amount, Kinds

\* A booked capture: from PAYMENT_PENDING, or the balance of a booking.
Settled(o) ==
    /\ booked' = [booked EXCEPT ![o] = @ + 1]
    /\ \/ /\ plan = "FULL" /\ status' = "CONFIRMED_PAID" /\ Amount(rows[o].kind) = Total
       \/ /\ plan = "DEPOSIT_50" /\ status' = "CONFIRMED_DEPOSIT"
          /\ Amount(rows[o].kind) = DepositAmount
       \/ /\ status \in AwaitsBalance /\ status' = "CONFIRMED_PAID"
          /\ Amount(rows[o].kind) = BalanceAmount

LEMMA CaptureCases ==
    ASSUME Shape, NEW o \in Orders, Capture(o)
    PROVE  /\ UNCHANGED <<plan, attempts, offline, demoted>>
           /\ \/ UNCHANGED <<rows, status, booked>>
              \/ /\ rows[o].st # "CAPTURED"
                 /\ rows' = [rows EXCEPT ![o].st = "CAPTURED"]
                 /\ \/ UNCHANGED <<status, booked>> /\ status \in {"CONFIRMED_PAID", "COMPLETED"}
                    \/ Settled(o)
<1>1. UNCHANGED <<plan, attempts, offline, demoted>>
  BY DEF Capture
<1>2. CASE rows[o].st = "CAPTURED"
  BY <1>1, <1>2 DEF Capture
<1>3. CASE rows[o].st # "CAPTURED" /\ status \in AwaitsBalance
  <2>1. CanFire("BALANCE_PAID", status, plan)
    BY <1>3 DEF CanFire, Matches, TRANSITIONS, Row, AwaitsBalance, Plans, Shape
  <2>2. Target("BALANCE_PAID", status, 0) = "CONFIRMED_PAID"
    BY <2>1, TargetOf, SingleTargets DEF CancelTarget
  <2> QED
    BY <1>1, <1>3, <2>2 DEF Capture, SettleByCapture, Book, Settled
<1>4. CASE rows[o].st # "CAPTURED" /\ status \notin AwaitsBalance
  <2>1. ConfirmByCapture(o) /\ rows' = [rows EXCEPT ![o].st = "CAPTURED"]
    BY <1>4 DEF Capture
  <2>2. CASE status \in AlreadyConfirmed /\ UNCHANGED <<status, booked>>
    BY <1>1, <1>4, <2>1, <2>2 DEF AlreadyConfirmed, AwaitsBalance
  <2>3. CASE /\ status = "PAYMENT_PENDING" /\ Book(o, FirstCaptured)
             /\ Amount(rows[o].kind) = ExpectedFirstCapture
    <3>1. CASE plan = "FULL"
      <4>1. CanFire("PAYMENT_CONFIRMED_FULL", status, plan)
        BY <2>3, <3>1 DEF CanFire, Matches, TRANSITIONS, Row
      <4>2. Target("PAYMENT_CONFIRMED_FULL", status, 0) = "CONFIRMED_PAID"
        BY <4>1, TargetOf, SingleTargets DEF CancelTarget
      <4> QED
        BY <1>1, <1>4, <2>1, <2>3, <3>1, <4>2 DEF Book, FirstCaptured, ExpectedFirstCapture, Settled
    <3>2. CASE plan = "DEPOSIT_50"
      <4>1. CanFire("PAYMENT_CONFIRMED_DEPOSIT", status, plan)
        BY <2>3, <3>2 DEF CanFire, Matches, TRANSITIONS, Row
      <4>2. Target("PAYMENT_CONFIRMED_DEPOSIT", status, 0) = "CONFIRMED_DEPOSIT"
        BY <4>1, TargetOf, SingleTargets DEF CancelTarget
      <4> QED
        BY <1>1, <1>4, <2>1, <2>3, <3>2, <4>2 DEF Book, FirstCaptured, ExpectedFirstCapture, Settled
    <3> QED
      BY <3>1, <3>2 DEF Shape
  <2> QED
    BY <2>1, <2>2, <2>3 DEF ConfirmByCapture
<1> QED
  BY <1>2, <1>3, <1>4

\* Where the other writes lead.
LEMMA MoveCases ==
    ASSUME TaskIsBacked, NEW p \in Clients, FinishMove(p)
    PROVE  /\ UNCHANGED <<plan, rows, attempts, booked, offline, demoted>> /\ MoneyIn
           /\ status' \in {"BALANCE_DUE", "CHECKED_IN", "COMPLETED"}
           /\ status' = "BALANCE_DUE" => DepositIn
<1>1. /\ task[p].stage = "fresh" /\ task[p].op \in MoveEvents
      /\ status' = Target(task[p].op, task[p].seen, 0)
      /\ UNCHANGED <<plan, rows, attempts, booked, offline, demoted>>
  BY DEF FinishMove
<1>2. CanFire(task[p].op, task[p].seen, plan) /\ MoneyIn
      /\ (task[p].op = "BALANCE_DUE_TRIGGERED" => DepositIn)
  BY <1>1 DEF TaskIsBacked
<1>3. CASE task[p].op = "BALANCE_DUE_TRIGGERED"
  <2>1. status' = "BALANCE_DUE"
    BY <1>1, <1>2, <1>3, TargetOf, SingleTargets DEF CancelTarget
  <2> QED
    BY <1>1, <1>2, <1>3, <2>1
<1>4. CASE task[p].op = "CHECKED_IN"
  <2>1. status' = "CHECKED_IN"
    BY <1>1, <1>2, <1>4, TargetOf, SingleTargets DEF CancelTarget
  <2> QED
    BY <1>1, <1>2, <2>1
<1>5. CASE task[p].op = "STAY_COMPLETED"
  <2>1. status' = "COMPLETED"
    BY <1>1, <1>2, <1>5, TargetOf, SingleTargets DEF CancelTarget
  <2> QED
    BY <1>1, <1>2, <2>1
<1> QED
  BY <1>1, <1>3, <1>4, <1>5, MovesAssumption

LEMMA ManualCase ==
    ASSUME TaskIsBacked, NEW p \in Clients, FinishManual(p)
    PROVE  /\ UNCHANGED <<plan, rows, attempts, booked, demoted>>
           /\ offline' = TRUE /\ status' = "CONFIRMED_PAID"
<1>1. CanFire(Manual, task[p].seen, plan)
  BY DEF FinishManual, TaskIsBacked
<1> QED
  BY <1>1, TargetOf, SingleTargets DEF FinishManual, CancelTarget

LEMMA RefundCases ==
    ASSUME NEW p \in Clients, FinishCancel(p) \/ FinishRefund(p)
    PROVE  /\ UNCHANGED <<plan, rows, attempts, booked, offline, demoted>>
           /\ status' = status \/ status' \in {"CANCELLED", "REFUNDED"}
BY CancelTargets DEF FinishCancel, FinishRefund

------------------------------------------------------------------------------
(* The invariants, one lemma each. *)

LEMMA ShapeStep == ASSUME Shape, OnlyPaidIsReported, TaskIsBacked, PayNext PROVE Shape'
<1> USE DEF Shape, RowType
<1>1. ASSUME NEW o \in Orders, NEW kind \in Kinds, InitPayment(o, kind) PROVE Shape'
  BY <1>1 DEF InitPayment
<1>2. ASSUME NEW o \in Orders, NEW outcome \in Outcomes, Attempt(o, outcome) PROVE Shape'
  BY <1>2 DEF Attempt
<1>3. ASSUME NEW o \in Orders, Capture(o), UNCHANGED task PROVE Shape'
  BY <1>3, CaptureCases DEF Settled, Statuses
<1>4. ASSUME NEW o \in Orders, MarkFailed(o), UNCHANGED task PROVE Shape'
  BY <1>4 DEF MarkFailed
<1>5. ASSUME NEW p \in Clients, FinishCancel(p) \/ FinishRefund(p) PROVE Shape'
  <2>1. DOMAIN task' = Clients
    BY <1>5 DEF FinishCancel, FinishRefund, Done
  <2> QED
    BY <1>5, <2>1, RefundCases DEF Statuses
<1>6. ASSUME NEW p \in Clients, FinishMove(p) PROVE Shape'
  <2>1. DOMAIN task' = Clients
    BY <1>6 DEF FinishMove, Done
  <2> QED
    BY <1>6, <2>1, MoveCases DEF Statuses
<1>7. ASSUME NEW p \in Clients, FinishManual(p) PROVE Shape'
  <2>1. DOMAIN task' = Clients
    BY <1>7 DEF FinishManual, Done
  <2> QED
    BY <1>7, <2>1, ManualCase DEF Statuses
<1>8. ASSUME UNCHANGED <<money, attempts>>, DOMAIN task' = Clients PROVE Shape'
  BY <1>8
<1> QED
  BY <1>1, <1>2, <1>3, <1>4, <1>5, <1>6, <1>7, <1>8, PayActions
     DEF Reported, ReceiveWebhook, ReconRead, BeginCancel, BeginRefund, BeginMove, Begin,
         ReadFresh, RollBack, Done

\* What is paid, booked or overwritten stays so, and a row keeps its kind.
Grows ==
    /\ plan' = plan /\ (offline => offline') /\ demoted \subseteq demoted'
    /\ \A o \in Orders :
          /\ PaidAtGateway(o) => PaidAtGateway(o)'
          /\ booked[o] > 0 => booked'[o] > 0
          /\ rows[o].st # "none" => rows'[o].st # "none" /\ rows'[o].kind = rows[o].kind

LEMMA GrowsStep == ASSUME Shape, OnlyPaidIsReported, TaskIsBacked, PayNext PROVE Grows
<1> USE DEF Grows, Shape, RowType, PaidAtGateway
<1>1. ASSUME NEW o \in Orders, NEW kind \in Kinds, InitPayment(o, kind) PROVE Grows
  BY <1>1 DEF InitPayment
<1>2. ASSUME NEW o \in Orders, NEW outcome \in Outcomes, Attempt(o, outcome) PROVE Grows
  BY <1>2 DEF Attempt
<1>3. ASSUME NEW o \in Orders, Capture(o) PROVE Grows
  <2>1. UNCHANGED <<plan, attempts, offline, demoted>>
    BY <1>3, CaptureCases
  <2>2. ASSUME NEW u \in Orders
        PROVE  /\ PaidAtGateway(u) => PaidAtGateway(u)'
               /\ booked[u] > 0 => booked'[u] > 0
               /\ rows[u].st # "none" => rows'[u].st # "none" /\ rows'[u].kind = rows[u].kind
    <3>1. booked[u] > 0 => booked'[u] > 0
      BY <1>3, CaptureCases DEF Settled
    <3>2. rows[u].st # "none" => rows'[u].st # "none" /\ rows'[u].kind = rows[u].kind
      BY <1>3, CaptureCases
    <3> QED
      BY <2>1, <3>1, <3>2
  <2> QED
    BY <2>1, <2>2
<1>4. ASSUME NEW o \in Orders, MarkFailed(o) PROVE Grows
  BY <1>4 DEF MarkFailed
<1>5. ASSUME NEW p \in Clients, FinishCancel(p) \/ FinishRefund(p) PROVE Grows
  BY <1>5, RefundCases
<1>6. ASSUME NEW p \in Clients, FinishMove(p) PROVE Grows
  BY <1>6, MoveCases
<1>7. ASSUME NEW p \in Clients, FinishManual(p) PROVE Grows
  BY <1>7, ManualCase
<1>8. ASSUME UNCHANGED <<money, attempts>> PROVE Grows
  BY <1>8
<1> QED
  BY <1>1, <1>2, <1>3, <1>4, <1>5, <1>6, <1>7, <1>8, PayActions
     DEF ReceiveWebhook, ReconRead, BeginCancel, BeginRefund, BeginMove, Begin, ReadFresh, RollBack

LEMMA MoneyStays ==
    ASSUME Shape, OnlyPaidIsReported, Grows
    PROVE  (MoneyIn => MoneyIn') /\ (DepositIn => DepositIn')
<1>1. \A o \in Orders : booked[o] > 0 => rows'[o].kind = rows[o].kind
  BY DEF OnlyPaidIsReported, Grows
<1> QED
  BY <1>1 DEF MoneyIn, DepositIn, Grows, Amount, DepositAmount, BalanceAmount

LEMMA OnlyPaidStep ==
    ASSUME Shape, OnlyPaidIsReported, TaskIsBacked, PayNext PROVE OnlyPaidIsReported'
<1>0. Grows
  BY GrowsStep
<1>1. ASSUME NEW o \in Orders, rows'[o].st = "none" PROVE ~PaidAtGateway(o)'
  <2>1. rows[o].st = "none"
    BY <1>0, <1>1 DEF Grows
  <2>2. ~PaidAtGateway(o)
    BY <2>1 DEF OnlyPaidIsReported
  <2>3. ASSUME NEW u \in Orders, NEW outcome \in Outcomes, Attempt(u, outcome)
        PROVE ~PaidAtGateway(o)'
    BY <2>1, <2>2, <2>3 DEF Attempt, PaidAtGateway, Shape
  <2>4. ASSUME NEW u \in Orders, Capture(u) PROVE attempts' = attempts
    BY <2>4 DEF Capture
  <2>5. ASSUME attempts' = attempts PROVE ~PaidAtGateway(o)'
    BY <2>2, <2>5 DEF PaidAtGateway
  <2> QED
    BY <2>3, <2>4, <2>5, PayActions
       DEF InitPayment, MarkFailed, FinishCancel, FinishRefund, FinishMove, FinishManual,
           ReceiveWebhook, ReconRead, BeginCancel, BeginRefund, BeginMove, Begin, ReadFresh, RollBack
<1>2. ASSUME NEW o \in Orders, rows'[o].st = "CAPTURED" \/ booked'[o] > 0 PROVE PaidAtGateway(o)'
  <2>1. ASSUME NEW u \in Orders, Capture(u), PaidAtGateway(u) PROVE PaidAtGateway(o)'
    <3>1. CASE o = u
      BY <1>0, <2>1, <3>1 DEF Grows
    <3>2. CASE o # u
      <4>1. rows'[o] = rows[o] /\ booked'[o] = booked[o]
        BY <2>1, <3>2, CaptureCases DEF Settled, Shape
      <4> QED
        BY <1>0, <1>2, <4>1 DEF Grows, OnlyPaidIsReported
    <3> QED
      BY <3>1, <3>2
  <2>2. ASSUME NEW u \in Orders, NEW kind \in Kinds, InitPayment(u, kind) PROVE PaidAtGateway(o)'
    <3>1. (rows'[o].st = "CAPTURED" => rows[o].st = "CAPTURED") /\ booked' = booked
      BY <2>2 DEF InitPayment, Shape
    <3> QED
      BY <1>0, <1>2, <3>1 DEF Grows, OnlyPaidIsReported
  <2>3. ASSUME NEW u \in Orders, MarkFailed(u) PROVE PaidAtGateway(o)'
    <3>1. (rows'[o].st = "CAPTURED" => rows[o].st = "CAPTURED") /\ booked' = booked
      BY <2>3 DEF MarkFailed, Shape
    <3> QED
      BY <1>0, <1>2, <3>1 DEF Grows, OnlyPaidIsReported
  <2>4. ASSUME UNCHANGED <<rows, booked>> PROVE PaidAtGateway(o)'
    BY <1>0, <1>2, <2>4 DEF Grows, OnlyPaidIsReported
  <2> QED
    BY <2>1, <2>2, <2>3, <2>4, PayActions
       DEF Attempt, FinishCancel, FinishRefund, FinishMove, FinishManual,
           ReceiveWebhook, ReconRead, BeginCancel, BeginRefund, BeginMove, Begin, ReadFresh, RollBack
<1>3. ASSUME NEW e \in inbox', e.outcome = "captured" PROVE PaidAtGateway(e.order)'
  <2>1. (PaidAtGateway(e.order) /\ e \in inbox) \/ ~(inbox' \subseteq inbox)
    BY <1>3 DEF OnlyPaidIsReported
  <2>2. CASE attempts' = attempts
    <3>1. PaidAtGateway(e.order)
      <4>1. ASSUME NEW f \in EventIds, ReceiveWebhook(f) PROVE PaidAtGateway(e.order)
        BY <1>3, <4>1 DEF ReceiveWebhook, PaidAtGateway, OnlyPaidIsReported
      <4>2. CASE inbox' \subseteq inbox
        BY <2>1, <4>2
      <4> QED
        BY <4>1, <4>2, PayActions
           DEF Reported, InitPayment, Attempt, FinishCancel, FinishRefund, FinishMove, FinishManual,
               ReconRead, BeginCancel, BeginRefund, BeginMove, Begin, ReadFresh, RollBack
    <3> QED
      BY <2>2, <3>1 DEF PaidAtGateway
  <2>3. CASE attempts' # attempts
    <3>1. PICK u \in Orders, outcome \in Outcomes : Attempt(u, outcome)
      <4>1. \A o \in Orders : Capture(o) => attempts' = attempts
        BY DEF Capture
      <4> QED
        BY <2>3, <4>1, PayActions
           DEF InitPayment, MarkFailed, FinishCancel, FinishRefund, FinishMove, FinishManual,
               ReceiveWebhook, ReconRead, BeginCancel, BeginRefund, BeginMove, Begin, ReadFresh, RollBack
    <3>2. PaidAtGateway(e.order)
      BY <2>1, <3>1 DEF Attempt
    <3> QED
      BY <3>1, <3>2 DEF Attempt, PaidAtGateway, Shape
  <2> QED
    BY <2>2, <2>3
<1>4. ASSUME recon'.order \in Orders, recon'.verdict = "captured" PROVE "captured" \in attempts'[recon'.order]
  <2>1. ASSUME NEW o \in Orders, ReconRead(o) PROVE "captured" \in attempts'[recon'.order]
    BY <1>4, <2>1 DEF ReconRead, PaidAtGateway, Outcomes
  <2>2. CASE recon' = NoRecon
    BY <1>4, <2>2, OrdersAssumption DEF NoRecon
  <2>3. CASE recon' = recon
    BY <1>0, <1>4, <2>3 DEF OnlyPaidIsReported, Grows, PaidAtGateway
  <2> QED
    BY <2>1, <2>2, <2>3, PayActions
       DEF Reported, InitPayment, Attempt, FinishCancel, FinishRefund, FinishMove, FinishManual,
           ReceiveWebhook, BeginCancel, BeginRefund, BeginMove, Begin, ReadFresh, RollBack
<1> QED
  BY <1>1, <1>2, <1>3, <1>4 DEF OnlyPaidIsReported, PaidAtGateway
\* The rows a step can have changed, for the lemmas about one order.
PayRowKept(o) == (rows'[o].st = "CAPTURED" => rows[o].st = "CAPTURED") /\ booked' = booked

\* The remaining kinds of step: nothing is captured, overwritten or booked.
Quiet == UNCHANGED <<rows, booked, demoted>>

LEMMA MoneySteps ==
    ASSUME Shape, OnlyPaidIsReported, TaskIsBacked, PayNext
    PROVE  \/ \E o \in Orders, kind \in Kinds : InitPayment(o, kind)
           \/ \E o \in Orders : Capture(o) /\ PaidAtGateway(o) /\ Reported
           \/ \E o \in Orders : MarkFailed(o) /\ Reported
           \/ \E p \in Clients : FinishCancel(p) \/ FinishRefund(p)
           \/ \E p \in Clients : FinishMove(p)
           \/ \E p \in Clients : FinishManual(p)
           \/ UNCHANGED money
BY PayActions DEF Attempt, ReceiveWebhook, ReconRead, BeginCancel, BeginRefund, BeginMove, Begin,
               ReadFresh, RollBack

LEMMA BookedStep ==
    ASSUME Shape, OnlyPaidIsReported, TaskIsBacked, BookedIsCaptured, PayNext PROVE BookedIsCaptured'
<1> SUFFICES ASSUME NEW o \in Orders, o \notin demoted'
             PROVE  booked'[o] <= 1 /\ (booked'[o] > 0 => rows'[o].st = "CAPTURED")
  BY DEF BookedIsCaptured
<1>0. o \notin demoted /\ booked[o] \in Nat
  BY GrowsStep DEF Grows, Shape
<1>1. booked[o] <= 1 /\ (booked[o] > 0 => rows[o].st = "CAPTURED")
  BY <1>0 DEF BookedIsCaptured
<1>2. ASSUME NEW u \in Orders, Capture(u)
      PROVE  booked'[o] <= 1 /\ (booked'[o] > 0 => rows'[o].st = "CAPTURED")
  <2>1. CASE UNCHANGED <<rows, status, booked>>
    BY <1>1, <2>1
  <2>2. CASE ~UNCHANGED <<rows, status, booked>> /\ o = u
    <3>1. rows[o].st # "CAPTURED" /\ rows'[o].st = "CAPTURED"
      BY <1>2, <2>2, CaptureCases DEF Shape, RowType
    <3>2. booked' = booked \/ booked'[o] = booked[o] + 1
      BY <1>2, <2>2, CaptureCases DEF Settled, Shape
    <3> QED
      BY <1>0, <1>1, <3>1, <3>2
  <2>3. CASE ~UNCHANGED <<rows, status, booked>> /\ o # u
    <3>1. rows'[o] = rows[o] /\ booked'[o] = booked[o]
      BY <1>2, <2>3, CaptureCases DEF Settled, Shape
    <3> QED
      BY <1>1, <3>1
  <2> QED
    BY <2>1, <2>2, <2>3
<1>3. ASSUME NEW u \in Orders, MarkFailed(u)
      PROVE  booked'[o] <= 1 /\ (booked'[o] > 0 => rows'[o].st = "CAPTURED")
  BY <1>1, <1>3 DEF MarkFailed, Shape
<1>4. ASSUME NEW u \in Orders, NEW kind \in Kinds, InitPayment(u, kind)
      PROVE  booked'[o] <= 1 /\ (booked'[o] > 0 => rows'[o].st = "CAPTURED")
  BY <1>1, <1>4 DEF InitPayment, Shape
<1>5. ASSUME Quiet PROVE booked'[o] <= 1 /\ (booked'[o] > 0 => rows'[o].st = "CAPTURED")
  BY <1>1, <1>5 DEF Quiet
<1> QED
  BY <1>2, <1>3, <1>4, <1>5, MoneySteps, RefundCases, MoveCases, ManualCase DEF Quiet

LEMMA StatusStep ==
    ASSUME Shape, OnlyPaidIsReported, TaskIsBacked, StatusIsBacked, PayNext PROVE StatusIsBacked'
<1>1. (MoneyIn => MoneyIn') /\ (DepositIn => DepositIn')
  BY GrowsStep, MoneyStays
<1>2. ASSUME status' = status PROVE StatusIsBacked'
  BY <1>1, <1>2 DEF StatusIsBacked
<1>3. ASSUME NEW o \in Orders, Capture(o), status' # status PROVE StatusIsBacked'
  <2>1. Settled(o) /\ rows' = [rows EXCEPT ![o].st = "CAPTURED"]
    BY <1>3, CaptureCases
  <2>2. booked'[o] > 0
    BY <2>1 DEF Settled, Shape
  <2>3. status' \in AwaitsBalance => Amount(rows'[o].kind) >= DepositAmount
    BY <2>1, Amounts DEF Settled, Shape, RowType, AwaitsBalance
  <2>4. MoneyIn'
    BY <2>2 DEF MoneyIn
  <2>5. status' \in AwaitsBalance => DepositIn'
    BY <2>2, <2>3 DEF DepositIn, Amount, DepositAmount, BalanceAmount
  <2> QED
    BY <2>4, <2>5 DEF StatusIsBacked
<1>4. ASSUME NEW p \in Clients, FinishCancel(p) \/ FinishRefund(p) PROVE StatusIsBacked'
  <2>1. CASE status' \in {"CANCELLED", "REFUNDED"}
    BY <2>1 DEF StatusIsBacked, Confirmed, AwaitsBalance
  <2> QED
    BY <1>2, <1>4, <2>1, RefundCases
<1>5. ASSUME NEW p \in Clients, FinishMove(p) PROVE StatusIsBacked'
  BY <1>1, <1>5, MoveCases DEF StatusIsBacked, AwaitsBalance
<1>6. ASSUME NEW p \in Clients, FinishManual(p) PROVE StatusIsBacked'
  BY <1>6, ManualCase DEF StatusIsBacked, AwaitsBalance, MoneyIn
<1> QED
  BY <1>2, <1>3, <1>4, <1>5, <1>6, MoneySteps DEF InitPayment, MarkFailed

\* What a request reads when it begins, and what has become of it.
LEMMA Opened ==
    ASSUME Shape, StatusIsBacked, NEW p \in Clients, NEW op \in TaskOps, BeginMove(p, op)
    PROVE  /\ CanFire(op, status, plan)
           /\ op \in MoveEvents => MoneyIn
           /\ op = "BALANCE_DUE_TRIGGERED" => DepositIn
<1>1. CanFire(op, status, plan)
  BY DEF BeginMove
<1>2. op \in MoveEvents => status \in Confirmed
  BY <1>1, MovesAssumption DEF CanFire, Matches, TRANSITIONS, Row, Confirmed, Arrivable, Completable
<1>3. op = "BALANCE_DUE_TRIGGERED" => status \in AwaitsBalance
  BY <1>1 DEF CanFire, Matches, TRANSITIONS, Row, AwaitsBalance
<1> QED
  BY <1>1, <1>2, <1>3 DEF StatusIsBacked

LEMMA TaskStep ==
    ASSUME Shape, OnlyPaidIsReported, TaskIsBacked, StatusIsBacked, PayNext PROVE TaskIsBacked'
<1> DEFINE Ok(t) == /\ t.stage = "read" => t.op \in {Cancel, Refund}
                    /\ t.stage = "fresh" =>
                          /\ t.op \in MoveEvents \cup {Manual} => CanFire(t.op, t.seen, plan)
                          /\ t.op \in MoveEvents => MoneyIn
                          /\ t.op = "BALANCE_DUE_TRIGGERED" => DepositIn
<1>0. \A p \in Clients : Ok(task[p])
  BY DEF TaskIsBacked
<1>1. plan' = plan /\ (MoneyIn => MoneyIn') /\ (DepositIn => DepositIn')
  BY GrowsStep, MoneyStays DEF Grows
<1>2. Cancel \notin MoveEvents \cup {Manual} /\ Refund \notin MoveEvents \cup {Manual}
  BY MovesAssumption DEF Cancel, Refund, Manual
<1>3. ASSUME NEW p \in Clients, NEW t, task' = [task EXCEPT ![p] = t], Ok(t)
      PROVE  \A q \in Clients : Ok(task'[q])
  BY <1>0, <1>3 DEF Shape
<1>4. Ok(IdleTask)
  BY DEF IdleTask
<1>5. \A q \in Clients : Ok(task'[q])
  <2>1. ASSUME NEW p \in Clients, BeginCancel(p) PROVE \A q \in Clients : Ok(task'[q])
    BY <1>3, <2>1 DEF BeginCancel, Begin, IdleTask
  <2>2. ASSUME NEW p \in Clients, NEW amount \in 1..Total, BeginRefund(p, amount)
        PROVE  \A q \in Clients : Ok(task'[q])
    BY <1>3, <2>2 DEF BeginRefund, Begin, IdleTask
  <2>3. ASSUME NEW p \in Clients, NEW op \in TaskOps, BeginMove(p, op)
        PROVE  \A q \in Clients : Ok(task'[q])
    <3> DEFINE t == [IdleTask EXCEPT !.stage = "fresh", !.op = op, !.seen = status]
    <3>1. t.stage = "fresh" /\ t.op = op /\ t.seen = status
      BY DEF IdleTask
    <3>2. Ok(t)
      BY <2>3, <3>1, Opened
    <3>3. task' = [task EXCEPT ![p] = t]
      BY <2>3 DEF BeginMove, Begin
    <3> HIDE DEF t
    <3> QED
      BY <1>3, <3>2, <3>3
  <2>4. ASSUME NEW p \in Clients, ReadFresh(p) PROVE \A q \in Clients : Ok(task'[q])
    <3> SUFFICES ASSUME NEW q \in Clients PROVE Ok(task'[q])
      OBVIOUS
    <3>1. CASE q # p
      BY <1>0, <2>4, <3>1 DEF ReadFresh, Shape
    <3>2. CASE q = p
      <4>1. task[p].op \in {Cancel, Refund}
        BY <1>0, <2>4 DEF ReadFresh
      <4>2. task'[p] = [task[p] EXCEPT !.stage = "fresh", !.seen = status]
        BY <2>4 DEF ReadFresh, Shape
      <4>3. task'[p].op \in {Cancel, Refund}
        BY <4>1, <4>2
      <4> QED
        BY <1>2, <3>2, <4>3 DEF Cancel, Refund
    <3> QED
      BY <3>1, <3>2
  <2>5. ASSUME NEW p \in Clients, Done(p) PROVE \A q \in Clients : Ok(task'[q])
    BY <1>3, <1>4, <2>5 DEF Done
  <2>6. ASSUME task' = task PROVE \A q \in Clients : Ok(task'[q])
    BY <1>0, <2>6
  <2> HIDE DEF Ok
  <2> QED
    BY <2>1, <2>2, <2>3, <2>4, <2>5, <2>6, PayActions
       DEF Reported, InitPayment, Attempt, ReceiveWebhook, ReconRead, FinishCancel, FinishRefund,
           FinishMove, FinishManual, RollBack
<1> QED
  BY <1>1, <1>5 DEF TaskIsBacked

LEMMA PaidInFullStep ==
    ASSUME PInv, PayNext PROVE PaidInFullUnlessDemoted'
<1> USE DEF PInv
<1>0. Grows
  BY GrowsStep
<1> SUFFICES ASSUME status' = "CONFIRMED_PAID", ~offline', demoted' = {}
             PROVE  \E a, b \in Orders :
                       /\ PaidAtGateway(a)' /\ PaidAtGateway(b)'
                       /\ \/ Amount(rows'[a].kind) = Total
                          \/ a # b /\ Amount(rows'[a].kind) + Amount(rows'[b].kind) >= Total
  BY DEF PaidInFullUnlessDemoted, Amount, DepositAmount, BalanceAmount, PaidAtGateway
<1>1. ~offline /\ demoted = {}
  BY <1>0 DEF Grows
<1>2. \A o \in Orders : PaidAtGateway(o) => PaidAtGateway(o)' /\ rows'[o].kind = rows[o].kind
  BY <1>0 DEF Grows, OnlyPaidIsReported
<1>3. \E a, b \in Orders :
         /\ PaidAtGateway(a) /\ PaidAtGateway(b)
         /\ \/ Amount(rows[a].kind) = Total
            \/ a # b /\ Amount(rows[a].kind) + Amount(rows[b].kind) >= Total
  <2>1. CASE status = "CONFIRMED_PAID"
    BY <1>1, <2>1 DEF PaidInFullUnlessDemoted
  <2>2. CASE status # "CONFIRMED_PAID"
    <3>1. PICK o \in Orders : Capture(o) /\ PaidAtGateway(o)
      BY <2>2, MoneySteps, RefundCases, MoveCases, ManualCase DEF InitPayment, MarkFailed
    <3>2. rows[o].st # "CAPTURED" /\ Settled(o)
      BY <2>2, <3>1, CaptureCases
    <3>3. CASE Amount(rows[o].kind) = Total
      BY <3>1, <3>3
    <3>4. CASE status \in AwaitsBalance /\ Amount(rows[o].kind) = BalanceAmount
      <4>1. PICK d \in Orders : booked[d] > 0 /\ Amount(rows[d].kind) >= DepositAmount
        BY <1>1, <3>4 DEF StatusIsBacked, DepositIn
      <4>2. PaidAtGateway(d)
        BY <4>1 DEF OnlyPaidIsReported
      <4>3. d # o
        BY <1>1, <3>2, <4>1 DEF BookedIsCaptured
      <4>4. Amount(rows[d].kind) \in Int
        BY Amounts DEF Shape, RowType
      <4>5. Amount(rows[d].kind) + Amount(rows[o].kind) >= Total
        BY <3>4, <4>1, <4>4, Amounts
      <4> QED
        BY <3>1, <4>2, <4>3, <4>5
    <3> QED
      BY <3>2, <3>3, <3>4 DEF Settled
  <2> QED
    BY <2>1, <2>2
<1> QED
  BY <1>2, <1>3

LEMMA ExtraStep ==
    ASSUME PInv, PayNext PROVE UnbookedCaptureIsExtra'
<1> USE DEF PInv
<1> SUFFICES ASSUME NEW o \in Orders, rows'[o].st = "CAPTURED", booked'[o] = 0
             PROVE  offline' \/ \E other \in Orders \ {o} : booked'[other] > 0
  BY DEF UnbookedCaptureIsExtra
<1>0. Grows
  BY GrowsStep
<1>1. booked[o] = 0
  BY <1>0 DEF Grows, Shape
<1>2. offline \/ \E other \in Orders \ {o} : booked[other] > 0
  <2>1. CASE rows[o].st = "CAPTURED"
    BY <1>1, <2>1 DEF UnbookedCaptureIsExtra
  <2>2. CASE rows[o].st # "CAPTURED"
    <3>1. PICK u \in Orders : Capture(u)
      <4>1. ASSUME Quiet PROVE FALSE
        BY <2>2, <4>1 DEF Quiet
      <4>2. ASSUME NEW u \in Orders, NEW kind \in Kinds, InitPayment(u, kind) PROVE FALSE
        BY <2>2, <4>2 DEF InitPayment, Shape, RowType
      <4>3. ASSUME NEW u \in Orders, MarkFailed(u) PROVE FALSE
        BY <2>2, <4>3 DEF MarkFailed, Shape, RowType
      <4> QED
        BY <4>1, <4>2, <4>3, MoneySteps, RefundCases, MoveCases, ManualCase DEF Quiet
    <3>2. u = o
      BY <2>2, <3>1, CaptureCases DEF Shape, RowType
    <3>3. ~Settled(o)
      <4>1. ASSUME Settled(o) PROVE booked'[o] = booked[o] + 1
        BY <4>1 DEF Settled, Shape
      <4> QED
        BY <1>1, <4>1
    <3>4. status \in {"CONFIRMED_PAID", "COMPLETED"}
      BY <2>2, <3>1, <3>2, <3>3, CaptureCases
    <3>5. MoneyIn
      BY <3>4 DEF StatusIsBacked, Confirmed
    <3> QED
      BY <1>1, <3>5 DEF MoneyIn
  <2> QED
    BY <2>1, <2>2
<1> QED
  BY <1>0, <1>2 DEF Grows

------------------------------------------------------------------------------
(* Sums of money.  The worth of a set of orders, given the rows. *)

Worth(rs, S) ==
    Total * Cardinality({o \in S : rs[o].kind = "FULL"})
        + DepositAmount * Cardinality({o \in S : rs[o].kind = "DEPOSIT"})
        + BalanceAmount * Cardinality({o \in S : rs[o].kind = "BALANCE"})

LEMMA AmountsAreNat == Total \in Nat /\ DepositAmount \in Nat /\ BalanceAmount \in Nat
BY AmountsAssumption DEF DepositAmount, BalanceAmount

LEMMA ProductGrows ==
    ASSUME NEW a \in Nat, NEW m \in Nat, NEW n \in Nat, m <= n
    PROVE  a * m \in Nat /\ a * m <= a * n
<1>1. a * n = a * m + a * (n - m)
  OBVIOUS
<1>2. a * m \in Nat /\ a * (n - m) \in Nat
  OBVIOUS
<1> QED
  BY <1>1, <1>2

\* More orders are worth more: what is paid only grows.
LEMMA WorthGrows ==
    ASSUME NEW rs, NEW rt, NEW S \in SUBSET Orders, NEW T \in SUBSET Orders, S \subseteq T,
           \A o \in S : rt[o].kind = rs[o].kind
    PROVE  Worth(rs, S) \in Nat /\ Worth(rt, T) \in Nat /\ Worth(rs, S) <= Worth(rt, T)
<1> DEFINE N(q, U, k) == Cardinality({o \in U : q[o].kind = k})
<1>1. ASSUME NEW k PROVE N(rs, S, k) \in Nat /\ N(rt, T, k) \in Nat /\ N(rs, S, k) <= N(rt, T, k)
  <2>1. {o \in T : rt[o].kind = k} \subseteq Orders /\ {o \in S : rs[o].kind = k} \subseteq {o \in T : rt[o].kind = k}
    OBVIOUS
  <2>2. IsFiniteSet({o \in T : rt[o].kind = k})
    BY <2>1, FS_Subset, OrdersAssumption
  <2>3. IsFiniteSet({o \in S : rs[o].kind = k})
        /\ Cardinality({o \in S : rs[o].kind = k}) <= Cardinality({o \in T : rt[o].kind = k})
    BY <2>1, <2>2, FS_Subset
  <2> QED
    BY <2>2, <2>3, FS_CardinalityType
<1> HIDE DEF N
<1>2. ASSUME NEW a \in Nat, NEW k
      PROVE  a * N(rs, S, k) \in Nat /\ a * N(rt, T, k) \in Nat /\ a * N(rs, S, k) <= a * N(rt, T, k)
  BY <1>1, ProductGrows
<1>3. /\ Worth(rs, S) = Total * N(rs, S, "FULL") + DepositAmount * N(rs, S, "DEPOSIT")
                            + BalanceAmount * N(rs, S, "BALANCE")
      /\ Worth(rt, T) = Total * N(rt, T, "FULL") + DepositAmount * N(rt, T, "DEPOSIT")
                            + BalanceAmount * N(rt, T, "BALANCE")
  BY DEF Worth, N
<1>4. /\ Total * N(rs, S, "FULL") \in Nat /\ Total * N(rt, T, "FULL") \in Nat
      /\ Total * N(rs, S, "FULL") <= Total * N(rt, T, "FULL")
  BY <1>2, AmountsAreNat
<1>5. /\ DepositAmount * N(rs, S, "DEPOSIT") \in Nat /\ DepositAmount * N(rt, T, "DEPOSIT") \in Nat
      /\ DepositAmount * N(rs, S, "DEPOSIT") <= DepositAmount * N(rt, T, "DEPOSIT")
  BY <1>2, AmountsAreNat
<1>6. /\ BalanceAmount * N(rs, S, "BALANCE") \in Nat /\ BalanceAmount * N(rt, T, "BALANCE") \in Nat
      /\ BalanceAmount * N(rs, S, "BALANCE") <= BalanceAmount * N(rt, T, "BALANCE")
  BY <1>2, AmountsAreNat
<1> QED
  BY <1>3, <1>4, <1>5, <1>6

PaidOrders == {o \in Orders : PaidAtGateway(o)}

LEMMA SumsAreWorth ==
    /\ TotalPaid = Worth(rows, PaidRows) + OfflinePaid
    /\ Collected = Worth(rows, PaidOrders) + OfflinePaid
BY DEF TotalPaid, Collected, SumOfOrders, CountOf, Worth, PaidOrders

LEMMA OfflineIsNat == ASSUME Shape PROVE OfflinePaid \in Nat
BY AmountsAreNat DEF OfflinePaid

\* The rows never show more money than the gateway and the desk took.
LEMMA PaidWithinCollected ==
    ASSUME Shape, OnlyPaidIsReported
    PROVE  TotalPaid \in Nat /\ Collected \in Nat /\ TotalPaid <= Collected
<1>1. PaidRows \in SUBSET Orders /\ PaidOrders \in SUBSET Orders /\ PaidRows \subseteq PaidOrders
  BY DEF PaidRows, PaidOrders, OnlyPaidIsReported
<1>2. /\ Worth(rows, PaidRows) \in Nat /\ Worth(rows, PaidOrders) \in Nat
      /\ Worth(rows, PaidRows) <= Worth(rows, PaidOrders)
  BY <1>1, WorthGrows
<1> QED
  BY <1>2, SumsAreWorth, OfflineIsNat

LEMMA CollectedGrows ==
    ASSUME Shape, OnlyPaidIsReported, Grows, Shape'
    PROVE  Collected' \in Nat /\ Collected <= Collected'
<1>1. PaidOrders \in SUBSET Orders /\ PaidOrders' \in SUBSET Orders /\ PaidOrders \subseteq PaidOrders'
  BY DEF PaidOrders, Grows
<1>2. \A o \in PaidOrders : rows'[o].kind = rows[o].kind
  BY DEF PaidOrders, Grows, OnlyPaidIsReported
<1>3. /\ Worth(rows, PaidOrders) \in Nat /\ Worth(rows', PaidOrders') \in Nat
      /\ Worth(rows, PaidOrders) <= Worth(rows', PaidOrders')
  BY <1>1, <1>2, WorthGrows
<1>4. Collected' = Worth(rows', PaidOrders') + OfflinePaid'
  BY SumsAreWorth DEF Collected, SumOfOrders, CountOf, Worth, PaidOrders
<1>5. OfflinePaid \in Nat /\ OfflinePaid' \in Nat /\ OfflinePaid <= OfflinePaid'
  BY AmountsAreNat DEF OfflinePaid, Grows
<1> QED
  BY <1>3, <1>4, <1>5, SumsAreWorth

\* A request refunds out of money that was there when it looked, and never more
\* than was left of it.
TasksWithinCollected ==
    \A p \in Clients : /\ task[p].paid <= Collected
                       /\ task[p].op = Refund => task[p].amount <= task[p].paid

RefundInv ==
    /\ PayTypeOK
    /\ TasksWithinCollected
    /\ EachRefundWithinCollected

LEMMA RefundedSoFar == ASSUME PayTypeOK PROVE TotalRefunded \in Nat
<1> DEFINE RefundRow == [amount : Nat, total : Nat]
<1>1. refunds \in Seq(RefundRow)
  BY DEF PayTypeOK
<1> HIDE DEF RefundRow
<1>2. CASE refunds # <<>>
  <2>1. Len(refunds) \in 1..Len(refunds)
    BY <1>1, <1>2, EmptySeq, LenProperties
  <2>2. refunds[Len(refunds)] \in RefundRow
    BY <1>1, <2>1, ElementOfSeq
  <2> QED
    BY <1>2, <2>2 DEF TotalRefunded, RefundRow
<1> QED
  BY <1>2 DEF TotalRefunded

LEMMA RefundIsNoted ==
    ASSUME PayTypeOK, NEW amount \in Nat
    PROVE  /\ Refunded(amount) \in Seq([amount : Nat, total : Nat])
           /\ Len(Refunded(amount)) = Len(refunds) + 1
           /\ \A i \in 1..Len(Refunded(amount)) :
                 \/ Refunded(amount)[i].amount = amount
                 \/ i \in 1..Len(refunds) /\ Refunded(amount)[i] = refunds[i]
<1> DEFINE RefundRow == [amount : Nat, total : Nat]
           row == [amount |-> amount, total |-> TotalRefunded + amount]
<1>1. refunds \in Seq(RefundRow) /\ row \in RefundRow /\ row.amount = amount
  BY RefundedSoFar DEF PayTypeOK
<1>2. Refunded(amount) = Append(refunds, row)
  BY DEF Refunded
<1> HIDE DEF RefundRow, row
<1>3. /\ Append(refunds, row) \in Seq(RefundRow)
      /\ Len(Append(refunds, row)) = Len(refunds) + 1
      /\ \A i \in 1..Len(refunds) : Append(refunds, row)[i] = refunds[i]
      /\ Append(refunds, row)[Len(refunds) + 1] = row
  BY <1>1, AppendProperties
<1>4. Len(refunds) \in Nat
  BY <1>1, LenProperties
<1> QED
  BY <1>1, <1>2, <1>3, <1>4 DEF RefundRow

LEMMA PolicyRefundIsPart ==
    ASSUME NEW pct \in RefundPcts, NEW paid \in Nat
    PROVE  PolicyRefund(pct, paid) \in Nat /\ PolicyRefund(pct, paid) <= paid
<1>1. pct \in Nat
  BY AmountsAssumption
<1>2. Total * pct \in Nat
  BY <1>1, AmountsAreNat, ProductGrows
<1> DEFINE refund == (Total * pct + 50) \div 100
<1>3. refund \in Nat
  BY <1>2
<1> QED
  BY <1>3 DEF PolicyRefund

PayRequest(stage, op, paid, refunded, amount, seen) ==
    [stage |-> stage, op |-> op, paid |-> paid, refunded |-> refunded, amount |-> amount, seen |-> seen]

\* What a request starts with.
LEMMA TaskBegins ==
    /\ \A paid : [IdleTask EXCEPT !.stage = "read", !.op = Cancel, !.paid = paid]
                    = PayRequest("read", Cancel, paid, 0, 0, "PAYMENT_PENDING")
    /\ \A paid, refunded, amount :
          [IdleTask EXCEPT !.stage = "read", !.op = Refund, !.amount = amount,
                           !.paid = paid, !.refunded = refunded]
             = PayRequest("read", Refund, paid, refunded, amount, "PAYMENT_PENDING")
    /\ \A op, seen : [IdleTask EXCEPT !.stage = "fresh", !.op = op, !.seen = seen]
                        = PayRequest("fresh", op, 0, 0, 0, seen)
    /\ IdleTask = PayRequest("idle", Cancel, 0, 0, 0, "PAYMENT_PENDING")
<1>1. ASSUME NEW paid, NEW t,
             t = [IdleTask EXCEPT !.stage = "read", !.op = Cancel, !.paid = paid]
      PROVE  t = PayRequest("read", Cancel, paid, 0, 0, "PAYMENT_PENDING")
  BY <1>1 DEF IdleTask, PayRequest
<1>2. ASSUME NEW paid, NEW refunded, NEW amount, NEW t,
             t = [IdleTask EXCEPT !.stage = "read", !.op = Refund, !.amount = amount,
                                  !.paid = paid, !.refunded = refunded]
      PROVE  t = PayRequest("read", Refund, paid, refunded, amount, "PAYMENT_PENDING")
  BY <1>2 DEF IdleTask, PayRequest
<1>3. ASSUME NEW op, NEW seen, NEW t,
             t = [IdleTask EXCEPT !.stage = "fresh", !.op = op, !.seen = seen]
      PROVE  t = PayRequest("fresh", op, 0, 0, 0, seen)
  BY <1>3 DEF IdleTask, PayRequest
<1>4. IdleTask = PayRequest("idle", Cancel, 0, 0, 0, "PAYMENT_PENDING")
  BY DEF IdleTask, PayRequest
<1> QED
  BY <1>1, <1>2, <1>3, <1>4

LEMMA RequestTyped ==
    ASSUME NEW stage \in {"idle", "read", "fresh"}, NEW op \in TaskOps, NEW paid \in Nat,
           NEW refunded \in Nat, NEW amount \in Nat, NEW seen \in Statuses
    PROVE  /\ PayRequest(stage, op, paid, refunded, amount, seen) \in TaskType
           /\ PayRequest(stage, op, paid, refunded, amount, seen).op = op
           /\ PayRequest(stage, op, paid, refunded, amount, seen).paid = paid
           /\ PayRequest(stage, op, paid, refunded, amount, seen).amount = amount
BY DEF PayRequest, TaskType

\* Each request's record in turn: new, read anew, given up or left alone.
LEMMA EveryTask ==
    ASSUME PayTypeOK, Shape, OnlyPaidIsReported, TasksWithinCollected, PayNext
    PROVE  /\ task' \in [Clients -> TaskType]
           /\ \A p \in Clients : /\ task'[p].paid <= Collected
                                 /\ task'[p].op = Refund => task'[p].amount <= task'[p].paid
<1> DEFINE Ok(t) == t \in TaskType /\ t.paid <= Collected /\ (t.op = Refund => t.amount <= t.paid)
<1>0. task \in [Clients -> TaskType] /\ \A p \in Clients : Ok(task[p])
  BY DEF PayTypeOK, TasksWithinCollected
<1> SUFFICES task' \in [Clients -> TaskType] /\ \A q \in Clients : Ok(task'[q])
  OBVIOUS
<1>1. ASSUME NEW p \in Clients, NEW t, task' = [task EXCEPT ![p] = t], Ok(t)
      PROVE  task' \in [Clients -> TaskType] /\ \A q \in Clients : Ok(task'[q])
  BY <1>0, <1>1
<1>a. TotalPaid \in Nat /\ Collected \in Nat /\ TotalPaid <= Collected /\ TotalRefunded \in Nat
  BY PaidWithinCollected, RefundedSoFar
<1>b. /\ status \in Statuses /\ "PAYMENT_PENDING" \in Statuses
      /\ Cancel \in TaskOps /\ Refund \in TaskOps /\ Cancel # Refund
      /\ Refund \notin MoveEvents \cup {Manual}
  BY MovesAssumption DEF Shape, Statuses, TaskOps, Cancel, Refund, Manual
<1>2. Ok(IdleTask)
  <2> DEFINE t == PayRequest("idle", Cancel, 0, 0, 0, "PAYMENT_PENDING")
  <2>1. IdleTask = t
    BY TaskBegins
  <2>2. t \in TaskType /\ t.op = Cancel /\ t.paid = 0
    BY <1>b, RequestTyped
  <2> HIDE DEF t
  <2> QED
    BY <1>a, <1>b, <2>1, <2>2
<1>3. ASSUME NEW p \in Clients, BeginCancel(p)
      PROVE  task' \in [Clients -> TaskType] /\ \A q \in Clients : Ok(task'[q])
  <2>1. Ok(PayRequest("read", Cancel, TotalPaid, 0, 0, "PAYMENT_PENDING"))
    BY <1>a, <1>b, RequestTyped
  <2>2. task' = [task EXCEPT ![p] = PayRequest("read", Cancel, TotalPaid, 0, 0, "PAYMENT_PENDING")]
    BY <1>3, TaskBegins DEF BeginCancel, Begin
  <2> HIDE DEF Ok
  <2> QED
    BY <1>1, <2>1, <2>2
<1>4. ASSUME NEW p \in Clients, NEW amount \in 1..Total, BeginRefund(p, amount)
      PROVE  task' \in [Clients -> TaskType] /\ \A q \in Clients : Ok(task'[q])
  <2> DEFINE t == PayRequest("read", Refund, TotalPaid, TotalRefunded, amount, "PAYMENT_PENDING")
  <2>0. amount \in Nat
    BY AmountsAreNat
  <2>1. task' = [task EXCEPT ![p] = t]
    <3>1. [IdleTask EXCEPT !.stage = "read", !.op = Refund, !.amount = amount,
                           !.paid = TotalPaid, !.refunded = TotalRefunded] = t
      BY TaskBegins
    <3> QED
      BY <1>4, <3>1 DEF BeginRefund, Begin
  <2>2. amount <= TotalPaid
    BY <1>4, <1>a, <2>0 DEF BeginRefund
  <2>3. Ok(t)
    BY <1>a, <1>b, <2>0, <2>2, RequestTyped
  <2> HIDE DEF Ok, t
  <2> QED
    BY <1>1, <2>1, <2>3
<1>5. ASSUME NEW p \in Clients, NEW op \in TaskOps, BeginMove(p, op)
      PROVE  task' \in [Clients -> TaskType] /\ \A q \in Clients : Ok(task'[q])
  <2> DEFINE t == PayRequest("fresh", op, 0, 0, 0, status)
  <2>1. op # Refund /\ task' = [task EXCEPT ![p] = t]
    BY <1>5, <1>b, TaskBegins DEF BeginMove, Begin
  <2>2. Ok(t)
    BY <1>a, <1>b, <2>1, RequestTyped
  <2> HIDE DEF Ok, t
  <2> QED
    BY <1>1, <2>1, <2>2
<1>6. ASSUME NEW p \in Clients, ReadFresh(p)
      PROVE  task' \in [Clients -> TaskType] /\ \A q \in Clients : Ok(task'[q])
  <2>1. task' = [task EXCEPT ![p] = [task[p] EXCEPT !.stage = "fresh", !.seen = status]]
    BY <1>0, <1>6 DEF ReadFresh
  <2>2. task[p] \in TaskType /\ Ok(task[p]) /\ status \in Statuses
    BY <1>0 DEF Shape
  <2>3. Ok([task[p] EXCEPT !.stage = "fresh", !.seen = status])
    BY <2>2 DEF TaskType
  <2> QED
    BY <1>1, <2>1, <2>3
<1>7. ASSUME NEW p \in Clients, Done(p)
      PROVE  task' \in [Clients -> TaskType] /\ \A q \in Clients : Ok(task'[q])
  BY <1>1, <1>2, <1>7 DEF Done
<1>8. ASSUME task' = task
      PROVE  task' \in [Clients -> TaskType] /\ \A q \in Clients : Ok(task'[q])
  BY <1>0, <1>8
<1> HIDE DEF Ok
<1> QED
  BY <1>3, <1>4, <1>5, <1>6, <1>7, <1>8, PayActions
     DEF Reported, InitPayment, Attempt, ReceiveWebhook, ReconRead, FinishCancel, FinishRefund,
         FinishMove, FinishManual, RollBack

\* A refund row is new: then it is a request's, within what that request read.
LEMMA EveryRefund ==
    ASSUME PayTypeOK, Shape, OnlyPaidIsReported, TaskIsBacked, TasksWithinCollected,
           EachRefundWithinCollected, PayNext
    PROVE  /\ refunds' \in Seq([amount : Nat, total : Nat])
           /\ \A i \in 1..Len(refunds') : refunds'[i].amount <= Collected
<1>0. \A p \in Clients : task[p] \in TaskType
  BY DEF PayTypeOK
<1>1. ASSUME NEW amount \in Nat, amount <= Collected, refunds' = Refunded(amount)
      PROVE  /\ refunds' \in Seq([amount : Nat, total : Nat])
             /\ \A i \in 1..Len(refunds') : refunds'[i].amount <= Collected
  BY <1>1, RefundIsNoted DEF EachRefundWithinCollected
<1>2. ASSUME UNCHANGED refunds
      PROVE  /\ refunds' \in Seq([amount : Nat, total : Nat])
             /\ \A i \in 1..Len(refunds') : refunds'[i].amount <= Collected
  BY <1>2 DEF PayTypeOK, EachRefundWithinCollected
<1>3. ASSUME NEW p \in Clients, FinishCancel(p)
      PROVE  /\ refunds' \in Seq([amount : Nat, total : Nat])
             /\ \A i \in 1..Len(refunds') : refunds'[i].amount <= Collected
  <2>1. PICK pct \in RefundPcts :
           refunds' = IF PolicyRefund(pct, task[p].paid) > 0
                      THEN Refunded(PolicyRefund(pct, task[p].paid)) ELSE refunds
    BY <1>3 DEF FinishCancel
  <2>2. task[p].paid \in Nat /\ task[p].paid <= Collected /\ Collected \in Nat
    BY <1>0, PaidWithinCollected DEF TasksWithinCollected, TaskType
  <2>3. PolicyRefund(pct, task[p].paid) \in Nat /\ PolicyRefund(pct, task[p].paid) <= Collected
    BY <2>2, PolicyRefundIsPart
  <2> QED
    BY <1>1, <1>2, <2>1, <2>3
<1>4. ASSUME NEW p \in Clients, FinishRefund(p)
      PROVE  /\ refunds' \in Seq([amount : Nat, total : Nat])
             /\ \A i \in 1..Len(refunds') : refunds'[i].amount <= Collected
  <2>1. refunds' = Refunded(task[p].amount) /\ task[p].op = Refund
    BY <1>4 DEF FinishRefund
  <2>2. /\ task[p].amount \in Nat /\ task[p].paid \in Nat /\ Collected \in Nat
        /\ task[p].amount <= task[p].paid /\ task[p].paid <= Collected
    BY <1>0, <2>1, PaidWithinCollected DEF TasksWithinCollected, TaskType
  <2> QED
    BY <1>1, <2>1, <2>2
<1>5. ASSUME NEW o \in Orders, NEW kind \in Kinds,
             Capture(o) \/ MarkFailed(o) \/ InitPayment(o, kind)
      PROVE  UNCHANGED refunds
  BY <1>5 DEF InitPayment, Capture, MarkFailed
<1>6. ASSUME NEW p \in Clients, FinishMove(p) \/ FinishManual(p) PROVE UNCHANGED refunds
  BY <1>6 DEF FinishMove, FinishManual
<1>7. (\E p \in Clients : FinishCancel(p) \/ FinishRefund(p)) \/ UNCHANGED refunds
  BY <1>5, <1>6, MoneySteps DEF Kinds
<1> QED
  BY <1>2, <1>3, <1>4, <1>7

\* What the reporters have queued, listed and read has its shape.
ReportsOK ==
    /\ processed \subseteq EventIds /\ inbox \subseteq processed
    /\ batch \subseteq Orders /\ sound \in BOOLEAN
    /\ recon \in [order : Orders \cup {NoOrder}, verdict : Outcomes]

\* The queues of the reporters, and the history of overwritten rows.
LEMMA ReportsTyped ==
    ASSUME PayTypeOK, Shape, OnlyPaidIsReported, PayNext
    PROVE  ReportsOK' /\ demoted' \subseteq Orders
<1> USE DEF PayTypeOK, ReportsOK
<1>1. demoted' \subseteq Orders
  BY PayActions, RefundCases DEF InitPayment, Attempt, ReceiveWebhook, ReconRead, Capture, MarkFailed,
       BeginCancel, BeginRefund, BeginMove, Begin, ReadFresh, RollBack, FinishCancel, FinishRefund,
       FinishMove, FinishManual
<1>2. NoRecon \in [order : Orders \cup {NoOrder}, verdict : Outcomes]
  BY DEF NoRecon, Outcomes
<1>3. ASSUME UNCHANGED reports PROVE ReportsOK'
  BY <1>3
<1>4. ASSUME NEW e \in EventIds, ReceiveWebhook(e) \/ HandleWebhook(e) \/ LoseWebhook(e)
      PROVE  ReportsOK'
  BY <1>4 DEF ReceiveWebhook, HandleWebhook, LoseWebhook
<1>5. ASSUME NEW o \in Orders, ReconRead(o) PROVE ReportsOK'
  BY <1>5 DEF ReconRead, Outcomes
<1>6. ASSUME NEW o \in Orders, ReconList(o) PROVE ReportsOK'
  BY <1>6 DEF ReconList, Stale, Initiated
<1>7. ASSUME NEW o \in Orders, ReconApply(o) \/ ReconSkip(o) PROVE ReportsOK'
  <2>1. Finished(o) /\ UNCHANGED <<processed, inbox>>
    BY <1>7 DEF ReconApply, ReconSkip
  <2>2. sound' \in BOOLEAN
    BY <2>1 DEF Finished
  <2> QED
    BY <1>2, <2>1, <2>2 DEF Finished
<1>8. ASSUME ReconDies PROVE ReportsOK'
  BY <1>2, <1>8 DEF ReconDies
<1>9. ASSUME NEW p \in Clients, ClientStep(p) PROVE UNCHANGED reports
  BY <1>9 DEF ClientStep, BeginCancel, BeginRefund, BeginMove, Begin, ReadFresh, RollBack,
              FinishCancel, FinishRefund, FinishMove, FinishManual
<1>10. \/ \E e \in EventIds : ReceiveWebhook(e) \/ HandleWebhook(e) \/ LoseWebhook(e)
       \/ \E o \in Orders : ReconList(o) \/ ReconRead(o) \/ ReconApply(o) \/ ReconSkip(o)
       \/ ReconDies
       \/ UNCHANGED reports
  BY <1>9 DEF PayNext, InitPayment, Attempt
<1> QED
  BY <1>1, <1>3, <1>4, <1>5, <1>6, <1>7, <1>8, <1>10

------------------------------------------------------------------------------
LEMMA PInvInit == ASSUME PayInit PROVE PInv
<1>1. Shape
  BY DEF PayInit, Shape, RowType, Kinds, Statuses
<1>2. OnlyPaidIsReported
  BY OrdersAssumption DEF PayInit, OnlyPaidIsReported, PaidAtGateway, NoRecon
<1>3. BookedIsCaptured /\ UnbookedCaptureIsExtra
  BY DEF PayInit, BookedIsCaptured, UnbookedCaptureIsExtra
<1>4. StatusIsBacked /\ PaidInFullUnlessDemoted
  BY DEF PayInit, StatusIsBacked, Confirmed, AwaitsBalance, PaidInFullUnlessDemoted
<1>5. TaskIsBacked
  BY DEF PayInit, TaskIsBacked, IdleTask
<1> QED
  BY <1>1, <1>2, <1>3, <1>4, <1>5 DEF PInv

LEMMA PInvStep == ASSUME PInv, [PayNext]_payVars PROVE PInv'
<1>1. CASE PayNext
  <2> USE DEF PInv
  <2>1. Shape' /\ OnlyPaidIsReported'
    BY <1>1, ShapeStep, OnlyPaidStep
  <2>2. BookedIsCaptured' /\ StatusIsBacked'
    BY <1>1, BookedStep, StatusStep
  <2>3. TaskIsBacked'
    BY <1>1, TaskStep
  <2>4. PaidInFullUnlessDemoted' /\ UnbookedCaptureIsExtra'
    BY <1>1, PaidInFullStep, ExtraStep
  <2> QED
    BY <2>1, <2>2, <2>3, <2>4
<1>2. CASE UNCHANGED payVars
  BY <1>2 DEF PInv, Shape, OnlyPaidIsReported, BookedIsCaptured, StatusIsBacked, TaskIsBacked,
              PaidInFullUnlessDemoted, UnbookedCaptureIsExtra, PaidAtGateway, MoneyIn, DepositIn,
              Amount, DepositAmount, BalanceAmount
<1> QED
  BY <1>1, <1>2

LEMMA PInvHolds == PaySpec => []PInv
BY PInvInit, PInvStep, PTL DEF PaySpec

\* A capture enters the ledger once, however many events, retries and job runs
\* report it, unless a late payment.failed has overwritten its row.
THEOREM LedgerBooksOnce == PaySpec => []BookedOnceUnlessDemoted
<1>1. PInv => BookedOnceUnlessDemoted
  BY DEF PInv, BookedIsCaptured, BookedOnceUnlessDemoted
<1> QED
  BY <1>1, PInvHolds, PTL

\* CONFIRMED_PAID stands for money: one payment of the price, a deposit and a
\* payment for the rest, or an offline payment; unless a row was overwritten.
THEOREM PaidInFull == PaySpec => []PaidInFullUnlessDemoted
<1>1. PInv => PaidInFullUnlessDemoted
  BY DEF PInv
<1> QED
  BY <1>1, PInvHolds, PTL

\* A captured payment is left out of the ledger only when the booking had
\* already been confirmed by another one.
THEOREM ExtraCaptures == PaySpec => []UnbookedCaptureIsExtra
<1>1. PInv => UnbookedCaptureIsExtra
  BY DEF PInv
<1> QED
  BY <1>1, PInvHolds, PTL

LEMMA RefundInvInit == ASSUME PayInit PROVE RefundInv
<1>1. PayTypeOK
  <2>1. Shape /\ \A p \in Clients : task[p] = IdleTask
    BY PInvInit DEF PInv, PayInit
  <2>2. task \in [Clients -> TaskType]
    BY TaskBegins, RequestTyped DEF PayInit, TaskOps, Statuses
  <2>3. NoRecon \in [order : Orders \cup {NoOrder}, verdict : Outcomes]
    BY DEF NoRecon, Outcomes
  <2>4. refunds \in Seq([amount : Nat, total : Nat])
    BY DEF PayInit
  <2> QED
    BY <2>1, <2>2, <2>3, <2>4 DEF Shape, PayInit, PayTypeOK
<1>2. Collected \in Nat
  BY PInvInit, PaidWithinCollected DEF PInv
<1>3. TasksWithinCollected /\ EachRefundWithinCollected
  BY <1>2 DEF PayInit, TasksWithinCollected, EachRefundWithinCollected, IdleTask, Cancel, Refund
<1> QED
  BY <1>1, <1>3 DEF RefundInv

LEMMA RefundInvStep == ASSUME PInv, RefundInv, [PayNext]_payVars PROVE RefundInv'
<1>1. CASE PayNext
  <2> USE DEF PInv, RefundInv
  <2>1. Shape' /\ Collected \in Nat /\ Collected' \in Nat /\ Collected <= Collected'
    BY <1>1, ShapeStep, GrowsStep, CollectedGrows, PaidWithinCollected
  <2>2. offline' \in BOOLEAN
    BY <1>1, MoneySteps, RefundCases, MoveCases, ManualCase
       DEF PayTypeOK, InitPayment, Capture, MarkFailed
  <2>3. task' \in [Clients -> TaskType] /\ refunds' \in Seq([amount : Nat, total : Nat])
    BY <1>1, EveryTask, EveryRefund
  <2>4. PayTypeOK'
    BY <1>1, <2>1, <2>2, <2>3, ReportsTyped DEF PayTypeOK, Shape, ReportsOK
  <2>5. TasksWithinCollected'
    <3>1. SUFFICES ASSUME NEW p \in Clients
                   PROVE  /\ task'[p].paid <= Collected'
                          /\ task'[p].op = Refund => task'[p].amount <= task'[p].paid
      BY DEF TasksWithinCollected
    <3>2. task'[p].paid \in Nat /\ task'[p].paid <= Collected
      BY <1>1, <2>3, EveryTask DEF TaskType
    <3> QED
      BY <1>1, <2>1, <3>2, EveryTask
  <2>6. EachRefundWithinCollected'
    <3>1. SUFFICES ASSUME NEW i \in 1..Len(refunds') PROVE refunds'[i].amount <= Collected'
      BY DEF EachRefundWithinCollected
    <3>2. refunds'[i].amount <= Collected
      BY <1>1, EveryRefund
    <3>3. refunds'[i] \in [amount : Nat, total : Nat]
      BY <2>3, ElementOfSeq
    <3> QED
      BY <2>1, <3>2, <3>3
  <2> QED
    BY <2>4, <2>5, <2>6
<1>2. CASE UNCHANGED payVars
  <2>1. Collected' = Collected
    BY <1>2 DEF Collected, SumOfOrders, CountOf, PaidAtGateway, OfflinePaid
  <2>2. PayTypeOK'
    BY <1>2 DEF RefundInv, PayTypeOK
  <2>3. TasksWithinCollected' /\ EachRefundWithinCollected'
    BY <1>2, <2>1 DEF RefundInv, TasksWithinCollected, EachRefundWithinCollected
  <2> QED
    BY <2>2, <2>3 DEF RefundInv
<1> QED
  BY <1>1, <1>2

LEMMA RefundInvHolds == PaySpec => []RefundInv
BY RefundInvInit, RefundInvStep, PInvHolds, PTL DEF PaySpec

\* Rows, reports and running transactions have the shape the code gives them; in
\* particular every sum a refund starts from is an amount.
THEOREM MoneyTyped == PaySpec => []PayTypeOK
<1>1. RefundInv => PayTypeOK
  BY DEF RefundInv
<1> QED
  BY <1>1, RefundInvHolds, PTL

\* No refund row, of a cancellation or of the back office, exceeds what the guest
\* had really paid, for any price, any policy and any number of orders.
THEOREM NoRefundExceedsCollected == PaySpec => []EachRefundWithinCollected
<1>1. RefundInv => EachRefundWithinCollected
  BY DEF RefundInv
<1> QED
  BY <1>1, RefundInvHolds, PTL

------------------------------------------------------------------------------
(* The nights and the money together (module MCBookings). *)

\* Behaviours of the composition that is model-checked are behaviours of either side,
\* so that what is proved of a side holds in the composition.
THEOREM BookingsAreComposed == BookingsSpec => Spec /\ PaySpec
<1>1. BookingsInit => Init /\ PayInit
  BY DEF BookingsInit
<1>2. [BookingsNext]_<<side, vars, payVars>> => [Next]_vars /\ [PayNext]_payVars
  BY DEF BookingsNext
<1> QED
  BY <1>1, <1>2, PTL DEF BookingsSpec, Spec, PaySpec

\* In the composition the rows and the requests of both sides have their types.
THEOREM BookingsTyped == BookingsSpec => []BookingsTypeOK
BY BookingsAreComposed, CalendarTyped, MoneyTyped, PTL DEF BookingsTypeOK
=============================================================================
