------------------------------- MODULE Payments -------------------------------
(***************************************************************************)
(* The money of one online booking (plans FULL and DEPOSIT_50): its orders *)
(* at the payment gateway, the webhook and the reconciliation job that     *)
(* both report a capture, the ledger, and the requests that refund, cancel *)
(* or move the booking meanwhile (payment/payment.service.ts, confirm-     *)
(* Payment, settleBalance and cancelBookingInternal of booking/booking.    *)
(* service.ts, createRefund of admin/admin.service.ts).                    *)
(*                                                                         *)
(* Webhook events may be lost, delayed, reordered and redelivered.  The    *)
(* event id is recorded BEFORE and outside the transaction that handles    *)
(* it, so a handler that dies after that is not called again.              *)
(*                                                                         *)
(* A capture is one SERIALIZABLE transaction: one step.  Any other write   *)
(* to the booking goes by id after a separate read, see Reservation; here  *)
(* its UPDATE and COMMIT are one step, since nobody reads in between.      *)
(***************************************************************************)
EXTENDS BookingStateMachine, Sequences, FiniteSets

CONSTANTS Orders,     \* Payment rows, each with its gateway order, numbered as created
          Declinable, \* orders on which an attempt may be declined first
          Clients,      \* concurrent READ COMMITTED requests
          Total,      \* price of the booking
          RefundPcts, \* refund percentages of the cancellation tiers
          MoveEvents, \* other READ COMMITTED events: check-in, cron, completion
          MaxRefunds, \* bound on refund rows
          ReconLimit, \* rows one run of the reconciliation job lists: 100
          NoOrder

ASSUME OrdersAssumption ==
    /\ IsFiniteSet(Orders) /\ Orders \subseteq Nat /\ NoOrder \notin Orders
    /\ Declinable \subseteq Orders /\ ReconLimit \in Nat \ {0}
ASSUME AmountsAssumption  == Total \in Nat \ {0} /\ RefundPcts \subseteq 0..100 /\ MaxRefunds \in Nat
ASSUME MovesAssumption   == MoveEvents \subseteq {"BALANCE_DUE_TRIGGERED", "CHECKED_IN", "STAY_COMPLETED"}

VARIABLES plan,       \* the booking's payment plan
          status,     \* the booking's status
          rows,       \* Payment rows: type and status
          attempts,   \* what the gateway knows of each order
          processed,  \* ProcessedRazorpayEvent ids
          inbox,      \* events recorded and not yet handled
          batch,      \* orders the running reconciliation job has yet to finish
          sound,      \* whether it is a run in which nothing fails
          recon,      \* the order it has asked the gateway about, and the verdict
          task,       \* what each READ COMMITTED request has read
          booked,     \* number of PAYMENT_CAPTURED ledger entries of each order
          offline,    \* the offline payment of manualConfirm exists
          refunds,    \* refund rows (and REFUND_ISSUED entries), each with the sum so far
          demoted     \* history: orders whose CAPTURED row was overwritten

payVars == <<plan, status, rows, attempts, processed, inbox, batch, sound, recon, task,
             booked, offline, refunds, demoted>>
money   == <<plan, status, rows, booked, offline, refunds, demoted>>
reports == <<processed, inbox, batch, sound, recon>>

------------------------------------------------------------------------------
Outcomes == {"captured", "failed"}
EventIds == [outcome : Outcomes, order : Orders]     \* payment.captured, payment.failed
Kinds    == {"FULL", "DEPOSIT", "BALANCE"}
RowType  == [st : {"none", "INITIATED", "CAPTURED", "FAILED"}, kind : Kinds]

\* pricing.service.ts: Math.round(total * 0.5), and the rest.
DepositAmount == (Total + 1) \div 2
BalanceAmount == Total - DepositAmount
Amount(kind)  == CASE kind = "FULL" -> Total
                   [] kind = "DEPOSIT" -> DepositAmount
                   [] kind = "BALANCE" -> BalanceAmount

Cancel    == "ADMIN_CANCELLED"
Refund    == "ADMIN_REFUND"          \* createRefund; not an event of the table
FullRefund == "ADMIN_FULL_REFUND_ISSUED"
Manual    == "MANUAL_CONFIRMED"
TaskOps   == {Cancel, Refund, Manual} \cup MoveEvents
TaskType  == [stage : {"idle", "read", "fresh"}, op : TaskOps, paid : Nat, refunded : Nat,
              amount : Nat, seen : Statuses]
IdleTask  == [stage |-> "idle", op |-> Cancel, paid |-> 0, refunded |-> 0,
              amount |-> 0, seen |-> "PAYMENT_PENDING"]
NoRecon   == [order |-> NoOrder, verdict |-> "failed"]

\* What the Payment rows say was paid: the figure every refund starts from.
PaidRows  == {o \in Orders : rows[o].st = "CAPTURED"}
OfflinePaid == IF offline THEN Total ELSE 0
CountOf(S, kind) == Cardinality({o \in S : rows[o].kind = kind})
SumOfOrders(S) == Total * CountOf(S, "FULL") + DepositAmount * CountOf(S, "DEPOSIT")
                                             + BalanceAmount * CountOf(S, "BALANCE")
TotalPaid == SumOfOrders(PaidRows) + OfflinePaid
TotalRefunded == IF refunds = <<>> THEN 0 ELSE refunds[Len(refunds)].total
Refunded(amount) == Append(refunds, [amount |-> amount, total |-> TotalRefunded + amount])

\* What the guest really paid.
PaidAtGateway(o) == "captured" \in attempts[o]
Collected == SumOfOrders({o \in Orders : PaidAtGateway(o)}) + OfflinePaid

------------------------------------------------------------------------------
PayInit ==
    /\ plan \in {"FULL", "DEPOSIT_50"}
    /\ status = "PAYMENT_PENDING"
    /\ rows = [o \in Orders |-> [st |-> "none", kind |-> "FULL"]]
    /\ attempts = [o \in Orders |-> {}]
    /\ processed = {} /\ inbox = {}
    /\ batch = {} /\ sound = FALSE /\ recon = NoRecon
    /\ task = [p \in Clients |-> IdleTask]
    /\ booked = [o \in Orders |-> 0]
    /\ offline = FALSE
    /\ refunds = <<>>
    /\ demoted = {}

(* The guest and the gateway *)

\* initPayment: only a BALANCE order looks at the booking's status.
InitPayment(o, kind) ==
    /\ rows[o].st = "none" /\ \A earlier \in Orders : earlier < o => rows[earlier].st # "none"
    /\ \/ kind = "FULL" /\ plan = "FULL"
       \/ kind = "DEPOSIT" /\ plan = "DEPOSIT_50"
       \/ kind = "BALANCE" /\ status \in {"BALANCE_DUE", "CONFIRMED_DEPOSIT"}
    /\ rows' = [rows EXCEPT ![o] = [st |-> "INITIATED", kind |-> kind]]
    /\ UNCHANGED <<reports, plan, status, attempts, task, booked, offline, refunds, demoted>>

\* An attempt on the order is declined, or the order is paid: once.
Attempt(o, outcome) ==
    /\ rows[o].st # "none" /\ ~PaidAtGateway(o)
    /\ outcome \notin attempts[o]
    /\ outcome = "failed" => o \in Declinable
    /\ attempts' = [attempts EXCEPT ![o] = @ \cup {outcome}]
    /\ UNCHANGED <<money, reports, task>>

------------------------------------------------------------------------------
(* The capture transaction: handlePaymentCaptured *)

AlreadyConfirmedAndCancelled ==   \* mutant: a cancelled booking counts as done
    {"CONFIRMED_DEPOSIT", "CONFIRMED_PAID", "BALANCE_DUE", "COMPLETED", "CANCELLED"}
AlreadyConfirmedForgetsPaid == {"CONFIRMED_DEPOSIT", "BALANCE_DUE", "COMPLETED"}   \* mutant
AlreadyConfirmed == {"CONFIRMED_DEPOSIT", "CONFIRMED_PAID", "BALANCE_DUE", "COMPLETED"}
AwaitsBalance    == {"CONFIRMED_DEPOSIT", "BALANCE_DUE"}

FirstCaptured == IF plan = "FULL" THEN "PAYMENT_CONFIRMED_FULL" ELSE "PAYMENT_CONFIRMED_DEPOSIT"
ExpectedFirstCapture == IF plan = "FULL" THEN Total ELSE DepositAmount

Book(o, event) ==
    /\ status' = Target(event, status, 0)
    /\ booked' = [booked EXCEPT ![o] = @ + 1]

SettleByCapture(o) ==
    /\ status \in AwaitsBalance
    /\ Amount(rows[o].kind) = BalanceAmount
    /\ Book(o, "BALANCE_PAID")

ConfirmByCapture(o) ==
    \/ /\ status \in AlreadyConfirmed
       /\ UNCHANGED <<status, booked>>
    \/ /\ status = "PAYMENT_PENDING"
       /\ Amount(rows[o].kind) = ExpectedFirstCapture
       /\ Book(o, FirstCaptured)

\* What the checks of the capture transaction let through.
Takes(o) ==
    \/ rows[o].st = "CAPTURED"
    \/ status \in AwaitsBalance /\ Amount(rows[o].kind) = BalanceAmount
    \/ status \in AlreadyConfirmed \ AwaitsBalance
    \/ status = "PAYMENT_PENDING" /\ Amount(rows[o].kind) = ExpectedFirstCapture

CaptureAgain(o) ==   \* mutant: the row's status is not looked at
    /\ rows' = [rows EXCEPT ![o].st = "CAPTURED"]
    /\ IF status \in AwaitsBalance THEN SettleByCapture(o) ELSE ConfirmByCapture(o)
    /\ UNCHANGED <<plan, attempts, offline, refunds, demoted>>

\* Everything commits together or, when one of the checks throws, not at all:
\* then Capture(o) is not enabled and the event or verdict is only used up.
Capture(o) ==
    /\ IF rows[o].st = "CAPTURED" THEN UNCHANGED <<rows, status, booked>>
       ELSE /\ rows' = [rows EXCEPT ![o].st = "CAPTURED"]
            /\ IF status \in AwaitsBalance THEN SettleByCapture(o) ELSE ConfirmByCapture(o)
    /\ UNCHANGED <<plan, attempts, offline, refunds, demoted>>

\* handlePaymentFailed and the job's verdict: whatever the row says by now.
MarkFailed(o) ==
    /\ demoted' = IF rows[o].st = "CAPTURED" THEN demoted \cup {o} ELSE demoted
    /\ rows' = [rows EXCEPT ![o].st = "FAILED"]
    /\ UNCHANGED <<plan, status, attempts, booked, offline, refunds>>

------------------------------------------------------------------------------
(* The webhook *)

\* The id is inserted; a redelivery of a recorded id ends here.
ReceiveWebhook(e) ==
    /\ e.outcome \in attempts[e.order] /\ e \notin processed
    /\ processed' = processed \cup {e}
    /\ inbox' = inbox \cup {e}
    /\ UNCHANGED <<money, attempts, batch, sound, recon, task>>

HandleWebhook(e) ==
    /\ e \in inbox
    /\ IF e.outcome = "captured" THEN Capture(e.order) ELSE MarkFailed(e.order)
    /\ inbox' = inbox \ {e}
    /\ UNCHANGED <<processed, batch, sound, recon, task>>

\* The handler throws, or the server goes down before it ran.
LoseWebhook(e) ==
    /\ e \in inbox
    /\ inbox' = inbox \ {e}
    /\ UNCHANGED <<money, attempts, processed, batch, sound, recon, task>>

(* The reconciliation job *)

Initiated == {o \in Orders : rows[o].st = "INITIATED"}
Stale == {o \in Initiated : Cardinality({x \in Initiated : x < o}) < ReconLimit}

\* A run lists the oldest INITIATED rows, ReconLimit of them at most, of those
\* created before its cutoff.  A row that stays INITIATED keeps its place.  In a
\* sound run the worker does not die and neither gateway nor database fails.
ReconList(cutoff) ==
    /\ batch = {}
    /\ batch' = {o \in Stale : o <= cutoff} /\ batch' # {}
    /\ sound' \in BOOLEAN
    /\ UNCHANGED <<money, attempts, processed, inbox, recon, task>>

IsNext(o) == recon = NoRecon /\ o \in batch /\ \A x \in batch : o <= x

ReconReadAnyAttempt(o) ==   \* mutant: any attempt at the gateway counts as a capture
    /\ IsNext(o) /\ attempts[o] # {}
    /\ recon' = [order |-> o, verdict |-> "captured"]
    /\ UNCHANGED <<money, attempts, processed, inbox, batch, sound, task>>

\* The gateway is asked what became of the next listed order, whatever its row
\* says by now.
ReconRead(o) ==
    /\ IsNext(o) /\ attempts[o] # {}
    /\ recon' = [order |-> o, verdict |-> IF PaidAtGateway(o) THEN "captured" ELSE "failed"]
    /\ UNCHANGED <<money, attempts, processed, inbox, batch, sound, task>>

Finished(o) ==
    /\ recon' = NoRecon /\ batch' = batch \ {o}
    /\ sound' = (sound /\ batch' # {})

ReconApply(o) ==
    /\ recon.order = o
    /\ IF recon.verdict = "captured" THEN Capture(o) ELSE MarkFailed(o)
    /\ Finished(o)
    /\ UNCHANGED <<processed, inbox, task>>

\* No attempt was made, the gateway or the transaction throws: on to the next.
ReconSkip(o) ==
    /\ \/ IsNext(o) /\ (sound => attempts[o] = {})
       \/ recon.order = o /\ (sound => recon.verdict = "captured" /\ ~Takes(o))
    /\ Finished(o)
    /\ UNCHANGED <<money, attempts, processed, inbox, task>>

\* The worker dies, and the rest of its list with it.
ReconDies ==
    /\ batch # {} /\ ~sound
    /\ recon' = NoRecon /\ batch' = {} /\ UNCHANGED sound
    /\ UNCHANGED <<money, attempts, processed, inbox, task>>

------------------------------------------------------------------------------
(* READ COMMITTED requests *)

Begin(p, t) ==
    /\ task[p].stage = "idle"
    /\ task' = [task EXCEPT ![p] = t]
    /\ UNCHANGED <<money, reports, attempts>>

\* cancelBooking and autoCancelUnpaidBalance: the payments are summed up outside
\* the transaction.
BeginCancel(p) ==
    /\ status \in Cancellable \ {"CHECKED_IN"}
    /\ Begin(p, [IdleTask EXCEPT !.stage = "read", !.op = Cancel, !.paid = TotalPaid])

\* createRefund: so are payments and earlier refunds, and the limit checked.
BeginRefund(p, amount) ==
    /\ amount <= TotalPaid - TotalRefunded
    /\ Begin(p, [IdleTask EXCEPT !.stage = "read", !.op = Refund, !.amount = amount,
                                 !.paid = TotalPaid, !.refunded = TotalRefunded])

\* The status is read anew inside the transaction.  A partial refund does not
\* read it at all, but reading it changes nothing.
ReadFresh(p) ==
    /\ task[p].stage = "read"
    /\ task' = [task EXCEPT ![p].stage = "fresh", ![p].seen = status]
    /\ UNCHANGED <<money, reports, attempts>>

\* manualConfirm, the check-ins, the completions and the balance-due job read
\* the booking once and hand what they read to the machine.
BeginMove(p, op) ==
    /\ op \in MoveEvents \cup {Manual}
    /\ CanFire(op, status, plan)
    /\ op = "BALANCE_DUE_TRIGGERED" => plan = "DEPOSIT_50"
    /\ Begin(p, [IdleTask EXCEPT !.stage = "fresh", !.op = op, !.seen = status])

Done(p) == task' = [task EXCEPT ![p] = IdleTask]

PolicyRefundUncapped(pct, paid) == (Total * pct + 50) \div 100   \* mutant: no Math.min
\* computeRefundAmount on the whole price, capped at what was paid.
PolicyRefund(pct, paid) ==
    LET refund == (Total * pct + 50) \div 100 IN IF refund <= paid THEN refund ELSE paid

\* cancelBookingInternal's transaction.  Earlier refunds are not looked at.
FinishCancel(p) ==
    LET t == task[p] IN
    /\ t.stage = "fresh" /\ t.op = Cancel /\ CanFire(Cancel, t.seen, plan)
    /\ Len(refunds) < MaxRefunds
    /\ \E pct \in RefundPcts :
          LET refund == PolicyRefund(pct, t.paid) IN
          /\ status' = Target(Cancel, t.seen, refund)
          /\ refunds' = IF refund > 0 THEN Refunded(refund) ELSE refunds
    /\ Done(p)
    /\ UNCHANGED <<reports, plan, rows, attempts, booked, offline, demoted>>

\* createRefund's transaction: the refund that makes up the whole sum also
\* moves the booking to REFUNDED, or fails with it.
FinishRefund(p) ==
    LET t == task[p]  full == t.amount + t.refunded >= t.paid IN
    /\ t.stage = "fresh" /\ t.op = Refund
    /\ Len(refunds) < MaxRefunds
    /\ full => CanFire(FullRefund, t.seen, plan)
    /\ status' = IF full THEN "REFUNDED" ELSE status
    /\ refunds' = Refunded(t.amount)
    /\ Done(p)
    /\ UNCHANGED <<reports, plan, rows, attempts, booked, offline, demoted>>

FinishMove(p) ==
    LET t == task[p] IN
    /\ t.stage = "fresh" /\ t.op \in MoveEvents
    /\ status' = Target(t.op, t.seen, 0)
    /\ Done(p)
    /\ UNCHANGED <<reports, plan, rows, attempts, booked, offline, refunds, demoted>>

\* manualConfirm's transaction; the key manual-<id> lets it succeed once.
FinishManual(p) ==
    LET t == task[p] IN
    /\ t.stage = "fresh" /\ t.op = Manual /\ ~offline
    /\ status' = Target(Manual, t.seen, 0)
    /\ offline' = TRUE
    /\ Done(p)
    /\ UNCHANGED <<reports, plan, rows, attempts, booked, refunds, demoted>>

RollBack(p) ==
    /\ task[p].stage # "idle"
    /\ Done(p)
    /\ UNCHANGED <<money, reports, attempts>>

------------------------------------------------------------------------------
ClientStep(p) ==
    \/ BeginCancel(p) \/ ReadFresh(p) \/ FinishCancel(p)
    \/ (\E amount \in 1..Total : BeginRefund(p, amount)) \/ FinishRefund(p)
    \/ (\E op \in TaskOps : BeginMove(p, op)) \/ FinishMove(p) \/ FinishManual(p)
    \/ RollBack(p)

PayNext ==
    \/ \E o \in Orders, kind \in Kinds : InitPayment(o, kind)
    \/ \E o \in Orders, outcome \in Outcomes : Attempt(o, outcome)
    \/ \E e \in EventIds : ReceiveWebhook(e) \/ HandleWebhook(e) \/ LoseWebhook(e)
    \/ \E o \in Orders : ReconList(o) \/ ReconRead(o) \/ ReconApply(o) \/ ReconSkip(o)
    \/ ReconDies
    \/ \E p \in Clients : ClientStep(p)

PaySpec == PayInit /\ [][PayNext]_payVars

\* The job runs every 15 minutes.  A run goes on or dies, and time and again
\* there is a sound one that no INITIATED row is too young for.  That a row is
\* listed is not assumed: it has to be among the ReconLimit oldest.
ReconStep == ReconDies \/ \E o \in Orders : ReconRead(o) \/ ReconApply(o) \/ ReconSkip(o)
SoundRun == \E cutoff \in Orders : Stale \subseteq 0..cutoff /\ ReconList(cutoff) /\ sound'
ReconFairness == WF_payVars(ReconStep) /\ SF_payVars(SoundRun)
PayFairSpec == PaySpec /\ ReconFairness

------------------------------------------------------------------------------
(* Properties *)

\* Every row, event and running transaction has the shape the code gives it; a
\* cancellation's totalPaid is a sum of captured orders and offline money.
PayTypeOK ==
    /\ plan \in {"FULL", "DEPOSIT_50"} /\ status \in Statuses
    /\ rows \in [Orders -> RowType]
    /\ attempts \in [Orders -> SUBSET Outcomes]
    /\ processed \subseteq EventIds /\ inbox \subseteq processed
    /\ batch \subseteq Orders /\ sound \in BOOLEAN
    /\ recon \in [order : Orders \cup {NoOrder}, verdict : Outcomes]
    /\ task \in [Clients -> TaskType]
    /\ booked \in [Orders -> Nat]
    /\ offline \in BOOLEAN
    /\ refunds \in Seq([amount : Nat, total : Nat])
    /\ demoted \subseteq Orders

\* However often webhook and job report it, a capture enters the ledger once,
\* unless a late payment.failed has overwritten its row in between.
BookedOnceUnlessDemoted == \A o \in Orders \ demoted : booked[o] <= 1

\* A booking marked paid in full was paid in full: by one order, by a deposit
\* and a second order, or offline; unless a row was overwritten.
PaidInFullUnlessDemoted ==
    status = "CONFIRMED_PAID" =>
        \/ offline \/ demoted # {}
        \/ \E a, b \in Orders :
              /\ PaidAtGateway(a) /\ PaidAtGateway(b)
              /\ \/ Amount(rows[a].kind) = Total
                 \/ a # b /\ Amount(rows[a].kind) + Amount(rows[b].kind) >= Total

\* The money of a CAPTURED row that is not in the ledger is money paid twice:
\* another capture, or an offline payment, had already confirmed the booking.
UnbookedCaptureIsExtra ==
    \A o \in Orders : rows[o].st = "CAPTURED" /\ booked[o] = 0 =>
        offline \/ \E other \in Orders \ {o} : booked[other] > 0

\* No single refund is larger than what the guest had really paid.
EachRefundWithinCollected == \A i \in 1..Len(refunds) : refunds[i].amount <= Collected

\* A captured order the booking has no use for: handlePaymentCaptured throws.  It
\* is over, the guest is in, or a second deposit is not what the balance is.
CannotTake(o) ==
    \/ status \in {"CANCELLED", "REFUNDED", "CHECKED_IN"}
    \/ status \in AwaitsBalance /\ Amount(rows[o].kind) # BalanceAmount

\* A capture whose webhook was lost, or swallowed because its handler died after
\* the event id was recorded, still reaches its row, as long as no attempt of
\* the order was declined, the booking can take it (payment-recon.processor) and
\* its row is among the oldest INITIATED ones: behind ReconLimit rows that guests
\* gave up, which nothing ever closes, it would wait for ever.
ReconRecovers ==
    \A o \in Orders \ Declinable :
        PaidAtGateway(o) /\ o \in Stale ~> rows[o].st = "CAPTURED" \/ CannotTake(o)

\* The claim of payment.service.ts that the routing by booking status is
\* unambiguous: a booking is marked fully paid only when its price came in.
PaidOnlyWhenCollected == status = "CONFIRMED_PAID" => Collected >= Total

\* The claim of cancelBookingInternal ("Cap total refund at what the guest
\* actually paid") over all refunds of the booking.
RefundsWithinCollected == TotalRefunded <= Collected
=============================================================================
