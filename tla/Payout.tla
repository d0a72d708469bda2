-------------------------------- MODULE Payout --------------------------------
(***************************************************************************)
(* Host payouts: the lines a captured payment creates, the hourly job that *)
(* makes them eligible, the weekly batch and its confirmation by an admin  *)
(* (payout/payout.service.ts, the payout lines of booking/booking.service  *)
(* .ts and stay-pass/qr/checkin.service.ts).                               *)
(*                                                                         *)
(* Nothing here is SERIALIZABLE.  runWeeklyBatch and markBatchPaid read    *)
(* their rows before they open a transaction; what the transaction writes  *)
(* it selects anew, what it enters in the ledger it takes from the earlier *)
(* read.  The transaction itself is one step: the rows it updates stay     *)
(* locked until it commits, and a second updateMany on them waits and then *)
(* looks at its WHERE clause again.                                        *)
(***************************************************************************)
EXTENDS Naturals, FiniteSets

CONSTANTS Lines,    \* PayoutLine rows
          Stays,    \* the lines of each booking: one per capture
          Batches,  \* PayoutBatch rows; each is created at most once
          Procs,    \* concurrent admin requests and job runs
          NoBatch

ASSUME StaysAssumption == UNION Stays \subseteq Lines
ASSUME NullAssumption  == NoBatch \notin Batches

VARIABLES line,      \* the PayoutLine rows; due: eligibleAt has passed
          batch,     \* the PayoutBatch rows; counted: lines summed up in totalAmount
          scheduled, \* number of PAYOUT_SCHEDULED ledger entries of each line
          sent,      \* number of PAYOUT_SENT ledger entries of each line
          arrived,   \* bookings whose guest has checked in
          req        \* what each request has read

vars == <<line, batch, scheduled, sent, arrived, req>>

------------------------------------------------------------------------------
LineStatuses == {"none", "NOT_ELIGIBLE", "ELIGIBLE", "SCHEDULED", "PAID"}
LineRow  == [st : LineStatuses, due : BOOLEAN, batch : Batches \cup {NoBatch}]
BatchRow == [st : {"none", "SCHEDULED", "PAID"}, counted : SUBSET Lines]
Request  == [op : {"idle", "run", "pay"}, batch : Batches \cup {NoBatch}, lines : SUBSET Lines]
Idle     == [op |-> "idle", batch |-> NoBatch, lines |-> {}]

LinesIn(status) == {l \in Lines : line[l].st = status}
LinesOf(b)      == {l \in Lines : line[l].batch = b}

Init ==
    /\ line = [l \in Lines |-> [st |-> "none", due |-> FALSE, batch |-> NoBatch]]
    /\ batch = [b \in Batches |-> [st |-> "none", counted |-> {}]]
    /\ scheduled = [l \in Lines |-> 0] /\ sent = [l \in Lines |-> 0]
    /\ arrived = {}
    /\ req = [p \in Procs |-> Idle]

------------------------------------------------------------------------------
\* confirmPayment and settleBalance: the host's share of a capture.
CreateLine(l) ==
    /\ line[l].st = "none"
    /\ line' = [line EXCEPT ![l].st = "NOT_ELIGIBLE"]
    /\ UNCHANGED <<batch, scheduled, sent, arrived, req>>

\* Time passes eligibleAt.
FallDue(l) ==
    /\ line[l].st = "NOT_ELIGIBLE" /\ ~line[l].due
    /\ line' = [line EXCEPT ![l].due = TRUE]
    /\ UNCHANGED <<batch, scheduled, sent, arrived, req>>

\* A check-in restarts the clock of the lines that are not eligible yet.
CheckIn(stay) ==
    /\ stay \notin arrived
    /\ arrived' = arrived \cup {stay}
    /\ line' = [l \in Lines |-> IF l \in stay \cap LinesIn("NOT_ELIGIBLE")
                                THEN [line[l] EXCEPT !.due = FALSE] ELSE line[l]]
    /\ UNCHANGED <<batch, scheduled, sent, req>>

MarkEligibleOnHold ==   \* mutant: the wrong status of the schema
    /\ \E l \in LinesIn("NOT_ELIGIBLE") : line[l].due
    /\ line' = [l \in Lines |-> IF line[l].st = "NOT_ELIGIBLE" /\ line[l].due
                                THEN [line[l] EXCEPT !.st = "ON_HOLD"] ELSE line[l]]
    /\ UNCHANGED <<batch, scheduled, sent, arrived, req>>

\* markEligible: one UPDATE.
MarkEligible ==
    /\ \E l \in LinesIn("NOT_ELIGIBLE") : line[l].due
    /\ line' = [l \in Lines |-> IF line[l].st = "NOT_ELIGIBLE" /\ line[l].due
                                THEN [line[l] EXCEPT !.st = "ELIGIBLE"] ELSE line[l]]
    /\ UNCHANGED <<batch, scheduled, sent, arrived, req>>

Ask(p, r) ==
    /\ req[p].op = "idle"
    /\ req' = [req EXCEPT ![p] = r]
    /\ UNCHANGED <<line, batch, scheduled, sent, arrived>>

\* runWeeklyBatch, first half: the eligible lines are read and summed up.
ReadEligible(p) ==
    /\ LinesIn("ELIGIBLE") # {}
    /\ Ask(p, [op |-> "run", batch |-> NoBatch, lines |-> LinesIn("ELIGIBLE")])

\* The updateMany of the batch takes every line that is ELIGIBLE by now.
LinkLines(p) == LinesIn("ELIGIBLE")

\* Second half: the transaction.
CreateBatch(p, b) ==
    /\ req[p].op = "run" /\ batch[b].st = "none"
    /\ batch' = [batch EXCEPT ![b] = [st |-> "SCHEDULED", counted |-> req[p].lines]]
    /\ line' = [l \in Lines |-> IF l \in LinkLines(p)
                                THEN [line[l] EXCEPT !.st = "SCHEDULED", !.batch = b] ELSE line[l]]
    /\ scheduled' = [l \in Lines |-> IF l \in req[p].lines THEN scheduled[l] + 1 ELSE scheduled[l]]
    /\ req' = [req EXCEPT ![p] = Idle]
    /\ UNCHANGED <<sent, arrived>>

\* markBatchPaid, first half: the batch is read with its lines.
ReadBatch(p, b) ==
    /\ batch[b].st = "SCHEDULED"
    /\ Ask(p, [op |-> "pay", batch |-> b, lines |-> LinesOf(b)])

LinesToPayScheduled(b) == LinesIn("SCHEDULED")   \* mutant: every scheduled line
LinesToPay(b) == LinesOf(b)

\* Second half: the status of the batch is not looked at again.
PayBatch(p) ==
    LET b == req[p].batch IN
    /\ req[p].op = "pay"
    /\ batch' = [batch EXCEPT ![b].st = "PAID"]
    /\ line' = [l \in Lines |-> IF l \in LinesToPay(b)
                                THEN [line[l] EXCEPT !.st = "PAID"] ELSE line[l]]
    /\ sent' = [l \in Lines |-> IF l \in req[p].lines THEN sent[l] + 1 ELSE sent[l]]
    /\ req' = [req EXCEPT ![p] = Idle]
    /\ UNCHANGED <<scheduled, arrived>>

\* The transaction is rolled back.  The weekly job always ends here: it signs
\* the audit entry 'system', which is no user.
Abort(p) ==
    /\ req[p].op # "idle"
    /\ req' = [req EXCEPT ![p] = Idle]
    /\ UNCHANGED <<line, batch, scheduled, sent, arrived>>

------------------------------------------------------------------------------
Next ==
    \/ \E l \in Lines : CreateLine(l) \/ FallDue(l)
    \/ \E stay \in Stays : CheckIn(stay)
    \/ MarkEligible
    \/ \E p \in Procs : ReadEligible(p) \/ PayBatch(p) \/ Abort(p)
    \/ \E p \in Procs, b \in Batches : CreateBatch(p, b) \/ ReadBatch(p, b)

Spec == Init /\ [][Next]_vars

------------------------------------------------------------------------------
(* Properties *)

\* Every row and request has the shape the code gives it.  ON_HOLD and REVERSED
\* are statuses of the schema and of docs/state-machines.md that no code writes.
TypeOK ==
    /\ line \in [Lines -> LineRow]
    /\ batch \in [Batches -> BatchRow]
    /\ scheduled \in [Lines -> Nat] /\ sent \in [Lines -> Nat]
    /\ arrived \subseteq Stays
    /\ req \in [Procs -> Request]

\* Two batches run at once, by the job and an admin, never take the same line:
\* a line in a batch stays in it (the status filter of runWeeklyBatch).
LineKeepsItsBatch ==
    [][\A l \in Lines : line[l].batch # NoBatch => line'[l].batch = line[l].batch]_vars

\* Lines and batches agree: a line is scheduled, or paid, exactly when the batch
\* it belongs to is, whatever requests overlap.
LinesFollowBatches ==
    \A l \in Lines :
        IF line[l].batch = NoBatch THEN line[l].st \in {"none", "NOT_ELIGIBLE", "ELIGIBLE"}
        ELSE line[l].st = batch[line[l].batch].st /\ line[l].st # "none"

\* The ledger announces no payout for a line outside every batch, and reports
\* as sent exactly the lines that are PAID.
LedgerNamesBatchedLines ==
    \A l \in Lines :
        /\ scheduled[l] > 0 => line[l].batch # NoBatch
        /\ sent[l] > 0 <=> line[l].st = "PAID"

\* The claim of runWeeklyBatch's comments ("Link all eligible lines to this
\* batch", "Record ledger events per line"): a line has one PAYOUT_SCHEDULED
\* entry, and its batch's total counts it, exactly when it is in a batch.
OneEntryPerBatchedLine ==
    \A l \in Lines : scheduled[l] = IF line[l].batch = NoBatch THEN 0 ELSE 1
=============================================================================
