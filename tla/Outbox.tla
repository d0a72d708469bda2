---- MODULE Outbox ----
(***************************************************************************)
(* The notification outbox: notification/outbox.service.ts,                *)
(* outbox-dispatcher.service.ts and jobs/notification-outbox.processor.ts. *)
(* A producer stores one row per notification; every 30 seconds a worker   *)
(* of any API instance reads the oldest rows that are due and works        *)
(* through them: send, then mark the row SENT, or record a failed attempt. *)
(* Nothing locks a row between those statements.                           *)
(***************************************************************************)
EXTENDS Integers, FiniteSets

CONSTANTS MaxRow,       \* bound: rows ever stored, numbered in the order of createdAt
          Worker,       \* workers of the queue, one per API instance
          MaxAttempts,  \* MAX_ATTEMPTS
          Limit,        \* rows a worker claims at once
          MaxDeaths     \* bound: workers that die within a job

ASSUME OutboxAssumption ==
    /\ MaxRow \in Nat /\ MaxDeaths \in Nat
    /\ MaxAttempts \in Nat \ {0}
    /\ Limit \in Nat \ {0}

Rows == 1 .. MaxRow

\* The notifications the code enqueues; the third stands for the three investor kinds.
Kind == {"booking.confirmed", "message.received", "investor.distribution.paid"}
Transactional == {"booking.confirmed"}
\* The kinds whose payload has the "to" that dispatchEmail and dispatchSms ask for.
Addressed == {"booking.confirmed", "message.received"}

VARIABLES
    row,       \* the rows of NotificationOutbox, "none" before they are stored
    worker,    \* what each worker has claimed and where it is with it
    deaths,    \* workers that have died
    sends,     \* history: calls of a provider for the row, 2 standing for more
    unmarked,  \* history: rows whose markSent threw
    repeated   \* history: rows two workers held at once, or one died with after sending

outboxVars == <<row, worker, deaths, sends, unmarked, repeated>>

RowStatuses == {"none", "PENDING", "SENT", "FAILED", "SKIPPED"}
RowRecord == [st : RowStatuses, kind : Kind, attempts : Nat, due : BOOLEAN]
WorkerRecord == [pc : {"idle", "next", "send", "mark", "fail", "write"},
                 batch : SUBSET Rows, row : Rows \cup {0}, seen : Nat]

Resting == [pc |-> "idle", batch |-> {}, row |-> 0, seen |-> 0]

\* The worker has the row in its batch, or in hand.
HasInHand(w, r) == r \in worker[w].batch \/ (r = worker[w].row /\ worker[w].pc # "idle")

(***************************************************************************)
(* Producers                                                               *)
(***************************************************************************)

\* The user may have opted out of a kind: NotificationPreference, read at that moment.
Allowed(k, optedOut) == k \in Transactional \/ ~optedOut

Enqueue(r, k, optedOut) ==
    /\ row[r].st = "none"
    /\ \A q \in Rows : q < r => row[q].st # "none"
    /\ row' = [row EXCEPT ![r] = [st |-> IF Allowed(k, optedOut) THEN "PENDING" ELSE "SKIPPED",
                                  kind |-> k, attempts |-> 0, due |-> TRUE]]
    /\ UNCHANGED <<worker, deaths, sends, unmarked, repeated>>

(***************************************************************************)
(* The job                                                                 *)
(***************************************************************************)

ClaimableAnyStatus ==   \* mutant: the filter on the status is missing
    {r \in Rows : row[r].due /\ row[r].attempts < MaxAttempts}
Claimable == {r \in Rows : row[r].st = "PENDING" /\ row[r].due /\ row[r].attempts < MaxAttempts}
Oldest(S) == {r \in S : Cardinality({q \in S : q < r}) < Limit}

\* claimPending is a findMany: it reads the rows and leaves them as they are.
Claim(w) ==
    /\ worker[w].pc = "idle"
    /\ Claimable # {}
    /\ worker' = [worker EXCEPT ![w] = [pc |-> "next", batch |-> Oldest(Claimable),
                                        row |-> 0, seen |-> 0]]
    /\ repeated' = repeated \cup {r \in Oldest(Claimable) : \E v \in Worker : HasInHand(v, r)}
    /\ UNCHANGED <<row, deaths, sends, unmarked>>

TakeNext(w) ==
    /\ worker[w].pc = "next"
    /\ \/ \E r \in worker[w].batch :
             /\ \A q \in worker[w].batch : r <= q
             /\ worker' = [worker EXCEPT ![w] = [pc |-> "send", batch |-> worker[w].batch \ {r},
                                                 row |-> r, seen |-> 0]]
       \/ worker[w].batch = {} /\ worker' = [worker EXCEPT ![w] = Resting]
    /\ UNCHANGED <<row, deaths, sends, unmarked, repeated>>

At(w, pc) == [worker EXCEPT ![w].pc = pc]
OnToNext(w) == [worker EXCEPT ![w] = [Resting EXCEPT !.pc = "next", !.batch = worker[w].batch]]
Counted(n) == IF n = 0 THEN 1 ELSE 2

\* dispatchEmail and dispatchSms throw for a payload without a recipient; sendEmail
\* and sendSms catch what the provider throws, so a refusal looks like a success.
Send(w) ==
    LET r == worker[w].row IN
    /\ worker[w].pc = "send"
    /\ \/ /\ row[r].kind \notin Addressed
          /\ worker' = At(w, "fail")
          /\ UNCHANGED sends
       \/ /\ row[r].kind \in Addressed
          /\ worker' = At(w, "mark")
          /\ sends' = [sends EXCEPT ![r] = Counted(@)]
    /\ UNCHANGED <<row, deaths, unmarked, repeated>>

Marked(r) == [row EXCEPT ![r].st = "SENT"]

MarkSent(w) ==
    /\ worker[w].pc = "mark"
    /\ row' = Marked(worker[w].row)
    /\ worker' = OnToNext(w)
    /\ UNCHANGED <<deaths, sends, unmarked, repeated>>

\* The update throws, before or after the database has stored it.
MarkThrows(w) ==
    /\ worker[w].pc = "mark"
    /\ row' \in {row, Marked(worker[w].row)}
    /\ worker' = At(w, "fail")
    /\ unmarked' = unmarked \cup {worker[w].row}
    /\ UNCHANGED <<deaths, sends, repeated>>

ReadAttempts(w) ==
    /\ worker[w].pc = "fail"
    /\ worker' = [worker EXCEPT ![w].pc = "write", ![w].seen = row[worker[w].row].attempts]
    /\ UNCHANGED <<row, deaths, sends, unmarked, repeated>>

Exhausted(n) == n >= MaxAttempts

WriteFailureUncounted(w) ==   \* mutant: the attempt is not counted
    LET r == worker[w].row IN
    /\ worker[w].pc = "write"
    /\ row' = [row EXCEPT ![r].attempts = worker[w].seen, ![r].st = "PENDING", ![r].due = FALSE]
    /\ worker' = OnToNext(w)
    /\ UNCHANGED <<deaths, sends, unmarked, repeated>>

\* The count read before is written back by id, whatever the row has become.
WriteFailure(w) ==
    LET r == worker[w].row
        n == worker[w].seen + 1 IN
    /\ worker[w].pc = "write"
    /\ row' = [row EXCEPT ![r].attempts = n,
                          ![r].st = IF Exhausted(n) THEN "FAILED" ELSE "PENDING",
                          ![r].due = FALSE]
    /\ worker' = OnToNext(w)
    /\ UNCHANGED <<deaths, sends, unmarked, repeated>>

\* The process stops, or a statement of recordFailure throws out of the job.
Die(w) ==
    /\ worker[w].pc # "idle"
    /\ deaths < MaxDeaths
    /\ deaths' = deaths + 1
    /\ worker' = [worker EXCEPT ![w] = Resting]
    /\ repeated' = IF worker[w].pc = "mark" THEN repeated \cup {worker[w].row} ELSE repeated
    /\ UNCHANGED <<row, sends, unmarked>>

\* nextAttemptAt has come.
FallDue(r) ==
    /\ row[r].st = "PENDING" /\ ~row[r].due
    /\ row' = [row EXCEPT ![r].due = TRUE]
    /\ UNCHANGED <<worker, deaths, sends, unmarked, repeated>>

OutboxInit ==
    /\ row = [r \in Rows |-> [st |-> "none", kind |-> "booking.confirmed", attempts |-> 0, due |-> FALSE]]
    /\ worker = [w \in Worker |-> Resting]
    /\ deaths = 0
    /\ sends = [r \in Rows |-> 0]
    /\ unmarked = {} /\ repeated = {}

Work(w) == Claim(w) \/ TakeNext(w) \/ Send(w) \/ MarkSent(w) \/ MarkThrows(w)
               \/ ReadAttempts(w) \/ WriteFailure(w)

OutboxNext ==
    \/ \E r \in Rows, k \in Kind, optedOut \in BOOLEAN : Enqueue(r, k, optedOut)
    \/ \E w \in Worker : Work(w) \/ Die(w)
    \/ \E r \in Rows : FallDue(r)

\* The sweep is scheduled for ever, a worker goes on with its job, and time passes.
OutboxFairness == /\ \A w \in Worker : WF_outboxVars(Work(w))
                  /\ \A r \in Rows : WF_outboxVars(FallDue(r))

OutboxSpec == OutboxInit /\ [][OutboxNext]_outboxVars
OutboxFairSpec == OutboxSpec /\ OutboxFairness

(***************************************************************************)
(* Properties                                                              *)
(***************************************************************************)

\* Types of rows and workers; a worker that works on a row has one that is stored.
OutboxTypeOK ==
    /\ row \in [Rows -> RowRecord]
    /\ worker \in [Worker -> WorkerRecord]
    /\ \A w \in Worker : worker[w].pc \notin {"idle", "next"} => worker[w].row \in Rows
    /\ deaths \in 0 .. MaxDeaths
    /\ sends \in [Rows -> 0 .. 2]
    /\ unmarked \subseteq Rows /\ repeated \subseteq Rows

\* A PENDING row can still be claimed: claimPending skips rows out of attempts, so
\* such a row would never be sent and never be reported FAILED either, however the
\* read and the write of two failures interleave.
PendingIsClaimable == \A r \in Rows : row[r].st = "PENDING" => row[r].attempts < MaxAttempts

\* The provider is called once for a row, unless two sweeps held it at the same
\* time, a worker died between the send and markSent, or markSent threw.
SentOnceUnlessDisturbed == \A r \in Rows : sends[r] > 1 => r \in repeated \cup unmarked

\* A row is given up only if nobody could address it or the database failed to
\* mark it: no refusal of a provider ever counts as an attempt.
GivenUpOnlyUnsendable ==
    \A r \in Rows : row[r].st = "FAILED" => row[r].kind \notin Addressed \/ r \in unmarked

\* Every stored row ends SENT or FAILED, even when rows that cannot be sent are older
\* and fill the batch, and although two failures may count as one.
EveryRowSettles == \A r \in Rows : row[r].st = "PENDING" ~> row[r].st \in {"SENT", "FAILED"}
====
