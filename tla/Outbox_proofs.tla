---- MODULE Outbox_proofs ----
(***************************************************************************)
(* Proofs about Outbox for any number of rows, workers, attempts and       *)
(* deaths.  The inductive invariant has three parts: what a worker may     *)
(* have in hand (HandOK), what a row may have become (RowOK), and, for     *)
(* the rows nothing has disturbed, that one worker at most has the row and *)
(* that a row already sent is SENT, or about to be marked (CalmOK).  At    *)
(* the end, the composition of holds, notifications and payments that TLC  *)
(* checks is shown to run each of them by its own specification.           *)
(***************************************************************************)
EXTENDS MCLifecycles, Reservation_proofs

\* The worker may still call the provider for the row.
ToSend(w, r) == r \in worker[w].batch \/ (worker[w].pc = "send" /\ worker[w].row = r)
Marking(w, r) == worker[w].pc = "mark" /\ worker[w].row = r

HandOK(w) ==
    /\ worker[w].pc \in {"idle", "next"} => worker[w].row = 0
    /\ worker[w].pc = "idle" => worker[w].batch = {}
    /\ worker[w].row \notin worker[w].batch
    /\ \A r \in worker[w].batch : row[r].st # "none"
    /\ worker[w].pc \notin {"idle", "next"} => row[worker[w].row].st # "none"
    /\ worker[w].pc = "mark" => row[worker[w].row].kind \in Addressed
    /\ worker[w].pc \in {"fail", "write"} =>
          row[worker[w].row].kind \notin Addressed \/ worker[w].row \in unmarked

RowOK(r) ==
    /\ row[r].st = "PENDING" => row[r].attempts < MaxAttempts
    /\ row[r].st = "FAILED" => row[r].kind \notin Addressed \/ r \in unmarked
    /\ sends[r] > 0 => row[r].kind \in Addressed /\ row[r].st # "none"

CalmOK(r) ==
    /\ \A v, w \in Worker : HasInHand(v, r) /\ HasInHand(w, r) => v = w
    /\ sends[r] <= 1
    /\ sends[r] > 0 => row[r].st = "SENT" \/ \E w \in Worker : Marking(w, r)
    /\ \A w \in Worker : ToSend(w, r) => sends[r] = 0

OutboxInv ==
    /\ OutboxTypeOK
    /\ \A w \in Worker : HandOK(w)
    /\ \A r \in Rows : RowOK(r)
    /\ \A r \in Rows \ (repeated \cup unmarked) : CalmOK(r)

(***************************************************************************)
(* Steps of a worker                                                       *)
(***************************************************************************)

\* The fields of a worker and of a row.
LEMMA Fields ==
    ASSUME OutboxTypeOK
    PROVE  /\ \A w \in Worker : /\ worker[w] \in WorkerRecord
                                /\ worker[w].batch \subseteq Rows /\ worker[w].row \in Rows \cup {0}
                                /\ worker[w].seen \in Nat
                                /\ worker[w].pc \notin {"idle", "next"} => worker[w].row \in Rows
           /\ \A r \in Rows : /\ row[r] \in RowRecord /\ row[r].st \in RowStatuses
                              /\ row[r].kind \in Kind /\ row[r].attempts \in Nat
                              /\ row[r].due \in BOOLEAN
           /\ 0 \notin Rows
<1>1. worker \in [Worker -> WorkerRecord] /\ row \in [Rows -> RowRecord]
  BY DEF OutboxTypeOK
<1>2. \A w \in Worker : /\ worker[w].batch \subseteq Rows /\ worker[w].row \in Rows \cup {0}
                        /\ worker[w].seen \in Nat
  BY <1>1 DEF WorkerRecord
<1>3. \A r \in Rows : /\ row[r].st \in RowStatuses /\ row[r].kind \in Kind
                      /\ row[r].attempts \in Nat /\ row[r].due \in BOOLEAN
  BY <1>1 DEF RowRecord
<1>4. 0 \notin Rows
  BY OutboxAssumption DEF Rows
<1> QED
  BY <1>1, <1>2, <1>3, <1>4 DEF OutboxTypeOK

PCs == {"idle", "next", "send", "mark", "fail", "write"}

\* A worker with a row in hand goes on to another statement about it.
LEMMA AtMoves ==
    ASSUME OutboxTypeOK, NEW w \in Worker, NEW pc \in PCs, worker' = At(w, pc)
    PROVE  /\ worker' \in [Worker -> WorkerRecord]
           /\ worker'[w].pc = pc /\ worker'[w].batch = worker[w].batch
           /\ worker'[w].row = worker[w].row /\ worker'[w].seen = worker[w].seen
           /\ \A v \in Worker \ {w} : worker'[v] = worker[v]
<1>1. worker \in [Worker -> WorkerRecord] /\ worker[w] \in WorkerRecord
  BY DEF OutboxTypeOK
<1>2. worker' = [worker EXCEPT ![w] = [worker[w] EXCEPT !.pc = pc]]
  BY DEF At
<1>3. [worker[w] EXCEPT !.pc = pc] \in WorkerRecord
  BY <1>1 DEF WorkerRecord, PCs
<1>4. worker'[w] = [worker[w] EXCEPT !.pc = pc]
  BY <1>1, <1>2
<1>5. worker' \in [Worker -> WorkerRecord] /\ \A v \in Worker \ {w} : worker'[v] = worker[v]
  BY <1>1, <1>2, <1>3
<1>6. /\ worker'[w].pc = pc /\ worker'[w].batch = worker[w].batch
      /\ worker'[w].row = worker[w].row /\ worker'[w].seen = worker[w].seen
  BY <1>1, <1>4 DEF WorkerRecord
<1> QED
  BY <1>5, <1>6

\* A worker is done with the row in hand, ...
LEMMA OnToNextMoves ==
    ASSUME OutboxTypeOK, NEW w \in Worker, worker' = OnToNext(w)
    PROVE  /\ worker' \in [Worker -> WorkerRecord]
           /\ worker'[w].pc = "next" /\ worker'[w].batch = worker[w].batch /\ worker'[w].row = 0
           /\ \A v \in Worker \ {w} : worker'[v] = worker[v]
<1> DEFINE m == [Resting EXCEPT !.pc = "next", !.batch = worker[w].batch]
<1>1. worker \in [Worker -> WorkerRecord] /\ worker[w].batch \subseteq Rows
  BY Fields DEF OutboxTypeOK
<1>2. worker' = [worker EXCEPT ![w] = m]
  BY DEF OnToNext
<1>3. Resting \in WorkerRecord
  BY DEF Resting, WorkerRecord
<1>4. m \in WorkerRecord
  BY <1>1, <1>3 DEF WorkerRecord
<1>5. m.pc = "next" /\ m.batch = worker[w].batch /\ m.row = 0
  BY DEF Resting
<1> HIDE DEF m
<1>6. worker' \in [Worker -> WorkerRecord] /\ worker'[w] = m
  BY <1>1, <1>2, <1>4
<1> QED
  BY <1>1, <1>2, <1>5, <1>6

\* ... with the whole batch, or has just claimed one or taken a row from it.
LEMMA Moves ==
    ASSUME OutboxTypeOK, NEW w \in Worker, NEW m \in WorkerRecord, worker' = [worker EXCEPT ![w] = m]
    PROVE  /\ worker' \in [Worker -> WorkerRecord] /\ worker'[w] = m
           /\ \A v \in Worker \ {w} : worker'[v] = worker[v]
BY DEF OutboxTypeOK

\* A calm row stays calm when no worker comes to hold it and nothing is sent.
LEMMA CalmKept ==
    ASSUME NEW r \in Rows, CalmOK(r),
           \A v \in Worker : HasInHand(v, r)' => HasInHand(v, r),
           \A v \in Worker : ToSend(v, r)' => ToSend(v, r),
           sends'[r] = sends[r],
           sends[r] > 0 /\ (row[r].st = "SENT" \/ \E w \in Worker : Marking(w, r))
               => row'[r].st = "SENT" \/ \E w \in Worker : Marking(w, r)'
    PROVE  CalmOK(r)'
BY DEF CalmOK

\* Nothing but the worker's place has changed, and it stays with the row in hand.
LEMMA ReadAttemptsKeepsInv ==
    ASSUME OutboxInv, NEW w \in Worker, ReadAttempts(w)
    PROVE  OutboxInv'
<1> DEFINE m == [worker[w] EXCEPT !.pc = "write", !.seen = row[worker[w].row].attempts]
<1>1. /\ OutboxTypeOK /\ worker[w].pc = "fail" /\ UNCHANGED <<row, deaths, sends, unmarked, repeated>>
      /\ worker[w] \in WorkerRecord /\ worker[w].row \in Rows
  BY Fields DEF OutboxInv, ReadAttempts
<1>2. worker' = [worker EXCEPT ![w] = m]
  BY DEF ReadAttempts
<1>3. /\ m \in WorkerRecord /\ m.pc = "write" /\ m.row = worker[w].row /\ m.batch = worker[w].batch
  <2>1. row[worker[w].row].attempts \in Nat
    BY <1>1, Fields
  <2> QED
    BY <1>1, <2>1 DEF WorkerRecord
<1> HIDE DEF m
<1>4. /\ worker' \in [Worker -> WorkerRecord] /\ worker'[w] = m
      /\ \A v \in Worker \ {w} : worker'[v] = worker[v]
  BY <1>1, <1>2, <1>3, Moves
<1>5. OutboxTypeOK'
  BY <1>1, <1>3, <1>4 DEF OutboxTypeOK
<1>6. \A v \in Worker : HandOK(v)'
  BY <1>1, <1>3, <1>4 DEF OutboxInv, HandOK
<1>7. \A r \in Rows : RowOK(r)'
  BY <1>1 DEF OutboxInv, RowOK
<1>8. ASSUME NEW r \in Rows \ (repeated \cup unmarked) PROVE CalmOK(r)'
  <2>1. CalmOK(r)
    BY DEF OutboxInv
  <2>2. \A v \in Worker : /\ HasInHand(v, r)' => HasInHand(v, r)
                          /\ ToSend(v, r)' => ToSend(v, r)
                          /\ Marking(v, r) => Marking(v, r)'
    BY <1>1, <1>3, <1>4 DEF HasInHand, ToSend, Marking
  <2> QED
    BY <1>1, <2>1, <2>2, CalmKept
<1> QED
  BY <1>1, <1>5, <1>6, <1>7, <1>8 DEF OutboxInv

\* A row leaves the batch for the hand, or the job is over.
LEMMA TakeNextKeepsInv ==
    ASSUME OutboxInv, NEW w \in Worker, TakeNext(w)
    PROVE  OutboxInv'
<1>1. /\ OutboxTypeOK /\ worker[w].pc = "next" /\ UNCHANGED <<row, deaths, sends, unmarked, repeated>>
      /\ worker[w] \in WorkerRecord /\ worker[w].row = 0 /\ worker[w].batch \subseteq Rows
      /\ 0 \notin Rows
  BY Fields DEF OutboxInv, HandOK, TakeNext
<1>2. PICK m \in WorkerRecord :
         /\ worker' = [worker EXCEPT ![w] = m]
         /\ \/ /\ m.pc = "send" /\ m.row \in worker[w].batch
               /\ m.batch = worker[w].batch \ {m.row}
            \/ m.pc = "idle" /\ m.row = 0 /\ m.batch = {}
  <2>1. CASE \E r \in worker[w].batch :
                worker' = [worker EXCEPT ![w] = [pc |-> "send", batch |-> worker[w].batch \ {r},
                                                 row |-> r, seen |-> 0]]
    <3>1. PICK r \in worker[w].batch :
                worker' = [worker EXCEPT ![w] = [pc |-> "send", batch |-> worker[w].batch \ {r},
                                                 row |-> r, seen |-> 0]]
      BY <2>1
    <3> DEFINE m == [pc |-> "send", batch |-> worker[w].batch \ {r}, row |-> r, seen |-> 0]
    <3>2. m \in WorkerRecord
      BY <1>1 DEF WorkerRecord
    <3>3. m.pc = "send" /\ m.row = r /\ m.batch = worker[w].batch \ {r}
      OBVIOUS
    <3>4. worker' = [worker EXCEPT ![w] = m]
      BY <3>1
    <3> HIDE DEF m
    <3> QED
      BY <3>2, <3>3, <3>4
  <2>2. CASE worker' = [worker EXCEPT ![w] = Resting]
    <3>1. Resting \in WorkerRecord
      BY DEF Resting, WorkerRecord
    <3>2. Resting.pc = "idle" /\ Resting.row = 0 /\ Resting.batch = {}
      BY DEF Resting
    <3> QED
      BY <2>2, <3>1, <3>2
  <2> QED
    BY <2>1, <2>2 DEF TakeNext
<1>3. /\ worker' \in [Worker -> WorkerRecord] /\ worker'[w] = m
      /\ \A v \in Worker \ {w} : worker'[v] = worker[v]
  BY <1>1, <1>2, Moves
<1>4. OutboxTypeOK'
  BY <1>1, <1>2, <1>3 DEF OutboxTypeOK
<1>5. \A v \in Worker : HandOK(v)'
  BY <1>1, <1>2, <1>3 DEF OutboxInv, HandOK
<1>6. \A r \in Rows : RowOK(r)'
  BY <1>1 DEF OutboxInv, RowOK
<1>7. ASSUME NEW r \in Rows \ (repeated \cup unmarked) PROVE CalmOK(r)'
  <2>1. CalmOK(r)
    BY DEF OutboxInv
  <2>2. \A v \in Worker : /\ HasInHand(v, r)' => HasInHand(v, r)
                          /\ ToSend(v, r)' => ToSend(v, r)
                          /\ Marking(v, r) => Marking(v, r)'
    BY <1>1, <1>2, <1>3 DEF HasInHand, ToSend, Marking
  <2> QED
    BY <1>1, <2>1, <2>2, CalmKept
<1> QED
  BY <1>1, <1>4, <1>5, <1>6, <1>7 DEF OutboxInv

\* Whoever sends holds the row, so a calm row is held by nobody else and has not been sent.
LEMMA SendKeepsInv ==
    ASSUME OutboxInv, NEW w \in Worker, Send(w)
    PROVE  OutboxInv'
<1> DEFINE q == worker[w].row
<1>1. /\ OutboxTypeOK /\ worker[w].pc = "send" /\ UNCHANGED <<row, deaths, unmarked, repeated>>
      /\ q \in Rows /\ row[q].st # "none" /\ q \notin worker[w].batch
  BY Fields DEF OutboxInv, HandOK, Send
<1>2. \/ /\ row[q].kind \notin Addressed
         /\ worker' = At(w, "fail") /\ sends' = sends
      \/ /\ row[q].kind \in Addressed
         /\ worker' = At(w, "mark") /\ sends' = [sends EXCEPT ![q] = Counted(@)]
  BY DEF Send
<1>3. PICK pc \in {"fail", "mark"} :
         /\ worker' = At(w, pc)
         /\ pc = "mark" => row[q].kind \in Addressed /\ sends' = [sends EXCEPT ![q] = Counted(@)]
         /\ pc = "fail" => row[q].kind \notin Addressed /\ sends' = sends
  BY <1>2
<1>4. /\ worker' \in [Worker -> WorkerRecord]
      /\ worker'[w].pc = pc /\ worker'[w].batch = worker[w].batch /\ worker'[w].row = q
      /\ \A v \in Worker \ {w} : worker'[v] = worker[v]
  BY <1>1, <1>3, AtMoves DEF PCs
<1>5. sends \in [Rows -> 0 .. 2]
  BY <1>1 DEF OutboxTypeOK
<1>6. /\ sends' \in [Rows -> 0 .. 2] /\ \A r \in Rows \ {q} : sends'[r] = sends[r]
      /\ pc = "mark" => sends'[q] = Counted(sends[q])
      /\ pc = "fail" => sends'[q] = sends[q]
  BY <1>1, <1>3, <1>5 DEF Counted
<1> HIDE DEF q
<1>7. OutboxTypeOK'
  BY <1>1, <1>4, <1>6 DEF OutboxTypeOK
<1>8. \A v \in Worker : HandOK(v)'
  BY <1>1, <1>3, <1>4 DEF OutboxInv, HandOK
<1>9. \A r \in Rows : RowOK(r)'
  <2> SUFFICES ASSUME NEW r \in Rows PROVE RowOK(r)'
    OBVIOUS
  <2>1. RowOK(r)
    BY DEF OutboxInv
  <2>2. CASE r = q /\ pc = "mark"
    BY <1>1, <1>3, <2>1, <2>2 DEF RowOK
  <2>3. CASE ~(r = q /\ pc = "mark")
    BY <1>1, <1>3, <1>6, <2>1, <2>3 DEF RowOK
  <2> QED
    BY <2>2, <2>3
<1>10. ASSUME NEW r \in Rows \ (repeated \cup unmarked) PROVE CalmOK(r)'
  <2>1. CalmOK(r)
    BY DEF OutboxInv
  <2>2. \A v \in Worker : /\ HasInHand(v, r)' => HasInHand(v, r)
                          /\ ToSend(v, r)' => ToSend(v, r)
                          /\ Marking(v, r) => Marking(v, r)'
    BY <1>1, <1>4 DEF HasInHand, ToSend, Marking, q
  <2>3. CASE r = q /\ pc = "mark"
    <3>1. sends[r] = 0
      BY <1>1, <2>1, <2>3 DEF CalmOK, ToSend, q
    <3>2. sends'[r] = 1
      BY <1>6, <2>3, <3>1 DEF Counted
    <3>3. \A v \in Worker : ~ToSend(v, r)'
      <4> SUFFICES ASSUME NEW v \in Worker, ToSend(v, r)' PROVE FALSE
        OBVIOUS
      <4>1. HasInHand(v, r) /\ HasInHand(w, r)
        BY <1>1, <2>2, <2>3 DEF ToSend, HasInHand, q
      <4>2. v = w
        BY <2>1, <4>1 DEF CalmOK
      <4> QED
        BY <1>1, <1>4, <2>3, <4>2 DEF ToSend
    <3>4. Marking(w, r)'
      BY <1>4, <2>3 DEF Marking
    <3> QED
      BY <2>1, <2>2, <3>2, <3>3, <3>4 DEF CalmOK
  <2>4. CASE ~(r = q /\ pc = "mark")
    <3>1. sends'[r] = sends[r]
      BY <1>3, <1>6, <2>4
    <3> QED
      BY <1>1, <2>1, <2>2, <3>1, CalmKept
  <2> QED
    BY <2>3, <2>4
<1> QED
  BY <1>1, <1>7, <1>8, <1>9, <1>10 DEF OutboxInv

\* markSent writes the status and nothing else.
LEMMA MarkedRow ==
    ASSUME OutboxTypeOK, NEW q \in Rows, row' = Marked(q)
    PROVE  /\ row' \in [Rows -> RowRecord]
           /\ row'[q].st = "SENT" /\ row'[q].kind = row[q].kind
           /\ \A r \in Rows \ {q} : row'[r] = row[r]
<1>1. row \in [Rows -> RowRecord] /\ row[q] \in RowRecord
  BY DEF OutboxTypeOK
<1>2. row' = [row EXCEPT ![q] = [row[q] EXCEPT !.st = "SENT"]]
  BY DEF Marked
<1>3. [row[q] EXCEPT !.st = "SENT"] \in RowRecord
  BY <1>1 DEF RowRecord, RowStatuses
<1>4. row'[q] = [row[q] EXCEPT !.st = "SENT"]
  BY <1>1, <1>2
<1>5. row'[q].st = "SENT" /\ row'[q].kind = row[q].kind
  BY <1>1, <1>4 DEF RowRecord
<1> QED
  BY <1>1, <1>2, <1>3, <1>5

\* The row is marked, and for once nobody else holds it.
LEMMA MarkSentKeepsInv ==
    ASSUME OutboxInv, NEW w \in Worker, MarkSent(w)
    PROVE  OutboxInv'
<1> DEFINE q == worker[w].row
<1>1. /\ OutboxTypeOK /\ worker[w].pc = "mark" /\ UNCHANGED <<deaths, sends, unmarked, repeated>>
      /\ q \in Rows /\ row[q].kind \in Addressed /\ row[q].st # "none"
      /\ row' = Marked(q) /\ worker' = OnToNext(w)
  BY Fields DEF OutboxInv, HandOK, MarkSent
<1>2. /\ worker' \in [Worker -> WorkerRecord]
      /\ worker'[w].pc = "next" /\ worker'[w].batch = worker[w].batch /\ worker'[w].row = 0
      /\ \A v \in Worker \ {w} : worker'[v] = worker[v]
  BY <1>1, OnToNextMoves
<1>3. /\ row' \in [Rows -> RowRecord] /\ row'[q].st = "SENT" /\ row'[q].kind = row[q].kind
      /\ \A r \in Rows \ {q} : row'[r] = row[r]
  BY <1>1, MarkedRow
<1>4. 0 \notin Rows /\ \A v \in Worker : worker[v].batch \subseteq Rows
  BY <1>1, Fields
<1> HIDE DEF q
<1>5. OutboxTypeOK'
  BY <1>1, <1>2, <1>3 DEF OutboxTypeOK
<1>6. ASSUME NEW v \in Worker PROVE HandOK(v)'
  <2>1. /\ HandOK(v) /\ worker[v].batch \subseteq Rows
        /\ worker[v].pc \notin {"idle", "next"} => worker[v].row \in Rows
    BY <1>1, Fields DEF OutboxInv
  <2>2. \A r \in Rows : row[r].st # "none" => row'[r].st # "none"
    BY <1>3
  <2>3. \A r \in Rows : row'[r].kind = row[r].kind
    BY <1>3
  <2>4. CASE v = w
    BY <1>1, <1>2, <1>4, <2>1, <2>2, <2>4 DEF HandOK
  <2>5. CASE v # w
    BY <1>1, <1>2, <2>1, <2>2, <2>3, <2>5 DEF HandOK
  <2> QED
    BY <2>4, <2>5
<1>7. ASSUME NEW r \in Rows PROVE RowOK(r)'
  BY <1>1, <1>3 DEF OutboxInv, RowOK
<1>8. ASSUME NEW r \in Rows \ (repeated \cup unmarked) PROVE CalmOK(r)'
  <2>1. CalmOK(r)
    BY DEF OutboxInv
  <2>2. \A v \in Worker : /\ HasInHand(v, r)' => HasInHand(v, r)
                          /\ ToSend(v, r)' => ToSend(v, r)
                          /\ Marking(v, r) => Marking(v, r)' \/ r = q
    BY <1>1, <1>2, <1>4 DEF HasInHand, ToSend, Marking, q
  <2>3. row[r].st = "SENT" \/ r = q => row'[r].st = "SENT"
    BY <1>3
  <2> QED
    BY <1>1, <2>1, <2>2, <2>3, CalmKept
<1> QED
  BY <1>1, <1>5, <1>6, <1>7, <1>8 DEF OutboxInv

\* Marking the row threw: from now on it is not a calm one.
LEMMA MarkThrowsKeepsInv ==
    ASSUME OutboxInv, NEW w \in Worker, MarkThrows(w)
    PROVE  OutboxInv'
<1> DEFINE q == worker[w].row
<1>1. /\ OutboxTypeOK /\ worker[w].pc = "mark" /\ UNCHANGED <<deaths, sends, repeated>>
      /\ q \in Rows /\ row[q].kind \in Addressed /\ row[q].st # "none"
      /\ row' = row \/ row' = Marked(q)
      /\ worker' = At(w, "fail") /\ unmarked' = unmarked \cup {q}
  BY Fields DEF OutboxInv, HandOK, MarkThrows
<1>2. /\ worker' \in [Worker -> WorkerRecord]
      /\ worker'[w].pc = "fail" /\ worker'[w].batch = worker[w].batch /\ worker'[w].row = q
      /\ \A v \in Worker \ {w} : worker'[v] = worker[v]
  BY <1>1, AtMoves DEF PCs
<1>3. /\ row' \in [Rows -> RowRecord] /\ row'[q].kind = row[q].kind
      /\ row'[q].st \in {row[q].st, "SENT"}
      /\ row'[q].st = "PENDING" => row'[q] = row[q]
      /\ \A r \in Rows \ {q} : row'[r] = row[r]
  <2>1. row \in [Rows -> RowRecord]
    BY <1>1 DEF OutboxTypeOK
  <2> QED
    BY <1>1, <2>1, MarkedRow
<1> HIDE DEF q
<1>4. OutboxTypeOK'
  BY <1>1, <1>2, <1>3 DEF OutboxTypeOK
<1>5. ASSUME NEW v \in Worker PROVE HandOK(v)'
  <2>1. /\ HandOK(v) /\ worker[v].batch \subseteq Rows
        /\ worker[v].pc \notin {"idle", "next"} => worker[v].row \in Rows
    BY <1>1, Fields DEF OutboxInv
  <2>2. \A r \in Rows : row[r].st # "none" => row'[r].st # "none"
    BY <1>3
  <2>3. \A r \in Rows : row'[r].kind = row[r].kind
    BY <1>3
  <2>4. CASE v = w
    BY <1>1, <1>2, <2>1, <2>2, <2>4 DEF HandOK, q
  <2>5. CASE v # w
    BY <1>1, <1>2, <2>1, <2>2, <2>3, <2>5 DEF HandOK
  <2> QED
    BY <2>4, <2>5
<1>6. ASSUME NEW r \in Rows PROVE RowOK(r)'
  <2>1. RowOK(r)
    BY DEF OutboxInv
  <2>2. CASE r = q
    BY <1>1, <1>3, <2>1, <2>2 DEF RowOK
  <2>3. CASE r # q
    BY <1>1, <1>3, <2>1, <2>3 DEF RowOK
  <2> QED
    BY <2>2, <2>3
<1>7. ASSUME NEW r \in Rows \ (repeated' \cup unmarked') PROVE CalmOK(r)'
  <2>1. CalmOK(r) /\ r # q
    BY <1>1 DEF OutboxInv
  <2>2. \A v \in Worker : /\ HasInHand(v, r)' => HasInHand(v, r)
                          /\ ToSend(v, r)' => ToSend(v, r)
                          /\ Marking(v, r) => Marking(v, r)'
    BY <1>1, <1>2, <2>1 DEF HasInHand, ToSend, Marking, q
  <2>3. row'[r] = row[r]
    BY <1>3, <2>1
  <2> QED
    BY <1>1, <2>1, <2>2, <2>3, CalmKept
<1> QED
  BY <1>4, <1>5, <1>6, <1>7 DEF OutboxInv

\* A failure is written over whatever the row has become; a row that was sent and is
\* calm is not among those.
LEMMA WriteFailureKeepsInv ==
    ASSUME OutboxInv, NEW w \in Worker, WriteFailure(w)
    PROVE  OutboxInv'
<1> DEFINE q == worker[w].row
           n == worker[w].seen + 1
           st == IF Exhausted(n) THEN "FAILED" ELSE "PENDING"
           x == [row[q] EXCEPT !.attempts = n, !.st = st, !.due = FALSE]
<1>1. /\ OutboxTypeOK /\ worker[w].pc = "write" /\ UNCHANGED <<deaths, sends, unmarked, repeated>>
      /\ q \in Rows /\ row[q].st # "none"
      /\ row[q].kind \notin Addressed \/ q \in unmarked
      /\ worker' = OnToNext(w) /\ n \in Nat
  BY Fields DEF OutboxInv, HandOK, WriteFailure
<1>2. /\ worker' \in [Worker -> WorkerRecord]
      /\ worker'[w].pc = "next" /\ worker'[w].batch = worker[w].batch /\ worker'[w].row = 0
      /\ \A v \in Worker \ {w} : worker'[v] = worker[v]
  BY <1>1, OnToNextMoves
<1>3. row \in [Rows -> RowRecord] /\ row[q] \in RowRecord
  BY <1>1 DEF OutboxTypeOK
<1>4. row' = [row EXCEPT ![q] = x]
  BY DEF WriteFailure
<1>5. st = "PENDING" => n < MaxAttempts
  BY <1>1, OutboxAssumption DEF Exhausted
<1>6. st \in {"PENDING", "FAILED"}
  OBVIOUS
<1> HIDE DEF n, st
<1>7. x \in RowRecord /\ x.st = st /\ x.kind = row[q].kind /\ x.attempts = n
  BY <1>1, <1>3, <1>6 DEF RowRecord, RowStatuses
<1> HIDE DEF x, q
<1>8. row' \in [Rows -> RowRecord] /\ row'[q] = x /\ \A r \in Rows \ {q} : row'[r] = row[r]
  BY <1>1, <1>3, <1>4, <1>7
<1>9. 0 \notin Rows /\ \A v \in Worker : worker[v].batch \subseteq Rows
  BY <1>1, Fields
<1>10. OutboxTypeOK'
  BY <1>1, <1>2, <1>8 DEF OutboxTypeOK
<1>11. ASSUME NEW v \in Worker PROVE HandOK(v)'
  <2>1. /\ HandOK(v) /\ worker[v].batch \subseteq Rows
        /\ worker[v].pc \notin {"idle", "next"} => worker[v].row \in Rows
    BY <1>1, Fields DEF OutboxInv
  <2>2. \A r \in Rows : row[r].st # "none" => row'[r].st # "none"
    BY <1>6, <1>7, <1>8
  <2>3. \A r \in Rows : row'[r].kind = row[r].kind
    BY <1>7, <1>8
  <2>4. CASE v = w
    BY <1>1, <1>2, <1>9, <2>1, <2>2, <2>4 DEF HandOK
  <2>5. CASE v # w
    BY <1>1, <1>2, <2>1, <2>2, <2>3, <2>5 DEF HandOK
  <2> QED
    BY <2>4, <2>5
<1>12. ASSUME NEW r \in Rows PROVE RowOK(r)'
  <2>1. RowOK(r)
    BY DEF OutboxInv
  <2>2. CASE r = q
    BY <1>1, <1>5, <1>6, <1>7, <1>8, <2>1, <2>2 DEF RowOK
  <2>3. CASE r # q
    BY <1>1, <1>8, <2>1, <2>3 DEF RowOK
  <2> QED
    BY <2>2, <2>3
<1>13. ASSUME NEW r \in Rows \ (repeated \cup unmarked) PROVE CalmOK(r)'
  <2>1. CalmOK(r) /\ RowOK(r)
    BY DEF OutboxInv
  <2>2. \A v \in Worker : /\ HasInHand(v, r)' => HasInHand(v, r)
                          /\ ToSend(v, r)' => ToSend(v, r)
                          /\ Marking(v, r) => Marking(v, r)'
    BY <1>1, <1>2, <1>9 DEF HasInHand, ToSend, Marking, q
  <2>3. sends[r] > 0 => row'[r] = row[r]
    BY <1>1, <1>8, <2>1 DEF RowOK
  <2> QED
    BY <1>1, <2>1, <2>2, <2>3, CalmKept
<1> QED
  BY <1>1, <1>10, <1>11, <1>12, <1>13 DEF OutboxInv

\* A batch is claimed: its rows are PENDING, so a calm one has not been sent, and if
\* another worker holds one of them it is not calm any more.
LEMMA ClaimKeepsInv ==
    ASSUME OutboxInv, NEW w \in Worker, Claim(w)
    PROVE  OutboxInv'
<1> DEFINE S == Oldest(Claimable)
           m == [pc |-> "next", batch |-> S, row |-> 0, seen |-> 0]
<1>1. /\ OutboxTypeOK /\ worker[w].pc = "idle" /\ UNCHANGED <<row, deaths, sends, unmarked>>
      /\ worker' = [worker EXCEPT ![w] = m]
      /\ repeated' = repeated \cup {r \in S : \E v \in Worker : HasInHand(v, r)}
  BY DEF OutboxInv, Claim
<1>2. S \subseteq Rows /\ \A r \in S : row[r].st = "PENDING"
  BY DEF Oldest, Claimable
<1> HIDE DEF S
<1>3. m \in WorkerRecord
  BY <1>2 DEF WorkerRecord
<1>4. m.pc = "next" /\ m.batch = S /\ m.row = 0
  OBVIOUS
<1> HIDE DEF m
<1>5. /\ worker' \in [Worker -> WorkerRecord] /\ worker'[w] = m
      /\ \A v \in Worker \ {w} : worker'[v] = worker[v]
  BY <1>1, <1>3, Moves
<1>6. 0 \notin Rows /\ worker[w].batch = {} /\ worker[w].row = 0
  BY <1>1, Fields DEF OutboxInv, HandOK
<1>7. repeated' \subseteq Rows
  BY <1>1, <1>2 DEF OutboxTypeOK
<1>8. OutboxTypeOK'
  BY <1>1, <1>4, <1>5, <1>7 DEF OutboxTypeOK
<1>9. ASSUME NEW v \in Worker PROVE HandOK(v)'
  <2>1. HandOK(v)
    BY DEF OutboxInv
  <2>2. CASE v = w
    BY <1>1, <1>2, <1>4, <1>5, <1>6, <2>2 DEF HandOK
  <2>3. CASE v # w
    BY <1>1, <1>5, <2>1, <2>3 DEF HandOK
  <2> QED
    BY <2>2, <2>3
<1>10. ASSUME NEW r \in Rows PROVE RowOK(r)'
  BY <1>1 DEF OutboxInv, RowOK
<1>11. ASSUME NEW r \in Rows \ (repeated' \cup unmarked') PROVE CalmOK(r)'
  <2>1. CalmOK(r) /\ row' = row /\ sends' = sends
    BY <1>1 DEF OutboxInv
  <2>2. \A v \in Worker : Marking(v, r) => Marking(v, r)'
    BY <1>1, <1>5 DEF Marking
  <2>3. CASE r \in S
    <3>1. \A v \in Worker : ~HasInHand(v, r)
      BY <1>1, <2>3
    <3>2. \A v \in Worker : HasInHand(v, r)' => v = w
      BY <1>5, <3>1 DEF HasInHand
    <3>3. sends[r] = 0
      <4>1. \A v \in Worker : ~Marking(v, r)
        BY <3>1 DEF HasInHand, Marking
      <4>2. row[r].st # "SENT"
        BY <1>2, <2>3
      <4>3. sends[r] \in 0 .. 2
        BY <1>1 DEF OutboxTypeOK
      <4> QED
        BY <2>1, <4>1, <4>2, <4>3 DEF CalmOK
    <3> QED
      BY <2>1, <3>2, <3>3 DEF CalmOK
  <2>4. CASE r \notin S
    <3>1. \A v \in Worker : /\ HasInHand(v, r)' => HasInHand(v, r)
                            /\ ToSend(v, r)' => ToSend(v, r)
      BY <1>4, <1>5, <1>6, <2>4 DEF HasInHand, ToSend
    <3> QED
      BY <2>1, <2>2, <3>1, CalmKept
  <2> QED
    BY <2>3, <2>4
<1> QED
  BY <1>8, <1>9, <1>10, <1>11 DEF OutboxInv

\* A worker dies: between a send and its mark the row is not calm any more.
LEMMA DieKeepsInv ==
    ASSUME OutboxInv, NEW w \in Worker, Die(w)
    PROVE  OutboxInv'
<1>1. /\ OutboxTypeOK /\ worker[w].pc # "idle" /\ UNCHANGED <<row, sends, unmarked>>
      /\ worker' = [worker EXCEPT ![w] = Resting]
      /\ deaths < MaxDeaths /\ deaths' = deaths + 1
      /\ repeated' = IF worker[w].pc = "mark" THEN repeated \cup {worker[w].row} ELSE repeated
  BY DEF OutboxInv, Die
<1>2. Resting \in WorkerRecord /\ Resting.pc = "idle" /\ Resting.batch = {} /\ Resting.row = 0
  BY DEF Resting, WorkerRecord
<1>3. /\ worker' \in [Worker -> WorkerRecord] /\ worker'[w] = Resting
      /\ \A v \in Worker \ {w} : worker'[v] = worker[v]
  BY <1>1, <1>2, Moves
<1>5. OutboxTypeOK'
  <2>1. deaths' \in 0 .. MaxDeaths
    BY <1>1, OutboxAssumption DEF OutboxTypeOK
  <2>2. repeated' \subseteq Rows
    <3>1. worker[w].pc = "mark" => worker[w].row \in Rows
      BY <1>1, Fields
    <3> QED
      BY <1>1, <3>1 DEF OutboxTypeOK
  <2> QED
    BY <1>1, <1>2, <1>3, <2>1, <2>2 DEF OutboxTypeOK
<1>6. \A v \in Worker : HandOK(v)'
  BY <1>1, <1>2, <1>3 DEF OutboxInv, HandOK
<1>7. \A r \in Rows : RowOK(r)'
  BY <1>1 DEF OutboxInv, RowOK
<1>8. ASSUME NEW r \in Rows \ (repeated' \cup unmarked') PROVE CalmOK(r)'
  <2>1. CalmOK(r)
    BY <1>1 DEF OutboxInv
  <2>2. \A v \in Worker : /\ HasInHand(v, r)' => HasInHand(v, r)
                          /\ ToSend(v, r)' => ToSend(v, r)
                          /\ Marking(v, r) => Marking(v, r)'
    BY <1>1, <1>2, <1>3 DEF HasInHand, ToSend, Marking
  <2> QED
    BY <1>1, <2>1, <2>2, CalmKept
<1> QED
  BY <1>5, <1>6, <1>7, <1>8 DEF OutboxInv

\* A row is stored, or falls due: nobody holds the former, and the latter is the row it was.
LEMMA RowsKeepInv ==
    ASSUME OutboxInv, NEW r \in Rows,
           FallDue(r) \/ \E k \in Kind, optedOut \in BOOLEAN : Enqueue(r, k, optedOut)
    PROVE  OutboxInv'
<1>1. OutboxTypeOK /\ UNCHANGED <<worker, deaths, sends, unmarked, repeated>>
  BY DEF OutboxInv, FallDue, Enqueue
<1>2. row \in [Rows -> RowRecord] /\ row[r] \in RowRecord /\ 0 < MaxAttempts
  BY <1>1, OutboxAssumption DEF OutboxTypeOK
<1>3. PICK x \in RowRecord :
         /\ row' = [row EXCEPT ![r] = x]
         /\ \/ x.st = row[r].st /\ x.kind = row[r].kind /\ x.attempts = row[r].attempts
            \/ row[r].st = "none" /\ x.st \in {"PENDING", "SKIPPED"} /\ x.attempts = 0
  <2>1. CASE FallDue(r)
    <3> DEFINE x == [row[r] EXCEPT !.due = TRUE]
    <3>1. row' = [row EXCEPT ![r] = x]
      BY <2>1 DEF FallDue
    <3>2. x \in RowRecord /\ x.st = row[r].st /\ x.kind = row[r].kind /\ x.attempts = row[r].attempts
      BY <1>2 DEF RowRecord
    <3> HIDE DEF x
    <3> QED
      BY <3>1, <3>2
  <2>2. CASE \E k \in Kind, optedOut \in BOOLEAN : Enqueue(r, k, optedOut)
    <3>1. PICK k \in Kind, optedOut \in BOOLEAN : Enqueue(r, k, optedOut)
      BY <2>2
    <3> DEFINE st == IF Allowed(k, optedOut) THEN "PENDING" ELSE "SKIPPED"
               x == [st |-> st, kind |-> k, attempts |-> 0, due |-> TRUE]
    <3>2. row' = [row EXCEPT ![r] = x] /\ row[r].st = "none"
      BY <3>1 DEF Enqueue
    <3>3. st \in {"PENDING", "SKIPPED"}
      OBVIOUS
    <3> HIDE DEF st
    <3>4. x \in RowRecord
      BY <3>3 DEF RowRecord, RowStatuses
    <3>5. x.st = st /\ x.attempts = 0
      OBVIOUS
    <3> HIDE DEF x
    <3> QED
      BY <3>2, <3>3, <3>4, <3>5
  <2> QED
    BY <2>1, <2>2
<1>4. /\ row' \in [Rows -> RowRecord] /\ row'[r] = x
      /\ \A q \in Rows \ {r} : row'[q] = row[q]
  BY <1>2, <1>3
<1>5. row[r].st = "none" => /\ \A v \in Worker : ~HasInHand(v, r)
                            /\ sends[r] = 0
  <2>1. ASSUME row[r].st = "none", NEW v \in Worker PROVE ~HasInHand(v, r)
    <3>1. 0 \notin Rows
      BY <1>1, Fields
    <3>2. HandOK(v)
      BY DEF OutboxInv
    <3>3. worker[v].pc = "next" => worker[v].row = 0
      BY <3>2 DEF HandOK
    <3> QED
      BY <2>1, <3>1, <3>2, <3>3 DEF HandOK, HasInHand
  <2>2. ASSUME row[r].st = "none" PROVE sends[r] = 0
    <3>1. RowOK(r) /\ sends[r] \in 0 .. 2
      BY DEF OutboxInv, OutboxTypeOK
    <3> QED
      BY <2>2, <3>1 DEF RowOK
  <2> QED
    BY <2>1, <2>2
<1>6. OutboxTypeOK'
  BY <1>1, <1>4 DEF OutboxTypeOK
<1>7. ASSUME NEW v \in Worker PROVE HandOK(v)'
  <2>1. /\ HandOK(v) /\ worker[v].batch \subseteq Rows
        /\ worker[v].pc \notin {"idle", "next"} => worker[v].row \in Rows
    BY <1>1, Fields DEF OutboxInv
  <2>2. \A q \in Rows : HasInHand(v, q) =>
           /\ row'[q].kind = row[q].kind
           /\ row[q].st # "none" => row'[q].st # "none"
    BY <1>3, <1>4, <1>5
  <2>3. /\ \A q \in worker[v].batch : HasInHand(v, q)
        /\ worker[v].pc \notin {"idle", "next"} => HasInHand(v, worker[v].row)
    BY DEF HasInHand
  <2> QED
    BY <1>1, <2>1, <2>2, <2>3 DEF HandOK
<1>8. ASSUME NEW q \in Rows PROVE RowOK(q)'
  <2>1. RowOK(q)
    BY DEF OutboxInv
  <2>2. CASE q # r
    BY <1>1, <1>4, <2>1, <2>2 DEF RowOK
  <2>3. CASE q = r
    BY <1>1, <1>2, <1>3, <1>4, <1>5, <2>1, <2>3 DEF RowOK
  <2> QED
    BY <2>2, <2>3
<1>9. ASSUME NEW q \in Rows \ (repeated \cup unmarked) PROVE CalmOK(q)'
  <2>1. CalmOK(q)
    BY DEF OutboxInv
  <2>2. \A v \in Worker : /\ HasInHand(v, q)' => HasInHand(v, q)
                          /\ ToSend(v, q)' => ToSend(v, q)
                          /\ Marking(v, q) => Marking(v, q)'
    BY <1>1 DEF HasInHand, ToSend, Marking
  <2>3. sends[q] > 0 => row'[q].st = row[q].st
    BY <1>3, <1>4, <1>5
  <2> QED
    BY <1>1, <2>1, <2>2, <2>3, CalmKept
<1> QED
  BY <1>1, <1>6, <1>7, <1>8, <1>9 DEF OutboxInv

\* Nothing is stored and nobody works at first.
LEMMA InitSatisfiesInv == OutboxInit => OutboxInv
<1> SUFFICES ASSUME OutboxInit PROVE OutboxInv
  OBVIOUS
<1>1. /\ \A r \in Rows : row[r].st = "none" /\ sends[r] = 0
      /\ \A w \in Worker : worker[w].pc = "idle" /\ worker[w].row = 0 /\ worker[w].batch = {}
  BY DEF OutboxInit, Resting
<1>2. OutboxTypeOK
  BY <1>1, OutboxAssumption
     DEF OutboxInit, OutboxTypeOK, Resting, WorkerRecord, RowRecord, RowStatuses, Kind
<1> QED
  BY <1>1, <1>2 DEF OutboxInv, HandOK, RowOK, CalmOK, HasInHand, ToSend

\* Every step keeps the invariant.
LEMMA StepKeepsInv == OutboxInv /\ [OutboxNext]_outboxVars => OutboxInv'
<1> SUFFICES ASSUME OutboxInv, [OutboxNext]_outboxVars PROVE OutboxInv'
  OBVIOUS
<1>1. CASE UNCHANGED outboxVars
  BY <1>1 DEF outboxVars, OutboxInv, OutboxTypeOK, HandOK, RowOK, CalmOK, HasInHand, ToSend, Marking
<1>2. CASE OutboxNext
  BY <1>2, ClaimKeepsInv, TakeNextKeepsInv, SendKeepsInv, MarkSentKeepsInv, MarkThrowsKeepsInv,
     ReadAttemptsKeepsInv, WriteFailureKeepsInv, DieKeepsInv, RowsKeepInv
     DEF OutboxNext, Work
<1> QED
  BY <1>1, <1>2

\* All reachable states satisfy the invariant.
LEMMA OutboxInvariant == OutboxSpec => []OutboxInv
BY InitSatisfiesInv, StepKeepsInv, PTL DEF OutboxSpec

(***************************************************************************)
(* Theorems                                                                *)
(***************************************************************************)

\* Rows and workers keep their shape, and a worker at work has a row that is stored.
THEOREM OutboxTyped == OutboxSpec => []OutboxTypeOK
BY OutboxInvariant, PTL DEF OutboxInv

\* No row is left PENDING but out of attempts, whichever way failures interleave.
THEOREM NoneIsStranded == OutboxSpec => []PendingIsClaimable
<1>1. OutboxInv => PendingIsClaimable
  BY DEF OutboxInv, RowOK, PendingIsClaimable
<1> QED
  BY <1>1, OutboxInvariant, PTL

\* A notification goes out once, unless two sweeps met on its row, its worker died
\* before the mark, or the mark failed; for any number of workers and batches.
THEOREM SentOnce == OutboxSpec => []SentOnceUnlessDisturbed
<1>1. OutboxInv => SentOnceUnlessDisturbed
  <2> SUFFICES ASSUME OutboxInv, NEW r \in Rows, sends[r] > 1 PROVE r \in repeated \cup unmarked
    BY DEF SentOnceUnlessDisturbed
  <2>1. sends[r] \in 0 .. 2
    BY DEF OutboxInv, OutboxTypeOK
  <2> QED
    BY <2>1 DEF OutboxInv, CalmOK
<1> QED
  BY <1>1, OutboxInvariant, PTL

\* FAILED rows could not be addressed, or were sent and could not be marked.
THEOREM OnlyUnsendableFail == OutboxSpec => []GivenUpOnlyUnsendable
<1>1. OutboxInv => GivenUpOnlyUnsendable
  BY DEF OutboxInv, RowOK, GivenUpOnlyUnsendable
<1> QED
  BY <1>1, OutboxInvariant, PTL

------------------------------------------------------------------------------
(* Holds, notifications and payments together (module MCLifecycles). *)

\* Behaviours of the composition that is model-checked are behaviours of each part,
\* so that what is proved of holds, of the outbox and of the payments holds in it.
THEOREM LifecyclesAreComposed == LifecyclesSpec => Spec /\ OutboxSpec /\ PaySpec
<1>1. LifecyclesInit => Init /\ OutboxInit /\ PayInit
  BY DEF LifecyclesInit
<1>2. [LifecyclesNext]_<<service, vars, outboxVars, payVars>>
      => [Next]_vars /\ [OutboxNext]_outboxVars /\ [PayNext]_payVars
  BY DEF LifecyclesNext
<1> QED
  BY <1>1, <1>2, PTL DEF LifecyclesSpec, Spec, OutboxSpec, PaySpec
====
