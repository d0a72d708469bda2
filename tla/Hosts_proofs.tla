---- MODULE Hosts_proofs ----
(***************************************************************************)
(* Proofs about what a host sells and is owed: Seats, Payout and Amounts.  *)
(*                                                                         *)
(* The seats of an experience are never oversold, for any number of        *)
(* requests, keys and capacities.  The inductive invariant says what a     *)
(* request that is past its first statement knows: the experience as it is *)
(* now, and a count of the seats sold that can only be too high.  Whoever  *)
(* changes the row or sells a seat fails all the others that have a        *)
(* snapshot, so no request counts on seats another one has sold meanwhile. *)
(*                                                                         *)
(* Payout lines and batches agree, and the ledger agrees with both, for    *)
(* any number of lines, batches and overlapping requests.  Two facts make  *)
(* it inductive, both about what a request has read: lines read as         *)
(* ELIGIBLE may be batched meanwhile but are never again short of it; and  *)
(* the lines of a batch never change once it exists, so that the lines     *)
(* read outside the transaction are those it updates.                      *)
(*                                                                         *)
(* The amounts of a booking add up for all prices, discounts and tenors.   *)
(* Rounding is described by two inequalities between products,             *)
(* RoundedIsNearest, from which SharesMeet follows: the roundings of two   *)
(* parts of an amount sum to the amount or to one more.  The inductive     *)
(* invariant then says what has been captured, and promised, after every   *)
(* number of captures.                                                     *)
(***************************************************************************)
EXTENDS Seats, Payout, Amounts, FiniteSetTheorems, TLAPS

------------------------------------------------------------------------------
(* Experiences (module Seats). *)

(***************************************************************************)
(* Counting seats                                                          *)
(***************************************************************************)

\* Any choice of seats of known keys can be counted.
LEMMA PairsAreFinite ==
    ASSUME NEW S, S \subseteq Key \X (1 .. MaxParty)
    PROVE  IsFiniteSet(S)
<1>1. MaxParty \in Nat /\ IsFiniteSet(Key)
  BY SeatsAssumption
<1>2. IsFiniteSet(1 .. MaxParty)
  BY <1>1, FS_Interval
<1>3. IsFiniteSet(Key \X (1 .. MaxParty))
  BY <1>1, <1>2, FS_Product
<1> QED
  BY <1>3, FS_Subset

\* A party of n takes n seats.
LEMMA SeatsOfOneKey ==
    ASSUME NEW k \in Key, NEW n \in 1 .. MaxParty
    PROVE  Cardinality({k} \X (1 .. n)) = n
<1>1. n \in Nat /\ MaxParty \in Nat
  BY SeatsAssumption
<1>2. IsFiniteSet(1 .. n) /\ Cardinality(1 .. n) = n
  BY <1>1, FS_Interval
<1>3. IsFiniteSet({k}) /\ Cardinality({k}) = 1
  BY FS_Singleton
<1>4. Cardinality({k} \X (1 .. n)) = Cardinality({k}) * Cardinality(1 .. n)
  BY <1>2, <1>3, FS_Product
<1> QED
  BY <1>1, <1>2, <1>3, <1>4

\* The seats sold are a number.
LEMMA SoldIsNat == SeatsSold \in Nat
<1>1. Occupied \subseteq Key \X (1 .. MaxParty)
  BY DEF Occupied
<1> QED
  BY <1>1, PairsAreFinite, FS_CardinalityType DEF SeatsSold

\* A booking adds its own seats to those sold.
LEMMA SoldGrows ==
    ASSUME NEW k \in Key, NEW n \in 1 .. MaxParty,
           ticket \in [Key -> TicketRow], ticket[k].status = "none",
           ticket' = [ticket EXCEPT ![k] = [status |-> "CONFIRMED", seats |-> n]]
    PROVE  SeatsSold' = SeatsSold + n
<1> DEFINE new == {k} \X (1 .. n)
<1>1. n \in Nat /\ MaxParty \in Nat
  BY SeatsAssumption
<1>2. ticket'[k].status = "CONFIRMED" /\ ticket'[k].seats = n
  OBVIOUS
<1>3. \A j \in Key \ {k} : ticket'[j] = ticket[j]
  OBVIOUS
<1>4. Occupied' = Occupied \cup new
  <2>1. \A p \in Key \X (1 .. MaxParty) :
           (ticket'[p[1]].status = "CONFIRMED" /\ p[2] <= ticket'[p[1]].seats)
               <=> \/ ticket[p[1]].status = "CONFIRMED" /\ p[2] <= ticket[p[1]].seats
                   \/ p \in new
    <3> SUFFICES ASSUME NEW j \in Key, NEW i \in 1 .. MaxParty
                 PROVE  (ticket'[j].status = "CONFIRMED" /\ i <= ticket'[j].seats)
                            <=> \/ ticket[j].status = "CONFIRMED" /\ i <= ticket[j].seats
                                \/ j = k /\ i <= n
      BY <1>1
    <3>1. CASE j = k
      BY <1>2, <3>1
    <3>2. CASE j # k
      BY <1>3, <3>2
    <3> QED
      BY <3>1, <3>2
  <2>2. new \subseteq Key \X (1 .. MaxParty)
    BY <1>1
  <2> QED
    BY <2>1, <2>2 DEF Occupied
<1>5. Occupied \cap new = {}
  BY DEF Occupied
<1>6. IsFiniteSet(Occupied) /\ IsFiniteSet(new)
  <2>1. Occupied \subseteq Key \X (1 .. MaxParty) /\ new \subseteq Key \X (1 .. MaxParty)
    BY <1>1 DEF Occupied
  <2> QED
    BY <2>1, PairsAreFinite
<1>7. Cardinality(new) = n
  BY SeatsOfOneKey
<1>8. Cardinality(Occupied \cup new) = Cardinality(Occupied) + n
  <2> HIDE DEF new
  <2>1. Cardinality(Occupied \cup new)
            = Cardinality(Occupied) + Cardinality(new) - Cardinality(Occupied \cap new)
    BY <1>6, FS_Union
  <2>2. Cardinality(Occupied \cap new) = 0
    BY <1>5, FS_EmptySet
  <2>3. Cardinality(Occupied) \in Nat
    BY <1>6, FS_CardinalityType
  <2> QED
    BY <1>1, <1>7, <2>1, <2>2, <2>3
<1> QED
  BY <1>4, <1>8 DEF SeatsSold

\* Cancelling a booking never adds a seat.
LEMMA SoldShrinks ==
    ASSUME NEW k \in Key, ticket \in [Key -> TicketRow],
           ticket' = [ticket EXCEPT ![k].status = "CANCELLED"]
    PROVE  SeatsSold' <= SeatsSold
<1>1. ticket'[k].status = "CANCELLED"
  BY DEF TicketRow
<1>2. \A j \in Key \ {k} : ticket'[j] = ticket[j]
  OBVIOUS
<1>3. Occupied' \subseteq Occupied
  BY <1>1, <1>2 DEF Occupied
<1>4. Occupied \subseteq Key \X (1 .. MaxParty)
  BY DEF Occupied
<1> QED
  BY <1>3, <1>4, PairsAreFinite, FS_Subset DEF SeatsSold

(***************************************************************************)
(* The inductive invariant                                                 *)
(***************************************************************************)

InTransaction(c) == caller[c].pc \in {"open", "locked"}

\* What a request with a snapshot knows: the row as it is, and at least the seats sold.
SnapshotHolds ==
    \A c \in Caller : InTransaction(c) =>
        /\ caller[c].status = experience.status
        /\ caller[c].capacity = experience.capacity
        /\ SeatsSold <= caller[c].sold

OneLocks == \A c, d \in Caller : caller[c].pc = "locked" /\ caller[d].pc = "locked" => c = d

SeatsInv == SeatsTypeOK /\ SnapshotHolds /\ OneLocks /\ SeatsWithinCapacity

\* Once a request has left, those still in a transaction have none that could go on.
LEMMA RestartedIsTyped ==
    ASSUME NEW callers \in [Caller -> CallerRecord]
    PROVE  /\ Restarted(callers) \in [Caller -> CallerRecord]
           /\ \A c \in Caller : Restarted(callers)[c].pc # "open"
           /\ \A c \in Caller : callers[c].pc # "locked" => Restarted(callers)[c].pc # "locked"
           /\ \A c \in Caller : Restarted(callers)[c].pc # "idle" <=> callers[c].pc # "idle"
           /\ \A c \in Caller : /\ Restarted(callers)[c].op = callers[c].op
                                 /\ Restarted(callers)[c].demote = callers[c].demote
<1> SUFFICES ASSUME NEW c \in Caller
             PROVE  /\ Restarted(callers)[c] \in CallerRecord
                    /\ Restarted(callers)[c].pc # "open"
                    /\ callers[c].pc # "locked" => Restarted(callers)[c].pc # "locked"
                    /\ Restarted(callers)[c].pc # "idle" <=> callers[c].pc # "idle"
                    /\ Restarted(callers)[c].op = callers[c].op
                    /\ Restarted(callers)[c].demote = callers[c].demote
  BY DEF Restarted
<1>1. Restarted(callers)[c] = IF callers[c].pc = "open" THEN [callers[c] EXCEPT !.pc = "begin"]
                              ELSE callers[c]
  BY DEF Restarted
<1>2. callers[c] \in CallerRecord
  OBVIOUS
<1> HIDE DEF Restarted
<1> QED
  BY <1>1, <1>2 DEF CallerRecord

\* A request that does nothing is one.
LEMMA IdlerIsTyped == Idler \in CallerRecord /\ Idler.pc = "idle"
<1>1. Key # {}
  BY SeatsAssumption
<1>2. (CHOOSE k \in Key : TRUE) \in Key
  BY <1>1
<1> QED
  BY <1>2 DEF Idler, CallerRecord, ExperienceStatuses

\* The others stay as they are when a request leaves.
LEMMA GoneIsTyped ==
    ASSUME SeatsTypeOK, NEW c \in Caller
    PROVE  /\ Gone(c) \in [Caller -> CallerRecord]
           /\ Gone(c)[c].pc = "idle" /\ \A d \in Caller \ {c} : Gone(c)[d] = caller[d]
BY IdlerIsTyped DEF Gone, SeatsTypeOK

\* A commit leaves no request with a snapshot.
LEMMA NobodyIsLeft ==
    ASSUME NEW callers \in [Caller -> CallerRecord],
           \A c \in Caller : callers[c].pc # "locked",
           caller' = Restarted(callers)
    PROVE  caller' \in [Caller -> CallerRecord] /\ SnapshotHolds' /\ OneLocks'
<1>1. \A c \in Caller : caller'[c].pc # "open" /\ caller'[c].pc # "locked"
  BY RestartedIsTyped
<1> QED
  BY <1>1, RestartedIsTyped DEF SnapshotHolds, InTransaction, OneLocks

\* The one that holds the lock leaves, and with it the only lock.
LEMMA HolderLeaves ==
    ASSUME SeatsInv, NEW c \in Caller, caller[c].pc = "locked"
    PROVE  \A d \in Caller : Gone(c)[d].pc # "locked"
<1>1. Gone(c)[c].pc = "idle" /\ \A d \in Caller \ {c} : Gone(c)[d] = caller[d]
  BY GoneIsTyped DEF SeatsInv
<1>2. \A d \in Caller \ {c} : caller[d].pc # "locked"
  BY DEF SeatsInv, OneLocks
<1> QED
  BY <1>1, <1>2

\* What an edit writes is a row.
LEMMA EditedIsTyped ==
    ASSUME SeatsTypeOK, NEW c \in Caller, NEW capacity \in Nat, NEW postpone \in BOOLEAN,
           experience.content < MaxContent
    PROVE  /\ Edited(c, capacity, postpone) \in ExperienceRow
           /\ Edited(c, capacity, postpone).capacity = capacity
           /\ Edited(c, capacity, postpone).content = experience.content + 1
           /\ Edited(c, capacity, postpone).status
                 = IF caller[c].demote THEN "PENDING_APPROVAL" ELSE experience.status
<1>1. MaxContent \in Nat /\ experience \in ExperienceRow
  BY SeatsAssumption DEF SeatsTypeOK
<1>2. /\ experience.content \in 1 .. MaxContent /\ experience.status \in ExperienceStatuses
      /\ experience.started \in BOOLEAN
  BY <1>1 DEF ExperienceRow
<1>3. experience.content + 1 \in 1 .. MaxContent
  BY <1>1, <1>2
<1>4. (experience.started /\ ~postpone) \in BOOLEAN
  OBVIOUS
<1>5. (IF caller[c].demote THEN "PENDING_APPROVAL" ELSE experience.status) \in ExperienceStatuses
  BY <1>2 DEF ExperienceStatuses
<1> QED
  BY <1>3, <1>4, <1>5 DEF Edited, ExperienceRow

\* An update of the row that keeps its capacity, or a resize that leaves room for the
\* seats sold.
LEMMA UpdateKeepsInv ==
    ASSUME SeatsInv, NEW callers \in [Caller -> CallerRecord],
           \A c \in Caller : callers[c].pc # "locked",
           caller' = Restarted(callers), experience' \in ExperienceRow,
           UNCHANGED <<ticket, looked>>, vetted' \in 0 .. MaxContent \cup {Raced},
           SeatsSold <= experience'.capacity
    PROVE  SeatsInv'
<1>1. SeatsSold' = SeatsSold
  BY DEF SeatsSold, Occupied
<1>2. SeatsWithinCapacity'
  BY <1>1 DEF SeatsWithinCapacity
<1>3. SeatsTypeOK'
  BY NobodyIsLeft DEF SeatsInv, SeatsTypeOK
<1> QED
  BY <1>2, <1>3, NobodyIsLeft DEF SeatsInv

\* A request that moves without writing knows nothing, takes a snapshot, or gets the
\* lock nobody holds.
LEMMA OneRequestMoves ==
    ASSUME SeatsInv, NEW c \in Caller, NEW r \in CallerRecord,
           caller' = [caller EXCEPT ![c] = r],
           UNCHANGED <<ticket, looked, vetted>>,
           experience' \in ExperienceRow, experience'.status = experience.status,
           experience'.capacity = experience.capacity,
           \/ r.pc \in {"idle", "begin"}
           \/ /\ r.pc = "open" /\ r.status = experience.status
              /\ r.capacity = experience.capacity /\ r.sold = SeatsSold
           \/ /\ r.pc = "locked" /\ InTransaction(c) /\ Unlocked
              /\ r.status = caller[c].status /\ r.capacity = caller[c].capacity
              /\ r.sold = caller[c].sold
    PROVE  SeatsInv'
<1>1. SeatsSold' = SeatsSold /\ SeatsSold \in Nat
  BY SoldIsNat DEF SeatsSold, Occupied
<1>2. /\ caller \in [Caller -> CallerRecord] /\ SnapshotHolds /\ OneLocks
      /\ SeatsSold <= experience.capacity
  BY DEF SeatsInv, SeatsTypeOK, SeatsWithinCapacity
<1>3. /\ caller'[c] = r /\ caller' \in [Caller -> CallerRecord]
      /\ \A d \in Caller \ {c} : caller'[d] = caller[d]
  BY <1>2
<1>4. SeatsTypeOK'
  BY <1>3 DEF SeatsInv, SeatsTypeOK
<1>5. SnapshotHolds'
  <2> SUFFICES ASSUME NEW d \in Caller, InTransaction(d)'
               PROVE  /\ caller'[d].status = experience.status
                      /\ caller'[d].capacity = experience.capacity
                      /\ SeatsSold <= caller'[d].sold
    BY <1>1 DEF SnapshotHolds
  <2>1. CASE d # c
    BY <1>2, <1>3, <2>1 DEF SnapshotHolds, InTransaction
  <2>2. CASE d = c
    BY <1>1, <1>2, <1>3, <2>2 DEF SnapshotHolds, InTransaction
  <2> QED
    BY <2>1, <2>2
<1>6. OneLocks'
  BY <1>2, <1>3 DEF OneLocks, Unlocked
<1>7. SeatsWithinCapacity'
  BY <1>1, <1>2 DEF SeatsWithinCapacity
<1> QED
  BY <1>4, <1>5, <1>6, <1>7 DEF SeatsInv

\* Requests that begin, take their snapshot, get the lock, or end without a write.
LEMMA RequestKeepsInv ==
    ASSUME SeatsInv, NEW c \in Caller,
           \/ \E k \in Key : BeginBook(c, k)
           \/ \E op \in {"edit", "resize"} : BeginEdit(c, op)
           \/ Open(c) \/ Lock(c) \/ GiveUp(c)
    PROVE  SeatsInv'
<1>1. UNCHANGED <<experience, ticket, looked, vetted>>
  BY DEF BeginBook, BeginEdit, Open, Lock, GiveUp
<1>2. experience \in ExperienceRow /\ caller[c] \in CallerRecord /\ SeatsSold \in Nat
  BY SoldIsNat DEF SeatsInv, SeatsTypeOK
<1>3. experience.status \in ExperienceStatuses /\ experience.capacity \in Nat
  BY <1>2 DEF ExperienceRow
<1>4. ASSUME NEW k \in Key, BeginBook(c, k) PROVE SeatsInv'
  <2> DEFINE r == [Idler EXCEPT !.pc = "begin", !.key = k]
  <2>1. r \in CallerRecord /\ r.pc = "begin"
    BY IdlerIsTyped DEF CallerRecord
  <2>2. caller' = [caller EXCEPT ![c] = r]
    BY <1>4 DEF BeginBook
  <2> HIDE DEF r
  <2> QED
    BY <1>1, <1>2, <2>1, <2>2, OneRequestMoves
<1>5. ASSUME NEW op \in {"edit", "resize"}, BeginEdit(c, op) PROVE SeatsInv'
  <2> DEFINE approved == experience.status = "APPROVED"
             r == [Idler EXCEPT !.pc = "begin", !.op = op, !.demote = approved]
  <2>1. caller' = [caller EXCEPT ![c] = r]
    BY <1>5 DEF BeginEdit
  <2>2. approved \in BOOLEAN
    OBVIOUS
  <2> HIDE DEF approved
  <2>3. r \in CallerRecord /\ r.pc = "begin"
    BY <2>2, IdlerIsTyped DEF CallerRecord
  <2> HIDE DEF r
  <2> QED
    BY <1>1, <1>2, <2>1, <2>3, OneRequestMoves
<1>6. ASSUME Open(c) PROVE SeatsInv'
  <2> DEFINE r == [caller[c] EXCEPT !.pc = "open", !.status = experience.status,
                                    !.capacity = experience.capacity, !.sold = SeatsSold]
  <2>1. caller' = [caller EXCEPT ![c] = r]
    BY <1>6 DEF Open
  <2>2. /\ r \in CallerRecord /\ r.pc = "open" /\ r.status = experience.status
        /\ r.capacity = experience.capacity /\ r.sold = SeatsSold
    BY <1>2, <1>3 DEF CallerRecord
  <2> HIDE DEF r
  <2> QED
    BY <1>1, <1>2, <2>1, <2>2, OneRequestMoves
<1>7. ASSUME Lock(c) PROVE SeatsInv'
  <2> DEFINE r == [caller[c] EXCEPT !.pc = "locked"]
  <2>1. caller' = [caller EXCEPT ![c] = r] /\ InTransaction(c) /\ Unlocked
    BY <1>7 DEF Lock, InTransaction
  <2>2. /\ r \in CallerRecord /\ r.pc = "locked" /\ r.status = caller[c].status
        /\ r.capacity = caller[c].capacity /\ r.sold = caller[c].sold
    BY <1>2 DEF CallerRecord
  <2> HIDE DEF r
  <2> QED
    BY <1>1, <1>2, <2>1, <2>2, OneRequestMoves
<1>8. ASSUME GiveUp(c) PROVE SeatsInv'
  BY <1>1, <1>2, <1>8, IdlerIsTyped, OneRequestMoves DEF GiveUp, Gone, Idler
<1> QED
  BY <1>4, <1>5, <1>6, <1>7, <1>8

\* The request that holds the lock knows the status and counts too many seats at most.
LEMMA BookKeepsInv ==
    ASSUME SeatsInv, NEW c \in Caller, NEW n \in 1 .. MaxParty, Book(c, n)
    PROVE  SeatsInv'
<1> DEFINE k == caller[c].key
           new == [status |-> "CONFIRMED", seats |-> n]
<1>1. /\ caller[c] \in CallerRecord /\ ticket \in [Key -> TicketRow] /\ experience \in ExperienceRow
  BY DEF SeatsInv, SeatsTypeOK
<1>2. k \in Key /\ caller[c].sold \in Nat /\ experience.capacity \in Nat /\ n \in Nat
  BY <1>1, SeatsAssumption DEF CallerRecord, ExperienceRow
<1>3. /\ caller[c].pc = "locked" /\ caller[c].sold + n <= caller[c].capacity
      /\ ticket[k].status = "none" /\ ticket' = [ticket EXCEPT ![k] = new]
      /\ caller' = Restarted(Gone(c)) /\ UNCHANGED <<experience, looked, vetted>>
  BY DEF Book
<1>4. SeatsSold <= caller[c].sold /\ caller[c].capacity = experience.capacity
  BY <1>3 DEF SeatsInv, SnapshotHolds, InTransaction
<1> HIDE DEF k
<1>5. SeatsSold' = SeatsSold + n /\ SeatsSold \in Nat
  BY <1>1, <1>2, <1>3, SoldGrows, SoldIsNat
<1>6. SeatsWithinCapacity'
  BY <1>2, <1>3, <1>4, <1>5 DEF SeatsWithinCapacity
<1>7. ticket' \in [Key -> TicketRow]
  <2>1. new \in TicketRow
    BY <1>2, SeatsAssumption DEF TicketRow
  <2> HIDE DEF new
  <2> QED
    BY <1>1, <1>3, <2>1
<1>8. /\ Gone(c) \in [Caller -> CallerRecord] /\ \A d \in Caller : Gone(c)[d].pc # "locked"
  BY <1>3, HolderLeaves, GoneIsTyped DEF SeatsInv
<1>9. caller' \in [Caller -> CallerRecord] /\ SnapshotHolds' /\ OneLocks'
  BY <1>3, <1>8, NobodyIsLeft
<1> QED
  BY <1>3, <1>6, <1>7, <1>9 DEF SeatsInv, SeatsTypeOK

\* A new capacity leaves room for the seats counted under the lock.
LEMMA ResizeKeepsInv ==
    ASSUME SeatsInv, NEW c \in Caller, NEW capacity \in Capacities, Resize(c, capacity)
    PROVE  SeatsInv'
<1>1. /\ caller[c].pc = "locked" /\ capacity >= caller[c].sold /\ capacity \in Nat
      /\ caller' = Restarted(Gone(c)) /\ UNCHANGED <<ticket, looked, vetted>>
      /\ experience.content < MaxContent /\ SeatsTypeOK
  BY SeatsAssumption DEF Resize, SeatsInv
<1>2. PICK postpone \in BOOLEAN : experience' = Edited(c, capacity, postpone)
  BY DEF Resize
<1>3. experience' \in ExperienceRow /\ experience'.capacity = capacity
  BY <1>1, <1>2, EditedIsTyped
<1>4. SeatsSold <= capacity
  <2>1. SeatsSold <= caller[c].sold /\ SeatsSold \in Nat
    BY <1>1, SoldIsNat DEF SeatsInv, SnapshotHolds, InTransaction
  <2>2. caller[c].sold \in Nat
    BY <1>1 DEF SeatsTypeOK, CallerRecord
  <2> QED
    BY <1>1, <2>1, <2>2
<1>5. Gone(c) \in [Caller -> CallerRecord] /\ \A d \in Caller : Gone(c)[d].pc # "locked"
  BY <1>1, HolderLeaves, GoneIsTyped
<1>6. vetted' \in 0 .. MaxContent \cup {Raced}
  BY <1>1 DEF SeatsTypeOK
<1> QED
  BY <1>1, <1>3, <1>4, <1>5, <1>6, UpdateKeepsInv

\* An edit without a capacity leaves the capacity alone.
LEMMA PlainEditKeepsInv ==
    ASSUME SeatsInv, NEW c \in Caller, PlainEdit(c)
    PROVE  SeatsInv'
<1>1. /\ Unlocked /\ caller' = Restarted(Gone(c)) /\ UNCHANGED <<ticket, looked, vetted>>
      /\ experience.content < MaxContent /\ SeatsTypeOK
  BY DEF PlainEdit, SeatsInv
<1>2. PICK postpone \in BOOLEAN : experience' = Edited(c, experience.capacity, postpone)
  BY DEF PlainEdit
<1>3. experience.capacity \in Nat
  BY <1>1 DEF SeatsTypeOK, ExperienceRow
<1>4. experience' \in ExperienceRow /\ experience'.capacity = experience.capacity
  BY <1>1, <1>2, <1>3, EditedIsTyped
<1>5. Gone(c) \in [Caller -> CallerRecord] /\ \A d \in Caller : Gone(c)[d].pc # "locked"
  <2>1. Gone(c)[c].pc = "idle" /\ \A d \in Caller \ {c} : Gone(c)[d] = caller[d]
    BY <1>1, GoneIsTyped
  <2>2. \A d \in Caller \ {c} : caller[d].pc # "locked"
    BY <1>1 DEF Unlocked
  <2> QED
    BY <1>1, <2>1, <2>2, GoneIsTyped
<1>6. vetted' \in 0 .. MaxContent \cup {Raced} /\ SeatsSold <= experience'.capacity
  BY <1>1, <1>4 DEF SeatsTypeOK, SeatsInv, SeatsWithinCapacity
<1> QED
  BY <1>1, <1>4, <1>5, <1>6, UpdateKeepsInv

\* So do the closing and the decision of an admin.
LEMMA DecisionKeepsInv ==
    ASSUME SeatsInv, Close \/ \E status \in ExperienceStatuses : Moderate(status)
    PROVE  SeatsInv'
<1>1. Unlocked /\ caller' = Restarted(caller) /\ UNCHANGED <<ticket, looked>> /\ SeatsTypeOK
  BY DEF Close, Moderate, SeatsInv
<1>2. experience \in ExperienceRow
  BY <1>1 DEF SeatsTypeOK
<1>3. PICK status \in ExperienceStatuses : experience' = [experience EXCEPT !.status = status]
  BY DEF Close, Moderate, ExperienceStatuses
<1>4. experience' \in ExperienceRow /\ experience'.capacity = experience.capacity
  BY <1>2, <1>3 DEF ExperienceRow
<1>5. vetted' \in 0 .. MaxContent \cup {Raced}
  <2>1. looked \in 1 .. MaxContent /\ vetted \in 0 .. MaxContent \cup {Raced}
    BY <1>1 DEF SeatsTypeOK
  <2>2. vetted' \in {vetted, Raced, looked}
    BY DEF Close, Moderate
  <2> QED
    BY <2>1, <2>2
<1>6. caller \in [Caller -> CallerRecord] /\ \A c \in Caller : caller[c].pc # "locked"
  BY <1>1 DEF SeatsTypeOK, Unlocked
<1>7. SeatsSold <= experience'.capacity
  BY <1>4 DEF SeatsInv, SeatsWithinCapacity
<1> QED
  BY <1>1, <1>4, <1>5, <1>6, <1>7, UpdateKeepsInv

\* A cancellation makes the counts taken before too high, never too low.
LEMMA CancelTicketKeepsInv ==
    ASSUME SeatsInv, NEW k \in Key, CancelTicket(k)
    PROVE  SeatsInv'
<1>1. /\ ticket' = [ticket EXCEPT ![k].status = "CANCELLED"]
      /\ UNCHANGED <<experience, caller, looked, vetted>>
  BY DEF CancelTicket
<1>2. ticket \in [Key -> TicketRow] /\ caller \in [Caller -> CallerRecord] /\ experience \in ExperienceRow
  BY DEF SeatsInv, SeatsTypeOK
<1>3. ticket' \in [Key -> TicketRow]
  BY <1>1, <1>2 DEF TicketRow
<1>4. SeatsSold' <= SeatsSold /\ SeatsSold \in Nat /\ SeatsSold' \in Nat
  <2>1. Occupied' \subseteq Key \X (1 .. MaxParty)
    BY DEF Occupied
  <2>2. SeatsSold' \in Nat
    BY <2>1, PairsAreFinite, FS_CardinalityType DEF SeatsSold
  <2> QED
    BY <1>1, <1>2, <2>2, SoldShrinks, SoldIsNat
<1>5. \A c \in Caller : caller[c].sold \in Nat
  BY <1>2 DEF CallerRecord
<1>6. experience.capacity \in Nat
  BY <1>2 DEF ExperienceRow
<1>7. SnapshotHolds'
  BY <1>1, <1>4, <1>5 DEF SeatsInv, SnapshotHolds, InTransaction
<1>8. SeatsWithinCapacity'
  BY <1>1, <1>4, <1>6 DEF SeatsInv, SeatsWithinCapacity
<1> QED
  BY <1>1, <1>3, <1>7, <1>8 DEF SeatsInv, SeatsTypeOK, OneLocks

\* Looking at the page, and the passing of startsAt.
LEMMA LookAtStartKeepInv ==
    ASSUME SeatsInv, LookAt \/ Start
    PROVE  SeatsInv'
<1>1. UNCHANGED <<ticket, caller, vetted>> /\ SeatsTypeOK
  BY DEF LookAt, Start, SeatsInv
<1>2. experience \in ExperienceRow /\ looked \in 1 .. MaxContent
  BY <1>1 DEF SeatsTypeOK
<1>3. experience' = experience \/ experience' = [experience EXCEPT !.started = TRUE]
  BY DEF LookAt, Start
<1>4. /\ experience' \in ExperienceRow /\ experience'.capacity = experience.capacity
      /\ experience'.status = experience.status
  BY <1>2, <1>3 DEF ExperienceRow
<1>5. looked' \in 1 .. MaxContent
  BY <1>2 DEF LookAt, Start, ExperienceRow
<1>6. SeatsSold' = SeatsSold
  BY <1>1 DEF SeatsSold, Occupied
<1>7. SeatsTypeOK'
  BY <1>1, <1>4, <1>5 DEF SeatsTypeOK
<1>8. SnapshotHolds' /\ OneLocks' /\ SeatsWithinCapacity'
  BY <1>1, <1>4, <1>6
     DEF SeatsInv, SnapshotHolds, InTransaction, OneLocks, SeatsWithinCapacity
<1> QED
  BY <1>7, <1>8 DEF SeatsInv

\* Nothing is sold at first.
LEMMA InitSatisfiesInv == SeatsInit => SeatsInv
<1> SUFFICES ASSUME SeatsInit PROVE SeatsInv
  OBVIOUS
<1>1. PICK capacity \in Capacities :
         experience = [status |-> "PENDING_APPROVAL", capacity |-> capacity, content |-> 1,
                       started |-> FALSE]
  BY DEF SeatsInit
<1>2. /\ ticket = [k \in Key |-> [status |-> "none", seats |-> 0]]
      /\ caller = [c \in Caller |-> Idler] /\ looked = 1 /\ vetted = 0
  BY DEF SeatsInit
<1>3. capacity \in Nat /\ MaxContent \in Nat \ {0} /\ MaxParty \in Nat \ {0}
  BY SeatsAssumption
<1>4. experience \in ExperienceRow /\ experience.capacity \in Nat
  BY <1>1, <1>3 DEF ExperienceRow, ExperienceStatuses
<1>5. ticket \in [Key -> TicketRow]
  BY <1>2, <1>3 DEF TicketRow
<1>6. \A c \in Caller : caller[c].pc = "idle"
  BY <1>2 DEF Idler
<1>7. SeatsTypeOK
  BY <1>2, <1>3, <1>4, <1>5, IdlerIsTyped DEF SeatsTypeOK
<1>8. SeatsSold = 0
  <2>1. Occupied = {}
    BY <1>2 DEF Occupied
  <2> QED
    BY <2>1, FS_EmptySet DEF SeatsSold
<1> QED
  BY <1>4, <1>6, <1>7, <1>8
     DEF SeatsInv, SnapshotHolds, InTransaction, OneLocks, SeatsWithinCapacity

\* Every step keeps the invariant.
LEMMA StepKeepsInv == SeatsInv /\ [SeatsNext]_seatsVars => SeatsInv'
<1> SUFFICES ASSUME SeatsInv, [SeatsNext]_seatsVars PROVE SeatsInv'
  OBVIOUS
<1>1. CASE UNCHANGED seatsVars
  BY <1>1 DEF seatsVars, SeatsInv, SeatsTypeOK, SnapshotHolds, InTransaction, OneLocks,
              SeatsWithinCapacity, SeatsSold, Occupied
<1>2. CASE SeatsNext
  BY <1>2, RequestKeepsInv, BookKeepsInv, ResizeKeepsInv, PlainEditKeepsInv, DecisionKeepsInv,
     CancelTicketKeepsInv, LookAtStartKeepInv DEF SeatsNext
<1> QED
  BY <1>1, <1>2

\* All reachable states satisfy it.
LEMMA SeatsInvariant == SeatsSpec => []SeatsInv
BY InitSatisfiesInv, StepKeepsInv, PTL DEF SeatsSpec

(***************************************************************************)
(* What the admin has vetted                                               *)
(***************************************************************************)

\* An experience that is on sale by a decision that crossed no edit is the one that was
\* looked at, and every edit under way will send it back to review.
VettedInv ==
    experience.status = "APPROVED" /\ vetted # Raced =>
        /\ vetted = experience.content
        /\ \A c \in Caller : Editing(c) => caller[c].demote

\* Steps of a request that write nothing start no edit that keeps the approval.
LEMMA RequestKeepsVetted ==
    ASSUME SeatsTypeOK, VettedInv, NEW c \in Caller,
           \/ \E k \in Key : BeginBook(c, k)
           \/ \E op \in {"edit", "resize"} : BeginEdit(c, op)
           \/ Open(c) \/ Lock(c) \/ GiveUp(c)
    PROVE  VettedInv'
<1>1. UNCHANGED <<experience, ticket, looked, vetted>>
  BY DEF BeginBook, BeginEdit, Open, Lock, GiveUp
<1> SUFFICES ASSUME experience.status = "APPROVED", vetted # Raced,
                    NEW d \in Caller, Editing(d)'
             PROVE  caller'[d].demote
  BY <1>1 DEF VettedInv, Raced
<1>2. Editing(d) => caller[d].demote
  BY DEF VettedInv
<1>3. caller \in [Caller -> CallerRecord] /\ caller[c] \in CallerRecord
  BY DEF SeatsTypeOK
<1>4. CASE d # c
  <2>1. caller'[d] = caller[d]
    BY <1>3, <1>4 DEF BeginBook, BeginEdit, Open, Lock, GiveUp, Gone
  <2> QED
    BY <1>2, <2>1 DEF Editing
<1>5. CASE d = c
  <2>1. ASSUME NEW k \in Key, BeginBook(c, k) PROVE caller'[c].demote
    <3>1. caller'[c].op = "book"
      BY <1>3, <2>1 DEF BeginBook, Idler
    <3> QED
      BY <1>5, <3>1 DEF Editing
  <2>2. ASSUME NEW op \in {"edit", "resize"}, BeginEdit(c, op) PROVE caller'[c].demote
    BY <1>3, <2>2 DEF BeginEdit, Idler
  <2>3. CASE Open(c) \/ Lock(c)
    <3>1. /\ caller'[c].op = caller[c].op /\ caller'[c].demote = caller[c].demote
          /\ caller[c].pc # "idle"
      BY <1>3, <2>3 DEF Open, Lock, CallerRecord
    <3> QED
      BY <1>2, <1>5, <3>1 DEF Editing
  <2>4. CASE GiveUp(c)
    <3>1. caller'[c].op = "book"
      BY <1>3, <2>4 DEF GiveUp, Gone, Idler
    <3> QED
      BY <1>5, <3>1 DEF Editing
  <2> QED
    BY <1>5, <2>1, <2>2, <2>3, <2>4
<1> QED
  BY <1>4, <1>5

\* A commit fails the others but does not change what they will write.
LEMMA EditorsStay ==
    ASSUME NEW callers \in [Caller -> CallerRecord], caller' = Restarted(callers)
    PROVE  \A d \in Caller : /\ caller'[d].pc # "idle" <=> callers[d].pc # "idle"
                             /\ caller'[d].op = callers[d].op
                             /\ caller'[d].demote = callers[d].demote
BY RestartedIsTyped

\* Neither a booking nor an edit puts on sale what nobody has vetted.
LEMMA CommitKeepsVetted ==
    ASSUME SeatsTypeOK, VettedInv, NEW c \in Caller,
           caller[c].pc # "idle", caller' = Restarted(Gone(c)), UNCHANGED vetted,
           \/ UNCHANGED experience
           \/ /\ Editing(c)
              /\ experience'.status = IF caller[c].demote THEN "PENDING_APPROVAL"
                                      ELSE experience.status
    PROVE  VettedInv'
<1> SUFFICES ASSUME experience'.status = "APPROVED", vetted # Raced
             PROVE  /\ vetted = experience'.content
                    /\ \A d \in Caller : Editing(d)' => caller'[d].demote
  BY DEF VettedInv, Raced
<1>1. experience' = experience
  <2>1. CASE Editing(c) /\ experience'.status = IF caller[c].demote THEN "PENDING_APPROVAL"
                                                ELSE experience.status
    <3>1. experience.status = "APPROVED" /\ ~caller[c].demote
      BY <2>1
    <3> QED
      BY <2>1, <3>1 DEF VettedInv
  <2> QED
    BY <2>1
<1>2. vetted = experience.content /\ \A d \in Caller : Editing(d) => caller[d].demote
  BY <1>1 DEF VettedInv
<1>3. /\ Gone(c) \in [Caller -> CallerRecord] /\ Gone(c)[c].pc = "idle"
      /\ \A d \in Caller \ {c} : Gone(c)[d] = caller[d]
  BY GoneIsTyped
<1>4. \A d \in Caller : Editing(d)' => caller'[d].demote
  BY <1>2, <1>3, EditorsStay DEF Editing
<1> QED
  BY <1>1, <1>2, <1>4

\* Every step keeps what is on sale vetted.
LEMMA StepKeepsVetted ==
    SeatsInv /\ VettedInv /\ [SeatsNext]_seatsVars => VettedInv'
<1> SUFFICES ASSUME SeatsInv, VettedInv, [SeatsNext]_seatsVars PROVE VettedInv'
  OBVIOUS
<1>1. SeatsTypeOK /\ caller \in [Caller -> CallerRecord] /\ experience \in ExperienceRow
  BY DEF SeatsInv, SeatsTypeOK
<1>2. CASE UNCHANGED seatsVars
  BY <1>2 DEF seatsVars, VettedInv, Editing, Raced
<1>3. ASSUME NEW c \in Caller, NEW n \in 1 .. MaxParty, Book(c, n) PROVE VettedInv'
  BY <1>1, <1>3, CommitKeepsVetted DEF Book
<1>4. ASSUME NEW c \in Caller, NEW capacity \in Capacities, Resize(c, capacity) PROVE VettedInv'
  <2>1. PICK postpone \in BOOLEAN : experience' = Edited(c, capacity, postpone)
    BY <1>4 DEF Resize
  <2>2. experience'.status = IF caller[c].demote THEN "PENDING_APPROVAL" ELSE experience.status
    BY <2>1 DEF Edited
  <2>3. caller[c].pc # "idle" /\ caller' = Restarted(Gone(c)) /\ UNCHANGED vetted /\ Editing(c)
    BY <1>4 DEF Resize, Editing
  <2> QED
    BY <1>1, <2>2, <2>3, CommitKeepsVetted
<1>5. ASSUME NEW c \in Caller, PlainEdit(c) PROVE VettedInv'
  <2>1. PICK postpone \in BOOLEAN : experience' = Edited(c, experience.capacity, postpone)
    BY <1>5 DEF PlainEdit
  <2>2. experience'.status = IF caller[c].demote THEN "PENDING_APPROVAL" ELSE experience.status
    BY <2>1 DEF Edited
  <2>3. caller[c].pc # "idle" /\ caller' = Restarted(Gone(c)) /\ UNCHANGED vetted /\ Editing(c)
    BY <1>5 DEF PlainEdit, Editing
  <2> QED
    BY <1>1, <2>2, <2>3, CommitKeepsVetted
<1>6. CASE Close
  <2>1. experience'.status = "CLOSED"
    BY <1>1, <1>6 DEF Close, ExperienceRow
  <2> QED
    BY <2>1 DEF VettedInv
<1>7. ASSUME NEW status \in ExperienceStatuses, Moderate(status) PROVE VettedInv'
  <2>1. /\ caller' = Restarted(caller)
        /\ vetted' = IF \/ looked # experience.content
                        \/ \E c \in Caller : Editing(c) /\ ~caller[c].demote
                     THEN Raced ELSE looked
    BY <1>7 DEF Moderate
  <2>2. experience'.content = experience.content
    BY <1>1, <1>7 DEF Moderate, ExperienceRow
  <2>3. ASSUME vetted' # Raced
        PROVE  /\ vetted' = experience'.content
               /\ \A c \in Caller : Editing(c) => caller[c].demote
    BY <2>1, <2>2, <2>3
  <2>4. \A c \in Caller : /\ Editing(c)' <=> Editing(c)
                          /\ caller'[c].demote = caller[c].demote
    BY <1>1, <2>1, EditorsStay DEF Editing
  <2> QED
    BY <2>3, <2>4 DEF VettedInv, Raced
<1>8. CASE LookAt \/ Start \/ \E k \in Key : CancelTicket(k)
  <2>1. UNCHANGED <<caller, vetted>>
    BY <1>8 DEF LookAt, Start, CancelTicket
  <2>2. experience'.status = experience.status /\ experience'.content = experience.content
    BY <1>1, <1>8 DEF LookAt, Start, CancelTicket, ExperienceRow
  <2> QED
    BY <2>1, <2>2 DEF VettedInv, Editing, Raced
<1> QED
  BY <1>1, <1>2, <1>3, <1>4, <1>5, <1>6, <1>7, <1>8, RequestKeepsVetted DEF SeatsNext

(***************************************************************************)
(* Theorems                                                                *)
(***************************************************************************)

\* Rows and requests keep their shape, however requests are failed and run again.
THEOREM SeatsTyped == SeatsSpec => []SeatsTypeOK
BY SeatsInvariant, PTL DEF SeatsInv

\* No number of concurrent bookings, resizes and cancellations oversells the experience.
THEOREM NeverOversold == SeatsSpec => []SeatsWithinCapacity
BY SeatsInvariant, PTL DEF SeatsInv

\* A seat is only ever sold of an experience that is on sale when the booking commits.
THEOREM SoldOnSale == SeatsSpec => SoldOnlyWhileApproved
<1> DEFINE Sale == \A k \in Key : ticket[k].status = "none" /\ ticket'[k].status = "CONFIRMED"
                      => experience.status = "APPROVED" /\ experience'.status = "APPROVED"
<1>1. SeatsInv /\ [SeatsNext]_seatsVars => [Sale]_seatsVars
  <2> SUFFICES ASSUME SeatsInv, SeatsNext, NEW k \in Key,
                      ticket[k].status = "none", ticket'[k].status = "CONFIRMED"
               PROVE  experience.status = "APPROVED" /\ experience'.status = "APPROVED"
    BY DEF Sale
  <2>1. ticket \in [Key -> TicketRow]
    BY DEF SeatsInv, SeatsTypeOK
  <2>2. ticket' # ticket
    OBVIOUS
  <2>3. PICK c \in Caller, n \in 1 .. MaxParty : Book(c, n)
    <3>1. ~ \E j \in Key : CancelTicket(j)
      <4> SUFFICES ASSUME NEW j \in Key, CancelTicket(j) PROVE FALSE
        OBVIOUS
      <4>1. ticket'[k] = ticket[k] \/ ticket'[k].status = "CANCELLED"
        BY <2>1 DEF CancelTicket, TicketRow
      <4> QED
        BY <4>1
    <3> QED
      BY <2>2, <3>1
         DEF SeatsNext, BeginBook, BeginEdit, PlainEdit, Open, Lock, GiveUp, Resize, Moderate,
             Close, LookAt, Start
  <2>4. caller[c].pc = "locked" /\ caller[c].status = "APPROVED" /\ UNCHANGED experience
    BY <2>3 DEF Book
  <2> QED
    BY <2>4 DEF SeatsInv, SnapshotHolds, InTransaction
<1>2. [SeatsNext]_seatsVars /\ SeatsInv => [Sale]_seatsVars
  BY <1>1
<1> QED
  BY <1>2, SeatsInvariant, PTL DEF SeatsSpec, SoldOnlyWhileApproved

\* What is on sale is what was vetted, unless the decision crossed an edit.
THEOREM OnSaleAsVetted == SeatsSpec => []ApprovedAsVettedUnlessRaced
<1>1. SeatsInit => VettedInv
  <2> SUFFICES ASSUME SeatsInit PROVE experience.status # "APPROVED"
    BY DEF VettedInv
  <2> QED
    BY DEF SeatsInit
<1>2. SeatsSpec => []VettedInv
  BY <1>1, StepKeepsVetted, SeatsInvariant, PTL DEF SeatsSpec
<1>3. VettedInv => ApprovedAsVettedUnlessRaced
  BY DEF VettedInv, ApprovedAsVettedUnlessRaced
<1> QED
  BY <1>2, <1>3, PTL

------------------------------------------------------------------------------
(* Payout lines and batches (module Payout). *)

RunsReadOpenLines ==
    \A p \in Procs : req[p].op = "run" =>
        \A l \in req[p].lines : line[l].st \in {"ELIGIBLE", "SCHEDULED", "PAID"}

PaysReadTheirBatch ==
    \A p \in Procs : req[p].op = "pay" =>
        /\ req[p].batch \in Batches
        /\ batch[req[p].batch].st \in {"SCHEDULED", "PAID"}
        /\ req[p].lines = LinesOf(req[p].batch)

PayoutInv == TypeOK /\ LinesFollowBatches /\ LedgerNamesBatchedLines
        /\ RunsReadOpenLines /\ PaysReadTheirBatch

Claims == LinesFollowBatches /\ LedgerNamesBatchedLines
          /\ RunsReadOpenLines /\ PaysReadTheirBatch

LEMMA PayoutStart == Init => PayoutInv
BY NullAssumption DEF Init, PayoutInv, TypeOK, LineRow, LineStatuses, BatchRow, Request, Idle,
       LinesFollowBatches, LedgerNamesBatchedLines, RunsReadOpenLines, PaysReadTheirBatch

LEMMA PayoutTypeStep == TypeOK /\ [Next]_vars => TypeOK'
<1> SUFFICES ASSUME TypeOK, [Next]_vars PROVE TypeOK'
  OBVIOUS
<1> USE DEF TypeOK
<1>0. \A l \in Lines :
         /\ \A s \in LineStatuses : [line[l] EXCEPT !.st = s] \in LineRow
         /\ \A b \in Batches : [line[l] EXCEPT !.st = "SCHEDULED", !.batch = b] \in LineRow
         /\ [line[l] EXCEPT !.due = TRUE] \in LineRow
         /\ [line[l] EXCEPT !.due = FALSE] \in LineRow
  BY DEF LineRow, LineStatuses
<1> Idle \in Request
  BY DEF Idle, Request
<1>1. ASSUME NEW l \in Lines, CreateLine(l) PROVE TypeOK'
  <2>1. line' = [line EXCEPT ![l] = [line[l] EXCEPT !.st = "NOT_ELIGIBLE"]]
    BY <1>1 DEF CreateLine
  <2>2. [line[l] EXCEPT !.st = "NOT_ELIGIBLE"] \in LineRow
    BY <1>0 DEF LineStatuses
  <2> QED
    BY <1>1, <2>1, <2>2 DEF CreateLine
<1>2. ASSUME NEW l \in Lines, FallDue(l) PROVE TypeOK'
  <2>1. line' = [line EXCEPT ![l] = [line[l] EXCEPT !.due = TRUE]]
    BY <1>2 DEF FallDue
  <2> QED
    BY <1>0, <1>2, <2>1 DEF FallDue
<1>3. ASSUME NEW stay \in Stays, CheckIn(stay) PROVE TypeOK'
  BY <1>0, <1>3 DEF CheckIn
<1>4. CASE MarkEligible
  BY <1>0, <1>4 DEF MarkEligible, LineStatuses
<1>5. ASSUME NEW p \in Procs, ReadEligible(p) PROVE TypeOK'
  BY <1>5 DEF ReadEligible, Ask, LinesIn, Request
<1>6. ASSUME NEW p \in Procs, NEW b \in Batches, CreateBatch(p, b) PROVE TypeOK'
  <2>1. line' \in [Lines -> LineRow]
    BY <1>0, <1>6 DEF CreateBatch
  <2>2. req[p] \in Request /\ req[p].lines \subseteq Lines
    BY DEF Request
  <2>3. [st |-> "SCHEDULED", counted |-> req[p].lines] \in BatchRow
    BY <2>2 DEF BatchRow
  <2>4. batch' \in [Batches -> BatchRow]
    BY <1>6, <2>3 DEF CreateBatch
  <2>5. \A l \in Lines : scheduled[l] \in Nat /\ scheduled[l] + 1 \in Nat
    OBVIOUS
  <2>6. scheduled' \in [Lines -> Nat]
    BY <1>6, <2>5 DEF CreateBatch
  <2>7. req' = [req EXCEPT ![p] = Idle]
    BY <1>6 DEF CreateBatch
  <2>8. req' \in [Procs -> Request]
    BY <2>7
  <2> QED
    BY <1>6, <2>1, <2>4, <2>6, <2>8 DEF CreateBatch
<1>7. ASSUME NEW p \in Procs, NEW b \in Batches, ReadBatch(p, b) PROVE TypeOK'
  BY <1>7 DEF ReadBatch, Ask, LinesOf, Request
<1>8. ASSUME NEW p \in Procs, PayBatch(p) PROVE TypeOK'
  <2>1. line' \in [Lines -> LineRow]
    BY <1>0, <1>8 DEF PayBatch, LineStatuses
  <2>2. \A b \in Batches : [batch[b] EXCEPT !.st = "PAID"] \in BatchRow
    BY DEF BatchRow
  <2>3. batch' = [batch EXCEPT ![req[p].batch] = [batch[req[p].batch] EXCEPT !.st = "PAID"]]
    BY <1>8 DEF PayBatch
  <2>4. batch' \in [Batches -> BatchRow]
    BY <2>2, <2>3
  <2>5. sent' \in [Lines -> Nat] /\ req' \in [Procs -> Request]
    BY <1>8 DEF PayBatch
  <2> QED
    BY <1>8, <2>1, <2>4, <2>5 DEF PayBatch
<1>9. ASSUME NEW p \in Procs, Abort(p) PROVE TypeOK'
  BY <1>9 DEF Abort
<1>10. CASE UNCHANGED vars
  BY <1>10 DEF vars
<1> QED
  BY <1>1, <1>2, <1>3, <1>4, <1>5, <1>6, <1>7, <1>8, <1>9, <1>10 DEF Next

\* A line that is not eligible yet belongs to no batch and to no request.
LEMMA LineMoves ==
    ASSUME PayoutInv, NEW l \in Lines, CreateLine(l) \/ FallDue(l) PROVE Claims'
<1> USE DEF PayoutInv, TypeOK, LineRow
<1>1. \A k \in Lines :
         /\ line'[k].batch = line[k].batch
         /\ \/ line'[k].st = line[k].st
            \/ line[k].st = "none" /\ line'[k].st = "NOT_ELIGIBLE"
  <2>1. CASE CreateLine(l)
    <3>1. line[l].st = "none" /\ line'[l] = [line[l] EXCEPT !.st = "NOT_ELIGIBLE"]
      BY <2>1 DEF CreateLine
    <3>2. \A k \in Lines \ {l} : line'[k] = line[k]
      BY <2>1 DEF CreateLine
    <3> QED
      BY <3>1, <3>2
  <2>2. CASE FallDue(l)
    <3>1. line'[l] = [line[l] EXCEPT !.due = TRUE]
      BY <2>2 DEF FallDue
    <3>2. \A k \in Lines \ {l} : line'[k] = line[k]
      BY <2>2 DEF FallDue
    <3> QED
      BY <3>1, <3>2
  <2> QED
    BY <2>1, <2>2
<1>2. UNCHANGED <<batch, scheduled, sent, req>>
  BY DEF CreateLine, FallDue
<1>3. LinesFollowBatches'
  BY <1>1, <1>2 DEF LinesFollowBatches
<1>4. LedgerNamesBatchedLines'
  BY <1>1, <1>2 DEF LedgerNamesBatchedLines
<1>5. RunsReadOpenLines'
  BY <1>1, <1>2 DEF RunsReadOpenLines, Request
<1>6. PaysReadTheirBatch'
  BY <1>1, <1>2 DEF PaysReadTheirBatch, LinesOf
<1> QED
  BY <1>3, <1>4, <1>5, <1>6 DEF Claims

LEMMA DueMoves == ASSUME PayoutInv, NEW stay \in Stays, CheckIn(stay) PROVE Claims'
<1> USE DEF PayoutInv, TypeOK, LineRow
<1>1. \A k \in Lines : line'[k].batch = line[k].batch /\ line'[k].st = line[k].st
  BY DEF CheckIn
<1>2. UNCHANGED <<batch, scheduled, sent, req>>
  BY DEF CheckIn
<1>3. LinesFollowBatches'
  BY <1>1, <1>2 DEF LinesFollowBatches
<1>4. LedgerNamesBatchedLines'
  BY <1>1, <1>2 DEF LedgerNamesBatchedLines
<1>5. RunsReadOpenLines'
  BY <1>1, <1>2 DEF RunsReadOpenLines, Request
<1>6. PaysReadTheirBatch'
  BY <1>1, <1>2 DEF PaysReadTheirBatch, LinesOf
<1> QED
  BY <1>3, <1>4, <1>5, <1>6 DEF Claims

LEMMA EligibilityMoves == ASSUME PayoutInv, MarkEligible PROVE Claims'
<1> USE DEF PayoutInv, TypeOK, LineRow
<1>1. \A k \in Lines :
         /\ line'[k].batch = line[k].batch
         /\ \/ line'[k].st = line[k].st
            \/ line[k].st = "NOT_ELIGIBLE" /\ line'[k].st = "ELIGIBLE"
  <2> SUFFICES ASSUME NEW k \in Lines
               PROVE  /\ line'[k].batch = line[k].batch
                      /\ \/ line'[k].st = line[k].st
                         \/ line[k].st = "NOT_ELIGIBLE" /\ line'[k].st = "ELIGIBLE"
    OBVIOUS
  <2>1. \/ line'[k] = line[k]
        \/ line[k].st = "NOT_ELIGIBLE" /\ line'[k] = [line[k] EXCEPT !.st = "ELIGIBLE"]
    BY DEF MarkEligible, LineStatuses
  <2> QED
    BY <2>1
<1>2. UNCHANGED <<batch, scheduled, sent, req>>
  BY DEF MarkEligible
<1>3. LinesFollowBatches'
  <2>1. \A c \in Batches : batch[c].st \in {"none", "SCHEDULED", "PAID"}
    BY DEF BatchRow
  <2> QED
    BY <1>1, <1>2, <2>1 DEF LinesFollowBatches
<1>4. LedgerNamesBatchedLines'
  BY <1>1, <1>2 DEF LedgerNamesBatchedLines
<1>5. RunsReadOpenLines'
  BY <1>1, <1>2 DEF RunsReadOpenLines, Request
<1>6. PaysReadTheirBatch'
  BY <1>1, <1>2 DEF PaysReadTheirBatch, LinesOf
<1> QED
  BY <1>3, <1>4, <1>5, <1>6 DEF Claims

\* Reads and roll-backs change no table.
LEMMA RequestMoves ==
    ASSUME PayoutInv, NEW p \in Procs,
           ReadEligible(p) \/ (\E b \in Batches : ReadBatch(p, b)) \/ Abort(p)
    PROVE  Claims'
<1> USE DEF PayoutInv, TypeOK
<1>1. UNCHANGED <<line, batch, scheduled, sent>>
  BY DEF ReadEligible, ReadBatch, Ask, Abort
<1>2. \A q \in Procs :
         \/ req'[q] = req[q]
         \/ req'[q] = Idle
         \/ req'[q].op = "run" /\ req'[q].lines = LinesIn("ELIGIBLE")
         \/ /\ req'[q].op = "pay" /\ req'[q].batch \in Batches
            /\ batch[req'[q].batch].st = "SCHEDULED" /\ req'[q].lines = LinesOf(req'[q].batch)
  BY DEF ReadEligible, ReadBatch, Ask, Abort
<1>3. LinesFollowBatches' /\ LedgerNamesBatchedLines'
  BY <1>1 DEF LinesFollowBatches, LedgerNamesBatchedLines
<1>4. RunsReadOpenLines'
  BY <1>1, <1>2 DEF RunsReadOpenLines, LinesIn, Idle
<1>5. PaysReadTheirBatch'
  BY <1>1, <1>2 DEF PaysReadTheirBatch, LinesOf, Idle
<1> QED
  BY <1>3, <1>4, <1>5 DEF Claims

\* The new batch takes lines that are in none, and no line names it before.
LEMMA BatchMoves ==
    ASSUME PayoutInv, NEW p \in Procs, NEW b \in Batches, CreateBatch(p, b) PROVE Claims'
<1> USE NullAssumption DEF PayoutInv, TypeOK, LineRow, BatchRow
<1>1. \A k \in Lines :
         IF line[k].st = "ELIGIBLE" THEN line'[k].st = "SCHEDULED" /\ line'[k].batch = b
         ELSE line'[k] = line[k]
  BY DEF CreateBatch, LinkLines, LinesIn
<1>2. /\ batch'[b].st = "SCHEDULED" /\ batch[b].st = "none"
      /\ \A c \in Batches \ {b} : batch'[c] = batch[c]
  BY DEF CreateBatch
<1>3. \A k \in Lines : line[k].batch # b
  BY <1>2 DEF LinesFollowBatches
<1>4. \A k \in Lines : line[k].st = "ELIGIBLE" => line[k].batch = NoBatch
  BY DEF LinesFollowBatches
<1>5. LinesFollowBatches'
  BY <1>1, <1>2, <1>3 DEF LinesFollowBatches
<1>6. LedgerNamesBatchedLines'
  <2>1. sent' = sent
    BY DEF CreateBatch
  <2>2. \A k \in Lines : sent[k] > 0 <=> line'[k].st = "PAID"
    BY <1>1 DEF LedgerNamesBatchedLines
  <2>3. ASSUME NEW k \in Lines, scheduled'[k] > 0 PROVE line'[k].batch # NoBatch
    <3>1. CASE k \in req[p].lines
      <4>1. line[k].st \in {"ELIGIBLE", "SCHEDULED", "PAID"}
        BY <3>1 DEF CreateBatch, RunsReadOpenLines
      <4> QED
        BY <4>1, <1>1 DEF LinesFollowBatches
    <3>2. CASE k \notin req[p].lines
      BY <2>3, <3>2, <1>1 DEF CreateBatch, LedgerNamesBatchedLines
    <3> QED
      BY <3>1, <3>2
  <2> QED
    BY <2>1, <2>2, <2>3 DEF LedgerNamesBatchedLines
<1>7. \A q \in Procs : req'[q] = req[q] \/ req'[q] = Idle
  BY DEF CreateBatch
<1>8. RunsReadOpenLines'
  BY <1>1, <1>7 DEF RunsReadOpenLines, Request, Idle
<1>9. PaysReadTheirBatch'
  <2> SUFFICES ASSUME NEW q \in Procs, req'[q].op = "pay"
               PROVE  /\ req'[q].batch \in Batches
                      /\ batch'[req'[q].batch].st \in {"SCHEDULED", "PAID"}
                      /\ req'[q].lines = {k \in Lines : line'[k].batch = req'[q].batch}
    BY DEF PaysReadTheirBatch, LinesOf
  <2>1. req'[q] = req[q]
    BY <1>7 DEF Idle
  <2>2. req[q].batch \in Batches \ {b} /\ batch[req[q].batch].st \in {"SCHEDULED", "PAID"}
        /\ req[q].lines = {k \in Lines : line[k].batch = req[q].batch}
    BY <2>1, <1>2 DEF PaysReadTheirBatch, LinesOf
  <2>3. \A k \in Lines : line'[k].batch = req[q].batch <=> line[k].batch = req[q].batch
    BY <2>2, <1>1, <1>4
  <2> QED
    BY <2>1, <2>2, <2>3, <1>2
<1> QED
  BY <1>5, <1>6, <1>8, <1>9 DEF Claims

\* The lines read are the lines of the batch, and all of them become PAID.
LEMMA PayMoves == ASSUME PayoutInv, NEW p \in Procs, PayBatch(p) PROVE Claims'
<1> DEFINE b == req[p].batch
<1> USE NullAssumption DEF PayoutInv, TypeOK, LineRow, BatchRow
<1>1. b \in Batches /\ batch[b].st \in {"SCHEDULED", "PAID"} /\ req[p].lines = LinesOf(b)
  BY DEF PayBatch, PaysReadTheirBatch
<1>2. \A k \in Lines :
         IF line[k].batch = b THEN line'[k].st = "PAID" /\ line'[k].batch = b
         ELSE line'[k] = line[k]
  BY <1>1 DEF PayBatch, LinesToPay, LinesOf
<1>3. batch'[b].st = "PAID" /\ \A c \in Batches \ {b} : batch'[c] = batch[c]
  BY <1>1 DEF PayBatch
<1>4. LinesFollowBatches'
  BY <1>1, <1>2, <1>3 DEF LinesFollowBatches
<1>5. LedgerNamesBatchedLines'
  <2>1. \A k \in Lines : sent'[k] = IF line[k].batch = b THEN sent[k] + 1 ELSE sent[k]
    BY <1>1 DEF PayBatch, LinesOf
  <2>2. scheduled' = scheduled
    BY DEF PayBatch
  <2> QED
    BY <1>1, <1>2, <2>1, <2>2 DEF LedgerNamesBatchedLines
<1>6. \A q \in Procs : req'[q] = req[q] \/ req'[q] = Idle
  BY DEF PayBatch
<1>7. RunsReadOpenLines'
  BY <1>2, <1>6 DEF RunsReadOpenLines, Request, Idle
<1>8. PaysReadTheirBatch'
  <2> SUFFICES ASSUME NEW q \in Procs, req'[q].op = "pay"
               PROVE  /\ req'[q].batch \in Batches
                      /\ batch'[req'[q].batch].st \in {"SCHEDULED", "PAID"}
                      /\ req'[q].lines = {k \in Lines : line'[k].batch = req'[q].batch}
    BY DEF PaysReadTheirBatch, LinesOf
  <2>1. req'[q] = req[q]
    BY <1>6 DEF Idle
  <2>2. req[q].batch \in Batches /\ batch[req[q].batch].st \in {"SCHEDULED", "PAID"}
        /\ req[q].lines = {k \in Lines : line[k].batch = req[q].batch}
    BY <2>1 DEF PaysReadTheirBatch, LinesOf
  <2>3. \A k \in Lines : line'[k].batch = line[k].batch
    BY <1>2
  <2> QED
    BY <2>1, <2>2, <2>3, <1>3
<1> QED
  BY <1>4, <1>5, <1>7, <1>8 DEF Claims

LEMMA PayoutStep == PayoutInv /\ [Next]_vars => PayoutInv'
<1> SUFFICES ASSUME PayoutInv, [Next]_vars PROVE Claims'
  BY PayoutTypeStep DEF PayoutInv, Claims
<1>1. CASE UNCHANGED vars
  BY <1>1 DEF PayoutInv, vars, Claims, LinesFollowBatches, LedgerNamesBatchedLines,
              RunsReadOpenLines, PaysReadTheirBatch, LinesOf
<1> QED
  BY <1>1, LineMoves, DueMoves, EligibilityMoves, RequestMoves, BatchMoves, PayMoves DEF Next

LEMMA PayoutInvariance == Spec => []PayoutInv
BY PayoutStart, PayoutStep, PTL DEF Spec

\* Every row and request has the shape the code gives it.
THEOREM PayoutTyped == Spec => []TypeOK
BY PayoutInvariance, PTL DEF PayoutInv

\* A line is scheduled, or paid, exactly when its batch is (markBatchPaid).
THEOREM LinesAndBatchesAgree == Spec => []LinesFollowBatches
BY PayoutInvariance, PTL DEF PayoutInv

\* The ledger announces no payout outside a batch and reports as sent exactly
\* the PAID lines, although both are taken from an earlier read.
THEOREM LedgerIsSound == Spec => []LedgerNamesBatchedLines
BY PayoutInvariance, PTL DEF PayoutInv

\* No overlapping batch ever takes a line from another (runWeeklyBatch).
THEOREM NoLineChangesBatch == Spec => LineKeepsItsBatch
<1> DEFINE Kept == \A l \in Lines : line[l].batch # NoBatch => line'[l].batch = line[l].batch
<1>1. PayoutInv /\ [Next]_vars => [Kept]_vars
  <2> SUFFICES ASSUME PayoutInv, Next PROVE Kept
    OBVIOUS
  <2> USE DEF PayoutInv, TypeOK, LineRow
  <2>1. ASSUME NEW p \in Procs, NEW b \in Batches, CreateBatch(p, b) PROVE Kept
    <3>1. \A k \in Lines : line[k].st # "ELIGIBLE" => line'[k] = line[k]
      BY <2>1 DEF CreateBatch, LinkLines, LinesIn
    <3>2. \A k \in Lines : line[k].st = "ELIGIBLE" => line[k].batch = NoBatch
      <4>1. \A c \in Batches : batch[c].st # "ELIGIBLE"
        BY DEF BatchRow
      <4> QED
        BY <4>1 DEF LinesFollowBatches
    <3> QED
      BY <3>1, <3>2
  <2>2. ASSUME NEW p \in Procs, PayBatch(p) PROVE Kept
    BY <2>2 DEF PayBatch
  <2>3. ASSUME NEW l \in Lines, CreateLine(l) PROVE Kept
    <3>1. line'[l] = [line[l] EXCEPT !.st = "NOT_ELIGIBLE"]
      BY <2>3 DEF CreateLine
    <3>2. \A k \in Lines \ {l} : line'[k] = line[k]
      BY <2>3 DEF CreateLine
    <3> QED
      BY <3>1, <3>2
  <2>4. ASSUME NEW l \in Lines, FallDue(l) PROVE Kept
    <3>1. line'[l] = [line[l] EXCEPT !.due = TRUE]
      BY <2>4 DEF FallDue
    <3>2. \A k \in Lines \ {l} : line'[k] = line[k]
      BY <2>4 DEF FallDue
    <3> QED
      BY <3>1, <3>2
  <2>5. ASSUME NEW stay \in Stays, CheckIn(stay) PROVE Kept
    BY <2>5 DEF CheckIn
  <2>6. CASE MarkEligible
    BY <2>6 DEF MarkEligible
  <2>7. ASSUME NEW p \in Procs, NEW b \in Batches, ReadBatch(p, b) PROVE Kept
    BY <2>7 DEF ReadBatch, Ask
  <2>8. ASSUME NEW p \in Procs, ReadEligible(p) \/ Abort(p) PROVE Kept
    BY <2>8 DEF ReadEligible, Ask, Abort
  <2> QED
    BY <2>1, <2>2, <2>3, <2>4, <2>5, <2>6, <2>7, <2>8 DEF Next
<1> QED
  BY <1>1, PayoutInvariance, PTL DEF Spec, LineKeepsItsBatch

------------------------------------------------------------------------------
(* The amounts of a booking (module Amounts). *)

(***************************************************************************)
(* Division and rounding                                                   *)
(***************************************************************************)

\* Quotient and remainder.
LEMMA Division ==
    ASSUME NEW n \in Nat, NEW d \in Nat \ {0}
    PROVE  /\ n \div d \in Nat
           /\ d * (n \div d) <= n
           /\ n < d * (n \div d) + d
OBVIOUS

\* A rounded quotient is a nearest one: twice the error is at most the divisor.
LEMMA RoundedIsNearest ==
    ASSUME NEW n \in Nat, NEW d \in Nat \ {0}
    PROVE  /\ Rounded(n, d) \in Nat
           /\ 2 * (d * Rounded(n, d)) <= 2 * n + d
           /\ 2 * n + d < 2 * (d * Rounded(n, d)) + 2 * d
<1> DEFINE m == 2 * n + d
           e == 2 * d
           q == m \div e
<1>1. m \in Nat /\ e \in Nat \ {0}
  OBVIOUS
<1>2. q \in Nat /\ e * q <= m /\ m < e * q + e
  <2> HIDE DEF m, e
  <2> QED
    BY <1>1, Division
<1> HIDE DEF q
<1>3. e * q = 2 * (d * q)
  BY <1>2
<1>4. q = Rounded(n, d)
  BY DEF Rounded, q
<1> QED
  BY <1>2, <1>3, <1>4

\* A positive factor cancels.
LEMMA Squeeze ==
    ASSUME NEW t \in Nat \ {0}, NEW u \in Int, NEW v \in Int
    PROVE  /\ t * u <= t * v => u <= v
           /\ t * u < t * v => u < v
OBVIOUS

\* The roundings of two parts of an amount meet at the amount, or one above it.
LEMMA SharesMeet ==
    ASSUME NEW a \in Nat, NEW t \in Nat \ {0}, NEW d \in Nat, d <= t
    PROVE  Rounded(a * d, t) + Rounded(a * (t - d), t) \in {a, a + 1}
<1> DEFINE x == Rounded(a * d, t)
           y == Rounded(a * (t - d), t)
<1>1. a * d \in Nat /\ a * (t - d) \in Nat /\ a * d + a * (t - d) = t * a
  OBVIOUS
<1>2. /\ x \in Nat /\ 2 * (t * x) <= 2 * (a * d) + t /\ 2 * (a * d) + t < 2 * (t * x) + 2 * t
  BY <1>1, RoundedIsNearest
<1>3. /\ y \in Nat /\ 2 * (t * y) <= 2 * (a * (t - d)) + t /\ 2 * (a * (t - d)) + t < 2 * (t * y) + 2 * t
  BY <1>1, RoundedIsNearest
<1> HIDE DEF x, y
<1>4. t * x + t * y <= t * a + t /\ t * a < t * x + t * y + t
  <2> DEFINE p == a * d
             q == a * (t - d)
             X == t * x
             Y == t * y
             A == t * a
  <2>1. p \in Int /\ q \in Int /\ X \in Int /\ Y \in Int /\ A \in Int
    BY <1>1, <1>2, <1>3
  <2>2. 2 * X <= 2 * p + t /\ 2 * p + t < 2 * X + 2 * t /\ 2 * Y <= 2 * q + t /\ 2 * q + t < 2 * Y + 2 * t /\ p + q = A
    BY <1>1, <1>2, <1>3
  <2> HIDE DEF p, q, X, Y, A
  <2>3. X + Y <= A + t /\ A < X + Y + t
    BY <2>1, <2>2
  <2> QED
    BY <2>3 DEF X, Y, A
<1>5. t * (x + y) <= t * (a + 1) /\ t * a < t * (x + y + 1)
  BY <1>2, <1>3, <1>4
<1>6. x + y <= a + 1 /\ a < x + y + 1
  BY <1>2, <1>3, <1>5, Squeeze
<1>7. x + y \in {a, a + 1}
  BY <1>2, <1>3, <1>6
<1> QED
  BY <1>7 DEF x, y

\* Rounding a multiple changes nothing.
LEMMA WholeIsExact ==
    ASSUME NEW a \in Nat, NEW t \in Nat \ {0}
    PROVE  Rounded(a * t, t) = a
<1> DEFINE x == Rounded(a * t, t)
<1>1. a * t \in Nat /\ a * t = t * a /\ t * a \in Nat
  OBVIOUS
<1>2. x \in Nat /\ 2 * (t * x) <= 2 * (a * t) + t /\ 2 * (a * t) + t < 2 * (t * x) + 2 * t
  BY <1>1, RoundedIsNearest
<1> HIDE DEF x
<1>3. t * x < t * a + t /\ t * a < t * x + t
  BY <1>1, <1>2
<1>4. t * x < t * (a + 1) /\ t * a < t * (x + 1)
  BY <1>2, <1>3
<1>5. x < a + 1 /\ a < x + 1
  BY <1>2, <1>4, Squeeze
<1> QED
  BY <1>2, <1>5 DEF x

\* The deposit is a part of the price.
LEMMA HalfIsPart ==
    ASSUME NEW n \in Nat
    PROVE  Rounded(n, 2) \in 0 .. n
BY DEF Rounded

\* The discounted platform fee is never negative.
LEMMA FeeIsNat ==
    ASSUME NEW stayPrice \in Nat, NEW discount \in 0 .. 100
    PROVE  Fee(stayPrice, discount) \in Nat
<1> DEFINE f == Rounded(stayPrice, 10)
           p == f * discount
           g == Rounded(p, 100)
<1>1. f \in Nat
  BY RoundedIsNearest
<1> HIDE DEF f
<1>2. p \in Nat /\ p <= f * 100
  BY <1>1
<1> HIDE DEF p
<1>3. g \in Nat /\ 2 * (100 * g) <= 2 * p + 100
  BY <1>2, RoundedIsNearest
<1> HIDE DEF g
<1>4. 200 * g <= 200 * f + 100
  BY <1>1, <1>2, <1>3
<1>5. f - g \in Nat
  BY <1>1, <1>3, <1>4
<1> QED
  BY <1>5 DEF Fee, f, p, g

\* A stay that costs something has a price.
LEMMA PriceIsPositive ==
    ASSUME NEW stayPrice \in Nat \ {0}, NEW addOns \in Nat, NEW discount \in 0 .. 100
    PROVE  Price(stayPrice, addOns, discount) \in Nat \ {0}
<1> DEFINE f == Fee(stayPrice, discount)
           c == Rounded(15 * addOns, 100)
           p == 18 * (f + c)
           g == Rounded(p, 100)
<1>1. f \in Nat
  BY FeeIsNat
<1>2. c \in Nat
  BY RoundedIsNearest
<1> HIDE DEF f, c
<1>3. p \in Nat
  BY <1>1, <1>2
<1> HIDE DEF p
<1>4. g \in Nat
  BY <1>3, RoundedIsNearest
<1> HIDE DEF g
<1>5. stayPrice + f + addOns + g \in Nat \ {0}
  BY <1>1, <1>4
<1> QED
  BY <1>5 DEF Price, f, c, p, g

\* The first instalment of splitAmount is the one the quote asks for.
LEMMA Split ==
    ASSUME NEW total \in Nat, NEW months \in Nat \ {0}
    PROVE  /\ total \div months \in Nat
           /\ total - (total \div months) * months \in 0 .. (months - 1)
           /\ SplitFirst(total, months) = Instalment(total, months, 1)
           /\ SplitFirst(total, months) \in Nat
<1> DEFINE base == total \div months
           rest == total - base * months
<1>1. base \in Nat /\ months * base <= total /\ total < months * base + months
  BY Division
<1> HIDE DEF base
<1>2. rest \in 0 .. (months - 1)
  BY <1>1
<1> HIDE DEF rest
<1>3. (IF rest > 0 THEN 1 ELSE 0) = (IF 1 <= rest THEN 1 ELSE 0)
  BY <1>2
<1>4. base + (IF rest > 0 THEN 1 ELSE 0) \in Nat
  BY <1>1
<1> QED
  BY <1>1, <1>2, <1>3, <1>4 DEF SplitFirst, Instalment, base, rest

\* What n instalments come to: the remainder is in the first ones.
Paid(total, months, n) ==
    n * (total \div months)
        + (IF n <= total - (total \div months) * months
           THEN n ELSE total - (total \div months) * months)

\* Instalments add up one by one, and all of them to the total.
LEMMA PaidAddsUp ==
    ASSUME NEW total \in Nat, NEW months \in Nat \ {0}
    PROVE  /\ Paid(total, months, 0) = 0
           /\ \A n \in 0 .. months : Paid(total, months, n) \in 0 .. total
           /\ \A n \in 0 .. (months - 1) :
                 Paid(total, months, n + 1) = Paid(total, months, n) + Instalment(total, months, n + 1)
           /\ Paid(total, months, months) = total
<1> DEFINE base == total \div months
           rest == total - base * months
           P(n) == n * base + (IF n <= rest THEN n ELSE rest)
           I(n) == base + (IF n <= rest THEN 1 ELSE 0)
<1>1. base \in Nat /\ rest \in 0 .. (months - 1)
  BY Split
<1>2. \A n : Paid(total, months, n) = P(n) /\ Instalment(total, months, n) = I(n)
  BY DEF Paid, Instalment
<1>3. total = months * base + rest /\ months * base \in Nat
  BY <1>1
<1> HIDE DEF base, rest
<1>4. P(0) = 0
  BY <1>1
<1>5. P(months) = total
  BY <1>1, <1>3
<1>6. ASSUME NEW n \in 0 .. (months - 1)
      PROVE  P(n + 1) = P(n) + I(n + 1)
  <2>1. (n + 1) * base = n * base + base /\ n * base \in Nat
    BY <1>1
  <2> QED
    BY <1>1, <2>1
<1>7. ASSUME NEW n \in 0 .. months
      PROVE  P(n) \in 0 .. total
  <2>1. n * base \in Nat /\ n * base <= months * base
    BY <1>1
  <2> QED
    BY <1>1, <1>3, <2>1
<1> HIDE DEF P, I
<1> QED
  BY <1>2, <1>4, <1>5, <1>6, <1>7

(***************************************************************************)
(* The inductive invariant                                                 *)
(***************************************************************************)

\* What the host is promised once the first capture is in.
FirstShare == IF quote.plan = "FULL" THEN Share(quote.total)
              ELSE IF quote.plan = "DEPOSIT_50" THEN Share(quote.deposit) ELSE Share(quote.first)

\* The quote is consistent, and the number of captures determines both sums.
Quoted ==
    /\ quote \in Snapshot
    /\ quote.total > 0
    /\ quote.deposit \in 0 .. quote.total
    /\ quote.first = Instalment(quote.total, quote.months, 1)

Collected ==
    CASE quote.plan = "FULL" -> captured = (IF captures = 0 THEN 0 ELSE quote.total)
      [] quote.plan = "DEPOSIT_50" ->
            captured = (IF captures = 0 THEN 0 ELSE IF captures = 1 THEN quote.deposit ELSE quote.total)
      [] quote.plan = "PAY_LATER" -> captured = Paid(quote.total, quote.months, captures)

Promised ==
    lines = IF captures = 0 THEN 0
            ELSE IF quote.plan = "DEPOSIT_50" /\ captures = 2
                 THEN Share(quote.deposit) + Share(quote.total - quote.deposit)
                 ELSE FirstShare

AmountsInv ==
    /\ captures \in Nat /\ captured \in Nat /\ lines \in Nat
    /\ \/ quote = Unquoted /\ captures = 0 /\ captured = 0 /\ lines = 0
       \/ Quoted /\ captures <= Due /\ Collected /\ Promised

\* The marker for "no quote yet" is not taken for one.
LEMMA SnapshotIsQuote == Unquoted \notin Snapshot
<1>1. \A q \in Snapshot : q.plan \in PaymentPlans
  BY DEF Snapshot
<1> QED
  BY <1>1 DEF Unquoted, PaymentPlans

\* The fields of a consistent quote.
LEMMA QuotedFields ==
    ASSUME Quoted
    PROVE  /\ quote \in Snapshot /\ quote.plan \in PaymentPlans /\ quote.months \in Nat \ {0}
           /\ quote.stayPrice \in Nat /\ quote.total \in Nat \ {0} /\ quote.first \in Nat
           /\ quote.deposit \in 0 .. quote.total
<1>1. quote \in Snapshot /\ quote.total > 0 /\ quote.deposit \in 0 .. quote.total
  BY DEF Quoted
<1>2. /\ quote.plan \in PaymentPlans /\ quote.months \in MonthOptions /\ quote.stayPrice \in Nat
      /\ quote.total \in Nat /\ quote.first \in Nat
  BY <1>1 DEF Snapshot
<1>3. quote.months \in Nat \ {0}
  BY <1>2, QuoteAssumption
<1>4. quote.total \in Nat \ {0}
  BY <1>1, <1>2
<1> QED
  BY <1>1, <1>2, <1>3, <1>4

\* One step of PaidAddsUp.
LEMMA PaidNext ==
    ASSUME NEW total \in Nat, NEW months \in Nat \ {0}, NEW n \in 0 .. (months - 1)
    PROVE  Paid(total, months, n + 1) = Paid(total, months, n) + Instalment(total, months, n + 1)
BY PaidAddsUp

\* Shares are whole paise.
LEMMA ShareIsNat ==
    ASSUME quote \in Snapshot, quote.total > 0, NEW amount \in Nat
    PROVE  Share(amount) \in Nat
<1> DEFINE p == quote.stayPrice * amount
<1>1. quote.stayPrice \in Nat /\ quote.total \in Nat \ {0}
  BY DEF Snapshot
<1>2. p \in Nat
  BY <1>1
<1> HIDE DEF p
<1>3. Rounded(p, quote.total) \in Nat
  BY <1>1, <1>2, RoundedIsNearest
<1> QED
  BY <1>3 DEF Share, p

\* Quoting an accepted price establishes the invariant.
LEMMA QuoteKeepsInv ==
    ASSUME AmountsInv,
           NEW stayPrice \in StayPrices, NEW addOns \in AddOnPrices, NEW discount \in Discounts,
           NEW plan \in PaymentPlans, NEW months \in MonthOptions,
           Quote(stayPrice, addOns, discount, plan, months)
    PROVE  AmountsInv'
<1> DEFINE total == Price(stayPrice, addOns, discount)
           new == [plan |-> plan, months |-> months, stayPrice |-> stayPrice, total |-> total,
                   deposit |-> Rounded(total, 2), first |-> SplitFirst(total, months)]
<1>1. stayPrice \in Nat \ {0} /\ addOns \in Nat /\ discount \in 0 .. 100 /\ months \in Nat \ {0}
  BY QuoteAssumption
<1>2. total \in Nat \ {0}
  BY <1>1, PriceIsPositive
<1>3. quote' = new /\ captures' = 0 /\ captured' = 0 /\ lines' = 0
  BY SnapshotIsQuote DEF Quote, AmountsInv, Quoted
<1> HIDE DEF total
<1>4. Rounded(total, 2) \in 0 .. total
  BY <1>2, HalfIsPart
<1>5. SplitFirst(total, months) = Instalment(total, months, 1) /\ SplitFirst(total, months) \in Nat
  BY <1>1, <1>2, Split
<1>6. Quoted'
  BY <1>1, <1>2, <1>3, <1>4, <1>5 DEF Quoted, Snapshot
<1>7. 0 <= Due'
  BY <1>1, <1>3 DEF Due, PaymentPlans
<1>8. Collected'
  <2>1. Paid(total, months, 0) = 0
    BY <1>1, <1>2, PaidAddsUp
  <2> QED
    BY <1>2, <1>3, <2>1 DEF Collected, PaymentPlans
<1>9. Promised'
  BY <1>3 DEF Promised
<1> QED
  BY <1>3, <1>6, <1>7, <1>8, <1>9 DEF AmountsInv

\* The first capture, of any plan.
LEMMA ConfirmKeepsInv ==
    ASSUME AmountsInv, Confirm
    PROVE  AmountsInv'
<1>1. Quoted /\ captures = 0 /\ captured = 0 /\ lines = 0
  <2>1. Quoted /\ captures = 0 /\ Collected /\ Promised
    BY DEF AmountsInv, Confirm
  <2>2. quote.total \in Nat /\ quote.months \in Nat \ {0} /\ quote.plan \in PaymentPlans
    BY <2>1, QuotedFields
  <2>3. Paid(quote.total, quote.months, 0) = 0
    BY <2>2, PaidAddsUp
  <2> QED
    BY <2>1, <2>2, <2>3 DEF Collected, Promised, PaymentPlans
<1>2. /\ quote \in Snapshot /\ quote.total \in Nat \ {0} /\ quote.deposit \in Nat
      /\ quote.first \in Nat /\ quote.months \in Nat \ {0} /\ quote.plan \in PaymentPlans
  <2>1. quote.deposit \in 0 .. quote.total /\ quote.total \in Nat
    BY <1>1, QuotedFields
  <2> QED
    BY <1>1, <2>1, QuotedFields
<1>3. quote' = quote /\ captures' = 1 /\ Quoted'
  BY <1>1 DEF Confirm, Capture, Quoted
<1>4. \A amount \in Nat : Share(amount) \in Nat /\ Share(amount)' = Share(amount)
  BY <1>2, <1>3, ShareIsNat DEF Share
<1>5. CASE quote.plan = "FULL"
  <2>1. captured' = quote.total /\ lines' = Share(quote.total)
    BY <1>1, <1>2, <1>4, <1>5 DEF Confirm, Capture
  <2> QED
    BY <1>2, <1>3, <1>4, <1>5, <2>1 DEF AmountsInv, Due, Collected, Promised, FirstShare
<1>6. CASE quote.plan = "DEPOSIT_50"
  <2>1. captured' = quote.deposit /\ lines' = Share(quote.deposit)
    BY <1>1, <1>2, <1>4, <1>6 DEF Confirm, Capture
  <2> QED
    BY <1>2, <1>3, <1>4, <1>6, <2>1 DEF AmountsInv, Due, Collected, Promised, FirstShare
<1>7. CASE quote.plan = "PAY_LATER"
  <2>1. captured' = quote.first /\ lines' = Share(quote.first)
    BY <1>1, <1>2, <1>4, <1>7 DEF Confirm, Capture
  <2>2. Paid(quote.total, quote.months, 1) = quote.first
    <3>1. Paid(quote.total, quote.months, 0 + 1)
              = Paid(quote.total, quote.months, 0) + Instalment(quote.total, quote.months, 0 + 1)
      <4>1. 0 \in 0 .. (quote.months - 1)
        BY <1>2
      <4> QED
        BY <1>2, <4>1, PaidNext
    <3>2. Paid(quote.total, quote.months, 0) = 0
      BY <1>2, PaidAddsUp
    <3> QED
      BY <1>1, <1>2, <3>1, <3>2 DEF Quoted
  <2>3. Collected'
    BY <1>3, <1>7, <2>1, <2>2 DEF Collected
  <2> QED
    BY <1>2, <1>3, <1>4, <1>7, <2>1, <2>3 DEF AmountsInv, Due, Promised, FirstShare
<1> QED
  BY <1>2, <1>5, <1>6, <1>7 DEF PaymentPlans

\* The balance of a deposit.
LEMMA SettleBalanceKeepsInv ==
    ASSUME AmountsInv, SettleBalance
    PROVE  AmountsInv'
<1>1. quote.plan = "DEPOSIT_50" /\ captures = 1
  BY DEF SettleBalance
<1>2. Quoted /\ Collected /\ Promised
  BY <1>1 DEF AmountsInv
<1>3. captured = quote.deposit /\ lines = Share(quote.deposit)
  BY <1>1, <1>2 DEF Collected, Promised, FirstShare
<1>4. quote \in Snapshot /\ quote.total \in Nat \ {0} /\ quote.deposit \in 0 .. quote.total
  BY <1>2 DEF Quoted, Snapshot
<1>5. /\ quote' = quote /\ captures' = 2
      /\ captured' = captured + (quote.total - quote.deposit)
      /\ lines' = lines + Share(quote.total - quote.deposit)
  BY <1>1 DEF SettleBalance, Capture
<1>6. \A amount \in Nat : Share(amount) \in Nat /\ Share(amount)' = Share(amount)
  BY <1>4, <1>5, ShareIsNat DEF Share
<1>7. /\ captured' = quote.total /\ captured' \in Nat
      /\ lines' = Share(quote.deposit) + Share(quote.total - quote.deposit) /\ lines' \in Nat
  <2>1. quote.deposit \in Nat /\ quote.total - quote.deposit \in Nat
    BY <1>4
  <2>2. Share(quote.deposit) \in Nat /\ Share(quote.total - quote.deposit) \in Nat
    BY <1>6, <2>1
  <2> QED
    BY <1>3, <1>4, <1>5, <2>2
<1>8. Quoted'
  BY <1>2, <1>5 DEF Quoted
<1>9. captures' <= Due' /\ Collected'
  <2>1. Due' = 2
    BY <1>1, <1>5 DEF Due
  <2>2. quote'.plan = "DEPOSIT_50" /\ captured' = quote'.total /\ captures' = 2
    BY <1>1, <1>5, <1>7
  <2>3. captured' = (IF captures' = 0 THEN 0
                     ELSE IF captures' = 1 THEN quote'.deposit ELSE quote'.total)
    BY <2>2
  <2>4. Collected'
    BY <2>2, <2>3, Zenon DEF Collected
  <2> QED
    BY <1>5, <2>1, <2>4
<1>10. Promised'
  BY <1>1, <1>5, <1>7 DEF Promised, Share
<1> QED
  BY <1>5, <1>7, <1>8, <1>9, <1>10 DEF AmountsInv

\* A later instalment.
LEMMA PayInstalmentKeepsInv ==
    ASSUME AmountsInv, PayInstalment
    PROVE  AmountsInv'
<1> DEFINE amount == Instalment(quote.total, quote.months, captures + 1)
<1>1. quote.plan = "PAY_LATER" /\ captures \in 1 .. (quote.months - 1)
  BY DEF PayInstalment
<1>2. Quoted /\ Collected /\ Promised /\ lines \in Nat
  BY <1>1 DEF AmountsInv
<1>3. quote \in Snapshot /\ quote.total \in Nat \ {0} /\ quote.months \in Nat \ {0}
  BY <1>2, QuotedFields
<1>4. captured = Paid(quote.total, quote.months, captures) /\ lines = FirstShare
  BY <1>1, <1>2 DEF Collected, Promised
<1>5. quote' = quote /\ captures' = captures + 1 /\ captured' = captured + amount /\ lines' = lines + 0
  BY DEF PayInstalment, Capture
<1>6. captured' = Paid(quote.total, quote.months, captures + 1)
  <2>1. captures \in 0 .. (quote.months - 1)
    BY <1>1, <1>3
  <2> QED
    BY <1>3, <1>4, <1>5, <2>1, PaidNext
<1>7. captured' \in Nat
  <2>1. captures + 1 \in 0 .. quote.months
    BY <1>1, <1>3
  <2>2. Paid(quote.total, quote.months, captures + 1) \in 0 .. quote.total
    BY <1>3, <2>1, PaidAddsUp
  <2> QED
    BY <1>3, <1>6, <2>2
<1>8. Quoted'
  BY <1>2, <1>5 DEF Quoted
<1>9. captures' \in Nat /\ captures' <= Due'
  BY <1>1, <1>3, <1>5 DEF Due
<1>10. Collected'
  BY <1>1, <1>5, <1>6 DEF Collected
<1>11. lines' \in Nat /\ Promised'
  <2>1. lines' = lines /\ FirstShare' = FirstShare
    BY <1>2, <1>5 DEF FirstShare, Share
  <2> QED
    BY <1>1, <1>2, <1>4, <1>5, <2>1 DEF Promised
<1> QED
  BY <1>7, <1>8, <1>9, <1>10, <1>11 DEF AmountsInv

\* All reachable states satisfy the invariant.
LEMMA AmountsInvariant == AmountsSpec => []AmountsInv
<1>1. AmountsInit => AmountsInv
  BY DEF AmountsInit, AmountsInv
<1>2. AmountsInv /\ [AmountsNext]_amountsVars => AmountsInv'
  <2> SUFFICES ASSUME AmountsInv, [AmountsNext]_amountsVars PROVE AmountsInv'
    OBVIOUS
  <2>1. CASE UNCHANGED amountsVars
    BY <2>1 DEF amountsVars, AmountsInv, Quoted, Due, Collected, Promised, FirstShare, Share
  <2>2. CASE AmountsNext
    BY <2>2, QuoteKeepsInv, ConfirmKeepsInv, SettleBalanceKeepsInv, PayInstalmentKeepsInv
       DEF AmountsNext
  <2> QED
    BY <2>1, <2>2
<1> QED
  BY <1>1, <1>2, PTL DEF AmountsSpec

(***************************************************************************)
(* Theorems                                                                *)
(***************************************************************************)

\* Every quote is a snapshot with an accepted tenor, and all sums are whole paise.
THEOREM AmountsTyped == AmountsSpec => []AmountsTypeOK
<1>1. AmountsInv => AmountsTypeOK
  BY DEF AmountsInv, AmountsTypeOK, Quoted
<1> QED
  BY <1>1, AmountsInvariant, PTL

\* Whatever the price and the tenor, the captures of quote, deposit and instalments
\* add up to the price with the last of them and never exceed it before.
THEOREM CapturesMakeThePrice == AmountsSpec => []CapturesAddUp
<1>1. AmountsInv => CapturesAddUp
  <2> SUFFICES ASSUME AmountsInv, quote # Unquoted
               PROVE  /\ captures = Due => captured = quote.total
                      /\ captures < Due => captured <= quote.total
                      /\ quote.first = Instalment(quote.total, quote.months, 1)
    BY DEF CapturesAddUp
  <2>1. Quoted /\ captures \in Nat /\ captures <= Due /\ Collected
    BY DEF AmountsInv
  <2>2. /\ quote.total \in Nat \ {0} /\ quote.months \in Nat \ {0}
        /\ quote.plan \in PaymentPlans /\ quote.deposit \in 0 .. quote.total
    BY <2>1, QuotedFields
  <2>3. CASE quote.plan = "FULL"
    BY <2>1, <2>2, <2>3 DEF Due, Collected, Quoted
  <2>4. CASE quote.plan = "DEPOSIT_50"
    BY <2>1, <2>2, <2>4 DEF Due, Collected, Quoted
  <2>5. CASE quote.plan = "PAY_LATER"
    <3>1. Due = quote.months /\ captures \in 0 .. quote.months
      BY <2>1, <2>2, <2>5 DEF Due
    <3>2. captured = Paid(quote.total, quote.months, captures)
      BY <2>1, <2>5 DEF Collected
    <3>3. /\ Paid(quote.total, quote.months, captures) \in 0 .. quote.total
          /\ Paid(quote.total, quote.months, quote.months) = quote.total
      BY <2>2, <3>1, PaidAddsUp
    <3> QED
      BY <2>1, <2>2, <3>1, <3>2, <3>3 DEF Quoted
  <2> QED
    BY <2>2, <2>3, <2>4, <2>5 DEF PaymentPlans
<1> QED
  BY <1>1, AmountsInvariant, PTL

\* Whatever the price, what the payout lines of a booking paid at once or by deposit and
\* balance promise the host differs from the price of the stay by one paisa at most: the
\* two shares, rounded apart, can come to one more (run host_share shows that they do).
THEOREM HostIsPromisedTheStay == AmountsSpec => []HostGetsTheStayOrOneMore
<1>1. AmountsInv => HostGetsTheStayOrOneMore
  <2> SUFFICES ASSUME AmountsInv, quote # Unquoted
               PROVE  IF quote.plan = "PAY_LATER" THEN captures > 0 => lines = Share(quote.first)
                      ELSE captures = Due => lines \in {quote.stayPrice, quote.stayPrice + 1}
    BY DEF HostGetsTheStayOrOneMore
  <2>1. Quoted /\ captures \in Nat /\ Promised
    BY DEF AmountsInv
  <2>2. /\ quote.total \in Nat \ {0} /\ quote.stayPrice \in Nat
        /\ quote.plan \in PaymentPlans /\ quote.deposit \in 0 .. quote.total
    BY <2>1 DEF Quoted, Snapshot
  <2>3. CASE quote.plan = "FULL"
    <3>1. Rounded(quote.stayPrice * quote.total, quote.total) = quote.stayPrice
      BY <2>2, WholeIsExact
    <3> QED
      BY <2>1, <2>3, <3>1 DEF Due, Promised, FirstShare, Share
  <2>4. CASE quote.plan = "DEPOSIT_50"
    <3>1. Share(quote.deposit) + Share(quote.total - quote.deposit)
              \in {quote.stayPrice, quote.stayPrice + 1}
      <4>1. quote.deposit \in Nat /\ quote.deposit <= quote.total
        BY <2>2
      <4> QED
        BY <2>2, <4>1, SharesMeet DEF Share
    <3> QED
      BY <2>1, <2>4, <3>1 DEF Due, Promised
  <2>5. CASE quote.plan = "PAY_LATER"
    BY <2>1, <2>5 DEF Promised, FirstShare
  <2> QED
    BY <2>2, <2>3, <2>4, <2>5 DEF PaymentPlans
<1> QED
  BY <1>1, AmountsInvariant, PTL
====
