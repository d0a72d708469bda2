-------------------------- MODULE Reservation_proofs --------------------------
(***************************************************************************)
(* The safety of the calendar for any number of guests, holds, requests    *)
(* and date ranges.  None of the properties is inductive alone: what a     *)
(* request read before its write (ReadWell) and what a written row may     *)
(* still become (WrittenWell) carry the argument across the gap between    *)
(* the trigger and the commit.                                             *)
(***************************************************************************)
EXTENDS Reservation, BookingStateMachine_proofs

TransitionOps == RCEvents \cup {ManualOp}

\* A request that is about to fire an event read a status the event may leave.
\* Since then the row may have changed, but it never became pending again.
ReadWell ==
    \A p \in Procs :
        /\ tx[p].stage # "idle" => tx[p].h \in Holds
        /\ tx[p].stage = "read" /\ tx[p].op \in TransitionOps =>
              /\ CanFire(tx[p].op, tx[p].seen, tx[p].plan)
              /\ Booked(tx[p].h)
              /\ tx[p].seen # "PAYMENT_PENDING" => booking[tx[p].h].status # "PAYMENT_PENDING"

\* A written row is either a new pending booking over a raw hold, or an
\* existing booking that is not pending on its way into a sold status.
WrittenWell ==
    \A p \in Procs : tx[p].stage = "written" =>
        /\ Present(tx[p].h)
        /\ \/ ~Booked(tx[p].h) /\ tx[p].new = "PAYMENT_PENDING"
           \/ /\ Booked(tx[p].h) /\ booking[tx[p].h].status # "PAYMENT_PENDING"
              /\ tx[p].new \in SoldStatuses

\* The row lock: two requests never have the same row written.
LocksExclusive ==
    \A p, q \in Procs :
        /\ tx[p].stage = "written" /\ tx[q].stage = "written" /\ tx[p].h = tx[q].h
        => p = q

IInv ==
    /\ TypeOK
    /\ ReadWell
    /\ WrittenWell
    /\ LocksExclusive
    /\ BookingKeepsItsHold
    /\ LiveHoldsDisjoint
    /\ SoldOnceUnlessRevived
    /\ HoldOverrunOnlyByLateBooking

\* No guest has two holds that are not bookings: what makes the end of a hold
\* the end of its guest's whole lease.
OneRawHoldEach ==
    \A a, b \in Holds : RawHold(a) /\ RawHold(b) /\ hold[a].guest = hold[b].guest => a = b

------------------------------------------------------------------------------
(* The actions, one disjunct of Next each. *)

USE DEF vars

LEMMA Actions ==
    ASSUME Next
    PROVE  \/ \E g \in Guests, h \in Holds, r \in Ranges : CreateHold(g, h, r)
           \/ \E h \in Holds : HoldExpires(h)
           \/ \E h \in Holds : CreatePayOnArrival(h)
           \/ \E h \in Holds : ConfirmPayment(h)
           \/ \E h \in Holds : SettleBalance(h)
           \/ \E p \in Procs : \E h \in Holds, plan \in BookPlans : BeginCreateBooking(p, h, plan)
           \/ \E p \in Procs : \E h \in Holds : BeginRelease(p, h)
           \/ \E p \in Procs : \E h \in Holds, op \in TxOps : BeginTransition(p, op, h)
           \/ \E p \in Procs : WriteBooking(p)
           \/ \E p \in Procs : WriteRelease(p)
           \/ \E p \in Procs : WriteTransition(p)
           \/ \E p \in Procs : ApplyTransition(p)
           \/ \E p \in Procs : CommitTx(p)
           \/ \E p \in Procs : ManualConfirm(p)
           \/ \E p \in Procs : Abort(p)
           \/ \E r \in BlockRanges : ChangeBlock(r)
           \/ ReaperRead
           \/ ReaperDelete
BY DEF Next, Request, Finish

LEMMA IdleTyped == Idle \in TxRow
BY DEF Idle, TxRow, TxOps, Plans

LEMMA PublishTyped ==
    ASSUME TypeOK, ReadWell, NEW p \in Procs, tx[p].stage # "idle",
           NEW status \in Statuses \cup {NoBooking}, Publish(p, status)
    PROVE  TypeOK'
<1>1. tx[p] \in TxRow /\ tx[p].h \in Holds
  BY DEF TypeOK, ReadWell
<1>2. tx[p].plan \in Plans
  BY <1>1 DEF TxRow
<1>3. booking' \in [Holds -> BookingRow]
  BY <1>2 DEF Publish, TypeOK, BookingRow
<1>4. revived' \subseteq Holds
  BY <1>1 DEF Publish, RevivedBy, TypeOK
<1> QED
  BY <1>3, <1>4, IdleTyped DEF Publish, TypeOK

LEMMA TypeStep ==
    ASSUME TypeOK, ReadWell, [Next]_vars
    PROVE  TypeOK'
<1> USE PlansAssumption DEF TypeOK
<1>1. ASSUME NEW g \in Guests, NEW h \in Holds, NEW r \in Ranges, CreateHold(g, h, r)
      PROVE  TypeOK'
  BY <1>1 DEF CreateHold, HoldRow, HoldStates, Row0
<1>2. ASSUME NEW h \in Holds, HoldExpires(h) PROVE TypeOK'
  <2>1. [hold[h] EXCEPT !.st = "expired"] \in HoldRow
    BY DEF HoldRow, HoldStates
  <2> QED
    BY <1>2, <2>1 DEF HoldExpires
<1>3. ASSUME NEW h \in Holds, CreatePayOnArrival(h) PROVE TypeOK'
  <2>1. CanFire("PAY_ON_ARRIVAL_RESERVED", "PAYMENT_PENDING", "PAY_ON_ARRIVAL")
    BY DEF CanFire, Matches, TRANSITIONS, Row
  <2>2. Target("PAY_ON_ARRIVAL_RESERVED", "PAYMENT_PENDING", 0) \in Statuses
    BY <2>1, TargetIsStatus
  <2>3. "PAY_ON_ARRIVAL" \in Plans
    BY DEF Plans
  <2> QED
    BY <1>3, <2>2, <2>3 DEF CreatePayOnArrival, BookingRow
<1>4. ASSUME NEW h \in Holds, ConfirmPayment(h) PROVE TypeOK'
  BY <1>4, TargetIsStatus DEF ConfirmPayment, SetStatus, BookingRow
<1>5. ASSUME NEW h \in Holds, SettleBalance(h) PROVE TypeOK'
  BY <1>5, TargetIsStatus DEF SettleBalance, SetStatus, BookingRow
<1>6. ASSUME NEW p \in Procs, NEW h \in Holds, NEW plan \in BookPlans,
             BeginCreateBooking(p, h, plan)
      PROVE  TypeOK'
  BY <1>6 DEF BeginCreateBooking, BeginRead, TxOps, TxRow, BookingRow
<1>7. ASSUME NEW p \in Procs, NEW h \in Holds, BeginRelease(p, h) PROVE TypeOK'
  BY <1>7 DEF BeginRelease, BeginRead, TxOps, Plans, TxRow, BookingRow
<1>8. ASSUME NEW p \in Procs, NEW h \in Holds, NEW op \in TxOps, BeginTransition(p, op, h)
      PROVE  TypeOK'
  BY <1>8 DEF BeginTransition, BeginRead, TxRow, BookingRow
<1>9. ASSUME NEW p \in Procs, WriteBooking(p) PROVE TypeOK'
  BY <1>9 DEF WriteBooking, Statuses, TxRow
<1>10. ASSUME NEW p \in Procs, WriteRelease(p) PROVE TypeOK'
  BY <1>10, IdleTyped DEF WriteRelease, HoldRow, HoldStates, Row0
<1>11. ASSUME NEW p \in Procs, WriteTransition(p) PROVE TypeOK'
  <2>1. PICK new \in Statuses : tx' = [tx EXCEPT ![p].stage = "written", ![p].new = new]
    BY <1>11 DEF WriteTransition, TriggerStatuses, Statuses
  <2>2. tx' \in [Procs -> TxRow]
    BY <2>1 DEF TxRow
  <2> QED
    BY <1>11, <2>2 DEF WriteTransition
<1>12. ASSUME NEW p \in Procs, ApplyTransition(p) PROVE TypeOK'
  BY <1>12, PublishTyped DEF ApplyTransition, MayTransition
<1>13. ASSUME NEW p \in Procs, CommitTx(p) PROVE TypeOK'
  BY <1>13, PublishTyped DEF CommitTx, TxRow
<1>14. ASSUME NEW p \in Procs, ManualConfirm(p) PROVE TypeOK'
  <2>1. tx[p].h \in Holds /\ CanFire(ManualOp, tx[p].seen, tx[p].plan)
    BY <1>14 DEF ManualConfirm, ReadWell, TransitionOps
  <2>2. Target(ManualOp, tx[p].seen, 0) \in Statuses
    BY <2>1, TargetIsStatus
  <2>3. booking' \in [Holds -> BookingRow]
    BY <1>14, <2>1, <2>2 DEF ManualConfirm, BookingRow
  <2>4. revived' \subseteq Holds
    BY <1>14, <2>1 DEF ManualConfirm, RevivedBy
  <2> QED
    BY <1>14, <2>3, <2>4, IdleTyped DEF ManualConfirm
<1>15. ASSUME NEW p \in Procs, Abort(p) PROVE TypeOK'
  BY <1>15, IdleTyped DEF Abort
<1>16. ASSUME NEW r \in BlockRanges, ChangeBlock(r) PROVE TypeOK'
  BY <1>16 DEF ChangeBlock
<1>17. ASSUME ReaperRead PROVE TypeOK'
  BY <1>17 DEF ReaperRead
<1>18. ASSUME ReaperDelete PROVE TypeOK'
  BY <1>18 DEF ReaperDelete, HoldRow, HoldStates, Row0
<1>19. CASE UNCHANGED vars
  BY <1>19
<1> QED
  BY <1>1, <1>2, <1>3, <1>4, <1>5, <1>6, <1>7, <1>8, <1>9, <1>10, <1>11, <1>12, <1>13,
     <1>14, <1>15, <1>16, <1>17, <1>18, <1>19, Actions

------------------------------------------------------------------------------
(* What a request read and wrote. *)

\* No event a READ COMMITTED request fires leads from pending into a sold
\* status: only payments and manualConfirm sell a pending booking.
LEMMA SoldNotFromPending ==
    ASSUME NEW op \in RCEvents, NEW seen, NEW plan, NEW refund,
           CanFire(op, seen, plan), Target(op, seen, refund) \in TriggerStatuses
    PROVE  /\ seen # "PAYMENT_PENDING"
           /\ Target(op, seen, refund) \in SoldStatuses
<1>1. Target(op, seen, refund) \in SoldStatuses
  BY TargetIsStatus DEF TriggerStatuses, SoldStatuses
<1>2. ASSUME seen = "PAYMENT_PENDING" PROVE FALSE
  <2> DEFINE t == CHOOSE t \in TRANSITIONS : Matches(t, op, seen)
  <2>1. t \in TRANSITIONS /\ t.event = op /\ seen \in t.from
    BY ChosenRow DEF Matches
  <2>2. op \in {"ADMIN_CANCELLED", "BALANCE_DUE_TRIGGERED", "BALANCE_PAID", "CHECKED_IN",
                "STAY_COMPLETED", "ADMIN_FULL_REFUND_ISSUED"}
    BY EventsAssumption
  <2>3. \A u \in TRANSITIONS :
           /\ u.event \in {"ADMIN_CANCELLED", "BALANCE_DUE_TRIGGERED", "BALANCE_PAID",
                           "CHECKED_IN", "STAY_COMPLETED", "ADMIN_FULL_REFUND_ISSUED"}
           /\ "PAYMENT_PENDING" \in u.from
           => u.to = CancelTarget
    BY DEF TRANSITIONS, Row, Cancellable, Arrivable, Completable, Refundable
  <2>4. t.to = CancelTarget
    BY <1>2, <2>1, <2>2, <2>3
  <2> QED
    BY <1>1, <2>4 DEF Target, SoldStatuses
<1> QED
  BY <1>1, <1>2

\* What one step does to a request: it starts, ...
Started(p) ==
    /\ tx'[p].stage = "read" /\ tx'[p].h \in Holds
    /\ UNCHANGED <<hold, booking>>
    /\ tx'[p].op \in TransitionOps =>
          /\ CanFire(tx'[p].op, tx'[p].seen, tx'[p].plan)
          /\ Booked(tx'[p].h)
          /\ tx'[p].seen = booking[tx'[p].h].status

\* ... or writes and locks its row.
Locked(p) ==
    /\ tx[p].stage = "read" /\ tx'[p].stage = "written" /\ tx'[p].h = tx[p].h
    /\ UNCHANGED <<hold, booking>>
    /\ \A q \in Procs \ {p} : tx'[q] = tx[q]
    /\ tx[p].h \in Holds /\ ~RowLocked(tx[p].h) /\ Present(tx[p].h)
    /\ \/ ~Booked(tx[p].h) /\ tx'[p].new = "PAYMENT_PENDING"
       \/ /\ Booked(tx[p].h) /\ booking[tx[p].h].status # "PAYMENT_PENDING"
          /\ tx'[p].new \in SoldStatuses

LEMMA TxStep ==
    ASSUME TypeOK, ReadWell, BookingKeepsItsHold, Next, NEW p \in Procs
    PROVE  tx'[p] = tx[p] \/ tx'[p] = Idle \/ Started(p) \/ Locked(p)
<1> DEFINE Goal == tx'[p] = tx[p] \/ tx'[p] = Idle \/ Started(p) \/ Locked(p)
<1>0. CreateOp \notin TransitionOps /\ ReleaseOp \notin TransitionOps
  BY EventsAssumption DEF CreateOp, ReleaseOp, ManualOp, TransitionOps
<1>1. ASSUME NEW q \in Procs, NEW h \in Holds, NEW plan \in BookPlans,
             BeginCreateBooking(q, h, plan)
      PROVE  Goal
  BY <1>0, <1>1 DEF BeginCreateBooking, BeginRead, Started, TypeOK
<1>2. ASSUME NEW q \in Procs, NEW h \in Holds, BeginRelease(q, h) PROVE Goal
  BY <1>0, <1>2 DEF BeginRelease, BeginRead, Started, TypeOK
<1>3. ASSUME NEW q \in Procs, NEW h \in Holds, NEW op \in TxOps, BeginTransition(q, op, h)
      PROVE  Goal
  BY <1>3 DEF BeginTransition, BeginRead, Started, TypeOK
<1>4. ASSUME NEW q \in Procs, WriteBooking(q) PROVE Goal
  BY <1>4 DEF WriteBooking, Locked, TypeOK, RawHold, TxRow, ReadWell
<1>5. ASSUME NEW q \in Procs, WriteTransition(q) PROVE Goal
  <2>1. PICK new \in TriggerStatuses :
          /\ MayTransition(q, new) /\ UNCHANGED <<hold, booking>>
          /\ tx' = [tx EXCEPT ![q].stage = "written", ![q].new = new]
    BY <1>5 DEF WriteTransition
  <2>2. /\ tx[q].stage = "read" /\ tx[q].op \in RCEvents /\ ~RowLocked(tx[q].h)
        /\ \E refund \in Refunds : new = Target(tx[q].op, tx[q].seen, refund)
    BY <2>1 DEF MayTransition
  <2>3. /\ tx[q].h \in Holds /\ Booked(tx[q].h)
        /\ CanFire(tx[q].op, tx[q].seen, tx[q].plan)
        /\ tx[q].seen # "PAYMENT_PENDING" => booking[tx[q].h].status # "PAYMENT_PENDING"
    BY <2>2 DEF ReadWell, TransitionOps
  <2>4. tx[q].seen # "PAYMENT_PENDING" /\ new \in SoldStatuses
    BY <2>2, <2>3, <2>1, SoldNotFromPending
  <2>5. Present(tx[q].h)
    BY <2>3 DEF BookingKeepsItsHold
  <2>6. CASE p = q
    BY <2>1, <2>2, <2>3, <2>4, <2>5, <2>6 DEF Locked, TypeOK, TxRow
  <2> QED
    BY <2>1, <2>6 DEF TypeOK
<1>6. ASSUME NEW q \in Procs, WriteRelease(q) \/ ApplyTransition(q) \/ CommitTx(q)
                                \/ ManualConfirm(q) \/ Abort(q)
      PROVE  Goal
  BY <1>6 DEF WriteRelease, ApplyTransition, CommitTx, ManualConfirm, Abort, Publish, TypeOK
<1>7. CASE UNCHANGED tx
  BY <1>7
<1> QED
  BY <1>1, <1>2, <1>3, <1>4, <1>5, <1>6, <1>7, Actions
     DEF CreateHold, HoldExpires, CreatePayOnArrival, ConfirmPayment, SettleBalance,
         ChangeBlock, ReaperRead, ReaperDelete

------------------------------------------------------------------------------
(* What a step leaves alone. *)

\* A hold that is booked, or that a request is about to book, keeps its guest
\* and its dates; the most that happens to it is that it runs out.
HoldKept(h) ==
    /\ Present(h)'
    /\ hold'[h].range = hold[h].range /\ hold'[h].guest = hold[h].guest
    /\ hold'[h].st = hold[h].st \/ hold'[h].st = "expired"

LEMMA HoldFrame ==
    ASSUME TypeOK, Next, NEW h \in Holds, Present(h), Booked(h) \/ RowLocked(h)
    PROVE  HoldKept(h)
<1>1. ASSUME NEW g \in Guests, NEW o \in Holds, NEW r \in Ranges, CreateHold(g, o, r)
      PROVE  hold'[h] = hold[h]
  BY <1>1 DEF CreateHold, Present, OwnRaw, RawHold
<1>2. ASSUME NEW o \in Holds, HoldExpires(o) PROVE HoldKept(h)
  BY <1>2 DEF HoldExpires, Live, Present, HoldKept, TypeOK, HoldRow
<1>3. ASSUME NEW p \in Procs, WriteRelease(p) PROVE hold'[h] = hold[h]
  BY <1>3 DEF WriteRelease, RawHold, TypeOK
<1>4. ASSUME ReaperDelete PROVE hold'[h] = hold[h]
  BY <1>4 DEF ReaperDelete
<1>5. CASE hold'[h] = hold[h]
  BY <1>5 DEF HoldKept, Present
<1> QED
  BY <1>1, <1>2, <1>3, <1>4, <1>5, Actions
     DEF CreatePayOnArrival, ConfirmPayment, SettleBalance, BeginCreateBooking, BeginRelease,
         BeginTransition, BeginRead, WriteBooking, WriteTransition, ApplyTransition, CommitTx,
         Publish, ManualConfirm, Abort, ChangeBlock, ReaperRead

\* How a step changes the status of a booking: it sells a hold or a booking
\* that clashes with nothing, ...
SoldCleanly(h) ==
    /\ ~RowLocked(h) /\ UNCHANGED <<hold, tx, revived>>
    /\ Clashes(h, TriggerStatuses) = {}
    /\ booking'[h].status \in SoldStatuses
    /\ booking[h].status \in TriggerStatuses \/ (Live(h) /\ ~Booked(h))
    /\ \A o \in Holds \ {h} : booking'[o] = booking[o]

\* ... commits what some request wrote, ...
Committed(h) ==
    \E p \in Procs :
        /\ tx[p].stage = "written" /\ tx[p].h = h /\ UNCHANGED hold
        /\ booking'[h].status = tx[p].new
        /\ revived' = RevivedBy(h, tx[p].new)
        /\ tx'[p] = Idle
        /\ \A o \in Holds \ {h} : booking'[o] = booking[o]

\* ... or takes a booking off the calendar or sells it by a manual confirmation.
Moved(h) ==
    /\ ~RowLocked(h) /\ UNCHANGED hold /\ Booked(h)
    /\ booking'[h].status \in Statuses \ {"PAYMENT_PENDING"}
    /\ TriggerPasses(h, booking'[h].status)
    /\ revived' = RevivedBy(h, booking'[h].status)
    /\ \A o \in Holds \ {h} : booking'[o] = booking[o]

LEMMA BookingStep ==
    ASSUME TypeOK, ReadWell, Next, NEW h \in Holds
    PROVE  booking'[h] = booking[h] \/ SoldCleanly(h) \/ Committed(h) \/ Moved(h)
<1> DEFINE Goal == booking'[h] = booking[h] \/ SoldCleanly(h) \/ Committed(h) \/ Moved(h)
<1>1. ASSUME NEW o \in Holds, CreatePayOnArrival(o) PROVE Goal
  <2>1. CanFire("PAY_ON_ARRIVAL_RESERVED", "PAYMENT_PENDING", "PAY_ON_ARRIVAL")
    BY DEF CanFire, Matches, TRANSITIONS, Row
  <2>2. \A t \in TRANSITIONS : t.event = "PAY_ON_ARRIVAL_RESERVED" => t.to = "CONFIRMED_DEPOSIT"
    BY DEF TRANSITIONS, Row
  <2>3. Target("PAY_ON_ARRIVAL_RESERVED", "PAYMENT_PENDING", 0) = "CONFIRMED_DEPOSIT"
    BY <2>1, <2>2, ChosenRow DEF Target, Matches, CancelTarget
  <2>4. Clashes(o, TriggerStatuses) = {}
    BY <1>1 DEF CreatePayOnArrival, Clashes, Taken
  <2> QED
    BY <1>1, <2>3, <2>4 DEF CreatePayOnArrival, SoldCleanly, SoldStatuses, TypeOK, BookingRow
<1>2. ASSUME NEW o \in Holds, NEW event, CanFire(event, booking[o].status, booking[o].plan),
             event \in {"PAYMENT_CONFIRMED_FULL", "PAYMENT_CONFIRMED_DEPOSIT",
                       "PAY_LATER_FIRST_CAPTURED", "BALANCE_PAID", "PAY_LATER_FINAL_CAPTURED"},
             SetStatus(o, Target(event, booking[o].status, 0)), ~RowLocked(o),
             TriggerPasses(o, Target(event, booking[o].status, 0)),
             booking[o].status \in TriggerStatuses,
             UNCHANGED <<hold, tx, revived>>
      PROVE  Goal
  <2>1. \A t \in TRANSITIONS :
          t.event \in {"PAYMENT_CONFIRMED_FULL", "PAYMENT_CONFIRMED_DEPOSIT",
                      "PAY_LATER_FIRST_CAPTURED", "BALANCE_PAID", "PAY_LATER_FINAL_CAPTURED"}
          => t.to \in {"CONFIRMED_DEPOSIT", "CONFIRMED_PAID"}
    BY DEF TRANSITIONS, Row
  <2>2. Target(event, booking[o].status, 0) \in {"CONFIRMED_DEPOSIT", "CONFIRMED_PAID"}
    BY <1>2, <2>1, ChosenRow DEF Target, Matches, CancelTarget
  <2>3. Clashes(o, TriggerStatuses) = {}
    BY <1>2, <2>2 DEF TriggerPasses, TriggerStatuses
  <2> QED
    BY <1>2, <2>2, <2>3 DEF SetStatus, SoldCleanly, SoldStatuses, TypeOK, BookingRow
<1>3. ASSUME NEW o \in Holds, ConfirmPayment(o) PROVE Goal
  <2>1. /\ booking[o].status = "PAYMENT_PENDING" /\ booking[o].plan \in Plans
        /\ FirstCapture[booking[o].plan] \in
              {"PAYMENT_CONFIRMED_FULL", "PAYMENT_CONFIRMED_DEPOSIT", "PAY_LATER_FIRST_CAPTURED"}
    BY <1>3 DEF ConfirmPayment, FirstCapture, TypeOK, BookingRow, Plans
  <2> QED
    BY <1>2, <1>3, <2>1 DEF ConfirmPayment, TriggerStatuses
<1>4. ASSUME NEW o \in Holds, SettleBalance(o) PROVE Goal
  <2>1. PICK event \in {"BALANCE_PAID", "PAY_LATER_FINAL_CAPTURED"} :
          /\ CanFire(event, booking[o].status, booking[o].plan) /\ ~RowLocked(o)
          /\ TriggerPasses(o, Target(event, booking[o].status, 0))
          /\ SetStatus(o, Target(event, booking[o].status, 0))
          /\ UNCHANGED <<hold, tx, revived>>
    BY <1>4 DEF SettleBalance
  <2>2. \A t \in TRANSITIONS : t.event \in {"BALANCE_PAID", "PAY_LATER_FINAL_CAPTURED"}
                                => t.from \subseteq TriggerStatuses
    BY DEF TRANSITIONS, Row, TriggerStatuses
  <2>3. booking[o].status \in TriggerStatuses
    BY <2>1, <2>2 DEF CanFire, Matches
  <2> QED
    BY <1>2, <2>1, <2>3
<1>5. ASSUME NEW p \in Procs, CommitTx(p) PROVE Goal
  BY <1>5 DEF CommitTx, Publish, Committed, TypeOK, BookingRow
<1>6. ASSUME NEW p \in Procs, ApplyTransition(p) PROVE Goal
  <2>1. PICK new \in Statuses \ TriggerStatuses : MayTransition(p, new) /\ Publish(p, new)
    BY <1>6 DEF ApplyTransition
  <2>2. Booked(tx[p].h) /\ tx[p].h \in Holds /\ ~RowLocked(tx[p].h) /\ TriggerPasses(tx[p].h, new)
    BY <2>1 DEF MayTransition, ReadWell, TransitionOps
  <2>3. new \in Statuses \ {"PAYMENT_PENDING"}
    BY DEF TriggerStatuses
  <2> QED
    BY <2>1, <2>2, <2>3 DEF Publish, Moved, TypeOK, BookingRow
<1>7. ASSUME NEW p \in Procs, ManualConfirm(p) PROVE Goal
  <2>1. Booked(tx[p].h) /\ tx[p].h \in Holds /\ CanFire(ManualOp, tx[p].seen, tx[p].plan)
    BY <1>7 DEF ManualConfirm, ReadWell, TransitionOps
  <2>2. Target(ManualOp, tx[p].seen, 0) \in Statuses \ {"PAYMENT_PENDING"}
    BY <2>1, TargetIsStatus
  <2> QED
    BY <1>7, <2>1, <2>2 DEF ManualConfirm, Moved, TypeOK, BookingRow
<1>8. CASE booking' = booking
  BY <1>8
<1> QED
  BY <1>1, <1>3, <1>4, <1>5, <1>6, <1>7, <1>8, Actions
     DEF CreateHold, HoldExpires, BeginCreateBooking, BeginRelease, BeginTransition, BeginRead,
         WriteBooking, WriteRelease, WriteTransition, Abort, ChangeBlock, ReaperRead, ReaperDelete

------------------------------------------------------------------------------
(* The invariants, one lemma each. *)

\* A booking row is never deleted and never becomes pending again.
LEMMA BookedForGood ==
    ASSUME TypeOK, ReadWell, WrittenWell, Next, NEW h \in Holds, Booked(h)
    PROVE  /\ Booked(h)'
           /\ booking[h].status # "PAYMENT_PENDING" => booking'[h].status # "PAYMENT_PENDING"
<1>1. CASE SoldCleanly(h)
  BY <1>1 DEF SoldCleanly, SoldStatuses, Booked, NoBooking
<1>2. CASE Moved(h)
  BY <1>2 DEF Moved, Booked, NoBooking, Statuses
<1>3. CASE Committed(h)
  BY <1>3 DEF Committed, WrittenWell, SoldStatuses, Booked, NoBooking
<1> QED
  BY <1>1, <1>2, <1>3, BookingStep DEF Booked

\* While a request has the row written, nobody else changes it.
LEMMA RowKept ==
    ASSUME TypeOK, ReadWell, LocksExclusive, Next, NEW p \in Procs,
           tx[p].stage = "written", tx'[p] = tx[p], tx[p].h \in Holds
    PROVE  booking'[tx[p].h] = booking[tx[p].h]
<1> DEFINE h == tx[p].h
<1>1. RowLocked(h)
  BY DEF RowLocked
<1>2. ~Committed(h)
  <2> SUFFICES ASSUME NEW q \in Procs, tx[q].stage = "written", tx[q].h = h, tx'[q] = Idle
               PROVE  FALSE
    BY DEF Committed
  <2>1. q = p
    BY DEF LocksExclusive
  <2> QED
    BY <2>1 DEF Idle
<1> QED
  BY <1>1, <1>2, BookingStep DEF SoldCleanly, Moved

LEMMA ReadWellStep ==
    ASSUME TypeOK, ReadWell, WrittenWell, BookingKeepsItsHold, Next
    PROVE  ReadWell'
<1> SUFFICES ASSUME NEW p \in Procs
             PROVE  (/\ tx[p].stage # "idle" => tx[p].h \in Holds
                     /\ tx[p].stage = "read" /\ tx[p].op \in TransitionOps =>
                           /\ CanFire(tx[p].op, tx[p].seen, tx[p].plan)
                           /\ Booked(tx[p].h)
                           /\ tx[p].seen # "PAYMENT_PENDING" =>
                                 booking[tx[p].h].status # "PAYMENT_PENDING")'
  BY DEF ReadWell
<1>1. CASE tx'[p] = tx[p]
  <2>1. tx[p].h \in Holds /\ Booked(tx[p].h) =>
          /\ booking'[tx[p].h].status # NoBooking
          /\ booking[tx[p].h].status # "PAYMENT_PENDING" =>
                booking'[tx[p].h].status # "PAYMENT_PENDING"
    BY BookedForGood DEF Booked
  <2> QED
    BY <1>1, <2>1 DEF ReadWell, CanFire, Booked
<1>2. CASE tx'[p] = Idle
  BY <1>2 DEF Idle
<1>3. CASE Started(p)
  BY <1>3 DEF Started, Booked, CanFire
<1>4. CASE Locked(p)
  BY <1>4 DEF Locked
<1> QED
  BY <1>1, <1>2, <1>3, <1>4, TxStep

LEMMA WrittenWellStep ==
    ASSUME TypeOK, ReadWell, WrittenWell, LocksExclusive, BookingKeepsItsHold, Next
    PROVE  WrittenWell'
<1> SUFFICES ASSUME NEW p \in Procs, tx'[p].stage = "written"
             PROVE  (/\ Present(tx[p].h)
                     /\ \/ ~Booked(tx[p].h) /\ tx[p].new = "PAYMENT_PENDING"
                        \/ /\ Booked(tx[p].h)
                           /\ booking[tx[p].h].status # "PAYMENT_PENDING"
                           /\ tx[p].new \in SoldStatuses)'
  BY DEF WrittenWell
<1>1. CASE tx'[p] = tx[p]
  <2>1. tx[p].stage = "written" /\ tx[p].h \in Holds /\ RowLocked(tx[p].h)
    BY <1>1 DEF ReadWell, RowLocked
  <2>2. booking'[tx[p].h] = booking[tx[p].h]
    BY <1>1, <2>1, RowKept
  <2>3. hold'[tx[p].h].st \in {"live", "expired"}
    BY <2>1, HoldFrame DEF WrittenWell, HoldKept, Present
  <2> QED
    BY <1>1, <2>1, <2>2, <2>3 DEF WrittenWell, Booked, Present
<1>2. CASE tx'[p] = Idle
  BY <1>2 DEF Idle
<1>3. CASE Started(p)
  BY <1>3 DEF Started
<1>4. CASE Locked(p)
  BY <1>4 DEF Locked, Present, Booked
<1> QED
  BY <1>1, <1>2, <1>3, <1>4, TxStep

LEMMA LocksExclusiveStep ==
    ASSUME TypeOK, ReadWell, LocksExclusive, BookingKeepsItsHold, Next
    PROVE  LocksExclusive'
<1> SUFFICES ASSUME NEW p \in Procs, NEW q \in Procs, p # q,
                    tx'[p].stage = "written", tx'[q].stage = "written", tx'[p].h = tx'[q].h
             PROVE  FALSE
  BY DEF LocksExclusive
<1>1. tx'[p] = tx[p] \/ Locked(p)
  BY TxStep DEF Idle, Started
<1>2. tx'[q] = tx[q] \/ Locked(q)
  BY TxStep DEF Idle, Started
<1> QED
  BY <1>1, <1>2 DEF Locked, LocksExclusive, RowLocked

LEMMA HoldsKeptStep ==
    ASSUME TypeOK, ReadWell, WrittenWell, BookingKeepsItsHold, Next
    PROVE  BookingKeepsItsHold'
<1> SUFFICES ASSUME NEW h \in Holds, Booked(h)' PROVE Present(h)'
  BY DEF BookingKeepsItsHold
<1>1. CASE Booked(h)
  BY <1>1, HoldFrame DEF BookingKeepsItsHold, HoldKept
<1>2. CASE ~Booked(h)
  <2>1. booking'[h] # booking[h]
    BY <1>2 DEF Booked
  <2>2. CASE SoldCleanly(h)
    BY <1>2, <2>2 DEF SoldCleanly, Live, Present, Booked, TriggerStatuses, NoBooking
  <2>3. CASE Committed(h)
    BY <2>3 DEF Committed, WrittenWell, Present
  <2> QED
    BY <1>2, <2>1, <2>2, <2>3, BookingStep DEF Moved
<1> QED
  BY <1>1, <1>2

LEMMA OverlapsSymmetric == \A r, s : Overlaps(r, s) => Overlaps(s, r)
BY DEF Overlaps

\* Only createHold makes a live hold; every other step keeps, ends or books it.
LEMMA LiveFrame ==
    ASSUME TypeOK, Next, NEW h \in Holds, Live(h)', ~Booked(h)',
           ~\E g \in Guests, r \in Ranges : CreateHold(g, h, r)
    PROVE  Live(h) /\ hold'[h] = hold[h]
<1>1. ASSUME NEW g \in Guests, NEW o \in Holds, NEW r \in Ranges, CreateHold(g, o, r)
      PROVE  Live(h) /\ hold'[h] = hold[h]
  BY <1>1 DEF CreateHold, Live, Row0
<1>2. ASSUME NEW o \in Holds, HoldExpires(o) PROVE Live(h) /\ hold'[h] = hold[h]
  BY <1>2 DEF HoldExpires, Live, TypeOK, HoldRow
<1>3. ASSUME NEW p \in Procs, WriteRelease(p) PROVE Live(h) /\ hold'[h] = hold[h]
  BY <1>3 DEF WriteRelease, Live, TypeOK, Row0
<1>4. ASSUME ReaperDelete PROVE Live(h) /\ hold'[h] = hold[h]
  BY <1>4 DEF ReaperDelete, Live, Row0
<1>5. CASE hold' = hold
  BY <1>5 DEF Live
<1> QED
  BY <1>1, <1>2, <1>3, <1>4, <1>5, Actions
     DEF CreatePayOnArrival, ConfirmPayment, SettleBalance, BeginCreateBooking, BeginRelease,
         BeginTransition, BeginRead, WriteBooking, WriteTransition, ApplyTransition, CommitTx,
         Publish, ManualConfirm, Abort, ChangeBlock, ReaperRead

LEMMA LiveHoldsDisjointStep ==
    ASSUME TypeOK, ReadWell, WrittenWell, LiveHoldsDisjoint, Next
    PROVE  LiveHoldsDisjoint'
<1> SUFFICES ASSUME NEW a \in Holds, NEW b \in Holds,
                    Live(a)', ~Booked(a)', Live(b)', ~Booked(b)',
                    hold'[a].guest # hold'[b].guest, Overlaps(hold'[a].range, hold'[b].range)
             PROVE  FALSE
  BY DEF LiveHoldsDisjoint
<1>1. ASSUME NEW g \in Guests, NEW h \in Holds, NEW r \in Ranges, CreateHold(g, h, r) PROVE FALSE
  <2>1. \A o \in Holds \ {h} : Live(o)' /\ hold'[o].guest # g /\ ~Booked(o)'
                                  => ~Overlaps(hold'[o].range, r)
    BY <1>1 DEF CreateHold, RivalHolds, Live, Booked, Row0
  <2>2. hold'[h] = [st |-> "live", guest |-> g, range |-> r]
    BY <1>1 DEF CreateHold
  <2>3. \A o \in Holds \ {h} : Live(o)' /\ ~Booked(o)' =>
                                  Live(o) /\ ~Booked(o) /\ hold'[o] = hold[o]
    BY <1>1 DEF CreateHold, Live, Booked, Row0
  <2>4. CASE a = h
    BY <2>1, <2>2, <2>4, OverlapsSymmetric
  <2>5. CASE b = h
    BY <2>1, <2>2, <2>5, OverlapsSymmetric
  <2>6. CASE a # h /\ b # h
    BY <2>3, <2>6 DEF LiveHoldsDisjoint
  <2> QED
    BY <2>4, <2>5, <2>6
<1>2. CASE ~\E g \in Guests, h \in Holds, r \in Ranges : CreateHold(g, h, r)
  <2>1. Live(a) /\ hold'[a] = hold[a] /\ Live(b) /\ hold'[b] = hold[b]
    BY <1>2, LiveFrame
  <2>2. ~Booked(a) /\ ~Booked(b)
    BY BookedForGood
  <2> QED
    BY <2>1, <2>2 DEF LiveHoldsDisjoint
<1> QED
  BY <1>1, <1>2

\* History only grows, and no step ever un-revives a booking.
LEMMA RevivedGrows == ASSUME TypeOK, Next PROVE revived \subseteq revived'
BY Actions
   DEF CreateHold, HoldExpires, CreatePayOnArrival, ConfirmPayment, SettleBalance,
       BeginCreateBooking, BeginRelease, BeginTransition, BeginRead, WriteBooking, WriteRelease,
       WriteTransition, ApplyTransition, CommitTx, Publish, ManualConfirm, Abort, ChangeBlock,
       ReaperRead, ReaperDelete, RevivedBy

\* A booking enters the calendar cleanly or as a revived one; or it is pending,
\* with the hold it had; or it was on the calendar before.
LEMMA Entry ==
    ASSUME TypeOK, ReadWell, WrittenWell, Next, NEW h \in Holds,
           booking'[h].status \in TriggerStatuses, booking'[h] # booking[h]
    PROVE  \/ /\ UNCHANGED hold /\ Clashes(h, TriggerStatuses) = {}
              /\ \A o \in Holds \ {h} : booking'[o] = booking[o]
              /\ booking[h].status \in TriggerStatuses \/ (Live(h) /\ ~Booked(h))
           \/ h \in revived'
           \/ /\ UNCHANGED hold /\ \A o \in Holds \ {h} : booking'[o] = booking[o]
              /\ booking'[h].status = "PAYMENT_PENDING" /\ ~Booked(h) /\ Present(h)
           \/ /\ UNCHANGED hold /\ \A o \in Holds \ {h} : booking'[o] = booking[o]
              /\ booking[h].status \in SoldStatuses
<1>1. CASE SoldCleanly(h)
  BY <1>1 DEF SoldCleanly
<1>2. CASE Moved(h)
  BY <1>2 DEF Moved, TriggerPasses, RevivedBy
<1>3. CASE Committed(h)
  BY <1>3 DEF Committed, WrittenWell, RevivedBy, TriggerStatuses, SoldStatuses
<1> QED
  BY <1>1, <1>2, <1>3, BookingStep

LEMMA SoldOnceStep ==
    ASSUME TypeOK, ReadWell, WrittenWell, BookingKeepsItsHold, SoldOnceUnlessRevived, Next
    PROVE  SoldOnceUnlessRevived'
<1> DEFINE Sold(x) == booking[x].status \in SoldStatuses
<1>1. \A x \in Holds : Sold(x) => hold'[x].range = hold[x].range
  <2> SUFFICES ASSUME NEW x \in Holds, Sold(x) PROVE hold'[x].range = hold[x].range
    OBVIOUS
  <2>1. Booked(x)
    BY DEF Booked, SoldStatuses, NoBooking
  <2> QED
    BY <2>1, HoldFrame DEF BookingKeepsItsHold, HoldKept
<1>2. ASSUME NEW a \in Holds, NEW b \in Holds, a # b, Sold(a)', Sold(b)',
             Overlaps(hold'[a].range, hold'[b].range), booking'[a] # booking[a],
             a \notin revived', b \notin revived'
      PROVE  FALSE
  <2>1. booking'[a].status \in TriggerStatuses
    BY <1>2 DEF TriggerStatuses, SoldStatuses
  <2>2. /\ UNCHANGED hold /\ \A o \in Holds \ {a} : booking'[o] = booking[o]
        /\ Clashes(a, TriggerStatuses) = {} \/ booking[a].status \in SoldStatuses
    BY <1>2, <2>1, Entry DEF SoldStatuses
  <2>3. booking[b].status \in SoldStatuses /\ Overlaps(hold[a].range, hold[b].range)
    BY <1>2, <2>2
  <2>4. CASE Clashes(a, TriggerStatuses) = {}
    <3>1. b \in Clashes(a, TriggerStatuses)
      BY <1>2, <2>3, OverlapsSymmetric DEF Clashes, Taken, TriggerStatuses, SoldStatuses
    <3> QED
      BY <2>4, <3>1
  <2>5. CASE booking[a].status \in SoldStatuses
    BY <1>2, <2>3, <2>5, RevivedGrows DEF SoldOnceUnlessRevived
  <2> QED
    BY <2>2, <2>4, <2>5
<1>3. ASSUME NEW a \in Holds, NEW b \in Holds, a # b, Sold(a)', Sold(b)',
             Overlaps(hold'[a].range, hold'[b].range), booking'[a] = booking[a],
             booking'[b] = booking[b], a \notin revived', b \notin revived'
      PROVE  FALSE
  BY <1>1, <1>3, RevivedGrows DEF SoldOnceUnlessRevived
<1> QED
  BY <1>2, <1>3, OverlapsSymmetric DEF SoldOnceUnlessRevived

LEMMA HoldOverrunStep ==
    ASSUME TypeOK, ReadWell, WrittenWell, BookingKeepsItsHold, LiveHoldsDisjoint,
           HoldOverrunOnlyByLateBooking, Next
    PROVE  HoldOverrunOnlyByLateBooking'
<1> SUFFICES ASSUME NEW h \in Holds, NEW b \in Holds, Live(h)', ~Booked(h)',
                    booking'[b].status \in TriggerStatuses, hold'[b].guest # hold'[h].guest,
                    Overlaps(hold'[b].range, hold'[h].range),
                    hold'[b].st # "expired", b \notin revived'
             PROVE  FALSE
  BY DEF HoldOverrunOnlyByLateBooking
<1>1. ~Booked(h) /\ b \notin revived
  BY BookedForGood, RevivedGrows
<1>2. ASSUME booking[b].status \in TriggerStatuses PROVE HoldKept(b)
  <2>1. Booked(b)
    BY <1>2 DEF Booked, TriggerStatuses, NoBooking
  <2> QED
    BY <2>1, HoldFrame DEF BookingKeepsItsHold
<1>3. ASSUME NEW g \in Guests, NEW o \in Holds, NEW r \in Ranges, CreateHold(g, o, r) PROVE FALSE
  <2>1. booking' = booking /\ Taken(r, TriggerStatuses) = {}
    BY <1>3 DEF CreateHold
  <2>2. hold'[b].range = hold[b].range /\ hold'[b].guest = hold[b].guest /\ hold[b].st # "expired"
    BY <1>2, <2>1 DEF HoldKept
  <2>3. CASE h = o
    <3>1. hold'[h].range = r
      BY <1>3, <2>3 DEF CreateHold
    <3> QED
      BY <2>1, <2>2, <3>1 DEF Taken
  <2>4. CASE h # o
    <3>1. Live(h) /\ hold'[h] = hold[h]
      BY <1>3, <2>4 DEF CreateHold, Live, Row0
    <3> QED
      BY <1>1, <2>1, <2>2, <3>1 DEF HoldOverrunOnlyByLateBooking
  <2> QED
    BY <2>3, <2>4
<1>4. CASE ~\E g \in Guests, o \in Holds, r \in Ranges : CreateHold(g, o, r)
  <2>1. Live(h) /\ hold'[h] = hold[h]
    BY <1>4, LiveFrame
  <2>2. ASSUME booking[b].status \in TriggerStatuses PROVE FALSE
    <3>1. hold[b].guest # hold[h].guest /\ Overlaps(hold[b].range, hold[h].range)
          /\ hold[b].st # "expired"
      BY <1>2, <2>1, <2>2 DEF HoldKept
    <3> QED
      BY <1>1, <2>1, <2>2, <3>1 DEF HoldOverrunOnlyByLateBooking
  <2>3. ASSUME ~Booked(b), Present(b), UNCHANGED hold PROVE FALSE
    BY <1>1, <2>1, <2>3 DEF LiveHoldsDisjoint, Live, Present
  <2>4. CASE booking'[b] = booking[b]
    BY <2>2, <2>4
  <2>5. CASE booking'[b] # booking[b]
    BY <2>2, <2>3, <2>5, Entry DEF SoldStatuses, TriggerStatuses, Live, Present
  <2> QED
    BY <2>4, <2>5
<1> QED
  BY <1>3, <1>4

------------------------------------------------------------------------------
(* The inductive invariant. *)

LEMMA InvInit == Init => IInv
<1> SUFFICES ASSUME Init PROVE IInv
  OBVIOUS
<1>1. TypeOK
  BY IdleTyped DEF Init, TypeOK, HoldRow, HoldStates, Row0, BookingRow, Plans
<1>2. \A p \in Procs : tx[p].stage = "idle"
  BY DEF Init, Idle
<1>3. ReadWell /\ WrittenWell /\ LocksExclusive
  BY <1>2 DEF ReadWell, WrittenWell, LocksExclusive
<1>4. \A h \in Holds : ~Booked(h) /\ ~Live(h) /\ booking[h].status = NoBooking
  BY DEF Init, Booked, Live, Row0
<1>5. BookingKeepsItsHold /\ LiveHoldsDisjoint
  BY <1>4 DEF BookingKeepsItsHold, LiveHoldsDisjoint
<1>6. SoldOnceUnlessRevived /\ HoldOverrunOnlyByLateBooking
  BY <1>4 DEF SoldOnceUnlessRevived, HoldOverrunOnlyByLateBooking, SoldStatuses, TriggerStatuses,
              NoBooking
<1> QED
  BY <1>1, <1>3, <1>5, <1>6 DEF IInv

LEMMA InvStep == IInv /\ [Next]_vars => IInv'
<1> SUFFICES ASSUME IInv, [Next]_vars PROVE IInv'
  OBVIOUS
<1>1. CASE Next
  BY <1>1, TypeStep, ReadWellStep, WrittenWellStep, LocksExclusiveStep, HoldsKeptStep,
     LiveHoldsDisjointStep, SoldOnceStep, HoldOverrunStep DEF IInv
<1>2. CASE UNCHANGED vars
  <2>1. TypeOK' /\ ReadWell' /\ WrittenWell' /\ LocksExclusive'
    BY <1>2 DEF IInv, TypeOK, ReadWell, WrittenWell, LocksExclusive, Booked, Present, CanFire
  <2>2. BookingKeepsItsHold' /\ LiveHoldsDisjoint'
    BY <1>2 DEF IInv, BookingKeepsItsHold, LiveHoldsDisjoint, Booked, Present, Live
  <2>3. SoldOnceUnlessRevived' /\ HoldOverrunOnlyByLateBooking'
    BY <1>2 DEF IInv, SoldOnceUnlessRevived, HoldOverrunOnlyByLateBooking, Booked, Live
  <2> QED
    BY <2>1, <2>2, <2>3 DEF IInv
<1> QED
  BY <1>1, <1>2

LEMMA Invariance == Spec => []IInv
BY InvInit, InvStep, PTL DEF Spec

\* The rows keep their shape, whatever is requested, expires or crashes.
THEOREM CalendarTyped == Spec => []TypeOK
BY Invariance, PTL DEF IInv

\* No interleaving of createHold, expiry, release and conversion lets two
\* guests hold overlapping dates at once.
THEOREM HoldsAreExclusive == Spec => []LiveHoldsDisjoint
BY Invariance, PTL DEF IInv

\* No sweep and no release ever deletes the hold under a booking.
THEOREM BookedHoldSurvives == Spec => []BookingKeepsItsHold
BY Invariance, PTL DEF IInv

\* The trigger and confirmPayment keep sold bookings apart although the trigger
\* cannot see what another transaction has written and not yet committed.
THEOREM SoldOnce == Spec => []SoldOnceUnlessRevived
BY Invariance, PTL DEF IInv

\* The only bookings that overrun somebody's hold are late or revived ones.
THEOREM HoldHonoured == Spec => []HoldOverrunOnlyByLateBooking
BY Invariance, PTL DEF IInv

------------------------------------------------------------------------------
(* The hold table implements HoldBoard. *)

\* Raw holds come from createHold alone.
LEMMA RawFrame ==
    ASSUME TypeOK, ReadWell, WrittenWell, Next, NEW h \in Holds, RawHold(h)',
           ~\E g \in Guests, r \in Ranges : CreateHold(g, h, r)
    PROVE  RawHold(h) /\ hold'[h].guest = hold[h].guest
<1>0. ~Booked(h)
  BY BookedForGood DEF RawHold
<1>1. ASSUME NEW g \in Guests, NEW o \in Holds, NEW r \in Ranges, CreateHold(g, o, r)
      PROVE  Present(h) /\ hold'[h].guest = hold[h].guest
  BY <1>1 DEF CreateHold, RawHold, Present, Row0
<1>2. ASSUME NEW o \in Holds, HoldExpires(o) PROVE Present(h) /\ hold'[h].guest = hold[h].guest
  BY <1>2 DEF HoldExpires, Live, RawHold, Present, TypeOK, HoldRow
<1>3. ASSUME NEW p \in Procs, WriteRelease(p) PROVE Present(h) /\ hold'[h].guest = hold[h].guest
  BY <1>3 DEF WriteRelease, RawHold, Present, TypeOK, Row0
<1>4. ASSUME ReaperDelete PROVE Present(h) /\ hold'[h].guest = hold[h].guest
  BY <1>4 DEF ReaperDelete, RawHold, Present, Row0
<1>5. ASSUME hold' = hold PROVE Present(h) /\ hold'[h].guest = hold[h].guest
  BY <1>5 DEF RawHold, Present
<1>6. Present(h) /\ hold'[h].guest = hold[h].guest
  BY <1>1, <1>2, <1>3, <1>4, <1>5, Actions
     DEF CreatePayOnArrival, ConfirmPayment, SettleBalance, BeginCreateBooking, BeginRelease,
         BeginTransition, BeginRead, WriteBooking, WriteTransition, ApplyTransition, CommitTx,
         Publish, ManualConfirm, Abort, ChangeBlock, ReaperRead
<1> QED
  BY <1>0, <1>6 DEF RawHold

LEMMA OneRawHoldStep ==
    ASSUME TypeOK, ReadWell, WrittenWell, OneRawHoldEach, Next
    PROVE  OneRawHoldEach'
<1> SUFFICES ASSUME NEW a \in Holds, NEW b \in Holds, RawHold(a)', RawHold(b)',
                    hold'[a].guest = hold'[b].guest, a # b
             PROVE  FALSE
  BY DEF OneRawHoldEach
<1>1. ASSUME NEW g \in Guests, NEW h \in Holds, NEW r \in Ranges, CreateHold(g, h, r) PROVE FALSE
  <2>1. \A o \in Holds \ {h} : RawHold(o)' => hold'[o] = hold[o] /\ RawHold(o) /\ hold[o].guest # g
    BY <1>1 DEF CreateHold, OwnRaw, RawHold, Present, Booked, Row0
  <2>2. hold'[h].guest = g
    BY <1>1 DEF CreateHold
  <2> QED
    BY <2>1, <2>2 DEF OneRawHoldEach
<1>2. CASE ~\E g \in Guests, h \in Holds, r \in Ranges : CreateHold(g, h, r)
  BY <1>2, RawFrame DEF OneRawHoldEach
<1> QED
  BY <1>1, <1>2

\* The live raw hold of a guest, if there is one, is the guest's lease.
LEMMA LeaseIsHold ==
    ASSUME OneRawHoldEach, NEW g, NEW h \in Holds, RawHold(h), Live(h), hold[h].guest = g
    PROVE  LeaseOf(g) = NightsOf(hold[h].range)
<1>1. {o \in OwnRaw(g) : Live(o)} = {h}
  BY DEF OwnRaw, OneRawHoldEach
<1> QED
  BY <1>1 DEF LeaseOf

LEMMA NoHoldNoLease ==
    ASSUME NEW g, \A h \in Holds : ~(RawHold(h) /\ Live(h) /\ hold[h].guest = g)
    PROVE  LeaseOf(g) = {}
BY DEF LeaseOf, OwnRaw

LEMMA OverlapOfNights ==
    ASSUME NEW r, NEW s, r.from \in Int, r.to \in Int, s.from \in Int, s.to \in Int,
           NightsOf(r) \cap NightsOf(s) # {}
    PROVE  Overlaps(r, s)
BY DEF NightsOf, Overlaps

LEMMA TakeStep ==
    ASSUME TypeOK, BookingKeepsItsHold, OneRawHoldEach, OneRawHoldEach',
           NEW g \in Guests, NEW h \in Holds, NEW r \in Ranges, CreateHold(g, h, r)
    PROVE  Board!Take(g, NightsOf(r))
<1>1. \A o \in Holds \ {h} : RawHold(o)' /\ Live(o)' <=>
                             RawHold(o) /\ Live(o) /\ hold[o].guest # g
  BY DEF CreateHold, OwnRaw, RawHold, Present, Live, Booked, Row0
<1>2. \A o \in Holds \ {h} : RawHold(o)' => hold'[o] = hold[o]
  BY DEF CreateHold, RawHold, Present, Row0
<1>3. hold[h].st = "unused" /\ hold'[h] = [st |-> "live", guest |-> g, range |-> r] /\ ~Booked(h)
  BY DEF CreateHold, BookingKeepsItsHold, Present
<1>4. RawHold(h)' /\ Live(h)' /\ ~RawHold(h)
  BY <1>3 DEF CreateHold, RawHold, Present, Live, Booked
<1>5. LeaseOf(g)' = NightsOf(r)
  <2>1. {o \in OwnRaw(g) : Live(o)}' = {h}
    BY <1>3, <1>4 DEF OwnRaw, OneRawHoldEach
  <2> QED
    BY <1>3, <2>1 DEF LeaseOf
<1>6. ASSUME NEW other \in Guests \ {g} PROVE LeaseOf(other)' = LeaseOf(other)
  <2>1. {o \in OwnRaw(other) : Live(o)}' = {o \in OwnRaw(other) : Live(o)}
    BY <1>1, <1>2, <1>3, <1>4 DEF OwnRaw
  <2>2. \A o \in {o \in OwnRaw(other) : Live(o)} : hold'[o] = hold[o]
    BY <1>1, <1>2, <1>4 DEF OwnRaw
  <2> QED
    BY <2>1, <2>2 DEF LeaseOf
<1>7. ASSUME NEW other \in Guests \ {g} PROVE LeaseOf(other) \cap NightsOf(r) = {}
  <2>1. ASSUME NEW o \in OwnRaw(other), Live(o) PROVE NightsOf(hold[o].range) \cap NightsOf(r) = {}
    <3>1. ~Overlaps(hold[o].range, r)
      BY <2>1, <1>7 DEF CreateHold, RivalHolds, OwnRaw, RawHold
    <3>2. hold[o].range.from \in Int /\ hold[o].range.to \in Int
      BY RangesAssumption DEF OwnRaw, TypeOK, HoldRow, NoRange
    <3>3. r.from \in Int /\ r.to \in Int
      BY RangesAssumption
    <3> QED
      BY <3>1, <3>2, <3>3, OverlapOfNights
  <2> QED
    BY <2>1 DEF LeaseOf
<1>8. Lease' = [Lease EXCEPT ![g] = NightsOf(r)]
  BY <1>5, <1>6 DEF Lease
<1> QED
  BY <1>7, <1>8 DEF Board!Take, Lease

LEMMA DropStep ==
    ASSUME TypeOK, ReadWell, WrittenWell, OneRawHoldEach, OneRawHoldEach', Next,
           ~\E g \in Guests, h \in Holds, r \in Ranges : CreateHold(g, h, r)
    PROVE  \E D \in SUBSET Guests : Board!Drop(D)
<1> DEFINE D == {g \in Guests : LeaseOf(g)' = {}}
<1>1. ASSUME NEW g \in Guests \ D PROVE LeaseOf(g)' = LeaseOf(g)
  <2>1. PICK h \in Holds : (RawHold(h) /\ Live(h) /\ hold[h].guest = g)'
    <3> SUFFICES ASSUME \A h \in Holds : ~(RawHold(h) /\ Live(h) /\ hold[h].guest = g)'
                 PROVE  LeaseOf(g)' = {}
      BY <1>1
    <3> QED
      BY DEF LeaseOf, OwnRaw
  <2>2. Live(h) /\ hold'[h] = hold[h] /\ RawHold(h)
    BY <2>1, LiveFrame, RawFrame DEF RawHold
  <2>3. LeaseOf(g) = NightsOf(hold[h].range)
    BY <2>1, <2>2, LeaseIsHold
  <2>4. {o \in OwnRaw(g) : Live(o)}' = {h}
    BY <2>1 DEF OwnRaw, OneRawHoldEach
  <2>5. LeaseOf(g)' = NightsOf(hold'[h].range)
    BY <2>4 DEF LeaseOf
  <2> QED
    BY <2>2, <2>3, <2>5
<1>2. Lease' = [g \in Guests |-> IF g \in D THEN {} ELSE Lease[g]]
  BY <1>1 DEF Lease
<1> QED
  BY <1>2 DEF Board!Drop

LEMMA BoardInit == Init => Board!Init
<1> SUFFICES ASSUME Init PROVE Lease = [g \in Guests |-> {}]
  BY DEF Board!Init
<1>1. \A g \in Guests : LeaseOf(g) = {}
  BY NoHoldNoLease DEF Init, Live, Row0
<1> QED
  BY <1>1 DEF Lease

LEMMA BoardStep ==
    IInv /\ OneRawHoldEach /\ OneRawHoldEach' /\ [Next]_vars => [Board!Next]_Lease
<1> SUFFICES ASSUME IInv, OneRawHoldEach, OneRawHoldEach', [Next]_vars
             PROVE  [Board!Next]_Lease
  OBVIOUS
<1>1. ASSUME NEW g \in Guests, NEW h \in Holds, NEW r \in Ranges, CreateHold(g, h, r)
      PROVE  Board!Next
  BY <1>1, TakeStep DEF IInv, Board!Next
<1>2. CASE Next /\ ~\E g \in Guests, h \in Holds, r \in Ranges : CreateHold(g, h, r)
  BY <1>2, DropStep DEF IInv, Board!Next
<1>3. CASE UNCHANGED vars
  BY <1>3 DEF Lease, LeaseOf, OwnRaw, RawHold, Present, Live, Booked
<1> QED
  BY <1>1, <1>2, <1>3

LEMMA OneRawHoldInvariant == Spec => []OneRawHoldEach
<1>1. Init => OneRawHoldEach
  BY DEF Init, OneRawHoldEach, RawHold, Present, Row0
<1>2. IInv /\ OneRawHoldEach /\ [Next]_vars => OneRawHoldEach'
  <2> SUFFICES ASSUME IInv, OneRawHoldEach, [Next]_vars PROVE OneRawHoldEach'
    OBVIOUS
  <2>1. CASE Next
    BY <2>1, OneRawHoldStep DEF IInv
  <2>2. CASE UNCHANGED vars
    BY <2>2 DEF OneRawHoldEach, RawHold, Present, Booked
  <2> QED
    BY <2>1, <2>2
<1> QED
  BY <1>1, <1>2, Invariance, PTL DEF Spec

\* The hold service keeps the promise of HoldBoard: every step of the whole
\* calendar, seen through the leases, is a Take, a Drop or nothing.
THEOREM HoldsImplementBoard == Spec => BoardSpec
BY BoardInit, BoardStep, Invariance, OneRawHoldInvariant, PTL DEF Spec, BoardSpec, Board!Spec
=============================================================================
