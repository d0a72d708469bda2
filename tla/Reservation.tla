----------------------------- MODULE Reservation -----------------------------
(***************************************************************************)
(* The calendar of one listing: holds, the bookings made from them, and    *)
(* every code path that can change a booking's status, as concurrent       *)
(* PostgreSQL transactions (hold/hold.service.ts, booking/booking.service  *)
(* .ts, the overlap trigger of migration 0003_db_integrity).               *)
(*                                                                         *)
(* A booking is named by its hold, because Booking.holdId is UNIQUE, and   *)
(* its dates are the hold's, because they are copied at creation and the   *)
(* foreign key is ON DELETE RESTRICT.                                      *)
(*                                                                         *)
(* ISOLATION.  A transaction run by withSerializableRetry is one atomic    *)
(* step.  Every other path reads at READ COMMITTED (or outside any         *)
(* transaction) and writes later by id: Begin records what it read, Write  *)
(* runs its UPDATE or INSERT (row lock, trigger) and Commit publishes it.  *)
(* Between Write and Commit nobody else sees the row's new version: not    *)
(* even the trigger of another transaction.                                *)
(***************************************************************************)
EXTENDS BookingStateMachine, FiniteSets

CONSTANTS Guests,     \* accounts that book this listing
          Holds,      \* hold ids; each is minted at most once
          Procs,      \* concurrent READ COMMITTED requests
          Ranges,     \* date ranges, records [from, to], half open
          BookPlans,  \* payment plans guests choose from
          BlockRanges,\* ranges a host may block by hand
          RCEvents,   \* booking events fired by READ COMMITTED requests
          Refunds,    \* refund amounts a cancellation may compute
          NoGuest,    \* guest of a hold row that does not exist
          NoHold      \* hold of a request that is idle

ASSUME NullAssumption    == NoGuest \notin Guests /\ NoHold \notin Holds
ASSUME RangesAssumption  == Ranges \subseteq [from : Int, to : Int]
ASSUME PlansAssumption   == BookPlans \subseteq Plans
ASSUME EventsAssumption  ==
    \* cancelBookingInternal (guest, admin and the cron sweeps share it),
    \* transitionToBalanceDue, collectOnArrival, the two check-ins, the
    \* completions, createRefund.
    RCEvents \subseteq {"ADMIN_CANCELLED", "BALANCE_DUE_TRIGGERED", "BALANCE_PAID", "CHECKED_IN",
                        "STAY_COMPLETED", "ADMIN_FULL_REFUND_ISSUED"}
ASSUME RefundsAssumption == Refunds \subseteq Int

VARIABLES hold,     \* the Hold rows
          booking,  \* the Booking row made from each hold, as committed
          tx,       \* what each READ COMMITTED request has read and written
          reaper,   \* batch read by the hold expiry job, not yet deleted
          blocks,   \* AvailabilityBlock rows
          revived   \* history: bookings brought back onto the calendar by a
                    \* write based on a status that was no longer the row's

vars == <<hold, booking, tx, reaper, blocks, revived>>

------------------------------------------------------------------------------
(* Rows *)

NoRange   == [from |-> 0, to |-> 0]
HoldStates == {"unused", "live", "expired", "gone"}
HoldRow   == [st : HoldStates, guest : Guests \cup {NoGuest}, range : Ranges \cup {NoRange}]
Row0(st)  == [st |-> st, guest |-> NoGuest, range |-> NoRange]

NoBooking  == "NONE"
BookingRow == [status : Statuses \cup {NoBooking}, plan : Plans, offline : BOOLEAN]

CreateOp  == "CREATE_BOOKING"
ReleaseOp == "RELEASE_HOLD"
ManualOp  == "MANUAL_CONFIRMED"
TxOps     == {CreateOp, ReleaseOp, ManualOp} \cup RCEvents

TxRow == [stage : {"idle", "read", "written"}, op : TxOps, h : Holds \cup {NoHold},
          seen : Statuses \cup {NoBooking}, new : Statuses \cup {NoBooking}, plan : Plans]
Idle  == [stage |-> "idle", op |-> CreateOp, h |-> NoHold,
          seen |-> NoBooking, new |-> NoBooking, plan |-> "FULL"]

Overlaps(a, b) == a.from < b.to /\ b.from < a.to

\* The statuses the trigger, createHold and confirmPayment count as taken.
TriggerForgetsDeposits == {"CONFIRMED_PAID", "BALANCE_DUE", "PAYMENT_PENDING"}   \* mutant
TriggerStatuses == {"CONFIRMED_DEPOSIT", "CONFIRMED_PAID", "BALANCE_DUE", "PAYMENT_PENDING"}
SoldStatuses    == {"CONFIRMED_DEPOSIT", "CONFIRMED_PAID", "BALANCE_DUE"}
InHouse         == "CHECKED_IN"

Present(h) == hold[h].st \in {"live", "expired"}
Live(h)    == hold[h].st = "live"
Booked(h)  == booking[h].status # NoBooking
RawHold(h) == Present(h) /\ ~Booked(h)

\* Committed bookings in `statuses` that overlap range r.
Taken(r, statuses) ==
    {o \in Holds : booking[o].status \in statuses /\ Overlaps(hold[o].range, r)}

\* Those that clash with h's dates, h itself aside.
Clashes(h, statuses) == Taken(hold[h].range, statuses) \ {h}

\* prevent_booking_overlap: fires when the row's NEW status is a trigger status.
TriggerPasses(h, status) ==
    status \in TriggerStatuses => Clashes(h, TriggerStatuses) = {}

\* The booking row is locked by an UPDATE (or INSERT) not yet committed.
RowLocked(h) == \E p \in Procs : tx[p].stage = "written" /\ tx[p].h = h

------------------------------------------------------------------------------
Init ==
    /\ hold = [h \in Holds |-> Row0("unused")]
    /\ booking = [h \in Holds |-> [status |-> NoBooking, plan |-> "FULL", offline |-> FALSE]]
    /\ tx = [p \in Procs |-> Idle]
    /\ reaper = {}
    /\ blocks = {}
    /\ revived = {}

(* Holds *)

\* Raw holds of guest g: dropped when the same guest asks for other dates.
OwnRaw(g) == {o \in Holds : RawHold(o) /\ hold[o].guest = g}

RivalHoldsSameDates(g, r) ==   \* mutant: only exactly the same dates clash
    {o \in Holds : Live(o) /\ ~Booked(o) /\ hold[o].guest # g /\ hold[o].range = r}

\* Live raw holds of the other guests overlapping r.
RivalHolds(g, r) ==
    {o \in Holds : Live(o) /\ ~Booked(o) /\ hold[o].guest # g /\ Overlaps(hold[o].range, r)}

CreateHoldKeepingOwn(g, h, r) ==   \* mutant: the guest's earlier hold stays
    /\ hold[h].st = "unused"
    /\ Taken(r, TriggerStatuses) = {} /\ RivalHolds(g, r) = {}
    /\ hold' = [hold EXCEPT ![h] = [st |-> "live", guest |-> g, range |-> r]]
    /\ UNCHANGED <<booking, tx, reaper, blocks, revived>>

\* createHold: SERIALIZABLE under the listing's row lock.  The idempotent and
\* the resumed call change nothing and are not steps.
CreateHold(g, h, r) ==
    /\ hold[h].st = "unused"
    /\ ~\E o \in OwnRaw(g) : Live(o) /\ hold[o].range = r
    /\ Taken(r, TriggerStatuses) = {}
    /\ \A o \in OwnRaw(g) : ~RowLocked(o)
    /\ RivalHolds(g, r) = {}
    /\ \A b \in blocks : ~Overlaps(b, r)
    /\ hold' = [o \in Holds |->
                  IF o = h THEN [st |-> "live", guest |-> g, range |-> r]
                  ELSE IF o \in OwnRaw(g) THEN Row0("gone") ELSE hold[o]]
    /\ UNCHANGED <<booking, tx, reaper, blocks, revived>>

\* Time passes expiresAt.
HoldExpires(h) ==
    /\ Live(h)
    /\ hold' = [hold EXCEPT ![h].st = "expired"]
    /\ UNCHANGED <<booking, tx, reaper, blocks, revived>>

ReaperReadAll ==   \* mutant: booked holds are not filtered out
    /\ reaper = {}
    /\ reaper' = {h \in Holds : hold[h].st = "expired"}
    /\ reaper' # {}
    /\ UNCHANGED <<hold, booking, tx, blocks, revived>>

\* expireStaleHolds, first half: the batch is read, then audited row by row.
ReaperRead ==
    /\ reaper = {}
    /\ reaper' = {h \in Holds : hold[h].st = "expired" /\ ~Booked(h)}
    /\ reaper' # {}
    /\ UNCHANGED <<hold, booking, tx, blocks, revived>>

ReaperDeleteCascading ==   \* mutant: no foreign key stands in the way
    /\ reaper # {}
    /\ hold' = [h \in Holds |-> IF h \in reaper THEN Row0("gone") ELSE hold[h]]
    /\ reaper' = {}
    /\ UNCHANGED <<booking, tx, blocks, revived>>

\* Second half: deleteMany by id, one statement.  The filter booking: null is
\* not repeated; what protects a hold booked meanwhile is the foreign key,
\* which fails the whole statement.
ReaperDelete ==
    /\ reaper # {}
    /\ \A h \in reaper : ~RowLocked(h)
    /\ hold' = IF \E h \in reaper : Booked(h) THEN hold
               ELSE [h \in Holds |-> IF h \in reaper THEN Row0("gone") ELSE hold[h]]
    /\ reaper' = {}
    /\ UNCHANGED <<booking, tx, blocks, revived>>

\* The host blocks or unblocks dates; neither looks at holds or bookings.
ChangeBlock(r) ==
    /\ blocks' = IF r \in blocks THEN blocks \ {r} ELSE blocks \cup {r}
    /\ UNCHANGED <<hold, booking, tx, reaper, revived>>

------------------------------------------------------------------------------
(* SERIALIZABLE booking transactions *)

SetStatus(h, status) == booking' = [booking EXCEPT ![h].status = status]

\* createPayOnArrivalBooking: insert and reserve in one transaction; its own
\* overlap check also counts guests already in house.
CreatePayOnArrival(h) ==
    /\ "PAY_ON_ARRIVAL" \in BookPlans
    /\ Live(h) /\ ~Booked(h) /\ ~RowLocked(h)
    /\ Clashes(h, TriggerStatuses \cup {InHouse}) = {}
    /\ booking' = [booking EXCEPT ![h] =
                     [status |-> Target("PAY_ON_ARRIVAL_RESERVED", "PAYMENT_PENDING", 0),
                      plan |-> "PAY_ON_ARRIVAL", offline |-> FALSE]]
    /\ UNCHANGED <<hold, tx, reaper, blocks, revived>>

FirstCapture == [FULL |-> "PAYMENT_CONFIRMED_FULL", DEPOSIT_50 |-> "PAYMENT_CONFIRMED_DEPOSIT",
                 PAY_LATER |-> "PAY_LATER_FIRST_CAPTURED", PAY_ON_ARRIVAL |-> "PAYMENT_CONFIRMED_DEPOSIT"]

\* confirmPayment on a PAYMENT_PENDING booking: overlap check, then the trigger.
ConfirmPayment(h) ==
    LET event == FirstCapture[booking[h].plan]  status == booking[h].status
    IN  /\ status = "PAYMENT_PENDING" /\ ~RowLocked(h)
        /\ Clashes(h, TriggerStatuses) = {}
        /\ CanFire(event, status, booking[h].plan)
        /\ TriggerPasses(h, Target(event, status, 0))
        /\ SetStatus(h, Target(event, status, 0))
        /\ UNCHANGED <<hold, tx, reaper, blocks, revived>>

\* settleBalance, or the capture of the last instalment of a Pay Later plan.
SettleBalance(h) ==
    \E event \in {"BALANCE_PAID", "PAY_LATER_FINAL_CAPTURED"} :
        /\ CanFire(event, booking[h].status, booking[h].plan) /\ ~RowLocked(h)
        /\ TriggerPasses(h, Target(event, booking[h].status, 0))
        /\ SetStatus(h, Target(event, booking[h].status, 0))
        /\ UNCHANGED <<hold, tx, reaper, blocks, revived>>

------------------------------------------------------------------------------
(* READ COMMITTED requests *)

\* What the caller itself checks on the row before it calls the machine.
CallerAdmits(op, row) ==
    /\ op = "BALANCE_DUE_TRIGGERED" => row.plan \in {"DEPOSIT_50", "PAY_ON_ARRIVAL"}
    /\ op = "BALANCE_PAID" => row.plan = "PAY_ON_ARRIVAL" /\ row.status = "CONFIRMED_DEPOSIT"

BeginRead(p, op, h, plan) ==
    /\ tx[p].stage = "idle"
    /\ tx' = [tx EXCEPT ![p] = [stage |-> "read", op |-> op, h |-> h,
                                seen |-> booking[h].status, new |-> NoBooking, plan |-> plan]]
    /\ UNCHANGED <<hold, booking, reaper, blocks, revived>>

\* createBooking, online plans: the hold is read and found valid.
BeginCreateBooking(p, h, plan) ==
    /\ plan # "PAY_ON_ARRIVAL"
    /\ Live(h) /\ ~Booked(h)
    /\ BeginRead(p, CreateOp, h, plan)

\* releaseHold: the hold is read and has no booking yet.
BeginRelease(p, h) == RawHold(h) /\ BeginRead(p, ReleaseOp, h, "FULL")

\* Any status change that reads the row first.
BeginTransition(p, op, h) ==
    /\ op \in RCEvents \cup {ManualOp}
    /\ Booked(h)
    /\ CanFire(op, booking[h].status, booking[h].plan)
    /\ CallerAdmits(op, booking[h])
    /\ BeginRead(p, op, h, booking[h].plan)

\* createBooking's INSERT: the hold row must still be there (foreign key), no
\* other booking may have taken it (unique holdId), and the trigger looks at
\* the bookings committed so far.
WriteBooking(p) ==
    LET t == tx[p] IN
    /\ t.stage = "read" /\ t.op = CreateOp
    /\ RawHold(t.h) /\ ~RowLocked(t.h)
    /\ TriggerPasses(t.h, "PAYMENT_PENDING")
    /\ tx' = [tx EXCEPT ![p].stage = "written", ![p].new = "PAYMENT_PENDING"]
    /\ UNCHANGED <<hold, booking, reaper, blocks, revived>>

\* releaseHold's DELETE: one statement, refused by the foreign key when the
\* hold has become a booking.
WriteRelease(p) ==
    LET t == tx[p] IN
    /\ t.stage = "read" /\ t.op = ReleaseOp
    /\ RawHold(t.h) /\ ~RowLocked(t.h)
    /\ hold' = [hold EXCEPT ![t.h] = Row0("gone")]
    /\ tx' = [tx EXCEPT ![p] = Idle]
    /\ UNCHANGED <<booking, reaper, blocks, revived>>

\* A stale write puts a booking the calendar had let go back onto it.
RevivedBy(h, status) ==
    IF Booked(h) /\ status \in TriggerStatuses /\ booking[h].status \notin TriggerStatuses
    THEN revived \cup {h} ELSE revived

Publish(p, status) ==
    LET t == tx[p] IN
    /\ booking' = [booking EXCEPT ![t.h] =
                     [status |-> status, plan |-> t.plan,
                      offline |-> booking[t.h].offline \/ t.op = "BALANCE_PAID"]]
    /\ revived' = RevivedBy(t.h, status)
    /\ tx' = [tx EXCEPT ![p] = Idle]
    /\ UNCHANGED <<hold, reaper, blocks>>

\* transition(): the UPDATE by id.  The status it starts from is the one the
\* caller read, whatever the row holds by now.
MayTransition(p, new) ==
    LET t == tx[p] IN
    /\ t.stage = "read" /\ t.op \in RCEvents
    /\ \E refund \in Refunds : new = Target(t.op, t.seen, refund)
    /\ ~RowLocked(t.h)
    /\ t.op = "BALANCE_PAID" => ~booking[t.h].offline      \* key poa-<id> is unique
    /\ TriggerPasses(t.h, new)

\* Into a status the trigger guards: it ran before the commit made it visible.
WriteTransition(p) ==
    \E new \in TriggerStatuses :
        /\ MayTransition(p, new)
        /\ tx' = [tx EXCEPT ![p].stage = "written", ![p].new = new]
        /\ UNCHANGED <<hold, booking, reaper, blocks, revived>>

\* Into any other status the trigger does not look, and until the commit the
\* other transactions see the old row: UPDATE and COMMIT are one step.
ApplyTransition(p) ==
    \E new \in Statuses \ TriggerStatuses : MayTransition(p, new) /\ Publish(p, new)

CommitTx(p) == tx[p].stage = "written" /\ Publish(p, tx[p].new)

\* manualConfirm: reads the booking outside, then a SERIALIZABLE transaction
\* that checks the other bookings but hands the machine the row read outside.
ManualConfirm(p) ==
    LET t == tx[p]  new == Target(ManualOp, t.seen, 0) IN
    /\ t.stage = "read" /\ t.op = ManualOp
    /\ ~RowLocked(t.h) /\ ~booking[t.h].offline             \* key manual-<id> is unique
    /\ Clashes(t.h, SoldStatuses \cup {InHouse}) = {}
    /\ TriggerPasses(t.h, new)
    /\ booking' = [booking EXCEPT ![t.h].status = new, ![t.h].offline = TRUE]
    /\ revived' = RevivedBy(t.h, new)
    /\ tx' = [tx EXCEPT ![p] = Idle]
    /\ UNCHANGED <<hold, reaper, blocks>>

\* The request is refused, times out or crashes: its transaction rolls back.
Abort(p) ==
    /\ tx[p].stage # "idle"
    /\ tx' = [tx EXCEPT ![p] = Idle]
    /\ UNCHANGED <<hold, booking, reaper, blocks, revived>>

------------------------------------------------------------------------------
Request(p) ==
    \/ \E h \in Holds, plan \in BookPlans : BeginCreateBooking(p, h, plan)
    \/ \E h \in Holds : BeginRelease(p, h)
    \/ \E h \in Holds, op \in TxOps : BeginTransition(p, op, h)

Finish(p) ==
    WriteBooking(p) \/ WriteRelease(p) \/ WriteTransition(p) \/ ApplyTransition(p)
    \/ CommitTx(p) \/ ManualConfirm(p) \/ Abort(p)

Next ==
    \/ \E g \in Guests, h \in Holds, r \in Ranges : CreateHold(g, h, r)
    \/ \E h \in Holds : HoldExpires(h) \/ CreatePayOnArrival(h) \/ ConfirmPayment(h)
                        \/ SettleBalance(h)
    \/ \E p \in Procs : Request(p) \/ Finish(p)
    \/ \E r \in BlockRanges : ChangeBlock(r)
    \/ ReaperRead \/ ReaperDelete

Spec == Init /\ [][Next]_vars

\* The expiry job runs every minute and every transaction ends, by itself or
\* by Prisma's timeout.  Guests and hosts owe the system nothing.
JobFairness == WF_vars(ReaperRead) /\ WF_vars(ReaperDelete)
               /\ \A p \in Procs : WF_vars(Finish(p))
FairSpec == Spec /\ JobFairness
------------------------------------------------------------------------------
(* Properties *)

\* Every row, batch and request has the shape the code gives it.
TypeOK ==
    /\ hold \in [Holds -> HoldRow]
    /\ booking \in [Holds -> BookingRow]
    /\ tx \in [Procs -> TxRow]
    /\ reaper \subseteq Holds
    /\ blocks \subseteq BlockRanges
    /\ revived \subseteq Holds

\* Two guests never hold overlapping dates at the same time, whatever the
\* order of their requests, expiries, releases and conversions (createHold).
LiveHoldsDisjoint ==
    \A a, b \in Holds :
        /\ Live(a) /\ ~Booked(a) /\ Live(b) /\ ~Booked(b)
        /\ hold[a].guest # hold[b].guest
        => ~Overlaps(hold[a].range, hold[b].range)

\* No release and no expiry sweep, however its read and its delete straddle a
\* createBooking, removes the hold under a booking (expireStaleHolds 318-319).
BookingKeepsItsHold == \A h \in Holds : Booked(h) => Present(h)

\* Two confirmed bookings never share a night, unless one of them was put back
\* on the calendar by a request that had read its row before it was cancelled
\* (the overlap check of confirmPayment and the trigger of migration 0003).
SoldOnceUnlessRevived ==
    \A a, b \in Holds :
        /\ a # b
        /\ booking[a].status \in SoldStatuses /\ booking[b].status \in SoldStatuses
        /\ Overlaps(hold[a].range, hold[b].range)
        => a \in revived \/ b \in revived

\* A guest still filling in the form loses the held dates only to a booking
\* whose own hold ran out while its creation was in flight, or to a revived one.
HoldOverrunOnlyByLateBooking ==
    \A h, b \in Holds :
        /\ Live(h) /\ ~Booked(h) /\ booking[b].status \in TriggerStatuses
        /\ hold[b].guest # hold[h].guest /\ Overlaps(hold[b].range, hold[h].range)
        => hold[b].st = "expired" \/ b \in revived

\* The expiry job gets rid of every expired hold that never became a booking,
\* although one booked hold in its batch makes the whole delete fail.
ExpiredHoldsReaped ==
    \A h \in Holds : (hold[h].st = "expired" /\ ~Booked(h)) ~> (~Present(h) \/ Booked(h))

\* The claim of docs/booking-engine-test-report.md (Proof B) and of migration
\* 0003: no two guests are given the same night, in house or confirmed.
NoDoubleOccupancy ==
    \A a, b \in Holds :
        /\ a # b
        /\ booking[a].status \in SoldStatuses \cup {InHouse}
        /\ booking[b].status \in SoldStatuses \cup {InHouse}
        => ~Overlaps(hold[a].range, hold[b].range)

\* The leases HoldBoard promises, read off the hold table.
NightsOf(r) == r.from .. (r.to - 1)
LeaseOf(g) == UNION {NightsOf(hold[o].range) : o \in {o \in OwnRaw(g) : Live(o)}}
Lease == [g \in Guests |-> LeaseOf(g)]
Board == INSTANCE HoldBoard WITH Stays <- {NightsOf(r) : r \in Ranges}, lease <- Lease
BoardSpec == Board!Spec
=============================================================================
