---- MODULE StayPass ----
(***************************************************************************)
(* Tickets and passport stamps: stay-pass/stay-pass.service.ts, passport/  *)
(* passport.service.ts and qr/checkin.service.ts.  Every 30 seconds a      *)
(* worker of any API instance sweeps: it renders tickets of confirmed      *)
(* bookings, voids those of cancelled ones and seals the stamps of         *)
(* completed ones, each from a list it has read before.  Meanwhile hosts   *)
(* scan tickets and the bookings go their own way; how two of those writes *)
(* race for one booking is the business of Reservation.                    *)
(***************************************************************************)
EXTENDS BookingStateMachine, FiniteSets

CONSTANTS Trip,        \* bookings
          TripPlan,    \* their payment plan
          TripEvents,  \* events of the booking service that change their status
          Sweeper,     \* workers of the queue, one per API instance
          Scanner,     \* check-ins by scan in flight at once
          SweepLimit,  \* bookings per list: 10
          MaxCuts,     \* bound: sweeps that are cut short
          NoTrip

ASSUME StayPassAssumption ==
    /\ IsFiniteSet(Trip) /\ NoTrip \notin Trip
    /\ TripPlan \in Plans /\ TripEvents \subseteq Events
    /\ SweepLimit \in Nat \ {0} /\ MaxCuts \in Nat

VARIABLES
    trip,     \* status of each booking
    recent,   \* the bookings in the order of updatedAt
    ticket,   \* the Ticket row of each booking: status and qrRevoked
    stamp,    \* its PassportStamp row: which of checkedInAt and completedAt are set
    sweeper,  \* the list each worker has read and where it is with it
    scanner,  \* what each check-in has read and where it is
    cuts      \* sweeps that were cut short

passVars == <<trip, recent, ticket, stamp, sweeper, scanner, cuts>>

TicketRow == [st : {"none", "PENDING", "RENDERED", "FAILED", "VOIDED"}, revoked : BOOLEAN]
SweeperRecord == [pc : {"idle", "render", "draw", "void", "seal"},
                  batch : SUBSET Trip, on : Trip \cup {NoTrip}]
ScannerRecord == [pc : {"idle", "verified", "fresh", "stamp"},
                  on : Trip \cup {NoTrip}, seen : Statuses]

NoSweep == [pc |-> "idle", batch |-> {}, on |-> NoTrip]
NoScan  == [pc |-> "idle", on |-> NoTrip, seen |-> "PAYMENT_PENDING"]

CONFIRMED_STATUSES == {"CONFIRMED_PAID", "CONFIRMED_DEPOSIT", "BALANCE_DUE", "CHECKED_IN"}
VOIDABLE_STATUSES  == {"CANCELLED", "REFUNDED"}

(***************************************************************************)
(* Bookings                                                                *)
(***************************************************************************)

Older(t, u) == \E i, j \in DOMAIN recent : i < j /\ recent[i] = t /\ recent[j] = u
FirstOf(S) == {t \in S : Cardinality({u \in S : Older(u, t)}) < SweepLimit}
LastOf(S)  == {t \in S : Cardinality({u \in S : Older(t, u)}) < SweepLimit}
\* The booking moves to the end, those behind it move up.
Touched(t) ==
    [i \in DOMAIN recent |->
        CASE i = Cardinality(Trip) -> t
          [] i < Cardinality(Trip) /\ (\E j \in 1 .. i : recent[j] = t) -> recent[i + 1]
          [] OTHER -> recent[i]]

PassInit ==
    /\ trip = [t \in Trip |-> "PAYMENT_PENDING"]
    /\ recent \in {s \in [1 .. Cardinality(Trip) -> Trip] : {s[i] : i \in DOMAIN s} = Trip}
    /\ ticket = [t \in Trip |-> [st |-> "none", revoked |-> FALSE]]
    /\ stamp = [t \in Trip |-> {}]
    /\ sweeper = [w \in Sweeper |-> NoSweep]
    /\ scanner = [h \in Scanner |-> NoScan]
    /\ cuts = 0

\* The booking service, its jobs and the admin move a booking on.
MoveTrip(t, event, refund) ==
    /\ CanFire(event, trip[t], TripPlan)
    /\ trip' = [trip EXCEPT ![t] = Target(event, trip[t], refund)]
    /\ recent' = Touched(t)
    /\ UNCHANGED <<ticket, stamp, sweeper, scanner, cuts>>

(***************************************************************************)
(* The sweep                                                               *)
(***************************************************************************)

NeedRender == {t \in Trip : trip[t] \in CONFIRMED_STATUSES
                            /\ ticket[t].st \in {"none", "PENDING", "FAILED"}}
ToVoidWhileRendered ==   \* mutant: only rendered tickets are looked for
    {t \in Trip : ticket[t].st = "RENDERED" /\ trip[t] \in VOIDABLE_STATUSES}
ToVoid == {t \in Trip : ticket[t].st \notin {"none", "VOIDED"} /\ trip[t] \in VOIDABLE_STATUSES}
\* Sealed or not, the latest come first.
ToSeal == LastOf({t \in Trip : trip[t] = "COMPLETED" /\ ticket[t].st # "none"})

Listed(w, pc, batch) == [sweeper EXCEPT ![w] = [NoSweep EXCEPT !.pc = pc, !.batch = batch]]
Ticked(w, t) == [sweeper EXCEPT ![w].batch = @ \ {t}]

SweepReadsRenders(w) ==
    /\ sweeper[w].pc = "idle"
    /\ sweeper' = Listed(w, "render", FirstOf(NeedRender))
    /\ UNCHANGED <<trip, recent, ticket, stamp, scanner, cuts>>

Failed(t) == [ticket EXCEPT ![t].st = IF @ = "none" THEN "none" ELSE "FAILED"]

\* renderTicketForBooking looks at the booking again and makes sure of its ticket;
\* the theme may not be found.
EnsureTicket(w, t) ==
    /\ sweeper[w].pc = "render" /\ t \in sweeper[w].batch
    /\ \/ /\ trip[t] \in CONFIRMED_STATUSES
          /\ ticket' = [ticket EXCEPT ![t].st = IF @ = "none" THEN "PENDING" ELSE @]
          /\ sweeper' = [sweeper EXCEPT ![w] = [pc |-> "draw", on |-> t, batch |-> @.batch \ {t}]]
       \/ /\ trip[t] \in CONFIRMED_STATUSES
          /\ ticket' = Failed(t)
          /\ sweeper' = Ticked(w, t)
       \/ /\ trip[t] \notin CONFIRMED_STATUSES
          /\ sweeper' = Ticked(w, t)
          /\ UNCHANGED ticket
    /\ UNCHANGED <<trip, recent, stamp, scanner, cuts>>

\* Images are drawn and uploaded, or not; either way the ticket is written by id.
Draw(w) ==
    LET t == sweeper[w].on IN
    /\ sweeper[w].pc = "draw"
    /\ \/ ticket' = [ticket EXCEPT ![t].st = "RENDERED"]
       \/ ticket' = Failed(t)
    /\ sweeper' = Listed(w, "render", sweeper[w].batch)
    /\ UNCHANGED <<trip, recent, stamp, scanner, cuts>>

SweepReadsVoids(w) ==
    /\ sweeper[w].pc = "render" /\ sweeper[w].batch = {}
    /\ \E batch \in SUBSET ToVoid :
          /\ Cardinality(batch) <= SweepLimit
          /\ Cardinality(batch) = SweepLimit \/ batch = ToVoid
          /\ sweeper' = Listed(w, "void", batch)
    /\ UNCHANGED <<trip, recent, ticket, stamp, scanner, cuts>>

VoidTicket(w, t) ==
    /\ sweeper[w].pc = "void" /\ t \in sweeper[w].batch
    /\ ticket' = [ticket EXCEPT ![t] = [st |-> "VOIDED", revoked |-> TRUE]]
    /\ sweeper' = Ticked(w, t)
    /\ UNCHANGED <<trip, recent, stamp, scanner, cuts>>

SweepReadsSeals(w) ==
    /\ sweeper[w].pc = "void" /\ sweeper[w].batch = {}
    /\ sweeper' = Listed(w, "seal", ToSeal)
    /\ UNCHANGED <<trip, recent, ticket, stamp, scanner, cuts>>

SealScanned(w, t) ==   \* mutant: no stamp is made for a stay that was never scanned
    /\ sweeper[w].pc = "seal" /\ t \in sweeper[w].batch
    /\ stamp' = [stamp EXCEPT ![t] = IF @ = {} THEN {} ELSE @ \cup {"completedAt"}]
    /\ sweeper' = Ticked(w, t)
    /\ UNCHANGED <<trip, recent, ticket, scanner, cuts>>

SealOnComplete(w, t) ==
    /\ sweeper[w].pc = "seal" /\ t \in sweeper[w].batch
    /\ stamp' = [stamp EXCEPT ![t] = @ \cup {"completedAt"}]
    /\ sweeper' = Ticked(w, t)
    /\ UNCHANGED <<trip, recent, ticket, scanner, cuts>>

SweepEnds(w) ==
    /\ sweeper[w].pc = "seal" /\ sweeper[w].batch = {}
    /\ sweeper' = [sweeper EXCEPT ![w] = NoSweep]
    /\ UNCHANGED <<trip, recent, ticket, stamp, scanner, cuts>>

\* The process stops, or a statement throws out of the sweep.
SweepCut(w) ==
    /\ sweeper[w].pc # "idle"
    /\ cuts < MaxCuts
    /\ cuts' = cuts + 1
    /\ sweeper' = [sweeper EXCEPT ![w] = NoSweep]
    /\ UNCHANGED <<trip, recent, ticket, stamp, scanner>>

(***************************************************************************)
(* Check-in by scan                                                        *)
(***************************************************************************)

\* verifyToken, within the time window and by the right host.
VerifyToken(h, t) ==
    /\ scanner[h].pc = "idle"
    /\ ticket[t].st # "none" /\ ~ticket[t].revoked
    /\ trip[t] \in Arrivable
    /\ scanner' = [scanner EXCEPT ![h] = [NoScan EXCEPT !.pc = "verified", !.on = t]]
    /\ UNCHANGED <<trip, recent, ticket, stamp, sweeper, cuts>>

\* The transaction of confirm() reads the booking afresh, ...
ScanReads(h) ==
    LET t == scanner[h].on IN
    /\ scanner[h].pc = "verified"
    /\ scanner' = IF CanFire("CHECKED_IN", trip[t], TripPlan)
                  THEN [scanner EXCEPT ![h].pc = "fresh", ![h].seen = trip[t]]
                  ELSE [scanner EXCEPT ![h] = NoScan]
    /\ UNCHANGED <<trip, recent, ticket, stamp, sweeper, cuts>>

\* ... and writes it by id.
ScanWrites(h) ==
    LET t == scanner[h].on IN
    /\ scanner[h].pc = "fresh"
    /\ trip' = [trip EXCEPT ![t] = Target("CHECKED_IN", scanner[h].seen, 0)]
    /\ recent' = Touched(t)
    /\ scanner' = [scanner EXCEPT ![h] = [NoScan EXCEPT !.pc = "stamp", !.on = t]]
    /\ UNCHANGED <<ticket, stamp, sweeper, cuts>>

MintOnCheckin(h) ==
    /\ scanner[h].pc = "stamp"
    /\ stamp' = [stamp EXCEPT ![scanner[h].on] = @ \cup {"checkedInAt"}]
    /\ scanner' = [scanner EXCEPT ![h] = NoScan]
    /\ UNCHANGED <<trip, recent, ticket, sweeper, cuts>>

\* The transaction rolls back, the stamp fails, or the process stops.
ScanCut(h) ==
    /\ scanner[h].pc # "idle"
    /\ scanner' = [scanner EXCEPT ![h] = NoScan]
    /\ UNCHANGED <<trip, recent, ticket, stamp, sweeper, cuts>>

SweepStep(w) ==
    \/ SweepReadsRenders(w) \/ Draw(w) \/ SweepReadsVoids(w) \/ SweepReadsSeals(w) \/ SweepEnds(w)
    \/ \E t \in Trip : EnsureTicket(w, t) \/ VoidTicket(w, t) \/ SealOnComplete(w, t)

PassNext ==
    \/ \E t \in Trip, event \in TripEvents, refund \in {0, 1} : MoveTrip(t, event, refund)
    \/ \E w \in Sweeper : SweepStep(w) \/ SweepCut(w)
    \/ \E h \in Scanner : \/ \E t \in Trip : VerifyToken(h, t)
                          \/ ScanReads(h) \/ ScanWrites(h) \/ MintOnCheckin(h) \/ ScanCut(h)

\* The sweep is scheduled for ever and a worker goes on with its list.
PassFairness == \A w \in Sweeper : WF_passVars(SweepStep(w))

PassSpec == PassInit /\ [][PassNext]_passVars
PassFairSpec == PassSpec /\ PassFairness

(***************************************************************************)
(* Properties                                                              *)
(***************************************************************************)

\* Types of rows, lists and check-ins.
PassTypeOK ==
    /\ trip \in [Trip -> Statuses]
    /\ recent \in [1 .. Cardinality(Trip) -> Trip]
    /\ ticket \in [Trip -> TicketRow]
    /\ stamp \in [Trip -> SUBSET {"checkedInAt", "completedAt"}]
    /\ sweeper \in [Sweeper -> SweeperRecord]
    /\ scanner \in [Scanner -> ScannerRecord]
    /\ cuts \in 0 .. MaxCuts

\* The ticket of a booking that stays cancelled ends up voided, and its code revoked,
\* although a sweep that is still drawing it writes it back to RENDERED or FAILED.
CancelledIsVoided ==
    \A t \in Trip :
        <>[](trip[t] \in VOIDABLE_STATUSES)
            => <>[](ticket[t].st = "none" \/ ticket[t] = [st |-> "VOIDED", revoked |-> TRUE])

\* A completed stay that stays within reach of the sweep, among the SweepLimit completed
\* last, gets its stamp sealed, whether or not it was ever scanned.
SealedWhileInReach == \A t \in Trip : <>[](t \in ToSeal) => <>[]("completedAt" \in stamp[t])

\* "Every completed stay earns its stamp" (StayPassService.sweep), whatever completes later.
CompletedIsSealed ==
    \A t \in Trip : <>[](trip[t] = "COMPLETED" /\ ticket[t].st # "none")
                        => <>[]("completedAt" \in stamp[t])
====
