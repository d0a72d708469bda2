---- MODULE Seats ----
(***************************************************************************)
(* One experience and its seats: experience/experience.service.ts.         *)
(* A booking, and a host's edit that changes the capacity, is a            *)
(* serializable transaction that locks the experience's row before it      *)
(* counts the seats sold. Every other edit, the closing and the admin's    *)
(* decision are single updates by id that carry what the caller read       *)
(* before. A transaction works on the snapshot its first statement took.   *)
(***************************************************************************)
EXTENDS Integers, FiniteSets

CONSTANTS Caller,      \* requests in flight at once
          Key,         \* idempotency keys; a request without one makes a fresh key
          Capacities,  \* capacities a host may ask for
          MaxParty,    \* bound: seats a guest asks for
          MaxContent   \* bound: versions of the content the host writes

ASSUME SeatsAssumption ==
    /\ Capacities \subseteq Nat
    /\ IsFiniteSet(Key) /\ Key # {}
    /\ MaxParty \in Nat \ {0}
    /\ MaxContent \in Nat \ {0}

VARIABLES
    experience,  \* the Experience row; started says that startsAt has passed
    ticket,      \* the ExperienceBooking rows, by their unique idempotencyKey
    caller,      \* what each request has read and where it is
    looked,      \* the version of the content an admin has in front of them
    vetted       \* history: the version looked at when the last decision was taken,
                 \* or Raced if that decision crossed an edit

seatsVars == <<experience, ticket, caller, looked, vetted>>

ExperienceStatuses == {"PENDING_APPROVAL", "APPROVED", "REJECTED", "CLOSED"}
ExperienceRow == [status : ExperienceStatuses, capacity : Nat, content : 1 .. MaxContent,
                  started : BOOLEAN]
\* Whose booking it is matters only to who may see and cancel it.
TicketRow == [status : {"none", "CONFIRMED", "CANCELLED"}, seats : 0 .. MaxParty]

\* A request: a booking under a key, an edit, or an edit with a capacity (a resize).
\* demote: the edit read APPROVED and will reset it. The last three are the snapshot.
CallerRecord == [pc : {"idle", "begin", "open", "locked"}, op : {"book", "edit", "resize"},
                 key : Key, demote : BOOLEAN,
                 status : ExperienceStatuses, capacity : Nat, sold : Nat]
Idler == [pc |-> "idle", op |-> "book", key |-> CHOOSE k \in Key : TRUE, demote |-> FALSE,
          status |-> "APPROVED", capacity |-> 0, sold |-> 0]

\* countSeatsSold: one pair for every seat of a booking that is CONFIRMED, the only
\* counted status the code ever writes.
Occupied == {p \in Key \X (1 .. MaxParty) : ticket[p[1]].status = "CONFIRMED"
                                             /\ p[2] <= ticket[p[1]].seats}
SeatsSold == Cardinality(Occupied)

Raced == MaxContent + 1
Unlocked == \A c \in Caller : caller[c].pc # "locked"
Editing(c) == caller[c].pc # "idle" /\ caller[c].op # "book"

RestartedNever(callers) == callers   \* mutant: the isolation level is not serializable
\* Whatever commits after their snapshot fails open transactions, at their lock or at
\* their insert; withSerializableRetry then runs the body again.
Restarted(callers) == [c \in Caller |-> IF callers[c].pc = "open"
                                        THEN [callers[c] EXCEPT !.pc = "begin"] ELSE callers[c]]
Gone(c) == [caller EXCEPT ![c] = Idler]

SeatsInit ==
    /\ \E capacity \in Capacities :
          experience = [status |-> "PENDING_APPROVAL", capacity |-> capacity, content |-> 1,
                        started |-> FALSE]
    /\ ticket = [k \in Key |-> [status |-> "none", seats |-> 0]]
    /\ caller = [c \in Caller |-> Idler]
    /\ looked = 1 /\ vetted = 0

(***************************************************************************)
(* Requests                                                                *)
(***************************************************************************)

\* A key that is known answers with its booking, or is refused to another guest.
BeginBook(c, k) ==
    /\ caller[c].pc = "idle"
    /\ ticket[k].status = "none"
    /\ caller' = [caller EXCEPT ![c] = [Idler EXCEPT !.pc = "begin", !.key = k]]
    /\ UNCHANGED <<experience, ticket, looked, vetted>>

BeginEditKeepingStatus(c, op) ==   \* mutant: the re-review is forgotten
    /\ caller[c].pc = "idle"
    /\ caller' = [caller EXCEPT ![c] = [Idler EXCEPT !.pc = "begin", !.op = op]]
    /\ UNCHANGED <<experience, ticket, looked, vetted>>

\* The update is composed from the row as it is now.
BeginEdit(c, op) ==
    /\ caller[c].pc = "idle"
    /\ caller' = [caller EXCEPT ![c] = [Idler EXCEPT !.pc = "begin", !.op = op,
                                        !.demote = (experience.status = "APPROVED")]]
    /\ UNCHANGED <<experience, ticket, looked, vetted>>

\* The columns an edit writes, whatever the row holds by then; a new startsAt lies ahead.
Edited(c, capacity, postpone) ==
    [status |-> IF caller[c].demote THEN "PENDING_APPROVAL" ELSE experience.status,
     capacity |-> capacity,
     content |-> experience.content + 1,
     started |-> experience.started /\ ~postpone]

PlainEdit(c) ==
    /\ caller[c].pc = "begin" /\ caller[c].op = "edit"
    /\ Unlocked
    /\ experience.content < MaxContent
    /\ \E postpone \in BOOLEAN : experience' = Edited(c, experience.capacity, postpone)
    /\ caller' = Restarted(Gone(c))
    /\ UNCHANGED <<ticket, looked, vetted>>

(***************************************************************************)
(* The two serializable transactions                                       *)
(***************************************************************************)

\* Their first statement, SELECT ... FOR UPDATE, takes the snapshot ...
Open(c) ==
    /\ caller[c].pc = "begin" /\ caller[c].op # "edit"
    /\ caller' = [caller EXCEPT ![c].pc = "open", ![c].status = experience.status,
                                ![c].capacity = experience.capacity, ![c].sold = SeatsSold]
    /\ UNCHANGED <<experience, ticket, looked, vetted>>

\* ... and waits for the row.
Lock(c) ==
    /\ caller[c].pc = "open"
    /\ Unlocked
    /\ caller' = [caller EXCEPT ![c].pc = "locked"]
    /\ UNCHANGED <<experience, ticket, looked, vetted>>

Book(c, n) ==
    LET k == caller[c].key IN
    /\ caller[c].pc = "locked" /\ caller[c].op = "book"
    /\ caller[c].status = "APPROVED"
    /\ ~experience.started
    /\ caller[c].sold + n <= caller[c].capacity
    /\ ticket[k].status = "none"
    /\ ticket' = [ticket EXCEPT ![k] = [status |-> "CONFIRMED", seats |-> n]]
    /\ caller' = Restarted(Gone(c))
    /\ UNCHANGED <<experience, looked, vetted>>

Resize(c, capacity) ==
    /\ caller[c].pc = "locked" /\ caller[c].op = "resize"
    /\ capacity >= caller[c].sold
    /\ experience.content < MaxContent
    /\ \E postpone \in BOOLEAN : experience' = Edited(c, capacity, postpone)
    /\ caller' = Restarted(Gone(c))
    /\ UNCHANGED <<ticket, looked, vetted>>

\* A check fails, the retries are used up, or the process stops: nothing is written.
GiveUp(c) ==
    /\ caller[c].pc # "idle"
    /\ caller' = Gone(c)
    /\ UNCHANGED <<experience, ticket, looked, vetted>>

(***************************************************************************)
(* Single statements                                                       *)
(***************************************************************************)

CancelRefunded(k) ==   \* mutant: a status the code never sets
    /\ ticket[k].status = "CONFIRMED"
    /\ ~experience.started
    /\ ticket' = [ticket EXCEPT ![k].status = "REFUNDED"]
    /\ UNCHANGED <<experience, caller, looked, vetted>>

\* Nothing but this writes a booking again, so its read and its update are one step.
CancelTicket(k) ==
    /\ ticket[k].status = "CONFIRMED"
    /\ ~experience.started
    /\ ticket' = [ticket EXCEPT ![k].status = "CANCELLED"]
    /\ UNCHANGED <<experience, caller, looked, vetted>>

Close ==
    /\ Unlocked
    /\ experience' = [experience EXCEPT !.status = "CLOSED"]
    /\ caller' = Restarted(caller)
    /\ UNCHANGED <<ticket, looked, vetted>>

\* An admin loads the page they will decide from.
LookAt ==
    /\ looked' = experience.content
    /\ UNCHANGED <<experience, ticket, caller, vetted>>

\* moderateExperience writes its decision by id, over any status.
Moderate(status) ==
    /\ status \in {"APPROVED", "REJECTED"}
    /\ Unlocked
    /\ experience' = [experience EXCEPT !.status = status]
    /\ caller' = Restarted(caller)
    /\ vetted' = IF \/ looked # experience.content
                    \/ \E c \in Caller : Editing(c) /\ ~caller[c].demote
                 THEN Raced ELSE looked
    /\ UNCHANGED <<ticket, looked>>

Start ==
    /\ ~experience.started
    /\ experience' = [experience EXCEPT !.started = TRUE]
    /\ UNCHANGED <<ticket, caller, looked, vetted>>

SeatsNext ==
    \/ \E c \in Caller :
          \/ \E k \in Key : BeginBook(c, k)
          \/ \E op \in {"edit", "resize"} : BeginEdit(c, op)
          \/ PlainEdit(c) \/ Open(c) \/ Lock(c) \/ GiveUp(c)
          \/ \E n \in 1 .. MaxParty : Book(c, n)
          \/ \E capacity \in Capacities : Resize(c, capacity)
    \/ \E k \in Key : CancelTicket(k)
    \/ \E status \in ExperienceStatuses : Moderate(status)
    \/ Close \/ LookAt \/ Start

SeatsSpec == SeatsInit /\ [][SeatsNext]_seatsVars

(***************************************************************************)
(* Properties                                                              *)
(***************************************************************************)

\* Types of the row, its bookings and the requests.
SeatsTypeOK ==
    /\ experience \in ExperienceRow
    /\ ticket \in [Key -> TicketRow]
    /\ caller \in [Caller -> CallerRecord]
    /\ looked \in 1 .. MaxContent
    /\ vetted \in 0 .. MaxContent \cup {Raced}

\* No seat is sold twice: bookings whose counts were taken at the same time, bookings
\* under way while the host shrinks the experience, and cancellations in between never
\* bring the seats sold above the capacity.
SeatsWithinCapacity == SeatsSold <= experience.capacity

\* A booking that comes to be while requests wait for the row is made of an experience
\* that is on sale at that very moment: neither a closing, a rejection nor an edit that
\* sent it back to review has slipped in between the guest's checks and the insert.
SoldOnlyWhileApproved ==
    [][\A k \in Key : ticket[k].status = "none" /\ ticket'[k].status = "CONFIRMED"
                         => experience.status = "APPROVED" /\ experience'.status = "APPROVED"]_seatsVars

\* What is on sale is what the admin had looked at, unless their decision crossed an
\* edit: "Edits to approved experience require re-review" (updateHostExperience).
ApprovedAsVettedUnlessRaced ==
    experience.status = "APPROVED" => vetted \in {experience.content, Raced}
====
