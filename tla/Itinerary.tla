---- MODULE Itinerary ----
(***************************************************************************)
(* The trip planner of one guest: itinerary/itinerary.service.ts.  Ideas,  *)
(* new plans and chat messages each ask a language model that bills the    *)
(* guest's month; new plans are generated under a lock with a lease in     *)
(* Redis and a second guard in each API process; a chat message rewrites   *)
(* one existing plan from what it read of it before the model answered.    *)
(***************************************************************************)
EXTENDS Integers, FiniteSets

CONSTANTS Api,       \* API processes
          Call,      \* requests in flight at once
          Cap,       \* ITINERARY_USER_MONTHLY_CAP_PAISE, as multiples of a cost
          MaxCost,   \* what an answer may cost
          MaxChat,   \* bound: messages that change the plan
          NoApi

ASSUME PlannerAssumption ==
    /\ Cap \in Nat \ {0} /\ MaxCost \in Nat
    /\ MaxChat \in Nat /\ NoApi \notin Api /\ IsFiniteSet(Api) /\ IsFiniteSet(Call)

\* As many lock tokens as can be told apart: one in Redis, one kept by each process.
Lease == 1 .. Cardinality(Api) + 1
Chat  == 1 .. MaxChat

VARIABLES
    trip,     \* the Itinerary row: status, and the messages its days are built from
    lock,     \* the lease stored under the guest's key in Redis, 0 for none
    linked,   \* processes whose Redis connection is up; a lost one is not retried
    kept,     \* generationLockTokens: the lease each process keeps for the guest, 0 for none
    busy,     \* inProcessGenerations: processes that hold an entry for the guest
    used,     \* costPaise of the month's ItineraryUsage row
    call,     \* what each request has read and where it is
    holder,   \* history: the process that drew the lease in Redis
    applied,  \* history: messages whose change was written
    overlapped, \* history: messages in flight together, or across the finalization
    frozen    \* history: what the plan was built from when it was finalized

plannerVars == <<trip, lock, linked, kept, busy, used, call, holder, applied, overlapped, frozen>>
histories == <<holder, applied, overlapped, frozen>>
lockVars  == <<lock, linked, kept, busy>>

TripRow == [status : {"GENERATED", "FINALIZED", "deleted"}, built : SUBSET Chat]
CallRecord == [pc : {"idle", "check", "ask", "write", "record", "release", "forget"},
               kind : {"ideas", "plan", "chat"}, api : Api \cup {NoApi},
               chat : Chat \cup {0}, read : SUBSET Chat]

Nothing == [pc |-> "idle", kind |-> "ideas", api |-> NoApi, chat |-> 0, read |-> {}]
MovedTo(c, pc) == [call EXCEPT ![c].pc = pc]
Returned(c) == [call EXCEPT ![c] = Nothing]
\* A new plan leaves through its finally block, the other requests return.
Unwind(c) == IF call[c].kind = "plan" THEN MovedTo(c, "release") ELSE Returned(c)

Talking == {c \in Call : call[c].kind = "chat"}
Generating == {c \in Call : call[c].kind = "plan" /\ call[c].pc \in {"check", "ask", "record"}}

PlannerInit ==
    /\ trip = [status |-> "GENERATED", built |-> {}]
    /\ lock = 0 /\ linked = Api /\ kept = [s \in Api |-> 0] /\ busy = {}
    /\ used = 0
    /\ call = [c \in Call |-> Nothing]
    /\ holder = NoApi
    /\ applied = {} /\ overlapped = {} /\ frozen = {}

(***************************************************************************)
(* The generation lock                                                     *)
(***************************************************************************)

Generate(c, s) == [call EXCEPT ![c] = [Nothing EXCEPT !.pc = "check", !.kind = "plan", !.api = s]]

\* A new token under a free key: SET NX.
Draw(s, l) ==
    /\ lock = 0 /\ s \in linked
    /\ \A t \in Api : kept[t] # l
    /\ \A m \in Lease : m < l => \E t \in Api : kept[t] = m
    /\ lock' = l
    /\ holder' = s

AcquireLease(c, s) ==
    /\ call[c].pc = "idle"
    /\ \E l \in Lease : Draw(s, l) /\ kept' = [kept EXCEPT ![s] = l]
    /\ call' = Generate(c, s)
    /\ UNCHANGED <<trip, linked, busy, used, applied, overlapped, frozen>>

\* The guard inside the process is asked whenever Redis did not say OK: when it cannot
\* be reached, when its answer is lost, and when somebody holds the lease.
AcquireLocally(c, s) ==
    /\ call[c].pc = "idle"
    /\ s \notin busy
    /\ \/ (s \notin linked \/ lock # 0) /\ UNCHANGED <<lock, linked, holder>>
       \/ (\E l \in Lease : Draw(s, l)) /\ linked' = linked \ {s}
    /\ busy' = busy \cup {s}
    /\ call' = Generate(c, s)
    /\ UNCHANGED <<trip, kept, used, applied, overlapped, frozen>>

FreedUnseen(s) == 0   \* mutant: the key is deleted, whatever token it holds
Freed(s) == IF lock = kept[s] THEN 0 ELSE lock

\* The script deletes the key if it holds the token the process keeps; by then that may
\* be the token of another request of the process.
ReleaseLease(c) ==
    LET s == call[c].api IN
    /\ call[c].pc = "release" /\ kept[s] # 0
    /\ lock' = IF s \in linked THEN Freed(s) ELSE lock
    /\ holder' = IF lock' = 0 THEN NoApi ELSE holder
    /\ call' = MovedTo(c, "forget")
    /\ UNCHANGED <<trip, linked, kept, busy, used, applied, overlapped, frozen>>

Forget(c) ==
    LET s == call[c].api IN
    /\ \/ call[c].pc = "forget"
       \/ call[c].pc = "release" /\ kept[s] = 0
    /\ kept' = [kept EXCEPT ![s] = 0]
    /\ busy' = busy \ {s}
    /\ call' = Returned(c)
    /\ UNCHANGED <<trip, lock, linked, used>> /\ UNCHANGED histories

\* The lease runs for 60 s; two attempts at the model alone may take longer.
ExpireLease ==
    /\ lock # 0
    /\ lock' = 0 /\ holder' = NoApi
    /\ UNCHANGED <<trip, linked, kept, busy, used, call, applied, overlapped, frozen>>

LoseLink(s) ==
    /\ s \in linked
    /\ linked' = linked \ {s}
    /\ UNCHANGED <<trip, lock, kept, busy, used, call>> /\ UNCHANGED histories

(***************************************************************************)
(* Requests                                                                *)
(***************************************************************************)

\* Ideas and messages run in any process; no guard of theirs depends on which.
AskIdeas(c) ==
    /\ call[c].pc = "idle"
    /\ call' = MovedTo(c, "check")
    /\ UNCHANGED <<trip, used>> /\ UNCHANGED lockVars /\ UNCHANGED histories

ModifiableAlways == trip.status # "deleted"   \* mutant: a finalized plan is not refused
Modifiable == trip.status = "GENERATED"

ReadTrip(c, n) ==
    LET others == {call[d].chat : d \in Talking} IN
    /\ call[c].pc = "idle"
    /\ Modifiable
    /\ \A m \in Chat : m < n => m \in applied \cup others
    /\ n \notin applied \cup others
    /\ call' = [call EXCEPT ![c] = [pc |-> "check", kind |-> "chat", api |-> NoApi,
                                    chat |-> n, read |-> trip.built]]
    /\ overlapped' = IF others = {} THEN overlapped \ {n} ELSE overlapped \cup others \cup {n}
    /\ UNCHANGED <<trip, used, holder, applied, frozen>> /\ UNCHANGED lockVars

CheckCapOfPlans(c) ==   \* mutant: only a new plan is held against the cap
    /\ call[c].pc = "check"
    /\ call' = IF used < Cap \/ call[c].kind # "plan" THEN MovedTo(c, "ask") ELSE Unwind(c)
    /\ UNCHANGED <<trip, used>> /\ UNCHANGED lockVars /\ UNCHANGED histories

CheckCap(c) ==
    /\ call[c].pc = "check"
    /\ call' = IF used < Cap THEN MovedTo(c, "ask") ELSE Unwind(c)
    /\ UNCHANGED <<trip, used>> /\ UNCHANGED lockVars /\ UNCHANGED histories

\* The model answers, or does not, or not in the form asked for, after a retry.  A new
\* plan is a row of its own; the message may or may not come with a change.
AskModel(c) ==
    /\ call[c].pc = "ask"
    /\ \/ call' = Unwind(c)
       \/ call' = MovedTo(c, "record")
       \/ call[c].kind = "chat" /\ call' = MovedTo(c, "write")
    /\ UNCHANGED <<trip, used>> /\ UNCHANGED lockVars /\ UNCHANGED histories

\* An update by id: whatever the days are now, they become those read and the change.
WriteTrip(c) ==
    /\ call[c].pc = "write"
    /\ \/ /\ trip.status # "deleted"
          /\ trip' = [trip EXCEPT !.built = call[c].read \cup {call[c].chat}]
          /\ applied' = applied \cup {call[c].chat}
          /\ call' = MovedTo(c, "record")
       \/ /\ trip.status = "deleted"
          /\ call' = Returned(c)
          /\ UNCHANGED <<trip, applied>>
    /\ UNCHANGED <<used, holder, overlapped, frozen>> /\ UNCHANGED lockVars

RecordUsage(c) ==
    /\ call[c].pc = "record"
    /\ \E cost \in 0 .. MaxCost : used' = used + cost
    /\ call' = Unwind(c)
    /\ UNCHANGED trip /\ UNCHANGED lockVars /\ UNCHANGED histories

Finalize ==
    /\ trip.status = "GENERATED"
    /\ trip' = [trip EXCEPT !.status = "FINALIZED"]
    /\ frozen' = trip.built
    /\ overlapped' = overlapped \cup {call[d].chat : d \in Talking}
    /\ UNCHANGED <<used, call, holder, applied>> /\ UNCHANGED lockVars

Delete ==
    /\ trip.status # "deleted"
    /\ trip' = [trip EXCEPT !.status = "deleted"]
    /\ UNCHANGED <<used, call>> /\ UNCHANGED lockVars /\ UNCHANGED histories

\* The process of an idea or a message stops.
CutOff(c) ==
    /\ call[c].pc # "idle" /\ call[c].kind # "plan"
    /\ call' = Returned(c)
    /\ UNCHANGED <<trip, used>> /\ UNCHANGED lockVars /\ UNCHANGED histories

\* A process stops and starts again with empty guards and a new connection.
Restart(s) ==
    /\ kept' = [kept EXCEPT ![s] = 0]
    /\ busy' = busy \ {s}
    /\ linked' \in {linked \cup {s}, linked \ {s}}
    /\ call' = [c \in Call |-> IF call[c].api = s THEN Nothing ELSE call[c]]
    /\ UNCHANGED <<trip, lock, used>> /\ UNCHANGED histories

PlannerNext ==
    \/ \E c \in Call :
          \/ \E s \in Api : AcquireLease(c, s) \/ AcquireLocally(c, s)
          \/ \E n \in Chat : ReadTrip(c, n)
          \/ AskIdeas(c) \/ CheckCap(c) \/ AskModel(c) \/ WriteTrip(c) \/ RecordUsage(c)
          \/ ReleaseLease(c) \/ Forget(c) \/ CutOff(c)
    \/ \E s \in Api : LoseLink(s) \/ Restart(s)
    \/ ExpireLease \/ Finalize \/ Delete

PlannerSpec == PlannerInit /\ [][PlannerNext]_plannerVars

(***************************************************************************)
(* Properties                                                              *)
(***************************************************************************)

\* Types of the rows, the guards and the requests.
PlannerTypeOK ==
    /\ trip \in TripRow
    /\ lock \in Lease \cup {0}
    /\ linked \subseteq Api /\ busy \subseteq Api
    /\ kept \in [Api -> Lease \cup {0}]
    /\ used \in Nat
    /\ call \in [Call -> CallRecord]
    /\ holder \in Api \cup {NoApi}
    /\ applied \subseteq Chat /\ overlapped \subseteq Chat /\ frozen \subseteq Chat

\* A change the guest was told about is part of the plan, and a finalized plan stays
\* what it was, except for messages that were in flight together or when the plan was
\* finalized: those are written from what they had read.
PlanFollowsTalkUnlessOverlapped ==
    /\ applied \ overlapped \subseteq trip.built
    /\ trip.status = "FINALIZED" => trip.built \ overlapped = frozen \ overlapped

\* The cap is asked before the model and the cost is added after it, so the month may
\* end above the cap, but by no more than the requests in flight can cost.
OverrunIsInFlight ==
    used + MaxCost * Cardinality({c \in Call : call[c].pc \in {"ask", "write", "record"}})
        < Cap + MaxCost * Cardinality(Call)

\* A generation that has outlived its lease does not free the one that another process
\* has taken since; within one process it may.
LeaseFreedByItsProcess ==
    [][\A c \in Call : call[c].pc = "release" /\ call'[c].pc = "forget" /\ lock' # lock
          => holder = call[c].api]_plannerVars

\* "An itinerary is already being generated. Please wait.": one plan at a time.
OneGenerationAtATime == Cardinality(Generating) <= 1
====
