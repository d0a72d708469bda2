---------------------------------- MODULE Sos ----------------------------------
(***************************************************************************)
(* One SOS incident: the request that opens it, the broadcast job that     *)
(* tells the trusted contacts and the operations desk, and the operators   *)
(* who acknowledge, work on and close it (sos/sos.service.ts, sos/sos-     *)
(* broadcast.service.ts, jobs/sos-broadcast.processor.ts).                 *)
(*                                                                         *)
(* An operator's request reads the incident and later writes it by id.     *)
(* The job queue (BullMQ) is external: a job that throws is run again      *)
(* until MaxTries runs have thrown, one whose worker dies is run again     *)
(* once.  A provider may refuse a message; NotificationService swallows    *)
(* the refusal, so broadcast() counts the channel as told all the same and *)
(* the SMS circuit breaker never leaves CLOSED.                            *)
(***************************************************************************)
EXTENDS Naturals

CONSTANTS Operator, \* operators' requests
          Channel,  \* messages of one broadcast: contacts' phones and mails, the desk's
          MaxTries, \* runs of a job that may throw: attempts of queue.add
          NoOne

ASSUME SosAssumption == NoOne \notin Operator /\ MaxTries \in Nat \ {0}

VARIABLES incident, \* the SosIncident row
          opener,   \* where createIncident is
          console,  \* what each operator's request has read
          job,      \* the broadcast job
          told,     \* channels tried in the job's present run
          logged,   \* channels that have a SosBroadcast row
          crossed   \* history: an operator wrote over a status it had not read

sosVars == <<incident, opener, console, job, told, logged, crossed>>

------------------------------------------------------------------------------
Closed  == {"RESOLVED", "FALSE_ALARM"}
Flow    == <<"none", "OPEN", "ACKNOWLEDGED", "IN_PROGRESS">>
Status  == {Flow[i] : i \in 1..4} \cup Closed
Jobs    == [stage : {"none", "waiting", "active", "logged", "done", "failed"}, thrown : 0..MaxTries, stalled : 0..2]

AcceptsClosed ==   \* mutant: startProgress only looks for another IN_PROGRESS
          [ack |-> {"OPEN"}, start |-> {"OPEN", "ACKNOWLEDGED"} \cup Closed,
            resolve |-> {"OPEN", "ACKNOWLEDGED", "IN_PROGRESS"}]
\* The statuses each operation finds the incident in.
Accepts == [ack |-> {"OPEN"}, start |-> {"OPEN", "ACKNOWLEDGED"},
            resolve |-> {"OPEN", "ACKNOWLEDGED", "IN_PROGRESS"}]
Ops     == DOMAIN Accepts
Quiet   == [stage |-> "idle", op |-> "ack", seen |-> "none", acker |-> NoOne]

SosTypeOK ==
    /\ incident \in [status : Status, acker : Operator \cup {NoOne}, closer : Operator \cup {NoOne}]
    /\ opener \in {"idle", "stored", "queued", "over"}
    /\ console \in [Operator -> [stage : {"idle", "read", "over"}, op : Ops, seen : Status,
                                 acker : Operator \cup {NoOne}]]
    /\ job \in Jobs /\ told \subseteq Channel /\ logged \subseteq Channel
    /\ crossed \in BOOLEAN

SosInit ==
    /\ incident = [status |-> "none", acker |-> NoOne, closer |-> NoOne]
    /\ opener = "idle"
    /\ console = [p \in Operator |-> Quiet]
    /\ job = [stage |-> "none", thrown |-> 0, stalled |-> 0]
    /\ told = {} /\ logged = {} /\ crossed = FALSE

------------------------------------------------------------------------------
(* createIncident: the row, the job, then the desk's notification. *)

StoreIncident ==
    /\ opener = "idle" /\ opener' = "stored"
    /\ incident' = [incident EXCEPT !.status = "OPEN"]
    /\ UNCHANGED <<console, job, told, logged, crossed>>

EnqueueBroadcast ==
    /\ opener = "stored" /\ opener' = "queued"
    /\ job' = [job EXCEPT !.stage = "waiting"]
    /\ UNCHANGED <<incident, console, told, logged, crossed>>

\* The notification is stored; or the process dies, or the queue or the
\* database refuses, at any point after the row.
OpenerEnds ==
    /\ opener \in {"stored", "queued"} /\ opener' = "over"
    /\ UNCHANGED <<incident, console, job, told, logged, crossed>>

------------------------------------------------------------------------------
(* ackIncident, startProgress, resolveIncident: findUnique, then update. *)

ReadIncident(p, op) ==
    /\ console[p].stage = "idle" /\ incident.status \in Accepts[op]
    /\ console' = [console EXCEPT ![p] = [stage |-> "read", op |-> op, seen |-> incident.status,
                                          acker |-> incident.acker]]
    /\ UNCHANGED <<incident, opener, job, told, logged, crossed>>

WriteIncident(p) ==
    /\ console[p].stage = "read"
    /\ incident' \in
         CASE console[p].op = "ack" ->
                {[incident EXCEPT !.status = "ACKNOWLEDGED", !.acker = p]}
           [] console[p].op = "start" ->
                {[incident EXCEPT !.status = "IN_PROGRESS",
                     !.acker = IF console[p].acker = NoOne THEN p ELSE console[p].acker]}
           [] console[p].op = "resolve" ->
                {[incident EXCEPT !.status = st, !.closer = p] : st \in Closed}
    /\ crossed' = (crossed \/ incident.status # console[p].seen)
    /\ console' = [console EXCEPT ![p].stage = "over"]
    /\ UNCHANGED <<opener, job, told, logged>>

------------------------------------------------------------------------------
(* The job. *)

PickUp ==
    /\ job.stage = "waiting" /\ job' = [job EXCEPT !.stage = "active"]
    /\ told' = {}
    /\ UNCHANGED <<incident, opener, console, logged, crossed>>

\* A read of broadcast(), or its createMany, throws.
BroadcastThrows ==
    /\ job.stage = "active" /\ told \in {{}, Channel}
    /\ job' = [job EXCEPT !.thrown = @ + 1,
                          !.stage = IF job.thrown + 1 = MaxTries THEN "failed" ELSE "waiting"]
    /\ UNCHANGED <<incident, opener, console, told, logged, crossed>>

TellUntilRefused(c, refused) ==   \* mutant: a refused channel ends the fan-out
    /\ job.stage = "active" /\ c \in Channel \ told
    /\ told' = told \cup {c}
    /\ job' = [job EXCEPT !.stage = IF refused THEN "done" ELSE @]
    /\ UNCHANGED <<incident, opener, console, logged, crossed>>

\* trySms / tryEmail: accepted or refused, the attempt is recorded as SENT.
Tell(c, refused) ==
    /\ job.stage = "active" /\ c \in Channel \ told
    /\ told' = told \cup {c}
    /\ UNCHANGED <<incident, opener, console, job, logged, crossed>>

\* createMany, after the last channel.
LogBroadcast ==
    /\ job.stage = "active" /\ told = Channel
    /\ logged' = Channel
    /\ job' = [job EXCEPT !.stage = "logged"]
    /\ UNCHANGED <<incident, opener, console, told, crossed>>

JobEnds ==
    /\ job.stage = "logged" /\ job' = [job EXCEPT !.stage = "done"]
    /\ UNCHANGED <<incident, opener, console, told, logged, crossed>>

BroadcasterDies ==
    /\ job.stage \in {"active", "logged"}
    /\ job' = [job EXCEPT !.stalled = @ + 1, !.stage = IF job.stalled = 0 THEN "waiting" ELSE "failed"]
    /\ UNCHANGED <<incident, opener, console, told, logged, crossed>>

------------------------------------------------------------------------------
Broadcast ==
    \/ PickUp \/ LogBroadcast \/ JobEnds
    \/ \E c \in Channel, refused \in BOOLEAN : Tell(c, refused)

SosNext ==
    \/ StoreIncident \/ EnqueueBroadcast \/ OpenerEnds
    \/ \E p \in Operator : WriteIncident(p) \/ \E op \in Ops : ReadIncident(p, op)
    \/ Broadcast \/ BroadcastThrows \/ BroadcasterDies

\* The queue's workers keep taking and running jobs; nothing is assumed of
\* guests, operators or providers.
SosFairness == WF_sosVars(Broadcast)

SosSpec == SosInit /\ [][SosNext]_sosVars /\ SosFairness

------------------------------------------------------------------------------
(* Properties *)

\* An incident advances OPEN, ACKNOWLEDGED, IN_PROGRESS, closed, never back, and
\* the first operator on it stays on record, unless an operator's write crossed
\* another's (ackIncident, startProgress and resolveIncident write by id).
Progress(st) == IF st \in Closed THEN 5 ELSE CHOOSE i \in 1..4 : Flow[i] = st
IncidentAdvancesUnlessCrossed ==
    [][~crossed' => /\ Progress(incident.status) <= Progress(incident'.status)
                    /\ incident.acker \in {NoOne, incident'.acker}
                    /\ incident.closer \in {NoOne, incident'.closer}]_sosVars

\* Once the job is queued, every contact and the desk are tried and recorded,
\* however the providers answer, unless the database failed MaxTries runs or
\* two workers died on it (attempts: 3, broadcast() of SosBroadcastService).
EveryChannelIsTried ==
    job.stage = "waiting" ~>
        (logged = Channel \/ job.thrown = MaxTries \/ job.stalled = 2)
================================================================================
