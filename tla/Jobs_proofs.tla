---- MODULE Jobs_proofs ----
(***************************************************************************)
(* Proofs about the jobs that finish what a request began: Sos, Concierge  *)
(* and StayPass, and the four jobs of MCJobs together.                     *)
(*                                                                         *)
(* The inductive invariant of Sos says that what an uncrossed request has  *)
(* read is still how things stand; that of Concierge, that the clock is    *)
(* the latest message's once its touch is done; that of StayPass, that a   *)
(* check-in writes what the table has for the status it read.              *)
(***************************************************************************)
EXTENDS MCJobs, PayLater_proofs, FiniteSetTheorems

------------------------------------------------------------------------------
(* The SOS incident (module Sos). *)

Someone == Operator \cup {NoOne}
Incident == [status : Status, acker : Someone, closer : Someone]
Seat     == [stage : {"idle", "read", "over"}, op : Ops, seen : Status, acker : Someone]

LEMMA StatusIs == Status = {"none", "OPEN", "ACKNOWLEDGED", "IN_PROGRESS", "RESOLVED", "FALSE_ALARM"}
<1>1. {Flow[i] : i \in 1..4} = {"none", "OPEN", "ACKNOWLEDGED", "IN_PROGRESS"}
  BY DEF Flow
<1> QED
  BY <1>1 DEF Status, Closed

LEMMA OpsAre ==
    /\ Ops = {"ack", "start", "resolve"}
    /\ Accepts["ack"] = {"OPEN"} /\ Accepts["start"] = {"OPEN", "ACKNOWLEDGED"}
    /\ Accepts["resolve"] = {"OPEN", "ACKNOWLEDGED", "IN_PROGRESS"}
BY DEF Ops, Accepts

LEMMA FlowPosition == ASSUME NEW i \in 1..4 PROVE Flow[i] \notin Closed /\ Progress(Flow[i]) = i
<1>1. Flow[1] = "none" /\ Flow[2] = "OPEN" /\ Flow[3] = "ACKNOWLEDGED" /\ Flow[4] = "IN_PROGRESS"
  BY DEF Flow
<1>2. Flow[i] \notin Closed
  BY <1>1 DEF Closed
<1>3. \A j \in 1..4 : Flow[j] = Flow[i] => j = i
  BY <1>1
<1>4. (CHOOSE j \in 1..4 : Flow[j] = Flow[i]) = i
  BY <1>3
<1> QED
  BY <1>2, <1>4 DEF Progress

LEMMA ProgressIs ==
    /\ Progress("none") = 1 /\ Progress("OPEN") = 2 /\ Progress("ACKNOWLEDGED") = 3
    /\ Progress("IN_PROGRESS") = 4 /\ Progress("RESOLVED") = 5 /\ Progress("FALSE_ALARM") = 5
<1>1. Flow[1] = "none" /\ Flow[2] = "OPEN" /\ Flow[3] = "ACKNOWLEDGED" /\ Flow[4] = "IN_PROGRESS"
  BY DEF Flow
<1>2. /\ Progress(Flow[1]) = 1 /\ Progress(Flow[2]) = 2
      /\ Progress(Flow[3]) = 3 /\ Progress(Flow[4]) = 4
  BY FlowPosition
<1> QED
  BY <1>1, <1>2 DEF Progress, Closed

\* While no write crossed another: nobody is on record before an operation put
\* him there, and a status that is still what a request read has not been
\* written since.
UncrossedIsInOrder ==
    /\ opener = "idle" => /\ incident.status = "none"
                          /\ \A p \in Operator : console[p].stage # "read"
    /\ \A p \in Operator : console[p].stage = "read" => console[p].seen \in Accepts[console[p].op]
    /\ ~crossed =>
          /\ incident.status \in {"none", "OPEN"} => incident.acker = NoOne
          /\ incident.status \notin Closed => incident.closer = NoOne
          /\ \A p \in Operator : console[p].stage = "read" =>
                /\ Progress(console[p].seen) <= Progress(incident.status)
                /\ console[p].seen = incident.status => console[p].acker = incident.acker

\* There is no job before the queue has it; a job that has not failed has a run
\* left, and has lost at most one worker.
JobHasRuns ==
    /\ opener \in {"idle", "stored"} => job.stage = "none"
    /\ job.stage # "failed" => job.thrown < MaxTries /\ job.stalled < 2

SosInv == SosTypeOK /\ UncrossedIsInOrder /\ JobHasRuns

\* What a step does to the incident.
Advances ==
    /\ Progress(incident.status) <= Progress(incident'.status)
    /\ incident.acker \in {NoOne, incident'.acker}
    /\ incident.closer \in {NoOne, incident'.closer}

\* The steps that are no operator's: the incident changes only when it is opened.
NotByOperator ==
    /\ UNCHANGED <<console, crossed>>
    /\ \/ UNCHANGED <<incident, opener>>
       \/ opener' # "idle" /\ UNCHANGED incident
       \/ opener = "idle" /\ opener' # "idle" /\ incident' = [incident EXCEPT !.status = "OPEN"]

LEMMA SosMoves ==
    ASSUME SosTypeOK, [SosNext]_sosVars
    PROVE  \/ NotByOperator
           \/ \E p \in Operator, op \in Ops : ReadIncident(p, op)
           \/ \E p \in Operator : WriteIncident(p)
BY DEF SosNext, Broadcast, StoreIncident, EnqueueBroadcast, OpenerEnds, PickUp, LogBroadcast, JobEnds,
       Tell, BroadcastThrows, BroadcasterDies, sosVars, NotByOperator

\* The write of an operation on an incident it has not been crossed on.
LEMMA Written ==
    ASSUME SosTypeOK, NEW p \in Operator, WriteIncident(p)
    PROVE  /\ incident' \in Incident
           /\ \/ /\ console[p].op = "ack" /\ incident'.status = "ACKNOWLEDGED"
                 /\ incident'.acker = p /\ incident'.closer = incident.closer
              \/ /\ console[p].op = "start" /\ incident'.status = "IN_PROGRESS"
                 /\ incident'.acker = (IF console[p].acker = NoOne THEN p ELSE console[p].acker)
                 /\ incident'.closer = incident.closer
              \/ /\ console[p].op = "resolve" /\ incident'.status \in Closed
                 /\ incident'.acker = incident.acker /\ incident'.closer = p
<1>1. incident \in Incident /\ console[p] \in Seat /\ p \in Someone /\ console[p].acker \in Someone
  BY DEF SosTypeOK, Incident, Seat, Someone
<1>2. console[p].op \in {"ack", "start", "resolve"}
  BY <1>1, OpsAre DEF Seat
<1>3. CASE console[p].op = "ack"
  <2>1. incident' = [incident EXCEPT !.status = "ACKNOWLEDGED", !.acker = p]
    BY <1>3 DEF WriteIncident
  <2> QED
    BY <1>1, <1>3, <2>1, StatusIs DEF Incident
<1>4. CASE console[p].op = "start"
  <2>1. incident' = [incident EXCEPT !.status = "IN_PROGRESS",
                        !.acker = IF console[p].acker = NoOne THEN p ELSE console[p].acker]
    BY <1>4 DEF WriteIncident
  <2> QED
    BY <1>1, <1>4, <2>1, StatusIs DEF Incident
<1>5. CASE console[p].op = "resolve"
  <2>1. PICK st \in Closed : incident' = [incident EXCEPT !.status = st, !.closer = p]
    BY <1>5 DEF WriteIncident
  <2> QED
    BY <1>1, <1>5, <2>1, StatusIs DEF Incident, Closed
<1> QED
  BY <1>2, <1>3, <1>4, <1>5

LEMMA JobTyped ==
    ASSUME SosTypeOK, JobHasRuns, [SosNext]_sosVars PROVE job' \in Jobs /\ JobHasRuns'
<1>0. /\ job.stage \in {"none", "waiting", "active", "logged", "done", "failed"}
      /\ job.thrown \in 0..MaxTries /\ job.stalled \in 0..2 /\ MaxTries \in Nat \ {0}
      /\ job = [stage |-> job.stage, thrown |-> job.thrown, stalled |-> job.stalled]
  BY SosAssumption DEF SosTypeOK, Jobs
<1>1. CASE EnqueueBroadcast \/ PickUp \/ LogBroadcast \/ JobEnds
  <2>1. PICK st \in {"waiting", "active", "logged", "done"} : job' = [job EXCEPT !.stage = st]
    BY <1>1 DEF EnqueueBroadcast, PickUp, LogBroadcast, JobEnds
  <2>2. job.stage # "failed"
    BY <1>1 DEF EnqueueBroadcast, PickUp, LogBroadcast, JobEnds, JobHasRuns
  <2>3. opener' \notin {"idle", "stored"}
    BY <1>1 DEF EnqueueBroadcast, PickUp, LogBroadcast, JobEnds, JobHasRuns
  <2> QED
    BY <1>0, <2>1, <2>2, <2>3 DEF Jobs, JobHasRuns
<1>2. CASE BroadcastThrows
  <2>1. job' = [stage |-> IF job.thrown + 1 = MaxTries THEN "failed" ELSE "waiting",
                thrown |-> job.thrown + 1, stalled |-> job.stalled]
    BY <1>0, <1>2 DEF BroadcastThrows
  <2>2. job.stage = "active"
    BY <1>2 DEF BroadcastThrows
  <2>3. opener' \notin {"idle", "stored"}
    BY <1>2, <2>2 DEF BroadcastThrows, JobHasRuns
  <2> QED
    BY <1>0, <2>1, <2>2, <2>3 DEF Jobs, JobHasRuns
<1>3. CASE BroadcasterDies
  <2>1. job' = [stage |-> IF job.stalled = 0 THEN "waiting" ELSE "failed",
                thrown |-> job.thrown, stalled |-> job.stalled + 1]
    BY <1>0, <1>3 DEF BroadcasterDies
  <2>2. job.stage \in {"active", "logged"}
    BY <1>3 DEF BroadcasterDies
  <2>3. opener' \notin {"idle", "stored"}
    BY <1>3, <2>2 DEF BroadcasterDies, JobHasRuns
  <2> QED
    BY <1>0, <2>1, <2>2, <2>3 DEF Jobs, JobHasRuns
<1>4. CASE UNCHANGED job /\ (opener' \in {"idle", "stored"} => opener \in {"idle", "stored"})
  BY <1>4 DEF SosTypeOK, JobHasRuns
<1> QED
  BY <1>1, <1>2, <1>3, <1>4
     DEF SosNext, Broadcast, StoreIncident, OpenerEnds, Tell, ReadIncident, WriteIncident, sosVars

LEMMA SosTypeStep == ASSUME SosTypeOK, JobHasRuns, [SosNext]_sosVars PROVE SosTypeOK'
<1>1. job' \in Jobs /\ crossed' \in BOOLEAN
  <2>1. crossed \in BOOLEAN
    BY DEF SosTypeOK
  <2>2. crossed' \in BOOLEAN
    BY <2>1, SosMoves DEF NotByOperator, ReadIncident, WriteIncident
  <2> QED
    BY <2>2, JobTyped
<1>2. told' \subseteq Channel /\ logged' \subseteq Channel
  BY DEF SosTypeOK, SosNext, Broadcast, StoreIncident, EnqueueBroadcast, OpenerEnds, PickUp, LogBroadcast,
         JobEnds, Tell, BroadcastThrows, BroadcasterDies, ReadIncident, WriteIncident, sosVars
<1>3. opener' \in {"idle", "stored", "queued", "over"}
  BY DEF SosTypeOK, SosNext, Broadcast, StoreIncident, EnqueueBroadcast, OpenerEnds, PickUp, LogBroadcast,
         JobEnds, Tell, BroadcastThrows, BroadcasterDies, ReadIncident, WriteIncident, sosVars
<1>4. incident \in Incident /\ console \in [Operator -> Seat]
  BY DEF SosTypeOK, Incident, Seat, Someone
<1>5. incident' \in Incident /\ console' \in [Operator -> Seat]
  <2>1. CASE NotByOperator
    BY <1>4, <2>1, StatusIs DEF NotByOperator, Incident
  <2>2. ASSUME NEW p \in Operator, NEW op \in Ops, ReadIncident(p, op)
        PROVE  incident' \in Incident /\ console' \in [Operator -> Seat]
    <3> DEFINE t == [stage |-> "read", op |-> op, seen |-> incident.status, acker |-> incident.acker]
    <3>1. t \in Seat
      BY <1>4 DEF Incident, Seat
    <3>2. console' = [console EXCEPT ![p] = t] /\ incident' = incident
      BY <2>2 DEF ReadIncident
    <3> HIDE DEF t
    <3> QED
      BY <1>4, <3>1, <3>2
  <2>3. ASSUME NEW p \in Operator, WriteIncident(p)
        PROVE  incident' \in Incident /\ console' \in [Operator -> Seat]
    <3>1. console' = [console EXCEPT ![p].stage = "over"]
      BY <2>3 DEF WriteIncident
    <3> QED
      BY <1>4, <2>3, <3>1, Written DEF Seat
  <2> QED
    BY <2>1, <2>2, <2>3, SosMoves
<1> QED
  BY <1>1, <1>2, <1>3, <1>5 DEF SosTypeOK, Incident, Seat, Someone

\* An uncrossed write moves the incident on, strictly.
LEMMA UncrossedAdvances ==
    ASSUME SosTypeOK, UncrossedIsInOrder, NEW p \in Operator, WriteIncident(p), ~crossed'
    PROVE  /\ Progress(incident.status) < Progress(incident'.status)
           /\ incident.status \in {"OPEN", "ACKNOWLEDGED", "IN_PROGRESS"}
           /\ incident'.status \in {"ACKNOWLEDGED", "IN_PROGRESS"} \cup Closed
           /\ incident.acker \in {NoOne, incident'.acker} /\ incident.closer = NoOne
           /\ incident'.status \notin Closed => incident'.closer = NoOne
<1>1. ~crossed /\ incident.status = console[p].seen /\ console[p].stage = "read"
  BY DEF WriteIncident, SosTypeOK
<1>2. /\ incident.status \in Accepts[console[p].op] /\ console[p].acker = incident.acker
      /\ incident.status \in {"none", "OPEN"} => incident.acker = NoOne
      /\ incident.status \notin Closed => incident.closer = NoOne
  BY <1>1 DEF UncrossedIsInOrder
<1>3. p # NoOne
  BY SosAssumption
<1>4. CASE console[p].op = "ack" /\ incident'.status = "ACKNOWLEDGED"
           /\ incident'.acker = p /\ incident'.closer = incident.closer
  BY <1>2, <1>4, OpsAre, ProgressIs DEF Closed
<1>5. CASE /\ console[p].op = "start" /\ incident'.status = "IN_PROGRESS"
           /\ incident'.acker = (IF console[p].acker = NoOne THEN p ELSE console[p].acker)
           /\ incident'.closer = incident.closer
  BY <1>2, <1>5, OpsAre, ProgressIs DEF Closed
<1>6. CASE /\ console[p].op = "resolve" /\ incident'.status \in Closed
           /\ incident'.acker = incident.acker /\ incident'.closer = p
  BY <1>2, <1>6, OpsAre, ProgressIs DEF Closed
<1> QED
  BY <1>4, <1>5, <1>6, Written

LEMMA OrderStep == ASSUME SosTypeOK, UncrossedIsInOrder, [SosNext]_sosVars PROVE UncrossedIsInOrder'
<1>0. incident \in Incident /\ console \in [Operator -> Seat] /\ NoOne \notin Operator
  BY SosAssumption DEF SosTypeOK, Incident, Seat, Someone
<1>p. \A st \in Status : Progress(st) \in 1..5
  BY ProgressIs, StatusIs
<1>1. CASE NotByOperator
  <2>1. CASE UNCHANGED incident
    BY <1>1, <2>1 DEF NotByOperator, UncrossedIsInOrder
  <2>2. CASE opener = "idle" /\ opener' # "idle" /\ incident' = [incident EXCEPT !.status = "OPEN"]
    <3>1. /\ incident.status = "none" /\ incident'.status = "OPEN"
          /\ incident'.acker = incident.acker /\ incident'.closer = incident.closer
      BY <1>0, <2>2 DEF UncrossedIsInOrder, Incident
    <3>2. \A p \in Operator : console[p].stage = "read" =>
             console[p].seen \in {"OPEN", "ACKNOWLEDGED", "IN_PROGRESS"}
      BY <1>0, OpsAre DEF UncrossedIsInOrder, Seat
    <3>3. ~crossed => \A p \in Operator : console[p].stage # "read"
      BY <3>1, <3>2, ProgressIs DEF UncrossedIsInOrder
    <3> QED
      BY <1>1, <2>2, <3>1, <3>3 DEF NotByOperator, UncrossedIsInOrder, Closed
  <2> QED
    BY <1>1, <2>1, <2>2 DEF NotByOperator
<1>2. ASSUME NEW p \in Operator, NEW op \in Ops, ReadIncident(p, op) PROVE UncrossedIsInOrder'
  <2>1. /\ incident' = incident /\ opener' = opener /\ crossed' = crossed
        /\ incident.status \in Accepts[op]
        /\ console' = [console EXCEPT ![p] = [stage |-> "read", op |-> op, seen |-> incident.status,
                                              acker |-> incident.acker]]
    BY <1>2 DEF ReadIncident
  <2>2. Progress(incident.status) \in 1..5
    BY <1>0, <1>p DEF Incident
  <2>3. \A q \in Operator : q # p => console'[q] = console[q]
    BY <1>0, <2>1
  <2>4. console'[p].op = op /\ console'[p].seen = incident.status /\ console'[p].acker = incident.acker
    BY <1>0, <2>1
  <2>5. opener # "idle"
    BY <2>1, OpsAre DEF UncrossedIsInOrder
  <2>6. \A q \in Operator : console'[q].stage = "read" => console'[q].seen \in Accepts[console'[q].op]
    BY <2>1, <2>3, <2>4 DEF UncrossedIsInOrder
  <2>7. ASSUME ~crossed, NEW q \in Operator, console'[q].stage = "read"
        PROVE  /\ Progress(console'[q].seen) <= Progress(incident.status)
               /\ console'[q].seen = incident.status => console'[q].acker = incident.acker
    <3>1. CASE q = p
      BY <2>2, <2>4, <3>1
    <3>2. CASE q # p
      BY <2>3, <2>7, <3>2 DEF UncrossedIsInOrder
    <3> QED
      BY <3>1, <3>2
  <2> QED
    BY <2>1, <2>5, <2>6, <2>7 DEF UncrossedIsInOrder
<1>3. ASSUME NEW p \in Operator, WriteIncident(p) PROVE UncrossedIsInOrder'
  <2>1. console' = [console EXCEPT ![p].stage = "over"] /\ opener' = opener
    BY <1>3 DEF WriteIncident
  <2>2. opener' # "idle" /\ \A q \in Operator : console'[q].stage = "read" => q # p
    BY <1>0, <1>3, <2>1 DEF WriteIncident, UncrossedIsInOrder, Seat
  <2>3. \A q \in Operator : q # p => console'[q] = console[q]
    BY <1>0, <2>1
  <2>4. ASSUME ~crossed'
        PROVE  /\ incident'.status \in {"none", "OPEN"} => incident'.acker = NoOne
               /\ incident'.status \notin Closed => incident'.closer = NoOne
               /\ \A q \in Operator : console'[q].stage = "read" =>
                     /\ Progress(console'[q].seen) <= Progress(incident'.status)
                     /\ console'[q].seen = incident'.status => console'[q].acker = incident'.acker
    <3>1. Progress(incident.status) < Progress(incident'.status) /\ incident' \in Incident /\ ~crossed
      BY <1>3, <2>4, UncrossedAdvances, Written DEF WriteIncident, SosTypeOK
    <3>2. incident'.status \notin {"none", "OPEN"} /\ (incident'.status \notin Closed => incident'.closer = NoOne)
      BY <1>3, <2>4, UncrossedAdvances DEF Closed
    <3>3. ASSUME NEW q \in Operator, console'[q].stage = "read"
          PROVE  /\ Progress(console'[q].seen) <= Progress(incident'.status)
                 /\ console'[q].seen # incident'.status
      <4>1. console'[q] = console[q] /\ console[q].stage = "read" /\ console[q].seen \in Status
        BY <1>0, <2>2, <2>3, <3>3 DEF Seat
      <4>2. Progress(console[q].seen) <= Progress(incident.status)
        BY <3>1, <4>1 DEF UncrossedIsInOrder
      <4>3. /\ Progress(console[q].seen) \in Int /\ Progress(incident.status) \in Int
            /\ Progress(incident'.status) \in Int
        BY <1>0, <1>p, <3>1, <4>1 DEF Incident
      <4>4. Progress(console[q].seen) < Progress(incident'.status)
        BY <3>1, <4>2, <4>3
      <4>5. console[q].seen # incident'.status
        BY <4>3, <4>4
      <4> QED
        BY <4>1, <4>3, <4>4, <4>5
    <3> QED
      BY <3>2, <3>3
  <2>5. \A q \in Operator : console'[q].stage = "read" => console'[q].seen \in Accepts[console'[q].op]
    BY <2>2, <2>3 DEF UncrossedIsInOrder
  <2> QED
    BY <2>2, <2>4, <2>5 DEF UncrossedIsInOrder
<1> QED
  BY <1>1, <1>2, <1>3, SosMoves

LEMMA SosStart == SosInit => SosInv
<1> SUFFICES ASSUME SosInit PROVE SosInv
  OBVIOUS
<1>1. MaxTries \in Nat \ {0}
  BY SosAssumption
<1>2. /\ incident = [status |-> "none", acker |-> NoOne, closer |-> NoOne]
      /\ console = [p \in Operator |-> [stage |-> "idle", op |-> "ack", seen |-> "none", acker |-> NoOne]]
  BY DEF SosInit, Quiet
<1>3. console \in [Operator -> Seat] /\ incident \in Incident
  BY <1>2, OpsAre, StatusIs DEF Seat, Incident, Someone
<1>a. job \in Jobs /\ JobHasRuns
  BY <1>1 DEF SosInit, Jobs, JobHasRuns
<1>4. SosTypeOK
  BY <1>3, <1>a DEF SosInit, SosTypeOK, Seat, Incident, Someone
<1>5. UncrossedIsInOrder
  BY <1>2 DEF UncrossedIsInOrder, SosInit
<1> QED
  BY <1>4, <1>5, <1>a DEF SosInv

LEMMA SosInvariant == SosSpec => []SosInv
<1>1. SosInv /\ [SosNext]_sosVars => SosInv'
  BY SosTypeStep, OrderStep, JobTyped DEF SosInv
<1> QED
  BY <1>1, SosStart, PTL DEF SosSpec

\* The incident, the operators' requests and the broadcast job have their types.
THEOREM SosTyped == SosSpec => []SosTypeOK
BY SosInvariant, PTL DEF SosInv

\* For any number of operators: no step takes an incident back or drops who
\* acknowledged or closed it, as long as no write crossed another.
THEOREM IncidentAdvances == SosSpec => IncidentAdvancesUnlessCrossed
<1>1. SosInv /\ [SosNext]_sosVars => [~crossed' => Advances]_sosVars
  <2> SUFFICES ASSUME SosInv, [SosNext]_sosVars, ~crossed' PROVE Advances
    OBVIOUS
  <2>0. /\ incident \in Incident /\ \A st \in Status : Progress(st) \in 1..5
        /\ Progress("none") = 1 /\ Progress("OPEN") = 2
    BY ProgressIs, StatusIs DEF SosInv, SosTypeOK, Incident, Someone
  <2>1. CASE UNCHANGED incident
    BY <2>0, <2>1 DEF Advances, Incident
  <2>2. CASE NotByOperator /\ ~UNCHANGED incident
    <3>1. incident.status = "none" /\ incident' = [incident EXCEPT !.status = "OPEN"]
      BY <2>2 DEF NotByOperator, SosInv, UncrossedIsInOrder
    <3> QED
      BY <2>0, <3>1 DEF Advances, Incident
  <2>3. ASSUME NEW p \in Operator, WriteIncident(p) PROVE Advances
    <3>1. incident' \in Incident
      BY <2>3, Written DEF SosInv
    <3>2. Progress(incident.status) \in 1..5 /\ Progress(incident'.status) \in 1..5
      BY <2>0, <3>1 DEF Incident
    <3> QED
      BY <2>3, <3>2, UncrossedAdvances DEF SosInv, Advances
  <2> QED
    BY <2>1, <2>2, <2>3, SosMoves DEF SosInv, ReadIncident
<1> QED
  BY <1>1, SosInvariant, PTL DEF SosSpec, IncidentAdvancesUnlessCrossed, Advances

------------------------------------------------------------------------------
(* The reply clock of a concierge thread (module Concierge). *)

\* The latest message is stored, and once its touch is done the clock is its.
ClockIsOfLatest ==
    /\ latest = NoWriter => thread.due = "off" /\ \A s \in Writer : writer[s].stage # "stored"
    /\ latest # NoWriter =>
          /\ writer[latest].stage \in {"stored", "done"}
          /\ ~mistimed /\ writer[latest].stage = "done"
                => (thread.due # "off" <=> writer[latest].role = "GUEST")

ConciergeInv == ConciergeTypeOK /\ ClockIsOfLatest

LEMMA ConciergeInit1 == ConciergeInit => ConciergeInv
<1> SUFFICES ASSUME ConciergeInit PROVE ConciergeInv
  OBVIOUS
<1>1. thread \in Thread /\ thread.due = "off" /\ \A s \in Writer : writer[s].stage # "stored"
  BY DEF ConciergeInit, Thread
<1>2. writer \in [Writer -> [stage : {"idle", "checked", "stored", "done"}, role : Roles]]
  BY DEF ConciergeInit, Roles
<1>3. stops \in 0..MaxStops
  BY ConciergeAssumption DEF ConciergeInit
<1> QED
  BY <1>1, <1>2, <1>3 DEF ConciergeInit, ConciergeInv, ConciergeTypeOK, ClockIsOfLatest

LEMMA ConciergeStep == ASSUME ConciergeInv, [ConciergeNext]_conciergeVars PROVE ConciergeInv'
<1> USE DEF ConciergeInv, ConciergeTypeOK, sweeping
<1>0. NoWriter \notin Writer /\ MaxStops \in Nat
  BY ConciergeAssumption
<1>1. CASE OpenThread \/ DueTimePasses \/ WeekAfterStayPasses
  BY <1>1 DEF OpenThread, DueTimePasses, WeekAfterStayPasses, Thread, ClockIsOfLatest
<1>2. ASSUME NEW s \in Writer, NEW role \in Roles, CheckThread(s, role) PROVE ConciergeInv'
  BY <1>2 DEF CheckThread, ClockIsOfLatest
<1>3. ASSUME NEW s \in Writer, StoreMessage(s) PROVE ConciergeInv'
  BY <1>0, <1>3 DEF StoreMessage, ClockIsOfLatest
<1>4. ASSUME NEW s \in Writer, TouchThread(s) PROVE ConciergeInv'
  <2>1. /\ writer' = [writer EXCEPT ![s].stage = "done"] /\ latest' = latest
        /\ mistimed' = (mistimed \/ latest # s) /\ writer[s].stage = "stored"
    BY <1>4 DEF TouchThread
  <2>2. thread' \in Thread /\ (thread'.due # "off" <=> writer[s].role = "GUEST")
    BY <1>4 DEF TouchThread, ClockAfter, Thread
  <2>3. ConciergeTypeOK'
    BY <1>4, <2>1, <2>2 DEF TouchThread
  <2>4. ClockIsOfLatest'
    <3>1. CASE latest = s
      BY <1>0, <2>1, <2>2, <3>1 DEF ClockIsOfLatest
    <3>2. CASE latest # s /\ latest # NoWriter
      BY <2>1, <3>2 DEF ClockIsOfLatest
    <3>3. CASE latest = NoWriter
      BY <2>1, <3>3 DEF ClockIsOfLatest
    <3> QED
      BY <3>1, <3>2, <3>3
  <2> QED
    BY <2>3, <2>4
<1>5. ASSUME NEW s \in Writer, StopWriting(s) PROVE ConciergeInv'
  BY <1>0, <1>5 DEF StopWriting, ClockIsOfLatest
<1>6. ASSUME NEW w \in Monitor, MonitorStep(w) \/ StopSweep(w) PROVE ConciergeInv'
  <2>1. UNCHANGED <<stale, latest, writer, mistimed>> /\ thread' \in Thread /\ thread'.due = thread.due
    BY <1>6 DEF MonitorStep, StopSweep, ReadBreaches, FlagBreach, NotifyOps, ReadStale, CloseThread, Thread
  <2>2. monitor' \in [Monitor -> {"idle", "due", "flagged", "flags done", "close"}]
    BY <1>6 DEF MonitorStep, StopSweep, ReadBreaches, FlagBreach, NotifyOps, ReadStale, CloseThread, Sweeps
  <2>3. stops' \in 0..MaxStops /\ alerted' \in BOOLEAN /\ muted' \in BOOLEAN
    <3>1. CASE StopSweep(w)
      <4>1. stops' \in 0..MaxStops
        <5>1. stops \in 0..MaxStops /\ stops < MaxStops /\ stops' = stops + 1
          BY <3>1 DEF StopSweep
        <5> HIDE DEF ConciergeInv
        <5> QED
          BY <1>0, <5>1
      <4>2. alerted' \in BOOLEAN /\ muted' \in BOOLEAN
        BY <3>1 DEF StopSweep
      <4> QED
        BY <4>1, <4>2
    <3>2. CASE MonitorStep(w)
      BY <3>2 DEF MonitorStep, ReadBreaches, FlagBreach, NotifyOps, ReadStale, CloseThread
    <3> QED
      BY <1>6, <3>1, <3>2
  <2> QED
    BY <2>1, <2>2, <2>3 DEF ClockIsOfLatest
<1>7. CASE UNCHANGED conciergeVars
  BY <1>7 DEF conciergeVars, ClockIsOfLatest
<1> QED
  BY <1>1, <1>2, <1>3, <1>4, <1>5, <1>6, <1>7 DEF ConciergeNext

\* It holds whether or not the sweeps are ever run.
LEMMA ConciergeInductive == ConciergeInit /\ [][ConciergeNext]_conciergeVars => []ConciergeInv
BY ConciergeInit1, ConciergeStep, PTL

LEMMA ConciergeHolds == ConciergeSpec => []ConciergeInv
BY ConciergeInductive, PTL DEF ConciergeSpec

\* Thread, calls and sweeps have their types, for any number of each.
THEOREM ConciergeTyped == ConciergeSpec => []ConciergeTypeOK
BY ConciergeHolds, PTL DEF ConciergeInv

\* When no call is between message and touch, the reply clock runs exactly if the
\* guest spoke last, however many calls and sweeps interleave, unless touches
\* came in another order than their messages or one was lost.
THEOREM ClockFollowsTalk == ConciergeSpec => []ClockFollowsTalkUnlessMistimed
<1>1. ConciergeInv => ClockFollowsTalkUnlessMistimed
  BY DEF ConciergeInv, ConciergeTypeOK, ClockIsOfLatest, ClockFollowsTalkUnlessMistimed
<1> QED
  BY <1>1, ConciergeHolds, PTL

------------------------------------------------------------------------------
(* Tickets and stamps (module StayPass). *)

\* A check-in that has read its booking writes a status the table has for it.
ScansRead ==
    \A h \in Scanner :
        /\ scanner[h].pc # "idle" => scanner[h].on \in Trip
        /\ scanner[h].pc = "fresh" => CanFire("CHECKED_IN", scanner[h].seen, TripPlan)

PassInv == PassTypeOK /\ ScansRead

LEMMA NoneIsTyped ==
    /\ NoSweep \in SweeperRecord /\ NoScan \in ScannerRecord
    /\ NoScan.pc = "idle" /\ NoSweep.pc = "idle" /\ NoSweep.batch = {}
BY DEF NoSweep, NoScan, SweeperRecord, ScannerRecord, Statuses

LEMMA TouchedIsTyped ==
    ASSUME PassTypeOK, NEW t \in Trip
    PROVE  Touched(t) \in [1 .. Cardinality(Trip) -> Trip]
<1>1. Cardinality(Trip) \in Nat
  BY StayPassAssumption, FS_CardinalityType
<1>2. DOMAIN recent = 1 .. Cardinality(Trip) /\ \A i \in 1 .. Cardinality(Trip) : recent[i] \in Trip
  BY DEF PassTypeOK
<1>3. ASSUME NEW i \in 1 .. Cardinality(Trip)
      PROVE  (CASE i = Cardinality(Trip) -> t
                [] i < Cardinality(Trip) /\ (\E j \in 1 .. i : recent[j] = t) -> recent[i + 1]
                [] OTHER -> recent[i]) \in Trip
  <2>1. i < Cardinality(Trip) => i + 1 \in 1 .. Cardinality(Trip)
    BY <1>1
  <2> QED
    BY <1>2, <2>1
<1> QED
  BY <1>2, <1>3 DEF Touched

LEMMA ListedIsTyped ==
    ASSUME PassTypeOK, NEW w \in Sweeper, NEW pc \in {"idle", "render", "draw", "void", "seal"},
           NEW batch \in SUBSET Trip
    PROVE  Listed(w, pc, batch) \in [Sweeper -> SweeperRecord]
<1> DEFINE r == [NoSweep EXCEPT !.pc = pc, !.batch = batch]
<1>1. r \in SweeperRecord
  BY DEF NoSweep, SweeperRecord
<1>2. Listed(w, pc, batch) = [sweeper EXCEPT ![w] = r]
  BY DEF Listed
<1> HIDE DEF r
<1> QED
  BY <1>1, <1>2 DEF PassTypeOK

LEMMA TickedIsTyped ==
    ASSUME PassTypeOK, NEW w \in Sweeper, NEW t PROVE Ticked(w, t) \in [Sweeper -> SweeperRecord]
BY DEF PassTypeOK, Ticked, SweeperRecord

\* A worker of the sweep writes tickets and stamps, and nothing else.
LEMMA SweepTyped ==
    ASSUME PassTypeOK, NEW w \in Sweeper, SweepStep(w) \/ SweepCut(w)
    PROVE  /\ ticket' \in [Trip -> TicketRow] /\ sweeper' \in [Sweeper -> SweeperRecord]
           /\ stamp' \in [Trip -> SUBSET {"checkedInAt", "completedAt"}] /\ cuts' \in 0..MaxCuts
           /\ UNCHANGED <<trip, recent, scanner>>
<1>0. sweeper[w].batch \in SUBSET Trip /\ ticket \in [Trip -> TicketRow]
      /\ stamp \in [Trip -> SUBSET {"checkedInAt", "completedAt"}] /\ cuts \in 0..MaxCuts
  BY DEF PassTypeOK, SweeperRecord
<1>1. CASE SweepReadsRenders(w)
  BY <1>0, <1>1, ListedIsTyped DEF SweepReadsRenders, FirstOf, NeedRender
<1>2. ASSUME NEW t \in Trip, EnsureTicket(w, t)
      PROVE  /\ ticket' \in [Trip -> TicketRow] /\ sweeper' \in [Sweeper -> SweeperRecord]
  <2>1. [sweeper EXCEPT ![w] = [pc |-> "draw", on |-> t, batch |-> @.batch \ {t}]]
          \in [Sweeper -> SweeperRecord]
    BY DEF PassTypeOK, SweeperRecord
  <2>2. sweeper' \in [Sweeper -> SweeperRecord]
    BY <1>2, <2>1, TickedIsTyped DEF EnsureTicket
  <2>3. \/ ticket' = Failed(t) \/ ticket' = ticket
        \/ ticket' = [ticket EXCEPT ![t].st = IF @ = "none" THEN "PENDING" ELSE @]
    BY <1>2 DEF EnsureTicket
  <2>4. ticket' \in [Trip -> TicketRow]
    BY <1>0, <2>3 DEF Failed, TicketRow
  <2> QED
    BY <2>2, <2>4
<1>3. CASE Draw(w)
  <2>1. sweeper' \in [Sweeper -> SweeperRecord]
    BY <1>0, <1>3, ListedIsTyped DEF Draw
  <2>2. ticket' \in [Trip -> TicketRow]
    BY <1>0, <1>3 DEF Draw, Failed, TicketRow
  <2> QED
    BY <1>0, <1>3, <2>1, <2>2 DEF Draw
<1>4. CASE SweepReadsVoids(w)
  <2>1. PICK batch \in SUBSET ToVoid : sweeper' = Listed(w, "void", batch)
    BY <1>4 DEF SweepReadsVoids
  <2>2. batch \in SUBSET Trip
    BY DEF ToVoid
  <2> QED
    BY <1>0, <1>4, <2>1, <2>2, ListedIsTyped DEF SweepReadsVoids
<1>5. ASSUME NEW t \in Trip, VoidTicket(w, t)
      PROVE  /\ ticket' \in [Trip -> TicketRow] /\ sweeper' \in [Sweeper -> SweeperRecord]
  BY <1>0, <1>5, TickedIsTyped DEF VoidTicket, TicketRow
<1>6. CASE SweepReadsSeals(w)
  BY <1>0, <1>6, ListedIsTyped DEF SweepReadsSeals, ToSeal, LastOf
<1>7. ASSUME NEW t \in Trip, SealOnComplete(w, t)
      PROVE  /\ stamp' \in [Trip -> SUBSET {"checkedInAt", "completedAt"}]
             /\ sweeper' \in [Sweeper -> SweeperRecord]
  BY <1>0, <1>7, TickedIsTyped DEF SealOnComplete
<1>8. CASE SweepEnds(w) \/ SweepCut(w)
  <2>1. sweeper' \in [Sweeper -> SweeperRecord]
    BY <1>8, NoneIsTyped DEF SweepEnds, SweepCut, PassTypeOK
  <2>2. cuts' \in 0..MaxCuts
    BY <1>0, <1>8, StayPassAssumption DEF SweepEnds, SweepCut
  <2> QED
    BY <1>0, <1>8, <2>1, <2>2 DEF SweepEnds, SweepCut
<1> QED
  BY <1>0, <1>1, <1>2, <1>3, <1>4, <1>5, <1>6, <1>7, <1>8
     DEF SweepStep, EnsureTicket, VoidTicket, SealOnComplete

LEMMA PassStepTyped == ASSUME PassInv, [PassNext]_passVars PROVE PassInv'
<1>0. PassTypeOK /\ ScansRead
  BY DEF PassInv
<1>1. CASE UNCHANGED passVars
  BY <1>0, <1>1 DEF passVars, PassInv, PassTypeOK, ScansRead
<1>2. ASSUME NEW t \in Trip, NEW event \in TripEvents, NEW refund \in {0, 1}, MoveTrip(t, event, refund)
      PROVE  PassInv'
  <2>1. Target(event, trip[t], refund) \in Statuses
    BY <1>2, TargetIsStatus DEF MoveTrip
  <2> QED
    BY <1>0, <1>2, <2>1, TouchedIsTyped DEF MoveTrip, PassInv, PassTypeOK, ScansRead
<1>3. ASSUME NEW w \in Sweeper, SweepStep(w) \/ SweepCut(w) PROVE PassInv'
  BY <1>0, <1>3, SweepTyped DEF PassInv, PassTypeOK, ScansRead
<1>4. ASSUME NEW h \in Scanner, NEW t \in Trip, VerifyToken(h, t) PROVE PassInv'
  <2> DEFINE r == [NoScan EXCEPT !.pc = "verified", !.on = t]
  <2>1. r \in ScannerRecord /\ r.pc = "verified" /\ r.on = t
    BY DEF NoScan, ScannerRecord, Statuses
  <2>2. scanner' = [scanner EXCEPT ![h] = r] /\ UNCHANGED <<trip, recent, ticket, stamp, sweeper, cuts>>
    BY <1>4 DEF VerifyToken
  <2> HIDE DEF r
  <2> QED
    BY <1>0, <2>1, <2>2 DEF PassInv, PassTypeOK, ScansRead
<1>5. ASSUME NEW h \in Scanner, ScanReads(h) PROVE PassInv'
  <2>1. scanner[h].on \in Trip /\ trip[scanner[h].on] \in Statuses
        /\ UNCHANGED <<trip, recent, ticket, stamp, sweeper, cuts>>
    BY <1>0, <1>5 DEF ScanReads, ScansRead, PassTypeOK
  <2>2. CASE /\ CanFire("CHECKED_IN", trip[scanner[h].on], TripPlan)
             /\ scanner' = [scanner EXCEPT ![h].pc = "fresh", ![h].seen = trip[scanner[h].on]]
    BY <1>0, <2>1, <2>2 DEF PassInv, PassTypeOK, ScannerRecord, ScansRead
  <2>3. CASE scanner' = [scanner EXCEPT ![h] = NoScan]
    BY <1>0, <2>1, <2>3, NoneIsTyped DEF PassInv, PassTypeOK, ScansRead
  <2> QED
    BY <1>5, <2>2, <2>3 DEF ScanReads
<1>6. ASSUME NEW h \in Scanner, ScanWrites(h) PROVE PassInv'
  <2>1. scanner[h].on \in Trip /\ Target("CHECKED_IN", scanner[h].seen, 0) \in Statuses
    BY <1>0, <1>6, TargetIsStatus DEF ScanWrites, ScansRead
  <2> DEFINE r == [NoScan EXCEPT !.pc = "stamp", !.on = scanner[h].on]
  <2>2. r \in ScannerRecord /\ r.pc = "stamp" /\ r.on = scanner[h].on
    BY <2>1 DEF NoScan, ScannerRecord, Statuses
  <2>3. scanner' = [scanner EXCEPT ![h] = r]
    BY <1>6 DEF ScanWrites
  <2> HIDE DEF r
  <2>4. scanner' \in [Scanner -> ScannerRecord] /\ ScansRead'
    BY <1>0, <2>1, <2>2, <2>3 DEF PassTypeOK, ScansRead
  <2> QED
    BY <1>0, <1>6, <2>1, <2>4, TouchedIsTyped DEF ScanWrites, PassInv, PassTypeOK
<1>7. ASSUME NEW h \in Scanner, MintOnCheckin(h) \/ ScanCut(h) PROVE PassInv'
  <2>1. scanner' \in [Scanner -> ScannerRecord] /\ ScansRead'
    BY <1>0, <1>7, NoneIsTyped DEF MintOnCheckin, ScanCut, PassTypeOK, ScansRead
  <2>2. stamp' \in [Trip -> SUBSET {"checkedInAt", "completedAt"}]
    BY <1>0, <1>7 DEF MintOnCheckin, ScanCut, PassTypeOK
  <2> QED
    BY <1>0, <1>7, <2>1, <2>2 DEF MintOnCheckin, ScanCut, PassInv, PassTypeOK
<1> QED
  BY <1>1, <1>2, <1>3, <1>4, <1>5, <1>6, <1>7 DEF PassNext

LEMMA PassInvariant == PassSpec => []PassInv
<1>1. PassInit => PassInv
  BY NoneIsTyped, StayPassAssumption DEF PassInit, PassInv, PassTypeOK, ScansRead, TicketRow, Statuses
<1>2. PassInv /\ [PassNext]_passVars => PassInv'
  BY PassStepTyped
<1> QED
  BY <1>1, <1>2, PTL DEF PassSpec

\* Bookings, tickets, stamps, lists and check-ins have their types; the list of the
\* latest bookings keeps its length.
THEOREM PassTyped == PassSpec => []PassTypeOK
BY PassInvariant, PTL DEF PassInv

\* A code once revoked stays revoked, whatever a sweep that is still drawing the ticket
\* writes back, so that no later scan verifies it.
THEOREM RevokedForGood ==
    PassSpec => [][\A t \in Trip : ticket[t].revoked => ticket'[t].revoked]_passVars
<1>1. ASSUME PassTypeOK, PassNext, NEW t \in Trip, ticket[t].revoked PROVE ticket'[t].revoked
  <2>1. ASSUME NEW u PROVE /\ Failed(u)[t].revoked
                           /\ [ticket EXCEPT ![u].st = "RENDERED"][t].revoked
                           /\ [ticket EXCEPT ![u].st = IF @ = "none" THEN "PENDING" ELSE @][t].revoked
                           /\ [ticket EXCEPT ![u] = [st |-> "VOIDED", revoked |-> TRUE]][t].revoked
    BY <1>1 DEF PassTypeOK, Failed, TicketRow
  <2>2. ASSUME NEW w \in Sweeper, NEW u \in Trip, EnsureTicket(w, u) \/ VoidTicket(w, u)
        PROVE  ticket'[t].revoked
    BY <1>1, <2>1, <2>2 DEF EnsureTicket, VoidTicket
  <2>3. ASSUME NEW w \in Sweeper, Draw(w) PROVE ticket'[t].revoked
    BY <1>1, <2>1, <2>3 DEF Draw
  <2>4. CASE UNCHANGED ticket
    BY <1>1, <2>4
  <2> QED
    BY <1>1, <2>2, <2>3, <2>4 DEF PassNext, SweepStep, MoveTrip, SweepReadsRenders, SweepReadsVoids,
         SweepReadsSeals, SealOnComplete, SweepEnds, SweepCut, VerifyToken, ScanReads, ScanWrites,
         MintOnCheckin, ScanCut
<1>2. ASSUME PassTypeOK, [PassNext]_passVars
      PROVE  [\A t \in Trip : ticket[t].revoked => ticket'[t].revoked]_passVars
  BY <1>1, <1>2
<1> QED
  BY <1>2, PassTyped, PTL DEF PassSpec

------------------------------------------------------------------------------
(* The jobs together (module MCJobs). *)

\* Behaviours of the composition that is model-checked are behaviours of each job,
\* so that what is proved of a job holds in the composition.  For the concierge
\* that leaves out the fairness of its sweeps, which the composition states for
\* the behaviours that are about them only and no safety property needs.
THEOREM JobsAreComposed ==
    JobsSpec => /\ Spec /\ PassSpec /\ SosSpec
                /\ ConciergeInit /\ [][ConciergeNext]_conciergeVars
<1>1. JobsInit => Init /\ PassInit /\ SosInit /\ ConciergeInit
  BY DEF JobsInit
<1>2. [JobsNext]_<<service, vars, passVars, sosVars, conciergeVars>>
         => [Next]_vars /\ [PassNext]_passVars /\ [SosNext]_sosVars /\ [ConciergeNext]_conciergeVars
  BY DEF JobsNext
<1> QED
  BY <1>1, <1>2, PTL DEF JobsSpec, Spec, PassSpec, SosSpec

\* In the composition the rows, lists and requests of every job have their types.
THEOREM JobsTyped == JobsSpec => []JobsTypeOK
<1>1. ConciergeInv => ConciergeTypeOK
  BY DEF ConciergeInv
<1> QED
  BY <1>1, JobsAreComposed, PlanTyped, PassTyped, SosTyped, ConciergeInductive, PTL DEF JobsTypeOK
====
