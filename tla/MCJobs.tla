-------------------------------- MODULE MCJobs --------------------------------
(***************************************************************************)
(* Jobs that must finish what a request began, for TLC: the dunning sweep  *)
(* of PayLater, the ticket sweep of StayPass, the broadcast of Sos and the *)
(* reply clock of Concierge.                                               *)
(* They write no row in common, so a behaviour exercises one of them and   *)
(* leaves the others as they are, with none of their fair actions enabled. *)
(* The ticket sweep comes in two instances: two workers on two bookings,   *)
(* and the same while one of the bookings is scanned and the other waits.  *)
(***************************************************************************)
EXTENDS MCPayLater, StayPass, Sos, Concierge

CONSTANTS t1, t2

VARIABLE service

Ticketing == {"sweeps", "scans"}

JobsInit ==
    /\ service \in {"dunning", "alarm", "concierge"} \cup Ticketing
    /\ Init /\ PassInit /\ SosInit /\ ConciergeInit
    /\ service \notin Ticketing => recent[1] = t1

JobsNext ==
    /\ \/ service = "dunning" /\ Next /\ UNCHANGED <<passVars, sosVars, conciergeVars>>
       \/ /\ service \in Ticketing /\ PassNext /\ UNCHANGED <<vars, sosVars, conciergeVars>>
          /\ IF service = "sweeps" THEN scanner' = scanner ELSE trip'[t2] = trip[t2]
       \/ service = "alarm" /\ SosNext /\ UNCHANGED <<vars, passVars, conciergeVars>>
       \/ service = "concierge" /\ ConciergeNext /\ UNCHANGED <<vars, passVars, sosVars>>
    /\ UNCHANGED service

\* PassFairness and ConciergeFairness, for the behaviours they are about.
SweepFairness ==
    /\ \A w \in Sweeper : WF_passVars(service \in Ticketing /\ SweepStep(w))
    /\ \A w \in Monitor : WF_conciergeVars(service = "concierge" /\ MonitorStep(w))

JobsSpec ==
    /\ JobsInit /\ [][JobsNext]_<<service, vars, passVars, sosVars, conciergeVars>>
    /\ PlanFairness /\ SweepFairness /\ SosFairness

\* Rows, lists and requests of the four jobs have their types.
JobsTypeOK == TypeOK /\ PassTypeOK /\ SosTypeOK /\ ConciergeTypeOK
=============================================================================
