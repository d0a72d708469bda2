---- MODULE MCLifecycles ----
(***************************************************************************)
(* What periodic jobs must bring about: the holds of Reservation, the      *)
(* notifications of Outbox and the captures of Payments.  They share no    *)
(* variable, so a behaviour exercises one of them and leaves the others as *)
(* they are, with none of their fair actions enabled.  The payments come   *)
(* in two instances: with requests that cancel or move the booking mean-   *)
(* while ("money"; admin refunds are left to MCBookings), and with one     *)
(* order more but no request ("backlog").                                  *)
(***************************************************************************)
EXTENDS MCReservation, Outbox, Payments

CONSTANTS w1, w2

VARIABLE service

Collecting == {"money", "backlog"}
IsNewest(o) == \A other \in Orders : other <= o

LifecyclesInit ==
    /\ service \in {"holds", "outbox"} \cup Collecting
    /\ Init /\ OutboxInit /\ PayInit
    /\ service \in Collecting \/ plan = "FULL"

LifecyclesNext ==
    /\ \/ service = "holds" /\ Next /\ UNCHANGED <<outboxVars, payVars>>
       \/ service = "outbox" /\ OutboxNext /\ UNCHANGED <<vars, payVars>>
       \/ /\ service \in Collecting /\ PayNext /\ UNCHANGED <<vars, outboxVars>>
          /\ \/ service = "backlog" /\ task' = task
             \/ /\ service = "money"
                /\ \A p \in Clients : task'[p].op # Refund
                /\ \A o \in Orders : IsNewest(o) => rows'[o] = rows[o]
    /\ UNCHANGED service

LifecyclesSpec ==
    /\ LifecyclesInit /\ [][LifecyclesNext]_<<service, vars, outboxVars, payVars>>
    /\ JobFairness /\ OutboxFairness /\ ReconFairness
====
