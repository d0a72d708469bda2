------------------------------ MODULE MCBookings ------------------------------
(***************************************************************************)
(* The nights of a booking and its money for TLC: Reservation and Payments *)
(* each keep what the other abstracts from, and neither reads a variable   *)
(* of the other.  A behaviour exercises one and leaves the other as it is. *)
(* No safety property needs a sound run of the reconciliation job: what it *)
(* does, a run that may fail does as well.                                 *)
(***************************************************************************)
EXTENDS MCReservation, Payments

VARIABLE side

BookingsInit ==
    /\ side \in {"nights", "money"}
    /\ Init /\ PayInit
    /\ side = "money" \/ plan = "FULL"

BookingsNext ==
    /\ \/ side = "nights" /\ Next /\ UNCHANGED payVars
       \/ side = "money" /\ PayNext /\ ~sound' /\ UNCHANGED vars
    /\ UNCHANGED side

BookingsSpec == BookingsInit /\ [][BookingsNext]_<<side, vars, payVars>>

\* Rows, requests and transactions of both sides have their types.
BookingsTypeOK == TypeOK /\ PayTypeOK
=============================================================================
