------------------------------ MODULE HoldBoard ------------------------------
(***************************************************************************)
(* What the hold service promises a guest who is filling in a booking      *)
(* form: at any moment each guest leases at most one stay of the listing,  *)
(* and nobody else's lease meets it.  A lease is taken in one step,        *)
(* replaces the guest's earlier one, and may be given up at any time       *)
(* (released, expired or turned into a booking).                           *)
(***************************************************************************)
CONSTANTS Guests,
          Stays    \* the sets of consecutive nights a guest may ask for

VARIABLE lease

Init == lease = [g \in Guests |-> {}]

Take(g, S) ==
    /\ \A other \in Guests \ {g} : lease[other] \cap S = {}
    /\ lease' = [lease EXCEPT ![g] = S]

\* Any number of leases may end in one step: the expiry job works in batches.
Drop(D) == lease' = [g \in Guests |-> IF g \in D THEN {} ELSE lease[g]]

Next == (\E g \in Guests, S \in Stays : Take(g, S)) \/ (\E D \in SUBSET Guests : Drop(D))

Spec == Init /\ [][Next]_lease
=============================================================================
