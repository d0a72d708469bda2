---------------------------- MODULE MCReservation ----------------------------
(* Reservation on a small listing: two hold ids, so that a hold can lapse and  *)
(* its dates go to somebody else before the late booking of it; two ranges    *)
(* that overlap on one night; a host's block that clashes with one of them.   *)
EXTENDS Reservation, TLC

Stay(a, b) == [from |-> a, to |-> b]
TwoOverlapping == {Stay(1, 3), Stay(2, 4)}
NoBlocks == {}
OneBlock == {Stay(1, 2)}
Symmetry == Permutations(Guests) \cup Permutations(Holds) \cup Permutations(Procs)
=============================================================================
