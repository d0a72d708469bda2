------------------------------- MODULE MCPayout -------------------------------
(* Two bookings: one paid by deposit and balance, hence with two lines, and  *)
(* one paid at once; as many batches as there can be non-empty ones.         *)
EXTENDS Payout, TLC

CONSTANTS l1, l2, l3
TwoStays == {{l1, l2}, {l3}}
Symmetry == Permutations(Batches) \cup Permutations(Procs) \cup Permutations({l1, l2})
=============================================================================
