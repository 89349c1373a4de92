---------------------------- MODULE MCSettlement ----------------------------
(* A bounded instance of Settlement: one sale, one bill, one other invoice. *)
EXTENDS Settlement, TLC

Symmetry == Permutations(Requests)
=============================================================================
