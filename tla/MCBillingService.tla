-------------------------- MODULE MCBillingService --------------------------
(* Bounded instances of BillingService; the configurations give the sizes.  *)
EXTENDS BillingService, TLC

Symmetry == Permutations(Sessions) \cup Permutations(Clients)
=============================================================================
