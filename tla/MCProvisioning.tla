--------------------------- MODULE MCProvisioning ---------------------------
(* Bounded instances of Provisioning: two sessions of one user that ask for  *)
(* different names, or a single session.                                     *)
EXTENDS ProvisioningClaims, TLC

CONSTANTS user

OneUser == {user}
UserOfAll == [s \in Sessions |-> user]
OwnNames == [s \in Sessions |-> s]

Symmetry == Permutations(Calls \ LastTry) \cup Permutations(Sessions)
=============================================================================
