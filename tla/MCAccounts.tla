----------------------------- MODULE MCAccounts -----------------------------
(* A bounded instance of Accounts; its rows of one kind are alike.          *)
EXTENDS Accounts, TLC

Symmetry == Permutations(Requests) \cup Permutations(Tokens) \cup Permutations(Invites)
            \cup Permutations(Hosts)
=============================================================================
