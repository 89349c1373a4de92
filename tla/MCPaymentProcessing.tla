------------------------ MODULE MCPaymentProcessing ------------------------
(* Bounded instances of PaymentProcessing: the configurations give the      *)
(* sizes; sessions, handlers and plans are interchangeable.                 *)
EXTENDS PaymentLedger, TLC

Symmetry == Permutations(Sessions) \cup Permutations(Handlers) \cup Permutations(Plans)

\* FairSpec from organizations without a trial: no guard reads the difference.
LiveInit == Init /\ \A o \in Orgs : sub[o].status = "NONE"
LiveSpec == LiveInit /\ [][Next]_vars /\ Fairness
=============================================================================
