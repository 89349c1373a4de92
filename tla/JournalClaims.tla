--------------------------- MODULE JournalClaims ---------------------------
(***************************************************************************)
(* What a test of the accounting code says of reversals, as a property of  *)
(* Payroll, which holds the general journal, that TLC refutes.             *)
(***************************************************************************)
EXTENDS Payroll

\* "prevents the same entry from being reversed twice" (a test's title): an
\* entry has at most one live reversal.
ReversedOnce ==
    \A e \in Entries : \A r1, r2 \in Referring("REVERSAL", e) : r1 = r2
=============================================================================
