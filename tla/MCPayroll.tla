----------------------------- MODULE MCPayroll -----------------------------
(* A bounded instance of Payroll and of the journal it writes to.          *)
EXTENDS JournalClaims, TLC

\* In half cents: 1.5 against 0.5 cents passes as 1 against 1; 1.5 against 0 does not.
LineLists == {[debit |-> 3, credit |-> 1], [debit |-> 3, credit |-> 0]}
NetSalaries == {-1, 2}
Symmetry == Permutations(Entries) \cup Permutations(Bookkeepers)
            \cup Permutations(Officers)
=============================================================================
