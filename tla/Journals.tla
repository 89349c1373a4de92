------------------------------ MODULE Journals ------------------------------
(***************************************************************************)
(* The general journal of an organization (accounting.service.ts): entries *)
(* made, edited, posted, deleted and reversed by hand. Each of these calls *)
(* reads the entry, checks it, and writes it later without a condition on  *)
(* what it read; keeper holds what a call has read.                        *)
(*                                                                         *)
(* The lines of an entry are a set of batches, the lines one transaction   *)
(* inserted, with the sums of their debits and credits: an edit deletes    *)
(* the batches it can see and inserts its own. Amounts count the last      *)
(* digit a column keeps; a cent is Cent of them.                           *)
(***************************************************************************)
EXTENDS Integers, FiniteSets, Functions

CONSTANTS
    Entries,        \* identities of JournalEntry rows
    Bookkeepers,    \* requests of the accounting service
    Lines,          \* line lists a caller may send: sums of debits and credits
    Cent,           \* units of an amount that make a cent
    Origin,         \* the batch an entry is created with
    NoRef,          \* an entry that refers to nothing
    Waiting

ASSUME JournalAssumption ==
    /\ Lines \subseteq [debit : Nat, credit : Nat]
    /\ Cent \in Nat \ {0}
    /\ Origin \notin Bookkeepers
    /\ Waiting \notin {"update", "updating", "post", "delete", "reverse"}

VARIABLES
    entry,      \* the JournalEntry rows with their lines
    keeper      \* what each bookkeeper's request is doing

journalVars == <<entry, keeper>>

Writers == Bookkeepers \cup {Origin}
\* Only a payroll of a negative net salary has lines below zero.
Batches == {b \in [by : Writers, debit : Int, credit : Int] :
              b.by # Origin => b.debit >= 0 /\ b.credit >= 0}
NoEntry == [status |-> "NONE", deleted |-> FALSE, lines |-> {}, type |-> NoRef, of |-> NoRef]
Resting == [pc |-> Waiting]

Live(e) == entry[e].status # "NONE" /\ ~entry[e].deleted
Unused == {e \in Entries : entry[e].status = "NONE"}

\* The live entries of a reference, findFirst's candidates.
Referring(type, of) ==
    {e \in Entries : Live(e) /\ entry[e].type = type /\ entry[e].of = of}

\* The sums over the lines of an entry.
Debits(lines) == SumFunctionOnSet([b \in lines |-> b.debit], lines)
Credits(lines) == SumFunctionOnSet([b \in lines |-> b.credit], lines)

\* What an amount may be rounded to. Sums are floating-point numbers: one that
\* lies half-way between two cents can become either.
Cents(n) ==
    {c \in {n \div Cent, n \div Cent + 1} :
       2 * (n - c * Cent) <= Cent /\ 2 * (c * Cent - n) <= Cent}

\* FAULT: a line list is taken as it comes.
BalancedAny(debits, credits) == TRUE
\* The rounded sums are compared, and the lines are stored as they came.
Balanced(debits, credits) == Cents(debits) \cap Cents(credits) # {}

JournalInit ==
    /\ entry = [e \in Entries |-> NoEntry]
    /\ keeper = [k \in Bookkeepers |-> Resting]

Note(k, state) == keeper' = [keeper EXCEPT ![k] = state]
Batch(w, l) == [by |-> w, debit |-> l.debit, credit |-> l.credit]

\* A row created with status s, lines and a reference.
Insert(e, s, lines, type, of) ==
    /\ e \in Unused
    /\ entry' = [entry EXCEPT ![e] = [status |-> s, deleted |-> FALSE, lines |-> lines,
                                      type |-> type, of |-> of]]

-----------------------------------------------------------------------------
\* Restriction: a caller's own entry names no reference. The API takes any
\* text for one, and an entry that names a payroll would stand for its accrual.
CreateEntry(e, l) ==
    /\ Balanced(l.debit, l.credit)
    /\ Insert(e, "DRAFT", {Batch(Origin, l)}, NoRef, NoRef)
    /\ UNCHANGED keeper

UpdateReads(k, e) ==
    /\ keeper[k] = Resting
    /\ Live(e) /\ entry[e].status = "DRAFT"
    /\ Note(k, [pc |-> "update", entry |-> e])
    /\ UNCHANGED entry

\* The transaction starts: deleteMany takes the lines it can see.
UpdateDeletes(k) ==
    /\ keeper[k].pc = "update"
    /\ Note(k, [pc |-> "updating", entry |-> keeper[k].entry,
                lines |-> entry[keeper[k].entry].lines])
    /\ UNCHANGED entry

\* createMany and commit.
UpdateCommits(k, l) ==
    /\ keeper[k].pc = "updating"
    /\ Balanced(l.debit, l.credit)
    /\ entry' = [entry EXCEPT ![keeper[k].entry].lines =
                   (@ \ keeper[k].lines) \cup {Batch(k, l)}]
    /\ Note(k, Resting)

PostReads(k, e) ==
    /\ keeper[k] = Resting
    /\ Live(e) /\ entry[e].status = "DRAFT"
    /\ Balanced(Debits(entry[e].lines), Credits(entry[e].lines))
    /\ Note(k, [pc |-> "post", entry |-> e])
    /\ UNCHANGED entry

PostWrites(k) ==
    /\ keeper[k].pc = "post"
    /\ entry' = [entry EXCEPT ![keeper[k].entry].status = "POSTED"]
    /\ Note(k, Resting)

DeleteReads(k, e) ==
    /\ keeper[k] = Resting
    /\ Live(e) /\ entry[e].status # "POSTED"
    /\ Note(k, [pc |-> "delete", entry |-> e])
    /\ UNCHANGED entry

DeleteWrites(k) ==
    /\ keeper[k].pc = "delete"
    /\ entry' = [entry EXCEPT ![keeper[k].entry].deleted = TRUE]
    /\ Note(k, Resting)

\* The entry is read with its lines and no reversal of it is found.
ReverseReads(k, e) ==
    /\ keeper[k] = Resting
    /\ Live(e) /\ entry[e].status = "POSTED"
    /\ Referring("REVERSAL", e) = {}
    /\ Note(k, [pc |-> "reverse", entry |-> e, lines |-> entry[e].lines])
    /\ UNCHANGED entry

\* FAULT: the reversal negates the amounts instead of changing their sides.
Negated(lines) == {[b EXCEPT !.debit = -b.debit, !.credit = -b.credit] : b \in lines}
Swapped(lines) == {[b EXCEPT !.debit = b.credit, !.credit = b.debit] : b \in lines}

ReverseCreates(k, e) ==
    /\ keeper[k].pc = "reverse"
    /\ Insert(e, "POSTED", Swapped(keeper[k].lines), "REVERSAL", keeper[k].entry)
    /\ Note(k, Resting)

\* A call fails, an entry number is taken, or the process dies.
KeeperFails(k) ==
    /\ keeper[k] # Resting
    /\ Note(k, Resting)
    /\ UNCHANGED entry

JournalNext ==
    \/ \E e \in Entries, l \in Lines : CreateEntry(e, l)
    \/ \E k \in Bookkeepers, e \in Entries :
         UpdateReads(k, e) \/ PostReads(k, e) \/ DeleteReads(k, e) \/ ReverseReads(k, e)
         \/ ReverseCreates(k, e)
    \/ \E k \in Bookkeepers, l \in Lines : UpdateCommits(k, l)
    \/ \E k \in Bookkeepers :
         UpdateDeletes(k) \/ PostWrites(k) \/ DeleteWrites(k) \/ KeeperFails(k)

-----------------------------------------------------------------------------
(* A posted entry is at most a cent out of balance for each transaction    *)
(* that inserted lines it has, whatever edits raced with the post that     *)
(* checked it: a post only checks the lines it read, and two edits at once *)
(* leave the lines of both, which together need not even balance when      *)
(* rounded.                                                                *)
PostedNearlyBalances ==
    \A e \in Entries : entry[e].status = "POSTED" =>
        LET lines == entry[e].lines
            most == Cent * Cardinality(lines) IN
        Debits(lines) - Credits(lines) \in -most .. most
=============================================================================
