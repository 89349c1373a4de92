--------------------------- MODULE PayrollProofs ---------------------------
(***************************************************************************)
(* Proofs about Payroll and the journal it writes to.                      *)
(***************************************************************************)
EXTENDS Payroll, Sums, FiniteSetTheorems, TLAPS

-----------------------------------------------------------------------------
(* Types.                                                                  *)

\* What a request carries from what it read.
LEMMA KeeperCarries ==
    ASSUME keeper \in [Bookkeepers -> KeeperStates], NEW k \in Bookkeepers
    PROVE  /\ keeper[k] # Resting => keeper[k].entry \in Entries /\ keeper[k].pc # Waiting
           /\ keeper[k].pc \in {"update", "updating", "post", "delete", "reverse"}
                => keeper[k].entry \in Entries
           /\ keeper[k].pc \in {"updating", "reverse"} => keeper[k].lines \in SUBSET Batches
<1> keeper[k] \in KeeperStates
    OBVIOUS
<1> QED
    BY JournalAssumption DEF KeeperStates, Resting

LEMMA OfficerCarries ==
    ASSUME officer \in [Officers -> OfficerStates], NEW o \in Officers
    PROVE  /\ officer[o].pc \in {"create", "edit", "remove", "approve", "accrue", "accruing",
                                "pay", "book", "booking"} => officer[o].payroll \in Payrolls
           /\ officer[o].pc \in {"create", "approve", "accrue", "accruing", "pay", "book",
                                "booking"} => officer[o].net \in Int
<1> officer[o] \in OfficerStates
    OBVIOUS
<1> QED
    BY PayrollAssumption DEF OfficerStates, Resting

LEMMA Moved ==
    ASSUME officer \in [Officers -> OfficerStates], NEW o \in Officers,
           officer[o].pc \in {"approve", "accrue", "pay", "book"},
           NEW to \in {"accrue", "accruing", "book", "booking"}
    PROVE  /\ [officer[o] EXCEPT !.pc = to]
                = [pc |-> to, payroll |-> officer[o].payroll, net |-> officer[o].net]
           /\ [officer[o] EXCEPT !.pc = to] \in OfficerStates
<1>1. officer[o] \in OfficerStates
    OBVIOUS
<1>2. officer[o] \in [pc : {"approve", "accrue", "accruing", "pay", "book", "booking"},
                      payroll : Payrolls, net : Int]
    BY <1>1, PayrollAssumption DEF OfficerStates, Resting
<1>3. [officer[o] EXCEPT !.pc = to]
        = [pc |-> to, payroll |-> officer[o].payroll, net |-> officer[o].net]
    BY <1>2
<1> QED
    BY <1>2, <1>3 DEF OfficerStates

\* Rows are inserted with their type.
LEMMA Inserted ==
    ASSUME entry \in [Entries -> EntryRows], NEW e, NEW s \in {"NONE", "DRAFT", "POSTED"},
           NEW lines \in SUBSET Batches, NEW type \in References,
           NEW of \in Entries \cup Payrolls \cup {NoRef}, Insert(e, s, lines, type, of)
    PROVE  entry' \in [Entries -> EntryRows]
<1>1. [status |-> s, deleted |-> FALSE, lines |-> lines, type |-> type, of |-> of] \in EntryRows
    BY DEF EntryRows
<1> QED
    BY <1>1 DEF Insert, Unused

LEMMA BatchTyped ==
    ASSUME NEW w \in Writers, NEW l \in [debit : Int, credit : Int],
           w # Origin => l.debit >= 0 /\ l.credit >= 0
    PROVE  Batch(w, l) \in Batches
<1>1. PICK b : b = Batch(w, l)
    OBVIOUS
<1>2. b \in [by : Writers, debit : Int, credit : Int]
      /\ b.by = w /\ b.debit = l.debit /\ b.credit = l.credit
    BY <1>1 DEF Batch
<1> QED
    BY <1>1, <1>2 DEF Batches

\* What a caller sends.
LEMMA LinesTyped ==
    ASSUME NEW l \in Lines
    PROVE  l \in [debit : Int, credit : Int] /\ l.debit >= 0 /\ l.credit >= 0
<1>1. l \in [debit : Nat, credit : Nat]
    BY JournalAssumption
<1>2. \A n \in Nat : n \in Int /\ n >= 0
    OBVIOUS
<1> QED
    BY <1>1, <1>2

\* A batch with its sides changed.
Turned(b) == [b EXCEPT !.debit = b.credit, !.credit = b.debit]

LEMMA TurnedFields ==
    ASSUME NEW b \in Batches
    PROVE  /\ Turned(b) \in Batches
           /\ Turned(b).debit = b.credit /\ Turned(b).credit = b.debit
<1>1. b \in [by : Writers, debit : Int, credit : Int]
      /\ (b.by # Origin => b.debit >= 0 /\ b.credit >= 0)
    BY DEF Batches
<1>2. PICK c : c = [b EXCEPT !.debit = b.credit]
    OBVIOUS
<1>3. c \in [by : Writers, debit : Int, credit : Int]
      /\ c.by = b.by /\ c.debit = b.credit /\ c.credit = b.credit
    BY <1>1, <1>2
<1>4. PICK d : d = [c EXCEPT !.credit = b.debit]
    OBVIOUS
<1>5. d \in [by : Writers, debit : Int, credit : Int]
      /\ d.by = b.by /\ d.debit = b.credit /\ d.credit = b.debit
    BY <1>1, <1>3, <1>4
<1>6. d = Turned(b)
    BY <1>2, <1>4 DEF Turned
<1> QED
    BY <1>1, <1>5, <1>6 DEF Batches

LEMMA SwappedTurns ==
    ASSUME NEW lines
    PROVE  Swapped(lines) = {Turned(b) : b \in lines}
BY DEF Swapped, Turned

LEMMA SwappedTyped ==
    ASSUME NEW lines \in SUBSET Batches
    PROVE  Swapped(lines) \in SUBSET Batches
BY TurnedFields, SwappedTurns

LEMMA JournalTyped ==
    ASSUME TypeOK, JournalNext
    PROVE  entry' \in [Entries -> EntryRows] /\ keeper' \in [Bookkeepers -> KeeperStates]
<1> DEFINE Goal == entry' \in [Entries -> EntryRows] /\ keeper' \in [Bookkeepers -> KeeperStates]
<1> USE DEF TypeOK
<1>1. ASSUME NEW k \in Bookkeepers, Note(k, Resting)
      PROVE  keeper' \in [Bookkeepers -> KeeperStates]
    BY <1>1 DEF Note, KeeperStates
<1>2. ASSUME NEW e \in Entries, NEW l \in Lines, CreateEntry(e, l)
      PROVE  Goal
    <2>1. Batch(Origin, l) \in Batches
        BY BatchTyped, LinesTyped DEF Writers
    <2>2. entry' \in [Entries -> EntryRows]
        BY <1>2, <2>1, Inserted DEF CreateEntry, References
    <2> QED
        BY <1>2, <2>2 DEF CreateEntry
<1>3. ASSUME NEW k \in Bookkeepers, NEW e \in Entries,
             UpdateReads(k, e) \/ PostReads(k, e) \/ DeleteReads(k, e)
      PROVE  Goal
    BY <1>3 DEF UpdateReads, PostReads, DeleteReads, Note, KeeperStates
<1>4. ASSUME NEW k \in Bookkeepers, NEW e \in Entries, ReverseReads(k, e)
      PROVE  Goal
    <2>1. entry[e].lines \in SUBSET Batches
        BY DEF EntryRows
    <2>2. [pc |-> "reverse", entry |-> e, lines |-> entry[e].lines] \in KeeperStates
        BY <2>1 DEF KeeperStates
    <2> QED
        BY <1>4, <2>2 DEF ReverseReads, Note
<1>5. ASSUME NEW k \in Bookkeepers, NEW e \in Entries, ReverseCreates(k, e)
      PROVE  Goal
    <2>1. keeper[k].entry \in Entries /\ Swapped(keeper[k].lines) \in SUBSET Batches
        BY <1>5, KeeperCarries, SwappedTyped DEF ReverseCreates
    <2>2. entry' \in [Entries -> EntryRows]
        BY <1>5, <2>1, Inserted DEF ReverseCreates, References
    <2> QED
        BY <1>1, <1>5, <2>2 DEF ReverseCreates
<1>6. ASSUME NEW k \in Bookkeepers, NEW l \in Lines, UpdateCommits(k, l)
      PROVE  Goal
    <2>1. PICK e \in Entries : e = keeper[k].entry
        BY <1>6, KeeperCarries DEF UpdateCommits
    <2>2. Batch(k, l) \in Batches
        BY BatchTyped, LinesTyped DEF Writers
    <2>3. PICK lines \in SUBSET Batches :
            lines = (entry[e].lines \ keeper[k].lines) \cup {Batch(k, l)}
        BY <2>2 DEF EntryRows
    <2>4. entry' = [entry EXCEPT ![e].lines = lines]
        BY <1>6, <2>1, <2>3 DEF UpdateCommits
    <2>5. entry' \in [Entries -> EntryRows]
        BY <2>4 DEF EntryRows
    <2> QED
        BY <1>1, <1>6, <2>5 DEF UpdateCommits
<1>7. ASSUME NEW k \in Bookkeepers, UpdateDeletes(k)
      PROVE  Goal
    <2>1. PICK e \in Entries : e = keeper[k].entry
        BY <1>7, KeeperCarries DEF UpdateDeletes
    <2>2. entry[e].lines \in SUBSET Batches
        BY DEF EntryRows
    <2>3. [pc |-> "updating", entry |-> e, lines |-> entry[e].lines] \in KeeperStates
        BY <2>2 DEF KeeperStates
    <2> QED
        BY <1>7, <2>1, <2>3 DEF UpdateDeletes, Note
<1>8. ASSUME NEW k \in Bookkeepers, PostWrites(k)
      PROVE  Goal
    <2>1. keeper[k].entry \in Entries
        BY <1>8, KeeperCarries DEF PostWrites
    <2>2. entry' \in [Entries -> EntryRows]
        BY <1>8, <2>1 DEF PostWrites, EntryRows
    <2> QED
        BY <1>1, <1>8, <2>2 DEF PostWrites
<1>9. ASSUME NEW k \in Bookkeepers, DeleteWrites(k)
      PROVE  Goal
    <2>1. keeper[k].entry \in Entries
        BY <1>9, KeeperCarries DEF DeleteWrites
    <2>2. entry' \in [Entries -> EntryRows]
        BY <1>9, <2>1 DEF DeleteWrites, EntryRows
    <2> QED
        BY <1>1, <1>9, <2>2 DEF DeleteWrites
<1>10. ASSUME NEW k \in Bookkeepers, KeeperFails(k)
       PROVE  Goal
    BY <1>1, <1>10 DEF KeeperFails
<1> HIDE DEF Goal, TypeOK
<1>11. Goal
    BY <1>2, <1>3, <1>4, <1>5, <1>6, <1>7, <1>8, <1>9, <1>10 DEF JournalNext
<1> QED
    BY <1>11 DEF Goal

LEMMA PayrollTyped ==
    ASSUME TypeOK, PayrollNext
    PROVE  TypeOK'
<1> USE DEF TypeOK, journalVars
<1>1. ASSUME NEW o \in Officers, Do(o, Resting)
      PROVE  officer' \in [Officers -> OfficerStates]
    BY <1>1 DEF Do, OfficerStates
<1>2. ASSUME NEW p \in Payrolls, NEW s \in PayrollStatuses, SetStatus(p, s)
      PROVE  payroll' \in [Payrolls -> [status : PayrollStatuses, net : Int]]
    BY <1>2 DEF SetStatus
<1>3. ASSUME NEW o \in Officers, officer[o].pc \in {"approve", "accrue", "pay", "book"},
             NEW to \in {"accrue", "accruing", "book", "booking"},
             Do(o, [officer[o] EXCEPT !.pc = to])
      PROVE  officer' \in [Officers -> OfficerStates]
    <2>1. PICK state \in OfficerStates : state = [officer[o] EXCEPT !.pc = to]
        BY <1>3, Moved
    <2> QED
        BY <1>3, <2>1 DEF Do
<1>4. ASSUME NEW p \in Payrolls, Submit(p) \/ Reject(p)
      PROVE  TypeOK'
    BY <1>2, <1>4 DEF Submit, Reject, PayrollStatuses
<1>5. ASSUME NEW o \in Officers, NEW p \in Payrolls, NEW n \in Salaries, CreateChecks(o, p, n)
      PROVE  TypeOK'
    <2>1. [pc |-> "create", payroll |-> p, net |-> n] \in OfficerStates
        BY PayrollAssumption DEF OfficerStates
    <2> QED
        BY <1>5, <2>1 DEF CreateChecks, Do
<1>6. ASSUME NEW o \in Officers, NEW p \in Payrolls, EditReads(o, p)
      PROVE  TypeOK'
    <2>1. \A call \in {"edit", "remove"} : [pc |-> call, payroll |-> p] \in OfficerStates
        BY DEF OfficerStates
    <2> QED
        BY <1>6, <2>1 DEF EditReads, Do
<1>7. ASSUME NEW o \in Officers, NEW p \in Payrolls, ApproveReads(o, p) \/ PayReads(o, p)
      PROVE  TypeOK'
    <2>1. \A pc \in {"approve", "pay"} :
            [pc |-> pc, payroll |-> p, net |-> payroll[p].net] \in OfficerStates
        BY DEF OfficerStates
    <2> QED
        BY <1>7, <2>1 DEF ApproveReads, PayReads, Do
<1>8. ASSUME NEW o \in Officers, NEW n \in Salaries, UpdateWrites(o, n)
      PROVE  TypeOK'
    <2>1. officer[o].payroll \in Payrolls
        BY <1>8, OfficerCarries DEF UpdateWrites
    <2> QED
        BY <1>1, <1>8, <2>1, PayrollAssumption DEF UpdateWrites
<1>9. ASSUME NEW o \in Officers, NEW e \in Entries, NEW from \in {"accruing", "booking"},
             NEW type \in References, Writes(o, from, type, e)
      PROVE  TypeOK'
    <2>1. officer[o].payroll \in Payrolls /\ officer[o].net \in Int
        BY <1>9, OfficerCarries DEF Writes
    <2>2. PICK b \in Batches :
            b = Batch(Origin, [debit |-> officer[o].net, credit |-> officer[o].net])
        <3>1. PICK l \in [debit : Int, credit : Int] :
                l = [debit |-> officer[o].net, credit |-> officer[o].net]
            BY <2>1
        <3>2. Batch(Origin, l) \in Batches
            BY BatchTyped DEF Writers
        <3> QED
            BY <3>1, <3>2
    <2>3. {b} \in SUBSET Batches /\ Insert(e, "POSTED", {b}, type, officer[o].payroll)
        BY <1>9, <2>2 DEF Writes
    <2>4. entry' \in [Entries -> EntryRows]
        BY <2>1, <2>3, Inserted
    <2> QED
        BY <1>1, <1>9, <2>4 DEF Writes
<1>10. ASSUME NEW o \in Officers, NEW e \in Entries, AccrueWrites(o, e) \/ PaymentWrites(o, e)
       PROVE  TypeOK'
    BY <1>9, <1>10 DEF AccrueWrites, PaymentWrites, References
<1>11. ASSUME NEW o \in Officers, CreateWrites(o)
       PROVE  TypeOK'
    <2>1. officer[o].payroll \in Payrolls /\ officer[o].net \in Int
        BY <1>11, OfficerCarries DEF CreateWrites
    <2>2. [status |-> "DRAFT", net |-> officer[o].net] \in [status : PayrollStatuses, net : Int]
        BY <2>1 DEF PayrollStatuses
    <2> QED
        BY <1>1, <1>11, <2>1, <2>2 DEF CreateWrites
<1>12. ASSUME NEW o \in Officers, RemoveDeletes(o)
       PROVE  TypeOK'
    <2>1. officer[o].payroll \in Payrolls
        BY <1>12, OfficerCarries DEF RemoveDeletes
    <2> QED
        BY <1>1, <1>2, <1>12, <2>1 DEF RemoveDeletes, PayrollStatuses
<1>13. ASSUME NEW o \in Officers, Approve(o) \/ MarkAsPaid(o)
       PROVE  TypeOK'
    <2>1. officer[o].payroll \in Payrolls
        BY <1>13, OfficerCarries DEF Approve, MarkAsPaid
    <2> QED
        BY <1>2, <1>3, <1>13, <2>1 DEF Approve, MarkAsPaid, PayrollStatuses
<1>14. ASSUME NEW o \in Officers, AccrueLooksUp(o) \/ PaymentLooksUp(o)
       PROVE  TypeOK'
    BY <1>3, <1>14 DEF AccrueLooksUp, PaymentLooksUp, LooksUp
<1>15. ASSUME NEW o \in Officers, OfficerFails(o)
       PROVE  TypeOK'
    BY <1>1, <1>15 DEF OfficerFails
<1> HIDE DEF TypeOK
<1> QED
    BY <1>4, <1>5, <1>6, <1>7, <1>8, <1>10, <1>11, <1>12, <1>13, <1>14, <1>15 DEF PayrollNext

LEMMA TypedNext == TypeOK /\ [Next]_vars => TypeOK'
<1>1. ASSUME TypeOK, JournalNext, UNCHANGED payrollVars
      PROVE  TypeOK'
    BY <1>1, JournalTyped DEF TypeOK, payrollVars
<1>2. ASSUME TypeOK, UNCHANGED vars
      PROVE  TypeOK'
    BY <1>2 DEF TypeOK, vars, journalVars, payrollVars
<1> QED
    BY <1>1, <1>2, PayrollTyped DEF Next

LEMMA TypedInit == Init => TypeOK
<1> SUFFICES ASSUME Init
             PROVE  TypeOK
    OBVIOUS
<1>1. NoEntry \in EntryRows
    BY DEF NoEntry, EntryRows, References
<1>2. entry \in [Entries -> EntryRows]
    BY <1>1 DEF Init, JournalInit
<1>3. /\ keeper \in [Bookkeepers -> KeeperStates] /\ officer \in [Officers -> OfficerStates]
      /\ payroll \in [Payrolls -> [status : PayrollStatuses, net : Int]]
    BY DEF Init, JournalInit, KeeperStates, OfficerStates, PayrollStatuses
<1> QED
    BY <1>2, <1>3 DEF TypeOK

\* Every row and every request keeps to its type: no line a caller sent is
\* negative, however entries are reversed; a payroll's may be.
THEOREM TypeCorrect == Spec => []TypeOK
BY TypedInit, TypedNext, PTL DEF Spec

-----------------------------------------------------------------------------
(* Every transaction inserts lines that are at most a cent out of balance  *)
(* by themselves, so that any set of such batches is at most a cent for    *)
(* each, whichever of them are deleted.                                    *)

Within(b) == b.debit - b.credit <= Cent /\ b.credit - b.debit <= Cent
Even(lines) == IsFiniteSet(lines) /\ \A b \in lines : Within(b)

\* Sums that can be rounded to the same cent are at most a cent apart.
LEMMA BalancedWithin ==
    ASSUME NEW d \in Int, NEW c \in Int, Balanced(d, c)
    PROVE  d - c <= Cent /\ c - d <= Cent
<1>1. Cent \in Nat \ {0} /\ d \div Cent \in Int /\ c \div Cent \in Int
    BY JournalAssumption
<1>2. PICK n : n \in Cents(d) /\ n \in Cents(c)
    BY DEF Balanced
<1>3. /\ n \in Int
      /\ 2 * (d - n * Cent) <= Cent /\ 2 * (n * Cent - d) <= Cent
      /\ 2 * (c - n * Cent) <= Cent /\ 2 * (n * Cent - c) <= Cent
    BY <1>1, <1>2 DEF Cents
<1>4. PICK m \in Int : m = n * Cent
    BY <1>1, <1>3
<1>5. /\ 2 * (d - m) <= Cent /\ 2 * (m - d) <= Cent
      /\ 2 * (c - m) <= Cent /\ 2 * (m - c) <= Cent
    BY <1>3, <1>4
<1> QED
    BY <1>1, <1>5

LEMMA EvenSums ==
    ASSUME NEW lines \in SUBSET Batches, Even(lines)
    PROVE  Debits(lines) - Credits(lines)
             \in -(Cent * Cardinality(lines)) .. (Cent * Cardinality(lines))
<1>1. PICK f, g : f = [b \in lines |-> b.debit] /\ g = [b \in lines |-> b.credit]
    OBVIOUS
<1>2. \A b \in lines : f[b] \in Int /\ g[b] \in Int /\ f[b] - g[b] <= Cent /\ g[b] - f[b] <= Cent
    BY <1>1 DEF Even, Within, Batches
<1>3. IsFiniteSet(lines) /\ Cent \in Nat
    BY JournalAssumption DEF Even
<1>4. SumFunctionOnSet(f, lines) - SumFunctionOnSet(g, lines)
        \in -(Cent * Cardinality(lines)) .. (Cent * Cardinality(lines))
    BY <1>2, <1>3, SumsNear
<1> QED
    BY <1>1, <1>4 DEF Debits, Credits

LEMMA EvenSwapped ==
    ASSUME NEW lines \in SUBSET Batches, Even(lines)
    PROVE  Even(Swapped(lines))
<1>1. IsFiniteSet({Turned(b) : b \in lines})
    <2>1. PICK f : f = [b \in lines |-> Turned(b)]
        OBVIOUS
    <2>2. f \in Surjection(lines, {Turned(b) : b \in lines})
        BY <2>1 DEF Surjection
    <2> QED
        BY <2>2, FS_Surjection DEF Even
<1>2. \A b \in lines : Within(Turned(b))
    BY TurnedFields DEF Even, Within
<1> QED
    BY <1>1, <1>2, SwappedTurns DEF Even

Held(k) == keeper[k].pc \in {"updating", "reverse"} => Even(keeper[k].lines)

Balances ==
    /\ \A e \in Entries : Even(entry[e].lines)
    /\ \A k \in Bookkeepers : Held(k)

LEMMA InsertedEven ==
    ASSUME TypeOK, Balances, NEW e, NEW s, NEW lines, NEW type, NEW of,
           Insert(e, s, lines, type, of), Even(lines)
    PROVE  \A d \in Entries : Even(entry'[d].lines)
BY DEF TypeOK, Balances, Insert, Unused

\* The lines of one transaction.
LEMMA BatchEven ==
    ASSUME NEW w, NEW l, l.debit - l.credit <= Cent, l.credit - l.debit <= Cent
    PROVE  Even({Batch(w, l)})
<1>1. Within(Batch(w, l))
    BY DEF Batch, Within
<1>2. IsFiniteSet({Batch(w, l)})
    BY FS_Singleton
<1> QED
    BY <1>1, <1>2 DEF Even

LEMMA BalancesNext == TypeOK /\ Balances /\ [Next]_vars => Balances'
<1> SUFFICES ASSUME TypeOK, Balances, [Next]_vars
             PROVE  Balances'
    OBVIOUS
<1> DEFINE EntriesEven == \A e \in Entries : Even(entry'[e].lines)
<1> DEFINE KeepersEven == \A k \in Bookkeepers : Held(k)'
<1>0. /\ \A e \in Entries : Even(entry[e].lines) /\ entry[e].lines \in SUBSET Batches
      /\ \A k \in Bookkeepers : Held(k)
    BY DEF Balances, TypeOK, EntryRows
<1>1. ASSUME NEW k \in Bookkeepers, NEW state, Note(k, state),
             state.pc \in {"updating", "reverse"} => Even(state.lines)
      PROVE  KeepersEven
    BY <1>0, <1>1 DEF Note, Held, TypeOK
<1>2. ASSUME NEW k \in Bookkeepers, Note(k, Resting)
      PROVE  KeepersEven
    BY <1>1, <1>2, JournalAssumption DEF Resting
<1>3. ASSUME UNCHANGED keeper
      PROVE  KeepersEven
    BY <1>0, <1>3 DEF Held
<1>4. ASSUME UNCHANGED entry
      PROVE  EntriesEven
    BY <1>0, <1>4
<1>5. ASSUME NEW w, NEW l \in Lines, Balanced(l.debit, l.credit)
      PROVE  Even({Batch(w, l)})
    BY <1>5, LinesTyped, BalancedWithin, BatchEven
<1>6. CASE UNCHANGED vars
    BY <1>3, <1>4, <1>6 DEF Balances, vars, journalVars
<1>7. CASE PayrollNext
    <2>1. ASSUME NEW o \in Officers, NEW e \in Entries, NEW from \in {"accruing", "booking"},
                 NEW type, Writes(o, from, type, e)
          PROVE  EntriesEven /\ UNCHANGED keeper
        <3>1. officer[o].net \in Int
            BY <2>1, OfficerCarries DEF Writes, TypeOK
        <3>2. PICK l : l = [debit |-> officer[o].net, credit |-> officer[o].net]
            OBVIOUS
        <3>3. Even({Batch(Origin, l)})
            BY <3>1, <3>2, BatchEven, JournalAssumption
        <3>4. Insert(e, "POSTED", {Batch(Origin, l)}, type, officer[o].payroll)
            BY <2>1, <3>2 DEF Writes
        <3> QED
            BY <2>1, <3>3, <3>4, InsertedEven DEF Writes
    <2>2. UNCHANGED keeper /\ (UNCHANGED entry \/ EntriesEven)
        BY <1>7, <2>1 DEF PayrollNext, journalVars, Submit, Reject, CreateChecks, EditReads,
           ApproveReads, PayReads, UpdateWrites, AccrueWrites, PaymentWrites, CreateWrites,
           RemoveDeletes, Approve, MarkAsPaid, AccrueLooksUp, PaymentLooksUp, LooksUp, OfficerFails
    <2> QED
        BY <1>3, <1>4, <2>2 DEF Balances
<1>8. CASE JournalNext
    <2>1. ASSUME NEW e \in Entries, NEW l \in Lines, CreateEntry(e, l)
          PROVE  EntriesEven /\ KeepersEven
        BY <1>3, <1>5, <2>1, InsertedEven DEF CreateEntry
    <2>2. ASSUME NEW k \in Bookkeepers, NEW e \in Entries,
                 UpdateReads(k, e) \/ PostReads(k, e) \/ DeleteReads(k, e)
          PROVE  EntriesEven /\ KeepersEven
        <3>1. \E pc \in {"update", "post", "delete"} : Note(k, [pc |-> pc, entry |-> e])
            BY <2>2 DEF UpdateReads, PostReads, DeleteReads
        <3> QED
            BY <1>1, <1>4, <2>2, <3>1 DEF UpdateReads, PostReads, DeleteReads
    <2>3. ASSUME NEW k \in Bookkeepers, NEW e \in Entries, ReverseReads(k, e)
          PROVE  EntriesEven /\ KeepersEven
        BY <1>0, <1>1, <1>4, <2>3 DEF ReverseReads
    <2>4. ASSUME NEW k \in Bookkeepers, NEW e \in Entries, ReverseCreates(k, e)
          PROVE  EntriesEven /\ KeepersEven
        <3>1. keeper[k].lines \in SUBSET Batches /\ Even(keeper[k].lines)
            BY <1>0, <2>4, KeeperCarries DEF ReverseCreates, Held, TypeOK
        <3>2. Even(Swapped(keeper[k].lines))
            BY <3>1, EvenSwapped
        <3> QED
            BY <1>2, <2>4, <3>2, InsertedEven DEF ReverseCreates
    <2>5. ASSUME NEW k \in Bookkeepers, NEW l \in Lines, UpdateCommits(k, l)
          PROVE  EntriesEven /\ KeepersEven
        <3>1. PICK e \in Entries : e = keeper[k].entry
            BY <2>5, KeeperCarries DEF UpdateCommits, TypeOK
        <3>2. Even({Batch(k, l)})
            BY <1>5, <2>5 DEF UpdateCommits
        <3>3. PICK lines : lines = (entry[e].lines \ keeper[k].lines) \cup {Batch(k, l)}
            OBVIOUS
        <3>4. Even(lines)
            <4>1. IsFiniteSet(entry[e].lines) /\ IsFiniteSet({Batch(k, l)})
                BY <1>0, <3>2 DEF Even
            <4>2. IsFiniteSet(entry[e].lines \ keeper[k].lines)
                BY <4>1, FS_Difference
            <4>3. IsFiniteSet(lines)
                BY <3>3, <4>1, <4>2, FS_Union
            <4> QED
                BY <1>0, <3>2, <3>3, <4>3 DEF Even
        <3>5. entry' = [entry EXCEPT ![e].lines = lines]
            BY <2>5, <3>1, <3>3 DEF UpdateCommits
        <3>6. EntriesEven
            BY <1>0, <3>4, <3>5 DEF TypeOK, EntryRows
        <3> QED
            BY <1>2, <2>5, <3>6 DEF UpdateCommits
    <2>6. ASSUME NEW k \in Bookkeepers, UpdateDeletes(k)
          PROVE  EntriesEven /\ KeepersEven
        <3>1. keeper[k].entry \in Entries
            BY <2>6, KeeperCarries DEF UpdateDeletes, TypeOK
        <3> QED
            BY <1>0, <1>1, <1>4, <2>6, <3>1 DEF UpdateDeletes
    <2>7. ASSUME NEW k \in Bookkeepers, PostWrites(k) \/ DeleteWrites(k)
          PROVE  EntriesEven /\ KeepersEven
        <3>1. EntriesEven
            BY <1>0, <2>7 DEF PostWrites, DeleteWrites, TypeOK, EntryRows
        <3> QED
            BY <1>2, <2>7, <3>1 DEF PostWrites, DeleteWrites
    <2>8. ASSUME NEW k \in Bookkeepers, KeeperFails(k)
          PROVE  EntriesEven /\ KeepersEven
        BY <1>2, <1>4, <2>8 DEF KeeperFails
    <2> HIDE DEF EntriesEven, KeepersEven
    <2>9. EntriesEven /\ KeepersEven
        BY <1>8, <2>1, <2>2, <2>3, <2>4, <2>5, <2>6, <2>7, <2>8 DEF JournalNext
    <2> QED
        BY <2>9 DEF Balances, EntriesEven, KeepersEven
<1> QED
    BY <1>6, <1>7, <1>8 DEF Next

\* A posted entry is at most a cent out of balance per transaction that left
\* lines in it, whatever edits, posts and reversals race.
THEOREM PostedBalance == Spec => []PostedNearlyBalances
<1>1. Init => Balances
    <2> SUFFICES ASSUME Init
                 PROVE  Balances
        OBVIOUS
    <2>1. Even({})
        BY FS_EmptySet DEF Even
    <2>2. \A e \in Entries : entry[e].lines = {}
        BY DEF Init, JournalInit, NoEntry
    <2>3. \A k \in Bookkeepers : keeper[k].pc \notin {"updating", "reverse"}
        BY JournalAssumption DEF Init, JournalInit, Resting
    <2> QED
        BY <2>1, <2>2, <2>3 DEF Balances, Held
<1>2. TypeOK /\ Balances => PostedNearlyBalances
    <2> SUFFICES ASSUME TypeOK, Balances, NEW e \in Entries
                 PROVE  Debits(entry[e].lines) - Credits(entry[e].lines)
                          \in -(Cent * Cardinality(entry[e].lines))
                              .. (Cent * Cardinality(entry[e].lines))
        BY DEF PostedNearlyBalances
    <2>1. entry[e].lines \in SUBSET Batches /\ Even(entry[e].lines)
        BY DEF TypeOK, EntryRows, Balances
    <2> QED
        BY <2>1, EvenSums
<1> QED
    BY <1>1, <1>2, TypeCorrect, BalancesNext, PTL DEF Spec

-----------------------------------------------------------------------------
(* Decisions.                                                              *)

\* What a step does to one payroll.
PayrollMoves(p) ==
    \/ payroll'[p].status = payroll[p].status
    \/ payroll'[p].status = "GONE"
    \/ payroll[p].status = "NONE"
    \/ payroll[p].status = "DRAFT"
    \/ payroll[p].status = "PENDING" /\ payroll'[p].status = "REJECTED"
    \/ /\ payroll[p].status = "PENDING" /\ payroll'[p].status = "APPROVED"
       /\ \E o \in Officers : Approve(o)
    \/ /\ payroll[p].status = "APPROVED" /\ payroll'[p].status = "PAID"
       /\ \E o \in Officers : MarkAsPaid(o)

LEMMA PayrollStep ==
    ASSUME TypeOK, [Next]_vars, NEW p \in Payrolls
    PROVE  PayrollMoves(p)
<1> USE DEF PayrollMoves, TypeOK
<1>1. ASSUME UNCHANGED payroll
      PROVE  PayrollMoves(p)
    BY <1>1
<1>2. ASSUME NEW q \in Payrolls, Submit(q) \/ Reject(q)
      PROVE  PayrollMoves(p)
    BY <1>2 DEF Submit, Reject, SetStatus
<1>3. ASSUME NEW o \in Officers, CreateWrites(o)
      PROVE  PayrollMoves(p)
    BY <1>3 DEF CreateWrites
<1>4. ASSUME NEW o \in Officers, NEW n \in Salaries, UpdateWrites(o, n)
      PROVE  PayrollMoves(p)
    BY <1>4 DEF UpdateWrites
<1>5. ASSUME NEW o \in Officers, RemoveDeletes(o)
      PROVE  PayrollMoves(p)
    BY <1>5 DEF RemoveDeletes, SetStatus
<1>6. ASSUME NEW o \in Officers, Approve(o)
      PROVE  PayrollMoves(p)
    <2>1. CASE officer[o].payroll = p
        BY <1>6, <2>1 DEF Approve, ApproveGate, SetStatus
    <2>2. CASE officer[o].payroll # p
        BY <1>6, <2>2 DEF Approve, SetStatus
    <2> QED
        BY <2>1, <2>2
<1>7. ASSUME NEW o \in Officers, MarkAsPaid(o)
      PROVE  PayrollMoves(p)
    <2>1. CASE officer[o].payroll = p
        BY <1>7, <2>1 DEF MarkAsPaid, PayGate, SetStatus
    <2>2. CASE officer[o].payroll # p
        BY <1>7, <2>2 DEF MarkAsPaid, SetStatus
    <2> QED
        BY <2>1, <2>2
<1>8. CASE PayrollNext
    <2>1. \/ UNCHANGED payroll
          \/ \E q \in Payrolls : Submit(q) \/ Reject(q)
          \/ \E o \in Officers : CreateWrites(o) \/ RemoveDeletes(o) \/ Approve(o) \/ MarkAsPaid(o)
          \/ \E o \in Officers, n \in Salaries : UpdateWrites(o, n)
        BY <1>8 DEF PayrollNext, CreateChecks, EditReads, ApproveReads, PayReads, AccrueWrites,
           PaymentWrites, Writes, AccrueLooksUp, PaymentLooksUp, LooksUp, OfficerFails
    <2> QED
        BY <1>1, <1>2, <1>3, <1>4, <1>5, <1>6, <1>7, <2>1
<1> QED
    BY <1>1, <1>8 DEF Next, vars, payrollVars

\* A payroll that was decided stays decided.
THEOREM DecisionsStand == Spec => DecidedStays
<1> DEFINE A == \A p \in Payrolls :
        /\ payroll[p].status = "REJECTED" => payroll'[p].status \in {"REJECTED", "GONE"}
        /\ payroll[p].status = "APPROVED" => payroll'[p].status \in {"APPROVED", "PAID", "GONE"}
        /\ payroll[p].status = "PAID" => payroll'[p].status \in {"PAID", "GONE"}
<1>1. TypeOK /\ [Next]_vars => [A]_vars
    <2> SUFFICES ASSUME TypeOK, [Next]_vars, NEW p \in Payrolls
                 PROVE  /\ payroll[p].status = "REJECTED"
                              => payroll'[p].status \in {"REJECTED", "GONE"}
                        /\ payroll[p].status = "APPROVED"
                              => payroll'[p].status \in {"APPROVED", "PAID", "GONE"}
                        /\ payroll[p].status = "PAID" => payroll'[p].status \in {"PAID", "GONE"}
        OBVIOUS
    <2>1. PayrollMoves(p)
        BY PayrollStep
    <2> QED
        BY <2>1 DEF PayrollMoves
<1> QED
    BY <1>1, TypeCorrect, PTL DEF Spec, DecidedStays

-----------------------------------------------------------------------------
(* The books. An officer who is about to write an entry is the only one,   *)
(* and there is no entry yet; an entry is the only one.                    *)

Refers(e, type, p) == entry[e].type = type /\ entry[e].of = p
Holds(o, pcs, p) == officer[o].pc \in pcs /\ officer[o].payroll = p

Books(pcs, type, statuses, p) ==
    /\ \A o \in Officers : Holds(o, pcs, p) =>
         /\ payroll[p].status \in statuses
         /\ \A e \in Entries : ~Refers(e, type, p)
         /\ \A q \in Officers : Holds(q, pcs, p) => q = o
    /\ \A e \in Entries : Refers(e, type, p) =>
         /\ payroll[p].status \in statuses
         /\ \A d \in Entries : Refers(d, type, p) => d = e

Accruing == {"accrue", "accruing"}
Booking == {"book", "booking"}
Approved == {"APPROVED", "PAID", "GONE"}
PaidOut == {"PAID", "GONE"}

AllBooks == \A p \in Payrolls :
    /\ Books(Accruing, "PAYROLL_APPROVAL", Approved, p)
    /\ Books(Booking, "PAYROLL_PAYMENT", PaidOut, p)

\* A step that lets nobody new hold the payroll, except one who changes its status,
\* and that writes no entry, except one of a holder.
LEMMA BooksStep ==
    ASSUME NEW pcs, NEW type, NEW statuses, NEW p \in Payrolls,
           Books(pcs, type, statuses, p),
           payroll[p].status \in statuses => payroll'[p].status \in statuses,
           \/ /\ \A q \in Officers : Holds(q, pcs, p)' => Holds(q, pcs, p)
              /\ \A e \in Entries : Refers(e, type, p)' => Refers(e, type, p)
           \/ /\ payroll[p].status \notin statuses /\ payroll'[p].status \in statuses
              /\ \E o \in Officers : \A q \in Officers \ {o} : Holds(q, pcs, p)' => Holds(q, pcs, p)
              /\ \A e \in Entries : Refers(e, type, p)' => Refers(e, type, p)
           \/ \E o \in Officers, d \in Entries :
                /\ Holds(o, pcs, p) /\ ~Holds(o, pcs, p)'
                /\ \A q \in Officers : Holds(q, pcs, p)' => Holds(q, pcs, p)
                /\ \A e \in Entries \ {d} : Refers(e, type, p)' => Refers(e, type, p)
    PROVE  Books(pcs, type, statuses, p)'
<1> USE DEF Books
<1>1. CASE /\ \A q \in Officers : Holds(q, pcs, p)' => Holds(q, pcs, p)
           /\ \A e \in Entries : Refers(e, type, p)' => Refers(e, type, p)
    BY <1>1
<1>2. CASE /\ payroll[p].status \notin statuses /\ payroll'[p].status \in statuses
           /\ \E o \in Officers : \A q \in Officers \ {o} : Holds(q, pcs, p)' => Holds(q, pcs, p)
           /\ \A e \in Entries : Refers(e, type, p)' => Refers(e, type, p)
    BY <1>2
<1>3. CASE \E o \in Officers, d \in Entries :
                /\ Holds(o, pcs, p) /\ ~Holds(o, pcs, p)'
                /\ \A q \in Officers : Holds(q, pcs, p)' => Holds(q, pcs, p)
                /\ \A e \in Entries \ {d} : Refers(e, type, p)' => Refers(e, type, p)
    BY <1>3
<1> QED
    BY <1>1, <1>2, <1>3

\* Who holds a payroll after a step held it before, or approved or paid it just now.
HolderKept(q) ==
    /\ officer'[q].pc \in Accruing =>
         officer'[q].payroll = officer[q].payroll /\ (officer[q].pc \in Accruing \/ Approve(q))
    /\ officer'[q].pc \in Booking =>
         officer'[q].payroll = officer[q].payroll /\ (officer[q].pc \in Booking \/ MarkAsPaid(q))

LEMMA HolderStep ==
    ASSUME TypeOK, [Next]_vars, NEW q \in Officers
    PROVE  HolderKept(q)
<1> USE PayrollAssumption DEF HolderKept, Accruing, Booking
<1>0. officer \in [Officers -> OfficerStates]
    BY DEF TypeOK
<1>1. ASSUME officer'[q] = officer[q]
      PROVE  HolderKept(q)
    BY <1>1
<1>2. ASSUME NEW o \in Officers, NEW state, Do(o, state), state.pc \notin Accruing \cup Booking
      PROVE  HolderKept(q)
    BY <1>0, <1>2 DEF Do
<1>3. ASSUME NEW o \in Officers, Do(o, Resting)
      PROVE  HolderKept(q)
    BY <1>2, <1>3 DEF Resting
<1>4. ASSUME NEW o \in Officers, Approve(o) \/ MarkAsPaid(o)
      PROVE  HolderKept(q)
    <2>1. CASE Approve(o)
        <3>1. [officer[o] EXCEPT !.pc = "accrue"]
                = [pc |-> "accrue", payroll |-> officer[o].payroll, net |-> officer[o].net]
            BY <1>0, <2>1, Moved DEF Approve
        <3> QED
            BY <1>0, <2>1, <3>1 DEF Approve, Do
    <2>2. CASE MarkAsPaid(o)
        <3>1. [officer[o] EXCEPT !.pc = "book"]
                = [pc |-> "book", payroll |-> officer[o].payroll, net |-> officer[o].net]
            BY <1>0, <2>2, Moved DEF MarkAsPaid
        <3> QED
            BY <1>0, <2>2, <3>1 DEF MarkAsPaid, Do
    <2> QED
        BY <1>4, <2>1, <2>2
<1>5. ASSUME NEW o \in Officers, AccrueLooksUp(o) \/ PaymentLooksUp(o)
      PROVE  HolderKept(q)
    <2>1. CASE AccrueLooksUp(o)
        <3>1. [officer[o] EXCEPT !.pc = "accruing"]
                = [pc |-> "accruing", payroll |-> officer[o].payroll, net |-> officer[o].net]
            BY <1>0, <2>1, Moved DEF AccrueLooksUp, LooksUp
        <3> QED
            BY <1>0, <2>1, <3>1 DEF AccrueLooksUp, LooksUp, Do
    <2>2. CASE PaymentLooksUp(o)
        <3>1. [officer[o] EXCEPT !.pc = "booking"]
                = [pc |-> "booking", payroll |-> officer[o].payroll, net |-> officer[o].net]
            BY <1>0, <2>2, Moved DEF PaymentLooksUp, LooksUp
        <3> QED
            BY <1>0, <2>2, <3>1 DEF PaymentLooksUp, LooksUp, Do
    <2> QED
        BY <1>5, <2>1, <2>2
<1>6. ASSUME NEW o \in Officers, NEW p \in Payrolls, NEW n \in Salaries,
             CreateChecks(o, p, n)
      PROVE  HolderKept(q)
    BY <1>2, <1>6 DEF CreateChecks
<1>7. ASSUME NEW o \in Officers, NEW p \in Payrolls,
             EditReads(o, p) \/ ApproveReads(o, p) \/ PayReads(o, p)
      PROVE  HolderKept(q)
    BY <1>2, <1>7 DEF EditReads, ApproveReads, PayReads
<1>8. CASE PayrollNext
    <2>1. \/ UNCHANGED officer
          \/ \E o \in Officers, p \in Payrolls, n \in Salaries : CreateChecks(o, p, n)
          \/ \E o \in Officers, p \in Payrolls :
               EditReads(o, p) \/ ApproveReads(o, p) \/ PayReads(o, p)
          \/ \E o \in Officers : Do(o, Resting)
          \/ \E o \in Officers :
               Approve(o) \/ MarkAsPaid(o) \/ AccrueLooksUp(o) \/ PaymentLooksUp(o)
        BY <1>8 DEF PayrollNext, Submit, Reject, UpdateWrites, AccrueWrites, PaymentWrites, Writes,
           CreateWrites, RemoveDeletes, OfficerFails
    <2> HIDE DEF HolderKept
    <2> QED
        BY <1>1, <1>3, <1>4, <1>5, <1>6, <1>7, <2>1
<1> QED
    BY <1>1, <1>8 DEF Next, vars, payrollVars

\* An entry that refers to a payroll after a step did so before, or was written by an
\* officer who held the payroll.
RefererKept(e, p) ==
    /\ Refers(e, "PAYROLL_APPROVAL", p)' =>
         Refers(e, "PAYROLL_APPROVAL", p)
         \/ \E o \in Officers : AccrueWrites(o, e) /\ officer[o].payroll = p
    /\ Refers(e, "PAYROLL_PAYMENT", p)' =>
         Refers(e, "PAYROLL_PAYMENT", p)
         \/ \E o \in Officers : PaymentWrites(o, e) /\ officer[o].payroll = p

LEMMA RefererStep ==
    ASSUME TypeOK, [Next]_vars, NEW e \in Entries, NEW p \in Payrolls
    PROVE  RefererKept(e, p)
<1> USE PayrollAssumption DEF RefererKept, Refers
<1>0. entry \in [Entries -> EntryRows]
    BY DEF TypeOK
<1>1. ASSUME entry'[e].type = entry[e].type, entry'[e].of = entry[e].of
      PROVE  RefererKept(e, p)
    BY <1>1
<1>2. ASSUME NEW d, NEW s, NEW lines, NEW type, NEW of, Insert(d, s, lines, type, of)
      PROVE  IF d = e THEN entry'[e].type = type /\ entry'[e].of = of ELSE entry'[e] = entry[e]
    BY <1>0, <1>2 DEF Insert, Unused
<1>3. ASSUME NEW o \in Officers, NEW d \in Entries, AccrueWrites(o, d)
      PROVE  RefererKept(e, p)
    <2>1. IF d = e THEN entry'[e].type = "PAYROLL_APPROVAL" /\ entry'[e].of = officer[o].payroll
                   ELSE entry'[e] = entry[e]
        BY <1>2, <1>3 DEF AccrueWrites, Writes
    <2> QED
        BY <1>3, <2>1
<1>4. ASSUME NEW o \in Officers, NEW d \in Entries, PaymentWrites(o, d)
      PROVE  RefererKept(e, p)
    <2>1. IF d = e THEN entry'[e].type = "PAYROLL_PAYMENT" /\ entry'[e].of = officer[o].payroll
                   ELSE entry'[e] = entry[e]
        BY <1>2, <1>4 DEF PaymentWrites, Writes
    <2> QED
        BY <1>4, <2>1
<1>5. CASE JournalNext
    <2>1. ASSUME NEW d \in Entries, NEW l \in Lines, CreateEntry(d, l)
          PROVE  RefererKept(e, p)
        <3>1. IF d = e THEN entry'[e].type = NoRef ELSE entry'[e] = entry[e]
            BY <1>2, <2>1 DEF CreateEntry
        <3> QED
            BY <3>1
    <2>2. ASSUME NEW k \in Bookkeepers, NEW d \in Entries, ReverseCreates(k, d)
          PROVE  RefererKept(e, p)
        <3>1. IF d = e THEN entry'[e].type = "REVERSAL" ELSE entry'[e] = entry[e]
            BY <1>2, <2>2 DEF ReverseCreates
        <3> QED
            BY <3>1
    <2>3. ASSUME NEW k \in Bookkeepers, PostWrites(k) \/ DeleteWrites(k)
          PROVE  RefererKept(e, p)
        BY <1>0, <1>1, <2>3 DEF PostWrites, DeleteWrites, EntryRows
    <2>4. ASSUME NEW k \in Bookkeepers, NEW l \in Lines, UpdateCommits(k, l)
          PROVE  RefererKept(e, p)
        BY <1>0, <1>1, <2>4 DEF UpdateCommits, EntryRows
    <2>5. \/ UNCHANGED entry
          \/ \E d \in Entries, l \in Lines : CreateEntry(d, l)
          \/ \E k \in Bookkeepers, d \in Entries : ReverseCreates(k, d)
          \/ \E k \in Bookkeepers : PostWrites(k) \/ DeleteWrites(k)
          \/ \E k \in Bookkeepers, l \in Lines : UpdateCommits(k, l)
        BY <1>5 DEF JournalNext, UpdateReads, PostReads, DeleteReads, ReverseReads, UpdateDeletes,
           KeeperFails
    <2> HIDE DEF RefererKept
    <2> QED
        BY <1>1, <2>1, <2>2, <2>3, <2>4, <2>5
<1>6. CASE PayrollNext
    <2>1. \/ UNCHANGED entry
          \/ \E o \in Officers, d \in Entries : AccrueWrites(o, d) \/ PaymentWrites(o, d)
        BY <1>6 DEF PayrollNext, journalVars, Submit, Reject, CreateChecks, EditReads, ApproveReads,
           PayReads, UpdateWrites, CreateWrites, RemoveDeletes, Approve, MarkAsPaid, AccrueLooksUp,
           PaymentLooksUp, LooksUp, OfficerFails
    <2> HIDE DEF RefererKept
    <2> QED
        BY <1>1, <1>3, <1>4, <2>1
<1> QED
    BY <1>1, <1>5, <1>6 DEF Next, vars, journalVars

\* At most one officer moves in a step, and only its own state changes.
LEMMA BooksNext == TypeOK /\ AllBooks /\ [Next]_vars => AllBooks'
<1> SUFFICES ASSUME TypeOK, AllBooks, [Next]_vars, NEW p \in Payrolls
             PROVE  /\ Books(Accruing, "PAYROLL_APPROVAL", Approved, p)'
                    /\ Books(Booking, "PAYROLL_PAYMENT", PaidOut, p)'
    BY DEF AllBooks, Accruing, Booking, Approved, PaidOut
<1>1. /\ Books(Accruing, "PAYROLL_APPROVAL", Approved, p)
      /\ Books(Booking, "PAYROLL_PAYMENT", PaidOut, p)
    BY DEF AllBooks
<1>2. PayrollMoves(p) /\ \A q \in Officers : HolderKept(q)
    BY PayrollStep, HolderStep
<1>3. \A e \in Entries : RefererKept(e, p)
    BY RefererStep
<1>4. officer \in [Officers -> OfficerStates]
    BY DEF TypeOK
<1>5. Books(Accruing, "PAYROLL_APPROVAL", Approved, p)'
    <2> DEFINE NoHolder == \A q \in Officers : Holds(q, Accruing, p)' => Holds(q, Accruing, p)
    <2> DEFINE NoReferer == \A e \in Entries :
                  Refers(e, "PAYROLL_APPROVAL", p)' => Refers(e, "PAYROLL_APPROVAL", p)
    <2>1. payroll[p].status \in Approved => payroll'[p].status \in Approved
        BY <1>2 DEF PayrollMoves, Approved
    <2>2. CASE NoHolder /\ NoReferer
        BY <1>1, <2>1, <2>2, BooksStep
    <2>3. ASSUME NEW o \in Officers, Approve(o), officer[o].payroll = p
          PROVE  Books(Accruing, "PAYROLL_APPROVAL", Approved, p)'
        <3>1. payroll[p].status \notin Approved /\ payroll'[p].status \in Approved
            BY <2>3 DEF Approve, ApproveGate, SetStatus, TypeOK, Approved
        <3>2. \A q \in Officers \ {o} : Holds(q, Accruing, p)' => Holds(q, Accruing, p)
            BY <1>4, <2>3 DEF Approve, Do, Holds
        <3>3. NoReferer
            BY <2>3 DEF Approve, journalVars, Refers
        <3> QED
            BY <1>1, <2>1, <3>1, <3>2, <3>3, BooksStep
    <2>4. ASSUME NEW o \in Officers, NEW d \in Entries, AccrueWrites(o, d), officer[o].payroll = p
          PROVE  Books(Accruing, "PAYROLL_APPROVAL", Approved, p)'
        <3>1. Holds(o, Accruing, p) /\ ~Holds(o, Accruing, p)'
            BY <1>4, <2>4, PayrollAssumption
            DEF AccrueWrites, Writes, Do, Holds, Accruing, Resting
        <3>2. NoHolder
            BY <1>4, <2>4, <3>1 DEF AccrueWrites, Writes, Do, Holds
        <3>3. \A e \in Entries \ {d} :
                Refers(e, "PAYROLL_APPROVAL", p)' => Refers(e, "PAYROLL_APPROVAL", p)
            BY <2>4 DEF AccrueWrites, Writes, Insert, Refers, TypeOK
        <3> QED
            BY <1>1, <2>1, <3>1, <3>2, <3>3, BooksStep
    <2>5. CASE \A o \in Officers : ~(Approve(o) /\ officer[o].payroll = p)
        <3>1. NoHolder
            BY <1>2, <2>5 DEF HolderKept, Holds
        <3>2. CASE NoReferer
            BY <2>2, <3>1, <3>2
        <3>3. CASE ~NoReferer
            <4>1. \E e \in Entries, o \in Officers : AccrueWrites(o, e) /\ officer[o].payroll = p
                BY <1>3, <3>3 DEF RefererKept
            <4> QED
                BY <2>4, <4>1
        <3> QED
            BY <3>2, <3>3
    <2> QED
        BY <2>3, <2>5
<1>6. Books(Booking, "PAYROLL_PAYMENT", PaidOut, p)'
    <2> DEFINE NoHolder == \A q \in Officers : Holds(q, Booking, p)' => Holds(q, Booking, p)
    <2> DEFINE NoReferer == \A e \in Entries :
                  Refers(e, "PAYROLL_PAYMENT", p)' => Refers(e, "PAYROLL_PAYMENT", p)
    <2>1. payroll[p].status \in PaidOut => payroll'[p].status \in PaidOut
        BY <1>2 DEF PayrollMoves, PaidOut
    <2>2. CASE NoHolder /\ NoReferer
        BY <1>1, <2>1, <2>2, BooksStep
    <2>3. ASSUME NEW o \in Officers, MarkAsPaid(o), officer[o].payroll = p
          PROVE  Books(Booking, "PAYROLL_PAYMENT", PaidOut, p)'
        <3>1. payroll[p].status \notin PaidOut /\ payroll'[p].status \in PaidOut
            BY <2>3 DEF MarkAsPaid, PayGate, SetStatus, TypeOK, PaidOut
        <3>2. \A q \in Officers \ {o} : Holds(q, Booking, p)' => Holds(q, Booking, p)
            BY <1>4, <2>3 DEF MarkAsPaid, Do, Holds
        <3>3. NoReferer
            BY <2>3 DEF MarkAsPaid, journalVars, Refers
        <3> QED
            BY <1>1, <2>1, <3>1, <3>2, <3>3, BooksStep
    <2>4. ASSUME NEW o \in Officers, NEW d \in Entries, PaymentWrites(o, d), officer[o].payroll = p
          PROVE  Books(Booking, "PAYROLL_PAYMENT", PaidOut, p)'
        <3>1. Holds(o, Booking, p) /\ ~Holds(o, Booking, p)'
            BY <1>4, <2>4, PayrollAssumption
            DEF PaymentWrites, Writes, Do, Holds, Booking, Resting
        <3>2. NoHolder
            BY <1>4, <2>4, <3>1 DEF PaymentWrites, Writes, Do, Holds
        <3>3. \A e \in Entries \ {d} :
                Refers(e, "PAYROLL_PAYMENT", p)' => Refers(e, "PAYROLL_PAYMENT", p)
            BY <2>4 DEF PaymentWrites, Writes, Insert, Refers, TypeOK
        <3> QED
            BY <1>1, <2>1, <3>1, <3>2, <3>3, BooksStep
    <2>5. CASE \A o \in Officers : ~(MarkAsPaid(o) /\ officer[o].payroll = p)
        <3>1. NoHolder
            BY <1>2, <2>5 DEF HolderKept, Holds
        <3>2. CASE NoReferer
            BY <2>2, <3>1, <3>2
        <3>3. CASE ~NoReferer
            <4>1. \E e \in Entries, o \in Officers : PaymentWrites(o, e) /\ officer[o].payroll = p
                BY <1>3, <3>3 DEF RefererKept
            <4> QED
                BY <2>4, <4>1
        <3> QED
            BY <3>2, <3>3
    <2> QED
        BY <2>3, <2>5
<1> QED
    BY <1>5, <1>6

\* A payroll is accrued and paid out in the books at most once, and not before it was
\* approved and marked as paid.
THEOREM BooksAreOnce == Spec => []BookedOnce
<1>1. Init => AllBooks
    <2> SUFFICES ASSUME Init
                 PROVE  AllBooks
        OBVIOUS
    <2>1. \A o \in Officers : officer[o].pc \notin Accruing \cup Booking
        BY PayrollAssumption DEF Init, Resting, Accruing, Booking
    <2>2. \A e \in Entries : entry[e].type = NoRef
        BY DEF Init, JournalInit, NoEntry
    <2> QED
        BY <2>1, <2>2, PayrollAssumption DEF AllBooks, Books, Holds, Refers
<1>2. AllBooks => BookedOnce
    BY DEF AllBooks, Books, Refers, BookedOnce, Referring, Approved, PaidOut
<1> QED
    BY <1>1, <1>2, TypeCorrect, BooksNext, PTL DEF Spec
=============================================================================
