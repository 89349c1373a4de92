------------------------------ MODULE Payroll ------------------------------
(***************************************************************************)
(* Payroll records (payroll.service.ts) and the journal entries their      *)
(* approval and payment write beside the general journal. The change of    *)
(* status is one conditional update; the journal entry is looked up and    *)
(* created afterwards, outside any transaction.                            *)
(***************************************************************************)
EXTENDS Journals

CONSTANTS
    Payrolls,
    Officers,       \* requests of the payroll service
    Salaries        \* net salaries a caller's figures add up to: deductions may exceed the pay

ASSUME PayrollAssumption ==
    /\ Salaries \subseteq Int
    /\ NoRef \notin {"REVERSAL", "PAYROLL_APPROVAL", "PAYROLL_PAYMENT"}
    /\ Waiting \notin {"create", "edit", "remove", "approve", "accrue", "accruing", "pay",
                       "book", "booking"}

VARIABLES
    payroll,    \* the Payroll rows, of one employee and one period
    officer     \* what each payroll request is doing

payrollVars == <<payroll, officer>>
vars == <<journalVars, payrollVars>>

PayrollStatuses == {"NONE", "DRAFT", "PENDING", "APPROVED", "REJECTED", "PAID", "GONE"}
OfficerStates ==
    {Resting}
    \cup [pc : {"create"}, payroll : Payrolls, net : Int]
    \cup [pc : {"edit", "remove"}, payroll : Payrolls]
    \cup [pc : {"approve", "accrue", "accruing", "pay", "book", "booking"},
          payroll : Payrolls, net : Int]
KeeperStates ==
    {Resting}
    \cup [pc : {"update", "post", "delete"}, entry : Entries]
    \cup [pc : {"updating", "reverse"}, entry : Entries, lines : SUBSET Batches]
References == {NoRef, "REVERSAL", "PAYROLL_APPROVAL", "PAYROLL_PAYMENT"}

EntryRows ==
    [status : {"NONE", "DRAFT", "POSTED"}, deleted : BOOLEAN, lines : SUBSET Batches,
     type : References, of : Entries \cup Payrolls \cup {NoRef}]

TypeOK ==
    /\ entry \in [Entries -> EntryRows]
    /\ keeper \in [Bookkeepers -> KeeperStates]
    /\ payroll \in [Payrolls -> [status : PayrollStatuses, net : Int]]
    /\ officer \in [Officers -> OfficerStates]

Init ==
    /\ JournalInit
    /\ payroll = [p \in Payrolls |-> [status |-> "NONE", net |-> 0]]
    /\ officer = [o \in Officers |-> Resting]

Do(o, state) == officer' = [officer EXCEPT ![o] = state]
Starts(o) == officer[o] = Resting
SetStatus(p, s) == payroll' = [payroll EXCEPT ![p].status = s]

-----------------------------------------------------------------------------
(* Records of one period overlap: the search comes before the creation.    *)
Overlapping == {p \in Payrolls : payroll[p].status \notin {"NONE", "GONE"}}

CreateChecks(o, p, n) ==
    /\ Starts(o)
    /\ payroll[p].status = "NONE"
    /\ Overlapping = {}
    /\ Do(o, [pc |-> "create", payroll |-> p, net |-> n])
    /\ UNCHANGED <<journalVars, payroll>>

CreateWrites(o) ==
    /\ officer[o].pc = "create"
    /\ payroll[officer[o].payroll].status = "NONE"
    /\ payroll' = [payroll EXCEPT ![officer[o].payroll] =
                     [status |-> "DRAFT", net |-> officer[o].net]]
    /\ Do(o, Resting)
    /\ UNCHANGED journalVars

\* update and remove check for a DRAFT and write without a condition.
EditReads(o, p) ==
    /\ Starts(o)
    /\ payroll[p].status = "DRAFT"
    /\ \E call \in {"edit", "remove"} : Do(o, [pc |-> call, payroll |-> p])
    /\ UNCHANGED <<journalVars, payroll>>

UpdateWrites(o, n) ==
    /\ officer[o].pc = "edit"
    /\ payroll[officer[o].payroll].status # "GONE"
    /\ payroll' = [payroll EXCEPT ![officer[o].payroll].net = n]
    /\ Do(o, Resting)
    /\ UNCHANGED journalVars

RemoveDeletes(o) ==
    /\ officer[o].pc = "remove"
    /\ SetStatus(officer[o].payroll, "GONE")
    /\ Do(o, Resting)
    /\ UNCHANGED journalVars

-----------------------------------------------------------------------------
(* Changes of status: read, check, and an update on the condition that the *)
(* status still is what it was. Those that only change the status are one  *)
(* step.                                                                   *)

Submit(p) ==
    /\ payroll[p].status = "DRAFT"
    /\ SetStatus(p, "PENDING")
    /\ UNCHANGED <<journalVars, officer>>

Reject(p) ==
    /\ payroll[p].status = "PENDING"
    /\ SetStatus(p, "REJECTED")
    /\ UNCHANGED <<journalVars, officer>>

ApproveReads(o, p) ==
    /\ Starts(o)
    /\ payroll[p].status = "PENDING"
    /\ Do(o, [pc |-> "approve", payroll |-> p, net |-> payroll[p].net])
    /\ UNCHANGED <<journalVars, payroll>>

\* FAULT: only the read checks the status.
ApproveGateAlways(p) == TRUE
ApproveGate(p) == payroll[p].status = "PENDING"

Approve(o) ==
    /\ officer[o].pc = "approve"
    /\ ApproveGate(officer[o].payroll)
    /\ SetStatus(officer[o].payroll, "APPROVED")
    /\ Do(o, [officer[o] EXCEPT !.pc = "accrue"])
    /\ UNCHANGED journalVars

PayReads(o, p) ==
    /\ Starts(o)
    /\ payroll[p].status = "APPROVED"
    /\ Do(o, [pc |-> "pay", payroll |-> p, net |-> payroll[p].net])
    /\ UNCHANGED <<journalVars, payroll>>

\* FAULT: marked paid by anyone who found it approved once.
PayGateStale(p) == payroll[p].status \in {"APPROVED", "PAID"}
PayGate(p) == payroll[p].status = "APPROVED"

MarkAsPaid(o) ==
    /\ officer[o].pc = "pay"
    /\ PayGate(officer[o].payroll)
    /\ SetStatus(officer[o].payroll, "PAID")
    /\ Do(o, [officer[o] EXCEPT !.pc = "book"])
    /\ UNCHANGED journalVars

-----------------------------------------------------------------------------
(* The journal entries of an approval and of a payment.                    *)

\* No live entry is found; the accounts exist and a number is drawn.
LooksUp(o, from, type, to) ==
    /\ officer[o].pc = from
    /\ Referring(type, officer[o].payroll) = {}
    /\ Do(o, [officer[o] EXCEPT !.pc = to])
    /\ UNCHANGED <<journalVars, payroll>>

Writes(o, from, type, e) ==
    /\ officer[o].pc = from
    /\ LET n == officer[o].net IN
       Insert(e, "POSTED", {Batch(Origin, [debit |-> n, credit |-> n])},
              type, officer[o].payroll)
    /\ Do(o, Resting)
    /\ UNCHANGED <<keeper, payroll>>

AccrueLooksUp(o) == LooksUp(o, "accrue", "PAYROLL_APPROVAL", "accruing")
AccrueWrites(o, e) == Writes(o, "accruing", "PAYROLL_APPROVAL", e)
PaymentLooksUp(o) == LooksUp(o, "book", "PAYROLL_PAYMENT", "booking")
PaymentWrites(o, e) == Writes(o, "booking", "PAYROLL_PAYMENT", e)

\* A call fails, an entry number is taken, or the process dies.
OfficerFails(o) ==
    /\ ~Starts(o)
    /\ Do(o, Resting)
    /\ UNCHANGED <<journalVars, payroll>>

PayrollNext ==
    \/ \E p \in Payrolls : Submit(p) \/ Reject(p)
    \/ \E o \in Officers, p \in Payrolls, n \in Salaries : CreateChecks(o, p, n)
    \/ \E o \in Officers, p \in Payrolls : EditReads(o, p) \/ ApproveReads(o, p) \/ PayReads(o, p)
    \/ \E o \in Officers, n \in Salaries : UpdateWrites(o, n)
    \/ \E o \in Officers, e \in Entries : AccrueWrites(o, e) \/ PaymentWrites(o, e)
    \/ \E o \in Officers :
         \/ CreateWrites(o) \/ RemoveDeletes(o) \/ Approve(o) \/ MarkAsPaid(o)
         \/ AccrueLooksUp(o) \/ PaymentLooksUp(o) \/ OfficerFails(o)

Next == PayrollNext \/ (JournalNext /\ UNCHANGED payrollVars)

Spec == Init /\ [][Next]_vars

-----------------------------------------------------------------------------
(* Approvals, payments, rejections and removals may race, and a process    *)
(* may die between a status and its entry: a payroll is accrued at most    *)
(* once and only after its approval, paid out in the books at most once    *)
(* and only after it was marked as paid; a rejected one has no entry.      *)
(* (Callers' own entries do not pose as payroll entries: CreateEntry.)     *)
BookedOnce ==
    \A p \in Payrolls :
        LET accruals == Referring("PAYROLL_APPROVAL", p)
            payments == Referring("PAYROLL_PAYMENT", p) IN
        /\ \A d, e \in accruals : d = e
        /\ \A d, e \in payments : d = e
        /\ accruals # {} => payroll[p].status \in {"APPROVED", "PAID", "GONE"}
        /\ payments # {} => payroll[p].status \in {"PAID", "GONE"}

(* A payroll that was decided stays decided: no step of a request that     *)
(* read it earlier takes it back, except that a slow removal, which is     *)
(* not conditioned on what it read, may delete it.                         *)
DecidedStays ==
    [][\A p \in Payrolls :
         /\ payroll[p].status = "REJECTED" => payroll'[p].status \in {"REJECTED", "GONE"}
         /\ payroll[p].status = "APPROVED" => payroll'[p].status \in {"APPROVED", "PAID", "GONE"}
         /\ payroll[p].status = "PAID" => payroll'[p].status \in {"PAID", "GONE"}]_vars
=============================================================================
