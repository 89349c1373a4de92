----------------------------- MODULE Settlement -----------------------------
(***************************************************************************)
(* Customer and supplier payments (accounting.service.ts) over the         *)
(* receivables and payables that deliveries and receipts open, and the     *)
(* life of the invoices (invoices.service.ts) beside them. The control     *)
(* accounts 1000 (cash), 1100 (receivable) and 2000 (payable) are kept in  *)
(* ledger as the journal entries of these steps move them.                 *)
(*                                                                         *)
(* A payment checks the item before it takes the row lock and again under  *)
(* the lock; what it wrote becomes visible at the commit, which is one     *)
(* step. A call on an invoice reads the row and writes it later.           *)
(*                                                                         *)
(* The columns are decimals, the code adds and subtracts JavaScript's      *)
(* numbers. Amounts are counted in the columns' last digit; the result of  *)
(* an addition or subtraction is any number the rounding allows.           *)
(***************************************************************************)
EXTENDS Integers, FiniteSets, Functions

CONSTANTS
    Sales,          \* sales orders that are delivered: one receivable each
    Bills,          \* purchase orders that are received: one payable each
    Manual,         \* invoices made by hand, of no sale
    Requests,
    Totals,         \* totals of orders and manual invoices
    Amounts,        \* amounts of payments
    MaxPayments,    \* bound: the number of payments
    Followed,       \* bound: what falls overdue or is issued, cancelled, deleted ...
    Rounding,       \* the most by which a sum or difference is rounded
    Idle

ASSUME SettlementAssumption ==
    /\ IsFiniteSet(Sales) /\ IsFiniteSet(Bills) /\ IsFiniteSet(Manual)
    /\ Sales \cap Bills = {}
    /\ Sales \cap Manual = {}
    /\ Totals \subseteq Nat
    /\ Amounts \subseteq Nat \ {0}
    /\ MaxPayments \in Nat
    /\ Rounding \in Nat
    /\ Followed \subseteq Sales \cup Bills \cup Manual
    /\ Idle \notin {"pay", "invoicing", "remove", "issue", "cancel", "email"}

VARIABLES
    total,      \* the total of each order row
    item,       \* Receivable and Payable rows
    invoice,    \* Invoice rows; salesOrderId is unique, so a sale has one
    allocated,  \* the sum of the PaymentAllocation rows of an item
    instalments,\* and their number
    direct,     \* the sum of those made to an invoice directly
    deposits,   \* and their number
    ledger,     \* balances of the control accounts
    req         \* what each request is doing

vars == <<total, item, invoice, allocated, instalments, direct, deposits, ledger, req>>
books == <<allocated, instalments, direct, deposits, ledger>>

Items == Sales \cup Bills
Invoices == Sales \cup Manual
ItemStatuses == {"NONE", "PENDING", "PARTIALLY_PAID", "PAID", "OVERDUE"}
PaymentStatuses == {"PENDING", "PARTIALLY_PAID", "PAID", "OVERDUE", "CANCELLED"}
InvoiceStatuses == {"NONE", "DRAFT", "ISSUED", "SENT", "CANCELLED"}
InvoiceRows == [status : InvoiceStatuses, pay : PaymentStatuses, total : Nat, paid : Nat]
NoInvoice == [status |-> "NONE", pay |-> "PENDING", total |-> 0, paid |-> 0]

RequestStates ==
    {[pc |-> Idle]}
    \cup [pc : {"pay"}, item : Items, amount : Amounts, seen : Nat]
    \cup [pc : {"invoicing"}, invoice : Sales, total : Nat]
    \cup [pc : {"remove", "issue", "cancel", "email"}, invoice : Invoices]

TypeOK ==
    /\ total \in [Sales -> Nat]
    /\ item \in [Items -> [status : ItemStatuses, total : Nat, paid : Nat]]
    /\ invoice \in [Invoices -> InvoiceRows]
    /\ allocated \in [Items -> Nat] /\ instalments \in [Items -> Nat]
    /\ direct \in [Invoices -> Nat] /\ deposits \in [Invoices -> Nat]
    /\ ledger \in [cash : Int, ar : Int, ap : Int]
    /\ req \in [Requests -> RequestStates]

Init ==
    /\ total \in [Sales -> Totals]
    /\ item = [i \in Items |-> [status |-> "NONE", total |-> 0, paid |-> 0]]
    /\ invoice = [v \in Invoices |-> NoInvoice]
    /\ allocated = [i \in Items |-> 0] /\ instalments = [i \in Items |-> 0]
    /\ direct = [v \in Invoices |-> 0] /\ deposits = [v \in Invoices |-> 0]
    /\ ledger = [cash |-> 0, ar |-> 0, ap |-> 0]
    /\ req = [r \in Requests |-> [pc |-> Idle]]

Goto(r, state) == req' = [req EXCEPT ![r] = state]
Free(r) == req[r].pc = Idle
Finish(r) == Goto(r, [pc |-> Idle])

\* What x + y and x - y may come to (Number(...) of both columns): the nearest
\* number JavaScript has, so that adding nothing changes nothing, a sum is no
\* less than what is added, and a difference has the right sign.
Rounded(n) == (n - Rounding) .. (n + Rounding)
FloatSum(x, y) == {z \in Rounded(x + y) : z >= x /\ z >= y /\ (x = 0 => z = y)}
FloatDifference(x, y) ==
    {z \in Rounded(x - y) : (z > 0 <=> x > y) /\ (z = 0 <=> x = y) /\ (y = 0 => z = x)}

-----------------------------------------------------------------------------
(* Receivables and payables: opened by the transaction that delivers or    *)
(* receives the order (Trade), with their journal entry.                   *)

OpenItem(i, n) ==
    /\ item[i].status = "NONE"
    /\ i \in Sales => n = total[i]
    /\ item' = [item EXCEPT ![i] = [status |-> "PENDING", total |-> n, paid |-> 0]]
    /\ ledger' = IF i \in Sales THEN [ledger EXCEPT !.ar = @ + n]
                                ELSE [ledger EXCEPT !.ap = @ + n]
    /\ UNCHANGED <<total, invoice, allocated, instalments, direct, deposits, req>>

\* An edit of the sale that began before it was confirmed commits late.
LateEdit(s, n) ==
    /\ total' = [total EXCEPT ![s] = n]
    /\ UNCHANGED <<item, invoice, books, req>>

\* The daily job, row by row.
ItemOverdue(i) ==
    /\ i \in Followed
    /\ item[i].status \in {"PENDING", "PARTIALLY_PAID"}
    /\ item' = [item EXCEPT ![i].status = "OVERDUE"]
    /\ UNCHANGED <<total, invoice, books, req>>

-----------------------------------------------------------------------------
(* Payments of an item: createPayment and processPaymentAllocation.        *)

Payable(i, n) ==
    /\ item[i].status \notin {"NONE", "PAID"}
    /\ \E remaining \in FloatDifference(item[i].total, item[i].paid) : n <= remaining

WithinBound ==
    SumFunctionOnSet(instalments, Items) + SumFunctionOnSet(deposits, Invoices) < MaxPayments

PayChecks(r, i, n) ==
    /\ Free(r)
    /\ Payable(i, n)
    /\ Goto(r, [pc |-> "pay", item |-> i, amount |-> n, seen |-> item[i].paid])
    /\ UNCHANGED <<total, item, invoice, books>>

Progress(paid, of) == IF paid >= of THEN "PAID" ELSE "PARTIALLY_PAID"

\* FAULT: what was read before the lock decides what is written.
PaidAfterStale(r) == FloatSum(req[r].seen, req[r].amount)

\* What the payment may write is computed from the row under the lock.
PaidAfter(r) == FloatSum(item[req[r].item].paid, req[r].amount)

\* FAULT: the recheck under the lock is missing.
PayUnderLockAlways(r) == TRUE

PayUnderLock(r) == Payable(req[r].item, req[r].amount)

PayCommits(r) ==
    /\ req[r].pc = "pay"
    /\ PayUnderLock(r)
    /\ WithinBound
    /\ LET i == req[r].item
           n == req[r].amount IN
       /\ \E paid \in PaidAfter(r) :
            LET status == Progress(paid, item[i].total) IN
            /\ item' = [item EXCEPT ![i].paid = paid, ![i].status = status]
            /\ invoice' = IF i \in Sales /\ invoice[i].status # "NONE"
                          THEN [invoice EXCEPT ![i].paid = paid, ![i].pay = status]
                          ELSE invoice
       /\ allocated' = [allocated EXCEPT ![i] = @ + n]
       /\ instalments' = [instalments EXCEPT ![i] = @ + 1]
       /\ ledger' = IF i \in Sales
                    THEN [ledger EXCEPT !.cash = @ + n, !.ar = @ - n]
                    ELSE [ledger EXCEPT !.cash = @ - n, !.ap = @ - n]
    /\ Finish(r)
    /\ UNCHANGED <<total, direct, deposits>>

LeftOf(v) == FloatDifference(invoice[v].total, invoice[v].paid)

\* FAULT: any payment settles the invoice.
PaidDirectlyInFull(v, n) == {invoice[v].total}
PaidDirectly(v, n) == FloatSum(invoice[v].paid, n)

\* A payment that names an invoice and no receivable.
PayInvoice(v, n) ==
    /\ invoice[v].status \notin {"NONE", "CANCELLED"}
    /\ \E left \in LeftOf(v) : n <= left
    /\ WithinBound
    /\ \E paid \in PaidDirectly(v, n) :
         invoice' = [invoice EXCEPT ![v].paid = paid,
                                    ![v].pay = Progress(paid, invoice[v].total)]
    /\ direct' = [direct EXCEPT ![v] = @ + n]
    /\ deposits' = [deposits EXCEPT ![v] = @ + 1]
    /\ ledger' = [ledger EXCEPT !.cash = @ + n, !.ar = @ - n]
    /\ UNCHANGED <<total, item, allocated, instalments, req>>

-----------------------------------------------------------------------------
(* Invoices.                                                               *)

Draft(v, n) ==
    invoice' = [invoice EXCEPT ![v] =
                  [status |-> "DRAFT", pay |-> "PENDING", total |-> n, paid |-> 0]]

CreateByHand(v, n) ==
    /\ v \in Manual
    /\ invoice[v].status = "NONE"
    /\ Draft(v, n)
    /\ UNCHANGED <<total, item, books, req>>

\* createFromOrder, after the delivery or by hand: the sale is read first.
InvoiceReads(r, s) ==
    /\ Free(r)
    /\ s \in Sales
    /\ item[s].status # "NONE"
    /\ Goto(r, [pc |-> "invoicing", invoice |-> s, total |-> total[s]])
    /\ UNCHANGED <<total, item, invoice, books>>

\* Under the organization's advisory lock.
InvoiceCreates(r) ==
    /\ req[r].pc = "invoicing"
    /\ invoice[req[r].invoice].status = "NONE"
    /\ Draft(req[r].invoice, req[r].total)
    /\ Finish(r)
    /\ UNCHANGED <<total, item, books>>

Unpaid(v) == invoice[v].paid = 0 /\ invoice[v].pay \notin {"PARTIALLY_PAID", "PAID"}

\* remove, issue, cancel and emailInvoice read the invoice ...
MayStart(call, v) ==
    CASE call \in {"remove", "issue"} -> invoice[v].status = "DRAFT"
      [] call = "cancel" -> invoice[v].status \in {"ISSUED", "SENT"} /\ Unpaid(v)
      [] call = "email" -> invoice[v].status \in {"ISSUED", "SENT"}

InvoiceCall(r, call, v) ==
    /\ v \in Followed
    /\ Free(r)
    /\ MayStart(call, v)
    /\ call = "email" => invoice[v].status = "ISSUED"   \* SENT is left as it is
    /\ Goto(r, [pc |-> call, invoice |-> v])
    /\ UNCHANGED <<total, item, invoice, books>>

\* FAULT: a cancelled invoice gets the status of a voided subscription invoice.
WrittenVoid(call, row) ==
    CASE call = "remove" -> NoInvoice
      [] call = "issue"  -> [row EXCEPT !.status = "ISSUED"]
      [] call = "cancel" -> [row EXCEPT !.status = "VOID", !.pay = "CANCELLED"]
      [] call = "email"  -> [row EXCEPT !.status = "SENT"]

\* ... and write it without a condition; a row that is gone is an error.
Written(call, row) ==
    CASE call = "remove" -> NoInvoice
      [] call = "issue"  -> [row EXCEPT !.status = "ISSUED"]
      [] call = "cancel" -> [row EXCEPT !.status = "CANCELLED", !.pay = "CANCELLED"]
      [] call = "email"  -> [row EXCEPT !.status = "SENT"]

InvoiceWrites(r) ==
    /\ req[r].pc \in {"remove", "issue", "cancel", "email"}
    /\ LET v == req[r].invoice IN
       /\ invoice[v].status # "NONE"
       /\ invoice' = [invoice EXCEPT ![v] = Written(req[r].pc, @)]
    /\ Finish(r)
    /\ UNCHANGED <<total, item, books>>

InvoiceOverdue(v) ==
    /\ v \in Followed
    /\ invoice[v].status \notin {"NONE", "CANCELLED"}
    /\ invoice[v].pay \in {"PENDING", "PARTIALLY_PAID"}
    /\ invoice' = [invoice EXCEPT ![v].pay = "OVERDUE"]
    /\ UNCHANGED <<total, item, books, req>>

\* A check fails, the transaction rolls back or the process dies.
RequestFails(r) ==
    /\ ~Free(r)
    /\ Finish(r)
    /\ UNCHANGED <<total, item, invoice, books>>

Next ==
    \/ \E i \in Items, n \in Totals : OpenItem(i, n)
    \/ \E s \in Sales, n \in Totals : LateEdit(s, n)
    \/ \E i \in Items : ItemOverdue(i)
    \/ \E r \in Requests, i \in Items, n \in Amounts : PayChecks(r, i, n)
    \/ \E v \in Invoices, n \in Amounts : PayInvoice(v, n)
    \/ \E v \in Invoices, n \in Totals : CreateByHand(v, n)
    \/ \E r \in Requests, s \in Sales : InvoiceReads(r, s)
    \/ \E r \in Requests, v \in Invoices, call \in {"remove", "issue", "cancel", "email"} :
         InvoiceCall(r, call, v)
    \/ \E v \in Invoices : InvoiceOverdue(v)
    \/ \E r \in Requests :
         PayCommits(r) \/ InvoiceCreates(r) \/ InvoiceWrites(r) \/ RequestFails(r)

Spec == Init /\ [][Next]_vars

-----------------------------------------------------------------------------
Near(x, y, off) == x <= y + off /\ y <= x + off

\* How far what an item or an invoice says was paid may be off.
slackOfItem == [i \in Items |-> Rounding * instalments[i]]
slackOfInvoice == [v \in Invoices |-> Rounding * deposits[v]]

(* However payments, overdue runs, retries and failures interleave, what   *)
(* an item says was paid is what was allocated to it, exactly after one    *)
(* payment and up to one rounding for each payment after several; it is at *)
(* most the rounding of one check and one sum above the total, and the     *)
(* item is PAID exactly when what it says was paid reaches the total.      *)
SettledToRounding ==
    \A i \in Items :
        /\ Near(item[i].paid, allocated[i], slackOfItem[i])
        /\ instalments[i] <= 1 => item[i].paid = allocated[i]
        /\ item[i].paid <= item[i].total + 2 * Rounding
        /\ item[i].status = "PAID" => item[i].paid >= item[i].total
        /\ item[i].paid >= item[i].total /\ item[i].total > 0 => item[i].status = "PAID"

(* The control accounts, which take the amounts themselves, agree with the *)
(* open items up to the rounding of these: receivables less what was paid  *)
(* to invoices directly, payables, and the cash of all payments.           *)
LedgerAgrees ==
    LET left == [i \in Items |-> item[i].total - item[i].paid]
        paid == [i \in Items |-> item[i].paid]
        Sum(f, S) == SumFunctionOnSet(f, S) IN
    /\ Near(ledger.ar, Sum(left, Sales) - Sum(direct, Invoices), Sum(slackOfItem, Sales))
    /\ Near(ledger.ap, Sum(left, Bills), Sum(slackOfItem, Bills))
    /\ Near(ledger.cash, Sum(paid, Sales) + Sum(direct, Invoices) - Sum(paid, Bills),
            Sum(slackOfItem, Sales) + Sum(slackOfItem, Bills))

(* An invoice never shows more money than was received for it, but for the *)
(* rounding of the payments, whatever was deleted and made again, paid on  *)
(* either way or cancelled meanwhile.                                      *)
InvoiceNeverOverstates ==
    \A v \in Invoices :
        /\ invoice[v].paid <= direct[v] + slackOfInvoice[v]
                              + (IF v \in Sales THEN allocated[v] + slackOfItem[v] ELSE 0)
        /\ v \in Manual => invoice[v].paid <= invoice[v].total + 2 * Rounding

billedView == {i \in Items : item[i].status # "NONE"}
openView == [i \in Items |-> item[i].total - item[i].paid]
settledView == {i \in Items : item[i].status = "PAID"}

Abstract == INSTANCE OpenItems WITH
    billed <- billedView, open <- openView, settled <- settledView, received <- allocated

(* Payments with their check, their lock and their recheck implement open  *)
(* items that are paid in instalments.                                     *)
ImplementsOpenItems == Abstract!OpenItemsSpec
=============================================================================
