-------------------------- MODULE SettlementProofs --------------------------
(***************************************************************************)
(* Proofs about Settlement: its types, that items and invoices show what   *)
(* was allocated, that the control accounts agree with the open items, and *)
(* that it implements OpenItems.                                           *)
(***************************************************************************)
EXTENDS Settlement, Sums

ItemRows == [status : ItemStatuses, total : Nat, paid : Nat]
LedgerRows == [cash : Int, ar : Int, ap : Int]

\* What a request carries.
LEMMA Carried ==
    ASSUME req \in [Requests -> RequestStates], NEW r \in Requests
    PROVE  /\ req[r].pc = "pay" => req[r].item \in Items /\ req[r].amount \in Amounts
           /\ req[r].pc = "invoicing" => req[r].invoice \in Sales /\ req[r].total \in Nat
           /\ req[r].pc \in {"remove", "issue", "cancel", "email"} => req[r].invoice \in Invoices
<1> req[r] \in RequestStates
    OBVIOUS
<1> QED
    BY SettlementAssumption DEF RequestStates

LEMMA FinishTyped ==
    ASSUME req \in [Requests -> RequestStates], NEW r \in Requests, Finish(r)
    PROVE  req' \in [Requests -> RequestStates]
BY DEF Finish, Goto, RequestStates

(* An item that is not open owes nothing and was not paid; before the first *)
(* payment nothing was allocated.                                          *)
Fresh ==
    \A i \in Items :
        /\ item[i].status = "NONE" => item[i].paid = 0 /\ item[i].total = 0
        /\ instalments[i] = 0 => item[i].paid = 0 /\ allocated[i] = 0

IInv == TypeOK /\ Fresh /\ SettledToRounding /\ InvoiceNeverOverstates

-----------------------------------------------------------------------------
(* Rounded arithmetic.                                                     *)

LEMMA SumRounded ==
    ASSUME NEW x \in Nat, NEW y \in Nat, NEW z \in FloatSum(x, y)
    PROVE  z \in Nat /\ Near(z, x + y, Rounding) /\ (x = 0 => z = y)
BY SettlementAssumption DEF FloatSum, Rounded, Near

LEMMA DifferenceRounded ==
    ASSUME NEW x \in Nat, NEW y \in Nat, NEW z \in FloatDifference(x, y)
    PROVE  z \in Int /\ z <= x - y + Rounding
BY SettlementAssumption DEF FloatDifference, Rounded

\* One more payment may be off by one more rounding.
LEMMA SlackGrows ==
    ASSUME NEW k \in Nat
    PROVE  Rounding * k \in Nat /\ Rounding * (k + 1) = Rounding * k + Rounding
BY SettlementAssumption

-----------------------------------------------------------------------------
(* What the steps do to the rows.                                          *)

SameRows == UNCHANGED <<item, invoice, books>>

\* Item i opens with n.
Opened(i, n) ==
    /\ i \in Items /\ n \in Nat
    /\ item[i].status = "NONE"
    /\ item' = [item EXCEPT ![i] = [status |-> "PENDING", total |-> n, paid |-> 0]]
    /\ ledger' = IF i \in Sales THEN [ledger EXCEPT !.ar = @ + n]
                                ELSE [ledger EXCEPT !.ap = @ + n]
    /\ UNCHANGED <<invoice, allocated, instalments, direct, deposits>>

\* n is paid to item i, which then says that paid was paid and has the status;
\* its invoice shows the same.
Paid(i, n, paid, status) ==
    /\ i \in Items /\ n \in Nat /\ n > 0 /\ paid \in Nat
    /\ item[i].status \notin {"NONE", "PAID"}
    /\ n <= item[i].total - item[i].paid + Rounding
    /\ Near(paid, item[i].paid + n, Rounding)
    /\ item[i].paid = 0 => paid = n
    /\ status = IF paid >= item[i].total THEN "PAID" ELSE "PARTIALLY_PAID"
    /\ item' = [item EXCEPT ![i] = [status |-> status, total |-> item[i].total, paid |-> paid]]
    /\ allocated' = [allocated EXCEPT ![i] = allocated[i] + n]
    /\ instalments' = [instalments EXCEPT ![i] = instalments[i] + 1]
    /\ \/ invoice' = invoice
       \/ /\ i \in Sales
          /\ invoice' = [invoice EXCEPT ![i] = [status |-> invoice[i].status, pay |-> status,
                              total |-> invoice[i].total, paid |-> paid]]
    /\ ledger' = IF i \in Sales THEN [ledger EXCEPT !.cash = @ + n, !.ar = @ - n]
                                ELSE [ledger EXCEPT !.cash = @ - n, !.ap = @ - n]
    /\ direct' = direct /\ deposits' = deposits

\* The daily job marks an item.
Marked(i) ==
    /\ i \in Items
    /\ item[i].status \in {"PENDING", "PARTIALLY_PAID"}
    /\ item' = [item EXCEPT ![i] = [status |-> "OVERDUE", total |-> item[i].total,
                                    paid |-> item[i].paid]]
    /\ UNCHANGED <<invoice, books>>

\* n is paid to invoice v directly, which then says that paid was paid.
PaidToInvoice(v, n, paid) ==
    /\ v \in Invoices /\ n \in Nat /\ paid \in Nat
    /\ n <= invoice[v].total - invoice[v].paid + Rounding
    /\ Near(paid, invoice[v].paid + n, Rounding)
    /\ \E pay \in PaymentStatuses :
         invoice' = [invoice EXCEPT ![v] = [status |-> invoice[v].status, pay |-> pay,
                        total |-> invoice[v].total, paid |-> paid]]
    /\ direct' = [direct EXCEPT ![v] = direct[v] + n]
    /\ deposits' = [deposits EXCEPT ![v] = deposits[v] + 1]
    /\ ledger' = [ledger EXCEPT !.cash = @ + n, !.ar = @ - n]
    /\ UNCHANGED <<item, allocated, instalments>>

\* Invoice v is made, deleted or changes its status; what it shows as paid is
\* kept, or nothing.
Turned(v) ==
    /\ v \in Invoices
    /\ \E row \in InvoiceRows :
         /\ invoice' = [invoice EXCEPT ![v] = row]
         /\ row.paid = 0 \/ (row.paid = invoice[v].paid /\ row.total = invoice[v].total)
    /\ UNCHANGED <<item, books>>

Effects ==
    \/ SameRows
    \/ \E i \in Items, n \in Nat : Opened(i, n)
    \/ \E i \in Items, n \in Nat, paid \in Nat, status \in {"PAID", "PARTIALLY_PAID"} :
         Paid(i, n, paid, status)
    \/ \E i \in Items : Marked(i)
    \/ \E v \in Invoices, n \in Nat, paid \in Nat : PaidToInvoice(v, n, paid)
    \/ \E v \in Invoices : Turned(v)

\* Two fields of one row are written.
LEMMA ItemWritten ==
    ASSUME NEW row \in ItemRows, NEW p \in Nat, NEW q
    PROVE  [[row EXCEPT !.paid = p] EXCEPT !.status = q]
             = [status |-> q, total |-> row.total, paid |-> p]
<1>1. PICK one : one = [row EXCEPT !.paid = p]
    OBVIOUS
<1>2. one = [status |-> row.status, total |-> row.total, paid |-> p]
    BY <1>1 DEF ItemRows
<1>3. one \in ItemRows /\ one.total = row.total /\ one.paid = p
    BY <1>2 DEF ItemRows
<1>4. [one EXCEPT !.status = q] = [status |-> q, total |-> one.total, paid |-> one.paid]
    BY <1>3 DEF ItemRows
<1> QED
    BY <1>1, <1>3, <1>4

LEMMA InvoiceWritten ==
    ASSUME NEW row \in InvoiceRows, NEW p \in Nat, NEW q
    PROVE  [[row EXCEPT !.paid = p] EXCEPT !.pay = q]
             = [status |-> row.status, pay |-> q, total |-> row.total, paid |-> p]
<1>1. PICK one : one = [row EXCEPT !.paid = p]
    OBVIOUS
<1>2. one = [status |-> row.status, pay |-> row.pay, total |-> row.total, paid |-> p]
    BY <1>1 DEF InvoiceRows
<1>3. /\ one \in InvoiceRows /\ one.status = row.status
      /\ one.total = row.total /\ one.paid = p
    BY <1>2 DEF InvoiceRows
<1>4. [one EXCEPT !.pay = q]
        = [status |-> one.status, pay |-> q, total |-> one.total, paid |-> one.paid]
    BY <1>3 DEF InvoiceRows
<1> QED
    BY <1>1, <1>3, <1>4

\* Every step has one of these effects.
LEMMA StepEffect ==
    ASSUME TypeOK, Next
    PROVE  Effects
<1> USE SettlementAssumption DEF TypeOK
<1>1. ASSUME NEW i \in Items, NEW n \in Totals, OpenItem(i, n)
      PROVE  Opened(i, n) /\ n \in Nat
    BY <1>1 DEF OpenItem, Opened
<1>2. ASSUME NEW i \in Items, ItemOverdue(i)
      PROVE  Marked(i)
    <2>1. item[i] \in ItemRows
        BY DEF ItemRows
    <2>2. [item[i] EXCEPT !.status = "OVERDUE"]
            = [status |-> "OVERDUE", total |-> item[i].total, paid |-> item[i].paid]
        BY <2>1 DEF ItemRows
    <2> QED
        BY <1>2, <2>2 DEF ItemOverdue, Marked
<1>3. ASSUME NEW r \in Requests, PayCommits(r)
      PROVE  Effects
    <2>1. req[r].item \in Items /\ req[r].amount \in Nat /\ req[r].amount > 0
        BY <1>3, Carried DEF PayCommits
    <2>2. PICK i \in Items, n \in Nat : i = req[r].item /\ n = req[r].amount /\ n > 0
        BY <2>1
    <2>3. item[i] \in ItemRows
        BY <2>2 DEF ItemRows
    <2>4. item[i].paid \in Nat /\ item[i].total \in Nat
        BY <2>3 DEF ItemRows
    <2>5. PICK paid \in Nat :
            /\ Near(paid, item[i].paid + n, Rounding) /\ (item[i].paid = 0 => paid = n)
            /\ item' = [item EXCEPT ![i].paid = paid,
                                    ![i].status = Progress(paid, item[i].total)]
            /\ invoice' = IF i \in Sales /\ invoice[i].status # "NONE"
                          THEN [invoice EXCEPT ![i].paid = paid,
                                               ![i].pay = Progress(paid, item[i].total)]
                          ELSE invoice
        <3>1. \A paid \in FloatSum(item[i].paid, n) :
                 paid \in Nat /\ Near(paid, item[i].paid + n, Rounding) /\ (item[i].paid = 0 => paid = n)
            BY <2>2, <2>4, SumRounded
        <3>2. \E paid \in FloatSum(item[i].paid, n) :
                /\ item' = [item EXCEPT ![i].paid = paid,
                                        ![i].status = Progress(paid, item[i].total)]
                /\ invoice' = IF i \in Sales /\ invoice[i].status # "NONE"
                              THEN [invoice EXCEPT ![i].paid = paid,
                                                   ![i].pay = Progress(paid, item[i].total)]
                              ELSE invoice
            BY <1>3, <2>2, Zenon DEF PayCommits, PaidAfter
        <3> QED
            BY <3>1, <3>2, Zenon
    <2>6. PICK status : status = Progress(paid, item[i].total)
        OBVIOUS
    <2>7. /\ item' = [item EXCEPT ![i].paid = paid, ![i].status = status]
          /\ invoice' = IF i \in Sales /\ invoice[i].status # "NONE"
                        THEN [invoice EXCEPT ![i].paid = paid, ![i].pay = status]
                        ELSE invoice
        BY <2>5, <2>6
    <2>8. /\ item[i].status \notin {"NONE", "PAID"}
          /\ \E remaining \in FloatDifference(item[i].total, item[i].paid) : n <= remaining
          /\ allocated' = [allocated EXCEPT ![i] = allocated[i] + n]
          /\ instalments' = [instalments EXCEPT ![i] = instalments[i] + 1]
          /\ ledger' = IF i \in Sales THEN [ledger EXCEPT !.cash = @ + n, !.ar = @ - n]
                                      ELSE [ledger EXCEPT !.cash = @ - n, !.ap = @ - n]
          /\ direct' = direct /\ deposits' = deposits
        BY <1>3, <2>2, Zenon DEF PayCommits, PayUnderLock, Payable
    <2>9. n <= item[i].total - item[i].paid + Rounding
        <3>1. \A remaining \in FloatDifference(item[i].total, item[i].paid) :
                remaining \in Int /\ remaining <= item[i].total - item[i].paid + Rounding
            BY <2>4, DifferenceRounded
        <3>2. PICK remaining \in Int :
                n <= remaining /\ remaining <= item[i].total - item[i].paid + Rounding
            BY <2>8, <3>1
        <3> QED
            BY <2>2, <2>4, <3>2
    <2>10. status = IF paid >= item[i].total THEN "PAID" ELSE "PARTIALLY_PAID"
        BY <2>6 DEF Progress
    <2>11. item' = [item EXCEPT ![i] = [status |-> status, total |-> item[i].total, paid |-> paid]]
        <3>1. item' = [item EXCEPT ![i] = [[item[i] EXCEPT !.paid = paid] EXCEPT !.status = status]]
            BY <2>7
        <3>2. [[item[i] EXCEPT !.paid = paid] EXCEPT !.status = status]
                = [status |-> status, total |-> item[i].total, paid |-> paid]
            BY <2>3, ItemWritten
        <3> QED
            BY <3>1, <3>2
    <2>12. \/ invoice' = invoice
           \/ /\ i \in Sales
              /\ invoice' = [invoice EXCEPT ![i] = [status |-> invoice[i].status, pay |-> status,
                                total |-> invoice[i].total, paid |-> paid]]
        <3>1. CASE i \in Sales /\ invoice[i].status # "NONE"
            <4>1. invoice' = [invoice EXCEPT ![i] =
                                [[invoice[i] EXCEPT !.paid = paid] EXCEPT !.pay = status]]
                BY <2>7, <3>1
            <4>2. invoice[i] \in InvoiceRows
                BY <3>1 DEF Invoices
            <4>3. [[invoice[i] EXCEPT !.paid = paid] EXCEPT !.pay = status]
                    = [status |-> invoice[i].status, pay |-> status,
                       total |-> invoice[i].total, paid |-> paid]
                BY <4>2, InvoiceWritten
            <4> QED
                BY <3>1, <4>1, <4>3
        <3> QED
            BY <2>7, <3>1
    <2>13. Paid(i, n, paid, status)
        BY <2>2, <2>5, <2>8, <2>9, <2>10, <2>11, <2>12, Zenon DEF Paid
    <2> QED
        BY <2>10, <2>13 DEF Effects
<1>4. ASSUME NEW v \in Invoices, NEW n \in Amounts, PayInvoice(v, n)
      PROVE  n \in Nat /\ \E paid \in Nat : PaidToInvoice(v, n, paid)
    <2>1. invoice[v] \in InvoiceRows /\ invoice[v].paid \in Nat /\ invoice[v].total \in Nat /\ n \in Nat
        BY DEF InvoiceRows
    <2>2. PICK paid \in Nat :
            /\ Near(paid, invoice[v].paid + n, Rounding)
            /\ invoice' = [invoice EXCEPT ![v].paid = paid,
                                          ![v].pay = Progress(paid, invoice[v].total)]
        <3>1. \A paid \in FloatSum(invoice[v].paid, n) :
                 paid \in Nat /\ Near(paid, invoice[v].paid + n, Rounding)
            BY <2>1, SumRounded
        <3>2. \E paid \in FloatSum(invoice[v].paid, n) :
                invoice' = [invoice EXCEPT ![v].paid = paid,
                                           ![v].pay = Progress(paid, invoice[v].total)]
            BY <1>4, Zenon DEF PayInvoice, PaidDirectly
        <3> QED
            BY <3>1, <3>2, Zenon
    <2>3. PICK pay : pay = Progress(paid, invoice[v].total)
        OBVIOUS
    <2>4. pay \in PaymentStatuses
        BY <2>3 DEF Progress, PaymentStatuses
    <2>5. invoice' = [invoice EXCEPT ![v].paid = paid, ![v].pay = pay]
        BY <2>2, <2>3
    <2>6. invoice' = [invoice EXCEPT ![v] = [status |-> invoice[v].status, pay |-> pay,
                        total |-> invoice[v].total, paid |-> paid]]
        <3>1. invoice' = [invoice EXCEPT ![v] = [[invoice[v] EXCEPT !.paid = paid] EXCEPT !.pay = pay]]
            BY <2>5
        <3>2. [[invoice[v] EXCEPT !.paid = paid] EXCEPT !.pay = pay]
                = [status |-> invoice[v].status, pay |-> pay,
                   total |-> invoice[v].total, paid |-> paid]
            BY <2>1, InvoiceWritten
        <3> QED
            BY <3>1, <3>2
    <2>7. n <= invoice[v].total - invoice[v].paid + Rounding
        <3>1. \A left \in LeftOf(v) : left \in Int /\ left <= invoice[v].total - invoice[v].paid + Rounding
            BY <2>1, DifferenceRounded DEF LeftOf
        <3>2. PICK left \in Int :
                n <= left /\ left <= invoice[v].total - invoice[v].paid + Rounding
            BY <1>4, <3>1 DEF PayInvoice
        <3> QED
            BY <2>1, <3>2
    <2>8. PaidToInvoice(v, n, paid)
        <3>1. /\ direct' = [direct EXCEPT ![v] = direct[v] + n]
              /\ deposits' = [deposits EXCEPT ![v] = deposits[v] + 1]
              /\ ledger' = [ledger EXCEPT !.cash = @ + n, !.ar = @ - n]
              /\ UNCHANGED <<item, allocated, instalments>>
            BY <1>4 DEF PayInvoice
        <3> QED
            BY <2>1, <2>2, <2>4, <2>6, <2>7, <3>1, Zenon DEF PaidToInvoice
    <2> QED
        BY <2>1, <2>2, <2>8
<1>5. ASSUME NEW v \in Invoices, NEW n \in Nat, Draft(v, n), UNCHANGED <<item, books>>
      PROVE  Turned(v)
    <2>1. [status |-> "DRAFT", pay |-> "PENDING", total |-> n, paid |-> 0] \in InvoiceRows
        BY DEF InvoiceRows, InvoiceStatuses, PaymentStatuses
    <2> QED
        BY <1>5, <2>1 DEF Draft, Turned
<1>6. ASSUME NEW v \in Invoices, NEW n \in Totals, CreateByHand(v, n)
      PROVE  Turned(v)
    BY <1>5, <1>6 DEF CreateByHand
<1>7. ASSUME NEW r \in Requests, InvoiceCreates(r)
      PROVE  Effects
    BY <1>5, <1>7, Carried DEF InvoiceCreates, Effects, Invoices
<1>8. ASSUME NEW v \in Invoices, InvoiceOverdue(v)
      PROVE  Turned(v)
    <2>1. invoice[v] \in InvoiceRows
        OBVIOUS
    <2>2. [invoice[v] EXCEPT !.pay = "OVERDUE"] \in InvoiceRows
        BY <2>1 DEF InvoiceRows, PaymentStatuses
    <2>3. [invoice[v] EXCEPT !.pay = "OVERDUE"].paid = invoice[v].paid
          /\ [invoice[v] EXCEPT !.pay = "OVERDUE"].total = invoice[v].total
        BY <2>1 DEF InvoiceRows
    <2> QED
        BY <1>8, <2>2, <2>3 DEF InvoiceOverdue, Turned
<1>9. ASSUME NEW r \in Requests, InvoiceWrites(r)
      PROVE  Effects
    <2>1. PICK v \in Invoices : v = req[r].invoice
        BY <1>9, Carried DEF InvoiceWrites
    <2>2. PICK row : row = Written(req[r].pc, invoice[v])
        OBVIOUS
    <2>3. invoice[v] \in InvoiceRows
        OBVIOUS
    <2>4. row \in InvoiceRows
        BY <1>9, <2>2, <2>3 DEF InvoiceWrites, Written, InvoiceRows, NoInvoice, InvoiceStatuses,
           PaymentStatuses
    <2>5. row.paid = 0 \/ (row.paid = invoice[v].paid /\ row.total = invoice[v].total)
        BY <1>9, <2>2, <2>3 DEF InvoiceWrites, Written, InvoiceRows, NoInvoice
    <2>6. Turned(v)
        BY <1>9, <2>1, <2>2, <2>4, <2>5 DEF InvoiceWrites, Turned
    <2> QED
        BY <2>6 DEF Effects
<1> QED
    BY <1>1, <1>2, <1>3, <1>4, <1>6, <1>7, <1>8, <1>9
    DEF Next, Effects, SameRows, LateEdit, PayChecks, InvoiceReads, InvoiceCall, RequestFails

-----------------------------------------------------------------------------
(* The inductive invariant.                                                *)

LEMMA RequestsTyped ==
    ASSUME TypeOK, Next
    PROVE  req' \in [Requests -> RequestStates]
<1> USE SettlementAssumption DEF TypeOK
<1>1. ASSUME NEW r \in Requests, NEW i \in Items, NEW n \in Amounts, PayChecks(r, i, n)
      PROVE  req' \in [Requests -> RequestStates]
    <2>1. item[i].paid \in Nat
        OBVIOUS
    <2>2. [pc |-> "pay", item |-> i, amount |-> n, seen |-> item[i].paid] \in RequestStates
        BY <2>1 DEF RequestStates
    <2>3. req' = [req EXCEPT ![r] = [pc |-> "pay", item |-> i, amount |-> n, seen |-> item[i].paid]]
        BY <1>1 DEF PayChecks, Goto
    <2> QED
        BY <2>2, <2>3
<1>2. ASSUME NEW r \in Requests, NEW s \in Sales, InvoiceReads(r, s)
      PROVE  req' \in [Requests -> RequestStates]
    <2>1. [pc |-> "invoicing", invoice |-> s, total |-> total[s]] \in RequestStates
        BY DEF RequestStates
    <2> QED
        BY <1>2, <2>1 DEF InvoiceReads, Goto
<1>3. ASSUME NEW r \in Requests, NEW v \in Invoices,
             NEW call \in {"remove", "issue", "cancel", "email"}, InvoiceCall(r, call, v)
      PROVE  req' \in [Requests -> RequestStates]
    <2>1. [pc |-> call, invoice |-> v] \in RequestStates
        BY DEF RequestStates
    <2> QED
        BY <1>3, <2>1 DEF InvoiceCall, Goto
<1>4. ASSUME NEW r \in Requests,
             PayCommits(r) \/ InvoiceCreates(r) \/ InvoiceWrites(r) \/ RequestFails(r)
      PROVE  req' \in [Requests -> RequestStates]
    <2>1. Finish(r)
        BY <1>4 DEF PayCommits, InvoiceCreates, InvoiceWrites, RequestFails
    <2> QED
        BY <2>1, FinishTyped
<1>5. ASSUME req' = req
      PROVE  req' \in [Requests -> RequestStates]
    BY <1>5
<1>6. \/ UNCHANGED req
      \/ \E r \in Requests, i \in Items, n \in Amounts : PayChecks(r, i, n)
      \/ \E r \in Requests, s \in Sales : InvoiceReads(r, s)
      \/ \E r \in Requests, v \in Invoices, call \in {"remove", "issue", "cancel", "email"} :
           InvoiceCall(r, call, v)
      \/ \E r \in Requests :
           PayCommits(r) \/ InvoiceCreates(r) \/ InvoiceWrites(r) \/ RequestFails(r)
    BY DEF Next, OpenItem, LateEdit, ItemOverdue, PayInvoice, CreateByHand, InvoiceOverdue
<1> DEFINE Goal == req' \in [Requests -> RequestStates]
<1>7. \A r \in Requests :
        /\ \A i \in Items, n \in Amounts : PayChecks(r, i, n) => Goal
        /\ \A s \in Sales : InvoiceReads(r, s) => Goal
        /\ \A v \in Invoices, call \in {"remove", "issue", "cancel", "email"} :
             InvoiceCall(r, call, v) => Goal
        /\ PayCommits(r) \/ InvoiceCreates(r) \/ InvoiceWrites(r) \/ RequestFails(r) => Goal
    BY <1>1, <1>2, <1>3, <1>4
<1>8. req' = req => Goal
    BY <1>5
<1> HIDE DEF Goal, TypeOK
<1>9. Goal
    BY <1>6, <1>7, <1>8
<1> QED
    BY <1>9 DEF Goal

LEMMA LedgerTyped ==
    ASSUME TypeOK, Next
    PROVE  ledger' \in LedgerRows /\ total' \in [Sales -> Nat]
<1> USE SettlementAssumption DEF TypeOK, LedgerRows
<1>1. ASSUME NEW cash \in Int, NEW ar \in Int, NEW ap \in Int
      PROVE  [cash |-> cash, ar |-> ar, ap |-> ap] \in LedgerRows
    OBVIOUS
<1>2. ledger \in LedgerRows /\ ledger.cash \in Int /\ ledger.ar \in Int /\ ledger.ap \in Int
    OBVIOUS
<1>3. ASSUME NEW n \in Int
      PROVE  /\ [ledger EXCEPT !.ar = @ + n] \in LedgerRows
             /\ [ledger EXCEPT !.ap = @ + n] \in LedgerRows
    <2>1. [ledger EXCEPT !.ar = ledger.ar + n] \in LedgerRows
        BY <1>2
    <2>2. [ledger EXCEPT !.ap = ledger.ap + n] \in LedgerRows
        BY <1>2
    <2> QED
        BY <2>1, <2>2
<1>4. ASSUME NEW n \in Int
      PROVE  /\ [ledger EXCEPT !.cash = @ + n, !.ar = @ - n] \in LedgerRows
             /\ [ledger EXCEPT !.cash = @ - n, !.ap = @ - n] \in LedgerRows
    <2>1. PICK more, less : more = [ledger EXCEPT !.cash = ledger.cash + n]
                            /\ less = [ledger EXCEPT !.cash = ledger.cash - n]
        OBVIOUS
    <2>2. more \in LedgerRows /\ more.ar = ledger.ar /\ less \in LedgerRows /\ less.ap = ledger.ap
        BY <1>2, <2>1
    <2>3. [more EXCEPT !.ar = more.ar - n] \in LedgerRows
          /\ [less EXCEPT !.ap = less.ap - n] \in LedgerRows
        BY <2>2
    <2> QED
        BY <2>1, <2>2, <2>3
<1>5. ASSUME NEW r \in Requests, PayCommits(r)
      PROVE  ledger' \in LedgerRows /\ total' \in [Sales -> Nat]
    <2>1. PICK n \in Int : n = req[r].amount
        BY <1>5, Carried DEF PayCommits
    <2>2. /\ ledger' = IF req[r].item \in Sales THEN [ledger EXCEPT !.cash = @ + n, !.ar = @ - n]
                                                ELSE [ledger EXCEPT !.cash = @ - n, !.ap = @ - n]
          /\ total' = total
        BY <1>5, <2>1 DEF PayCommits
    <2> QED
        BY <1>4, <2>2
<1>6. ASSUME NEW v \in Invoices, NEW n \in Amounts, PayInvoice(v, n)
      PROVE  ledger' \in LedgerRows /\ total' \in [Sales -> Nat]
    <2>1. n \in Int
        OBVIOUS
    <2>2. ledger' = [ledger EXCEPT !.cash = @ + n, !.ar = @ - n] /\ total' = total
        BY <1>6 DEF PayInvoice
    <2>3. ledger' \in LedgerRows
        BY <1>4, <2>1, <2>2, Zenon
    <2> QED
        BY <2>2, <2>3
<1>7. ASSUME NEW i \in Items, NEW n \in Totals, OpenItem(i, n)
      PROVE  ledger' \in LedgerRows /\ total' \in [Sales -> Nat]
    BY <1>3, <1>7 DEF OpenItem
<1> QED
    BY <1>5, <1>6, <1>7
    DEF Next, LateEdit, ItemOverdue, CreateByHand, InvoiceOverdue, PayChecks,
        InvoiceReads, InvoiceCall, InvoiceCreates, InvoiceWrites, RequestFails, books

\* The slack of an item grows by one rounding with each payment.
LEMMA ItemSlack ==
    ASSUME TypeOK, NEW i \in Items, instalments' = [instalments EXCEPT ![i] = instalments[i] + 1]
    PROVE  /\ instalments' \in [Items -> Nat]
           /\ \A j \in Items : slackOfItem[j] \in Nat
           /\ \A j \in Items : slackOfItem'[j] = IF j = i THEN slackOfItem[j] + Rounding
                                                         ELSE slackOfItem[j]
<1>1. \A j \in Items : instalments[j] \in Nat
    BY DEF TypeOK
<1>2. \A j \in Items : instalments'[j] = IF j = i THEN instalments[j] + 1 ELSE instalments[j]
    BY DEF TypeOK
<1>3. instalments' \in [Items -> Nat]
    BY <1>1 DEF TypeOK
<1>4. \A j \in Items : /\ slackOfItem[j] = Rounding * instalments[j]
                       /\ slackOfItem'[j] = Rounding * instalments'[j]
    BY DEF slackOfItem
<1>5. \A j \in Items : /\ Rounding * instalments[j] \in Nat
                       /\ Rounding * (instalments[j] + 1) = Rounding * instalments[j] + Rounding
    BY <1>1, SlackGrows
<1> QED
    BY <1>2, <1>3, <1>4, <1>5, Zenon

LEMMA InvoiceSlack ==
    ASSUME TypeOK, NEW v \in Invoices, deposits' = [deposits EXCEPT ![v] = deposits[v] + 1]
    PROVE  /\ deposits' \in [Invoices -> Nat]
           /\ \A w \in Invoices : slackOfInvoice[w] \in Nat
           /\ \A w \in Invoices : slackOfInvoice'[w] = IF w = v THEN slackOfInvoice[w] + Rounding
                                                               ELSE slackOfInvoice[w]
<1>1. \A w \in Invoices : deposits[w] \in Nat
    BY DEF TypeOK
<1>2. \A w \in Invoices : deposits'[w] = IF w = v THEN deposits[w] + 1 ELSE deposits[w]
    BY DEF TypeOK
<1>3. deposits' \in [Invoices -> Nat]
    BY <1>1 DEF TypeOK
<1>4. \A w \in Invoices : /\ slackOfInvoice[w] = Rounding * deposits[w]
                          /\ slackOfInvoice'[w] = Rounding * deposits'[w]
    BY DEF slackOfInvoice
<1>5. \A w \in Invoices : /\ Rounding * deposits[w] \in Nat
                          /\ Rounding * (deposits[w] + 1) = Rounding * deposits[w] + Rounding
    BY <1>1, SlackGrows
<1> QED
    BY <1>2, <1>3, <1>4, <1>5, Zenon

LEMMA SlackTyped ==
    ASSUME TypeOK
    PROVE  /\ \A j \in Items : slackOfItem[j] \in Nat
           /\ \A w \in Invoices : slackOfInvoice[w] \in Nat
<1>1. /\ \A j \in Items : instalments[j] \in Nat
      /\ \A w \in Invoices : deposits[w] \in Nat
    BY DEF TypeOK
<1>2. /\ \A j \in Items : Rounding * instalments[j] \in Nat
      /\ \A w \in Invoices : Rounding * deposits[w] \in Nat
    BY <1>1, SlackGrows
<1> QED
    BY <1>2 DEF slackOfItem, slackOfInvoice

LEMMA SlackSame ==
    /\ instalments' = instalments => slackOfItem' = slackOfItem
    /\ deposits' = deposits => slackOfInvoice' = slackOfInvoice
BY DEF slackOfItem, slackOfInvoice

\* The clauses about one item and about one invoice.
ItemSettled(i) ==
    /\ Near(item[i].paid, allocated[i], slackOfItem[i])
    /\ instalments[i] <= 1 => item[i].paid = allocated[i]
    /\ item[i].paid <= item[i].total + 2 * Rounding
    /\ item[i].status = "PAID" => item[i].paid >= item[i].total
    /\ item[i].paid >= item[i].total /\ item[i].total > 0 => item[i].status = "PAID"

InvoiceHonest(v) ==
    /\ invoice[v].paid <= direct[v] + slackOfInvoice[v]
                          + (IF v \in Sales THEN allocated[v] + slackOfItem[v] ELSE 0)
    /\ v \in Manual => invoice[v].paid <= invoice[v].total + 2 * Rounding

LEMMA Clauses ==
    /\ SettledToRounding <=> \A i \in Items : ItemSettled(i)
    /\ InvoiceNeverOverstates <=> \A v \in Invoices : InvoiceHonest(v)
BY DEF SettledToRounding, InvoiceNeverOverstates, ItemSettled, InvoiceHonest

LEMMA ClausesNext ==
    /\ SettledToRounding' <=> \A i \in Items : ItemSettled(i)'
    /\ InvoiceNeverOverstates' <=> \A v \in Invoices : InvoiceHonest(v)'
BY DEF SettledToRounding, InvoiceNeverOverstates, ItemSettled, InvoiceHonest

LEMMA RowsKept ==
    ASSUME IInv, Next
    PROVE  /\ item' \in [Items -> ItemRows] /\ invoice' \in [Invoices -> InvoiceRows]
           /\ allocated' \in [Items -> Nat] /\ direct' \in [Invoices -> Nat]
           /\ instalments' \in [Items -> Nat] /\ deposits' \in [Invoices -> Nat]
           /\ Fresh' /\ SettledToRounding' /\ InvoiceNeverOverstates'
<1> DEFINE Typed == /\ item' \in [Items -> ItemRows] /\ invoice' \in [Invoices -> InvoiceRows]
                    /\ allocated' \in [Items -> Nat] /\ direct' \in [Invoices -> Nat]
                    /\ instalments' \in [Items -> Nat] /\ deposits' \in [Invoices -> Nat]
           Goal == Typed /\ Fresh' /\ SettledToRounding' /\ InvoiceNeverOverstates'
<1>1. /\ item \in [Items -> ItemRows] /\ invoice \in [Invoices -> InvoiceRows]
      /\ allocated \in [Items -> Nat] /\ direct \in [Invoices -> Nat]
      /\ instalments \in [Items -> Nat] /\ deposits \in [Invoices -> Nat]
    BY DEF IInv, TypeOK, ItemRows
<1>2. /\ \A i \in Items : /\ item[i].paid \in Nat /\ item[i].total \in Nat
                          /\ allocated[i] \in Nat /\ instalments[i] \in Nat
                          /\ slackOfItem[i] \in Nat /\ ItemSettled(i)
      /\ \A v \in Invoices : /\ invoice[v].paid \in Nat /\ invoice[v].total \in Nat
                             /\ direct[v] \in Nat /\ slackOfInvoice[v] \in Nat /\ InvoiceHonest(v)
      /\ Rounding \in Nat
      /\ \A s \in Sales : s \in Items
    <2>1. /\ \A i \in Items : item[i].paid \in Nat /\ item[i].total \in Nat
          /\ \A v \in Invoices : invoice[v].paid \in Nat /\ invoice[v].total \in Nat
        BY <1>1 DEF ItemRows, InvoiceRows
    <2>2. /\ \A i \in Items : slackOfItem[i] \in Nat
          /\ \A v \in Invoices : slackOfInvoice[v] \in Nat
        BY SlackTyped DEF IInv
    <2>3. (\A i \in Items : ItemSettled(i)) /\ (\A v \in Invoices : InvoiceHonest(v))
        BY Clauses DEF IInv
    <2>4. Rounding \in Nat /\ \A s \in Sales : s \in Items
        BY SettlementAssumption DEF Items
    <2> QED
        BY <1>1, <2>1, <2>2, <2>3, <2>4
<1>3. CASE SameRows
    <2>1. UNCHANGED <<item, invoice, allocated, instalments, direct, deposits>>
        BY <1>3 DEF SameRows, books
    <2>2. UNCHANGED <<slackOfItem, slackOfInvoice>>
        BY <2>1, SlackSame
    <2> QED
        BY <1>1, <2>1, <2>2 DEF IInv, Fresh, SettledToRounding, InvoiceNeverOverstates
<1>4. ASSUME NEW i \in Items, NEW n \in Nat, Opened(i, n)
      PROVE  Goal
    <2>1. [status |-> "PENDING", total |-> n, paid |-> 0] \in ItemRows
        BY DEF ItemRows, ItemStatuses
    <2>2. /\ UNCHANGED <<invoice, allocated, instalments, direct, deposits>>
          /\ UNCHANGED <<slackOfItem, slackOfInvoice>>
        BY <1>4, SlackSame DEF Opened
    <2>3. item' \in [Items -> ItemRows] /\ Fresh'
        BY <1>1, <1>4, <2>1, <2>2 DEF Opened, IInv, Fresh
    <2>4. \A j \in Items : ItemSettled(j)'
        <3> SUFFICES ASSUME NEW j \in Items PROVE ItemSettled(j)'
            OBVIOUS
        <3>1. CASE j # i
            <4>1. item'[j] = item[j]
                BY <1>1, <1>4, <3>1 DEF Opened
            <4> QED
                BY <1>2, <2>2, <4>1 DEF ItemSettled
        <3>2. CASE j = i
            <4>1. /\ item'[i] = [status |-> "PENDING", total |-> n, paid |-> 0]
                  /\ item[i].paid = 0
                BY <1>1, <1>4 DEF Opened, IInv, Fresh
            <4> QED
                BY <1>2, <2>2, <3>2, <4>1 DEF ItemSettled
        <3> QED
            BY <3>1, <3>2
    <2>5. InvoiceNeverOverstates'
        BY <2>2 DEF IInv, InvoiceNeverOverstates
    <2> QED
        BY <1>1, <2>2, <2>3, <2>4, <2>5, ClausesNext
<1>5. ASSUME NEW i \in Items, NEW n \in Nat, NEW paid \in Nat,
             NEW status \in {"PAID", "PARTIALLY_PAID"}, Paid(i, n, paid, status)
      PROVE  Goal
    <2>1. /\ allocated[i] + n \in Nat
          /\ allocated' = [allocated EXCEPT ![i] = allocated[i] + n]
          /\ instalments' = [instalments EXCEPT ![i] = instalments[i] + 1]
          /\ direct' = direct /\ deposits' = deposits /\ slackOfInvoice' = slackOfInvoice
        BY <1>2, <1>5, SlackSame DEF Paid
    <2>2. /\ instalments' \in [Items -> Nat]
          /\ \A j \in Items : slackOfItem'[j] = IF j = i THEN slackOfItem[j] + Rounding
                                                        ELSE slackOfItem[j]
        BY <2>1, ItemSlack DEF IInv
    <2>3. item' \in [Items -> ItemRows] /\ allocated' \in [Items -> Nat]
        <3>1. [status |-> status, total |-> item[i].total, paid |-> paid] \in ItemRows
            BY <1>2 DEF ItemRows, ItemStatuses
        <3> QED
            BY <1>1, <1>5, <2>1, <3>1 DEF Paid
    <2>4. invoice' \in [Invoices -> InvoiceRows]
        <3>1. CASE i \in Sales
            <4>1. [status |-> invoice[i].status, pay |-> status, total |-> invoice[i].total,
                   paid |-> paid] \in InvoiceRows
                BY <1>1, <3>1 DEF InvoiceRows, PaymentStatuses, Invoices
            <4> QED
                BY <1>1, <1>5, <4>1 DEF Paid
        <3> QED
            BY <1>1, <1>5, <3>1 DEF Paid
    <2>5. /\ item'[i] = [status |-> status, total |-> item[i].total, paid |-> paid]
          /\ allocated'[i] = allocated[i] + n /\ instalments'[i] = instalments[i] + 1
          /\ \A j \in Items : j # i => /\ item'[j] = item[j] /\ allocated'[j] = allocated[j]
                                       /\ instalments'[j] = instalments[j]
        BY <1>1, <1>5, <2>1 DEF Paid
    <2>6. Fresh'
        BY <1>2, <1>5, <2>5 DEF Paid, IInv, Fresh
    <2>7. ItemSettled(i)'
        <3>1. Near(paid, allocated[i] + n, slackOfItem[i] + Rounding)
            BY <1>2, <1>5 DEF Paid, Near, ItemSettled
        <3>2. instalments[i] + 1 <= 1 => paid = allocated[i] + n
            BY <1>2, <1>5 DEF Paid, IInv, Fresh
        <3>3. paid <= item[i].total + 2 * Rounding
            BY <1>2, <1>5 DEF Paid, Near
        <3>4. /\ status = "PAID" => paid >= item[i].total
              /\ paid >= item[i].total => status = "PAID"
            BY <1>5 DEF Paid
        <3>5. /\ item'[i].status = status /\ item'[i].total = item[i].total /\ item'[i].paid = paid
              /\ slackOfItem'[i] = slackOfItem[i] + Rounding
            BY <2>2, <2>5
        <3> QED
            BY <2>5, <3>1, <3>2, <3>3, <3>4, <3>5 DEF ItemSettled
    <2>8. \A j \in Items : ItemSettled(j)'
        BY <1>2, <2>2, <2>5, <2>7 DEF ItemSettled
    <2>9. \A v \in Invoices : InvoiceHonest(v)'
        <3> SUFFICES ASSUME NEW v \in Invoices PROVE InvoiceHonest(v)'
            OBVIOUS
        <3>1. direct'[v] = direct[v] /\ slackOfInvoice'[v] = slackOfInvoice[v]
            BY <2>1
        <3>2. CASE v = i /\ i \in Sales
            <4>1. /\ allocated'[v] = allocated[i] + n /\ slackOfItem'[v] = slackOfItem[i] + Rounding
                BY <2>2, <2>5, <3>2
            <4>2. paid <= allocated[i] + n + slackOfItem[i] + Rounding
                BY <1>2, <1>5 DEF Paid, Near, ItemSettled
            <4>3. invoice'[v].paid = paid \/ invoice'[v] = invoice[v]
                BY <1>1, <1>5, <3>2 DEF Paid
            <4>4. v \notin Manual
                BY <3>2, SettlementAssumption
            <4>5. invoice[v].paid <= direct[v] + slackOfInvoice[v] + (allocated[i] + slackOfItem[i])
                BY <1>2, <3>2 DEF InvoiceHonest
            <4>6. invoice'[v].paid <= direct[v] + slackOfInvoice[v]
                                        + (allocated[i] + n + (slackOfItem[i] + Rounding))
                BY <1>2, <4>2, <4>3, <4>5
            <4> QED
                BY <3>1, <3>2, <4>1, <4>4, <4>6 DEF InvoiceHonest
        <3>3. CASE v # i \/ i \notin Sales
            <4>1. invoice'[v] = invoice[v]
                BY <1>1, <1>5, <3>3 DEF Paid
            <4>2. v \in Sales => allocated'[v] = allocated[v] /\ slackOfItem'[v] = slackOfItem[v]
                BY <1>2, <2>2, <2>5, <3>3
            <4> QED
                BY <1>2, <3>1, <4>1, <4>2 DEF InvoiceHonest
        <3> QED
            BY <3>2, <3>3
    <2>10. direct' \in [Invoices -> Nat] /\ deposits' \in [Invoices -> Nat]
        BY <1>1, <2>1
    <2> QED
        BY <2>2, <2>3, <2>4, <2>6, <2>8, <2>9, <2>10, ClausesNext
<1>6. ASSUME NEW i \in Items, Marked(i)
      PROVE  Goal
    <2>1. /\ UNCHANGED <<invoice, allocated, instalments, direct, deposits>>
          /\ UNCHANGED <<slackOfItem, slackOfInvoice>>
        BY <1>6, SlackSame DEF Marked, books
    <2>2. item' \in [Items -> ItemRows]
        <3>1. [status |-> "OVERDUE", total |-> item[i].total, paid |-> item[i].paid] \in ItemRows
            BY <1>2 DEF ItemRows, ItemStatuses
        <3> QED
            BY <1>1, <1>6, <3>1 DEF Marked
    <2>3. /\ item'[i] = [status |-> "OVERDUE", total |-> item[i].total, paid |-> item[i].paid]
          /\ item[i].status \in {"PENDING", "PARTIALLY_PAID"}
          /\ \A j \in Items : j # i => item'[j] = item[j]
        BY <1>1, <1>6 DEF Marked
    <2>4. Fresh'
        BY <1>2, <2>1, <2>3 DEF IInv, Fresh
    <2>5. \A j \in Items : ItemSettled(j)'
        BY <1>2, <2>1, <2>3 DEF ItemSettled
    <2>6. InvoiceNeverOverstates'
        BY <2>1 DEF IInv, InvoiceNeverOverstates
    <2> QED
        BY <1>1, <2>1, <2>2, <2>4, <2>5, <2>6, ClausesNext
<1>7. ASSUME NEW v \in Invoices, NEW n \in Nat, NEW paid \in Nat, PaidToInvoice(v, n, paid)
      PROVE  Goal
    <2>1. PICK pay \in PaymentStatuses :
            invoice' = [invoice EXCEPT ![v] = [status |-> invoice[v].status, pay |-> pay,
                          total |-> invoice[v].total, paid |-> paid]]
        BY <1>7 DEF PaidToInvoice
    <2>2. /\ direct[v] + n \in Nat
          /\ direct' = [direct EXCEPT ![v] = direct[v] + n]
          /\ deposits' = [deposits EXCEPT ![v] = deposits[v] + 1]
          /\ UNCHANGED <<item, allocated, instalments>> /\ slackOfItem' = slackOfItem
        BY <1>2, <1>7, SlackSame DEF PaidToInvoice
    <2>3. /\ deposits' \in [Invoices -> Nat]
          /\ \A w \in Invoices : slackOfInvoice'[w] = IF w = v THEN slackOfInvoice[w] + Rounding
                                                              ELSE slackOfInvoice[w]
        BY <2>2, InvoiceSlack DEF IInv
    <2>4. invoice' \in [Invoices -> InvoiceRows] /\ direct' \in [Invoices -> Nat]
        <3>1. [status |-> invoice[v].status, pay |-> pay, total |-> invoice[v].total,
               paid |-> paid] \in InvoiceRows
            BY <1>1, <2>1 DEF InvoiceRows
        <3> QED
            BY <1>1, <2>1, <2>2, <3>1
    <2>5. \A w \in Invoices : InvoiceHonest(w)'
        <3> SUFFICES ASSUME NEW w \in Invoices PROVE InvoiceHonest(w)'
            OBVIOUS
        <3>1. w \in Sales => allocated'[w] = allocated[w] /\ slackOfItem'[w] = slackOfItem[w]
            BY <2>2
        <3>2. CASE w = v
            <4>1. /\ invoice'[w].paid = paid /\ invoice'[w].total = invoice[w].total
                  /\ direct'[w] = direct[w] + n /\ slackOfInvoice'[w] = slackOfInvoice[w] + Rounding
                BY <1>1, <2>1, <2>2, <2>3, <3>2
            <4>2. paid <= invoice[w].paid + n + Rounding /\ n <= invoice[w].total - invoice[w].paid + Rounding
                BY <1>7, <3>2 DEF PaidToInvoice, Near
            <4> DEFINE ofSale == IF w \in Sales THEN allocated[w] + slackOfItem[w] ELSE 0
            <4>3. ofSale \in Nat /\ invoice[w].paid <= direct[w] + slackOfInvoice[w] + ofSale
                BY <1>2 DEF InvoiceHonest
            <4>4. ofSale = IF w \in Sales THEN allocated'[w] + slackOfItem'[w] ELSE 0
                BY <3>1
            <4> HIDE DEF ofSale
            <4>5. /\ paid <= direct[w] + n + (slackOfInvoice[w] + Rounding) + ofSale
                  /\ paid <= invoice[w].total + 2 * Rounding
                BY <1>2, <4>2, <4>3
            <4> QED
                BY <4>1, <4>4, <4>5 DEF InvoiceHonest
        <3>3. CASE w # v
            <4>1. invoice'[w] = invoice[w] /\ direct'[w] = direct[w] /\ slackOfInvoice'[w] = slackOfInvoice[w]
                BY <1>1, <2>1, <2>2, <2>3, <3>3
            <4> QED
                BY <1>2, <3>1, <4>1 DEF InvoiceHonest
        <3> QED
            BY <3>2, <3>3
    <2>6. Fresh' /\ SettledToRounding'
        BY <2>2 DEF IInv, Fresh, SettledToRounding
    <2> QED
        BY <1>1, <2>2, <2>3, <2>4, <2>5, <2>6, ClausesNext
<1>8. ASSUME NEW v \in Invoices, Turned(v)
      PROVE  Goal
    <2>1. PICK row \in InvoiceRows :
            /\ invoice' = [invoice EXCEPT ![v] = row]
            /\ row.paid = 0 \/ (row.paid = invoice[v].paid /\ row.total = invoice[v].total)
        BY <1>8 DEF Turned
    <2>2. row.total \in Nat /\ row.paid \in Nat
        BY <2>1 DEF InvoiceRows
    <2>3. /\ UNCHANGED <<item, allocated, instalments, direct, deposits>>
          /\ UNCHANGED <<slackOfItem, slackOfInvoice>>
        BY <1>8, SlackSame DEF Turned, books
    <2>4. \A w \in Invoices : InvoiceHonest(w)'
        <3> SUFFICES ASSUME NEW w \in Invoices PROVE InvoiceHonest(w)'
            OBVIOUS
        <3>1. CASE w = v
            <4>1. invoice'[w] = row
                BY <1>1, <2>1, <3>1
            <4> QED
                BY <1>2, <2>1, <2>2, <2>3, <3>1, <4>1 DEF InvoiceHonest
        <3>2. CASE w # v
            BY <1>1, <1>2, <2>1, <2>3, <3>2 DEF InvoiceHonest
        <3> QED
            BY <3>1, <3>2
    <2>5. Fresh' /\ SettledToRounding'
        BY <2>3 DEF IInv, Fresh, SettledToRounding
    <2> QED
        BY <1>1, <2>1, <2>3, <2>4, <2>5, ClausesNext
<1> QED
    BY <1>3, <1>4, <1>5, <1>6, <1>7, <1>8, StepEffect DEF Effects, IInv

LEMMA IInvNext == IInv /\ [Next]_vars => IInv'
<1>1. ASSUME IInv, Next
      PROVE  IInv'
    BY <1>1, RowsKept, LedgerTyped, RequestsTyped DEF IInv, TypeOK, ItemRows, LedgerRows
<1>2. ASSUME IInv, UNCHANGED vars
      PROVE  IInv'
    BY <1>2, SlackSame DEF vars, IInv, TypeOK, Fresh, SettledToRounding, InvoiceNeverOverstates
<1> QED
    BY <1>1, <1>2

LEMMA IInvInit == Init => IInv
<1> SUFFICES ASSUME Init
             PROVE  IInv
    OBVIOUS
<1> USE SettlementAssumption DEF Init
<1>1. NoInvoice \in InvoiceRows /\ [pc |-> Idle] \in RequestStates
    BY DEF NoInvoice, InvoiceRows, InvoiceStatuses, PaymentStatuses, RequestStates
<1>2. TypeOK
    <2>1. [status |-> "NONE", total |-> 0, paid |-> 0] \in ItemRows
        BY DEF ItemRows, ItemStatuses
    <2>2. item \in [Items -> ItemRows] /\ invoice \in [Invoices -> InvoiceRows]
          /\ req \in [Requests -> RequestStates]
        BY <1>1, <2>1
    <2>3. ledger \in [cash : Int, ar : Int, ap : Int]
        OBVIOUS
    <2>4. /\ total \in [Sales -> Nat]
          /\ allocated \in [Items -> Nat] /\ instalments \in [Items -> Nat]
          /\ direct \in [Invoices -> Nat] /\ deposits \in [Invoices -> Nat]
        OBVIOUS
    <2> QED
        BY <2>2, <2>3, <2>4 DEF TypeOK, ItemRows
<1> /\ \A i \in Items : slackOfItem[i] = 0
    /\ \A v \in Invoices : slackOfInvoice[v] = 0
    BY DEF slackOfItem, slackOfInvoice
<1>3. Fresh /\ SettledToRounding
    BY DEF Fresh, SettledToRounding, Near
<1>4. InvoiceNeverOverstates
    BY DEF InvoiceNeverOverstates, NoInvoice, Items
<1> QED
    BY <1>2, <1>3, <1>4 DEF IInv

LEMMA IInvAlways == Spec => []IInv
BY IInvInit, IInvNext, PTL DEF Spec

\* Every row and every request keeps to its type: what is paid, allocated or owed is
\* never negative.
THEOREM TypeCorrect == Spec => []TypeOK
<1>1. IInv => TypeOK
    BY DEF IInv
<1> QED
    BY <1>1, IInvAlways, PTL

\* What an item says was paid is what was allocated to it, up to the rounding of its
\* payments, and exactly after the first; no more than two roundings above its total;
\* and it is PAID exactly when what it says was paid reaches the total.
THEOREM SettledNearly == Spec => []SettledToRounding
<1>1. IInv => SettledToRounding
    BY DEF IInv
<1> QED
    BY <1>1, IInvAlways, PTL

\* An invoice never shows more money than was received for it, but for rounding.
THEOREM InvoicesAreHonest == Spec => []InvoiceNeverOverstates
<1>1. IInv => InvoiceNeverOverstates
    BY DEF IInv
<1> QED
    BY <1>1, IInvAlways, PTL

-----------------------------------------------------------------------------
(* The control accounts.                                                   *)

leftOf == [i \in Items |-> item[i].total - item[i].paid]
paidOf == [i \in Items |-> item[i].paid]

\* The sums that the accounts are compared with, and how far they may be off.
OwedBySales == SumFunctionOnSet(leftOf, Sales)
OwedToBills == SumFunctionOnSet(leftOf, Bills)
PaidBySales == SumFunctionOnSet(paidOf, Sales)
PaidToBills == SumFunctionOnSet(paidOf, Bills)
PaidDirect == SumFunctionOnSet(direct, Invoices)
SlackOfSales == SumFunctionOnSet(slackOfItem, Sales)
SlackOfBills == SumFunctionOnSet(slackOfItem, Bills)

Agree ==
    /\ Near(ledger.ar, OwedBySales - PaidDirect, SlackOfSales)
    /\ Near(ledger.ap, OwedToBills, SlackOfBills)
    /\ Near(ledger.cash, PaidBySales + PaidDirect - PaidToBills, SlackOfSales + SlackOfBills)

LEMMA AgreeIsLedgerAgrees == Agree <=> LedgerAgrees
BY DEF Agree, LedgerAgrees, leftOf, paidOf, OwedBySales, OwedToBills, PaidBySales, PaidToBills,
   PaidDirect, SlackOfSales, SlackOfBills

LEMMA InvoicesFinite == IsFiniteSet(Sales) /\ IsFiniteSet(Bills) /\ IsFiniteSet(Invoices)
BY SettlementAssumption, FS_Union DEF Invoices

LEMMA SumsTyped ==
    ASSUME IInv
    PROVE  /\ OwedBySales \in Int /\ OwedToBills \in Int
           /\ PaidBySales \in Int /\ PaidToBills \in Int /\ PaidDirect \in Int
           /\ SlackOfSales \in Int /\ SlackOfBills \in Int
           /\ \A i \in Items : leftOf[i] \in Int /\ paidOf[i] \in Int
<1>1. \A i \in Items : item[i].total \in Nat /\ item[i].paid \in Nat
    BY DEF IInv, TypeOK
<1>2. \A i \in Items : leftOf[i] \in Int /\ paidOf[i] \in Int
    BY <1>1 DEF leftOf, paidOf
<1>3. \A v \in Invoices : direct[v] \in Int
    BY DEF IInv, TypeOK
<1>4. \A i \in Sales \cup Bills : i \in Items
    BY DEF Items
<1>5. \A i \in Items : slackOfItem[i] \in Int
    BY SlackTyped DEF IInv
<1> QED
    BY <1>2, <1>3, <1>4, <1>5, InvoicesFinite, SumInt
    DEF OwedBySales, OwedToBills, PaidBySales, PaidToBills, PaidDirect, SlackOfSales, SlackOfBills

\* Item i owes a more and has paid b more.
LEMMA ItemMoves ==
    ASSUME IInv, NEW i \in Items, NEW a \in Int, NEW b \in Int,
           \A j \in Items : /\ leftOf'[j] = IF j = i THEN leftOf[j] + a ELSE leftOf[j]
                            /\ paidOf'[j] = IF j = i THEN paidOf[j] + b ELSE paidOf[j]
    PROVE  /\ OwedBySales' = OwedBySales + (IF i \in Sales THEN a ELSE 0)
           /\ OwedToBills' = OwedToBills + (IF i \in Bills THEN a ELSE 0)
           /\ PaidBySales' = PaidBySales + (IF i \in Sales THEN b ELSE 0)
           /\ PaidToBills' = PaidToBills + (IF i \in Bills THEN b ELSE 0)
<1>1. \A j \in Sales \cup Bills : j \in Items
    BY DEF Items
<1>2. \A j \in Sales \cup Bills :
        /\ leftOf[j] \in Int /\ leftOf'[j] = IF j = i THEN leftOf[j] + a ELSE leftOf[j]
        /\ paidOf[j] \in Int /\ paidOf'[j] = IF j = i THEN paidOf[j] + b ELSE paidOf[j]
    BY <1>1, SumsTyped
<1>3. ASSUME NEW S, IsFiniteSet(S), \A j \in S : j \in Sales \cup Bills
      PROVE  SumFunctionOnSet(leftOf', S) = SumFunctionOnSet(leftOf, S) + (IF i \in S THEN a ELSE 0)
    <2>1. \A j \in S : leftOf[j] \in Int /\ leftOf'[j] = IF j = i THEN leftOf[j] + a ELSE leftOf[j]
        BY <1>2, <1>3
    <2>2. PICK f, g, n : f = leftOf /\ g = leftOf' /\ n = a
        OBVIOUS
    <2>3. \A j \in S : f[j] \in Int /\ g[j] = IF j = i THEN f[j] + n ELSE f[j]
        BY <2>1, <2>2
    <2>4. n \in Int
        BY <2>2
    <2>5. SumFunctionOnSet(g, S) = SumFunctionOnSet(f, S) + (IF i \in S THEN n ELSE 0)
        BY <1>3, <2>3, <2>4, SumShift
    <2> QED
        BY <2>2, <2>5
<1>4. ASSUME NEW S, IsFiniteSet(S), \A j \in S : j \in Sales \cup Bills
      PROVE  SumFunctionOnSet(paidOf', S) = SumFunctionOnSet(paidOf, S) + (IF i \in S THEN b ELSE 0)
    <2>1. \A j \in S : paidOf[j] \in Int /\ paidOf'[j] = IF j = i THEN paidOf[j] + b ELSE paidOf[j]
        BY <1>2, <1>4
    <2>2. PICK f, g, n : f = paidOf /\ g = paidOf' /\ n = b
        OBVIOUS
    <2>3. \A j \in S : f[j] \in Int /\ g[j] = IF j = i THEN f[j] + n ELSE f[j]
        BY <2>1, <2>2
    <2>4. n \in Int
        BY <2>2
    <2>5. SumFunctionOnSet(g, S) = SumFunctionOnSet(f, S) + (IF i \in S THEN n ELSE 0)
        BY <1>4, <2>3, <2>4, SumShift
    <2> QED
        BY <2>2, <2>5
<1>5. /\ IsFiniteSet(Sales) /\ \A j \in Sales : j \in Sales \cup Bills
      /\ IsFiniteSet(Bills) /\ \A j \in Bills : j \in Sales \cup Bills
    BY InvoicesFinite
<1> QED
    BY <1>3, <1>4, <1>5 DEF OwedBySales, OwedToBills, PaidBySales, PaidToBills

LEMMA DirectSame == ASSUME direct' = direct PROVE PaidDirect' = PaidDirect
BY DEF PaidDirect

LEMMA SlackSumsSame ==
    ASSUME instalments' = instalments
    PROVE  SlackOfSales' = SlackOfSales /\ SlackOfBills' = SlackOfBills
BY SlackSame DEF SlackOfSales, SlackOfBills

\* A payment of item i may be off by one more rounding.
LEMMA SlackMoves ==
    ASSUME IInv, NEW i \in Items, instalments' = [instalments EXCEPT ![i] = instalments[i] + 1]
    PROVE  /\ SlackOfSales' = SlackOfSales + (IF i \in Sales THEN Rounding ELSE 0)
           /\ SlackOfBills' = SlackOfBills + (IF i \in Bills THEN Rounding ELSE 0)
<1>1. \A j \in Items : /\ slackOfItem[j] \in Int
                       /\ slackOfItem'[j] = IF j = i THEN slackOfItem[j] + Rounding
                                                     ELSE slackOfItem[j]
    <2>1. \A j \in Items : slackOfItem[j] \in Int
        BY SlackTyped DEF IInv
    <2>2. \A j \in Items : slackOfItem'[j] = IF j = i THEN slackOfItem[j] + Rounding
                                                      ELSE slackOfItem[j]
        BY ItemSlack DEF IInv
    <2> QED
        BY <2>1, <2>2
<1>2. ASSUME NEW S, IsFiniteSet(S), \A j \in S : j \in Items
      PROVE  SumFunctionOnSet(slackOfItem', S)
               = SumFunctionOnSet(slackOfItem, S) + (IF i \in S THEN Rounding ELSE 0)
    <2>1. PICK f, g, a : f = slackOfItem /\ g = slackOfItem' /\ a = Rounding
        OBVIOUS
    <2>2. a \in Int
        BY <2>1, SettlementAssumption
    <2>3. \A j \in S : f[j] \in Int /\ g[j] = IF j = i THEN f[j] + a ELSE f[j]
        BY <1>1, <1>2, <2>1
    <2>4. SumFunctionOnSet(g, S) = SumFunctionOnSet(f, S) + (IF i \in S THEN a ELSE 0)
        BY <1>2, <2>2, <2>3, SumShift
    <2> QED
        BY <2>1, <2>4
<1>3. /\ IsFiniteSet(Sales) /\ \A j \in Sales : j \in Items
      /\ IsFiniteSet(Bills) /\ \A j \in Bills : j \in Items
    BY InvoicesFinite DEF Items
<1> QED
    BY <1>2, <1>3 DEF SlackOfSales, SlackOfBills

LEMMA AgreeStep ==
    ASSUME IInv, Agree, Next
    PROVE  Agree'
<1>1. /\ item \in [Items -> ItemRows] /\ direct \in [Invoices -> Nat]
      /\ ledger \in LedgerRows /\ Fresh
      /\ \A i \in Items : item[i].paid \in Nat /\ item[i].total \in Nat
    BY DEF IInv, TypeOK, ItemRows, LedgerRows
<1>2. PICK cash \in Int, ar \in Int, ap \in Int :
        ledger = [cash |-> cash, ar |-> ar, ap |-> ap]
    BY <1>1 DEF LedgerRows
<1>3. ASSUME NEW i \in Items, NEW row, item' = [item EXCEPT ![i] = row],
             NEW a \in Int, NEW b \in Int,
             row.total - row.paid = item[i].total - item[i].paid + a,
             row.paid = item[i].paid + b
      PROVE  /\ OwedBySales' = OwedBySales + (IF i \in Sales THEN a ELSE 0)
             /\ OwedToBills' = OwedToBills + (IF i \in Bills THEN a ELSE 0)
             /\ PaidBySales' = PaidBySales + (IF i \in Sales THEN b ELSE 0)
             /\ PaidToBills' = PaidToBills + (IF i \in Bills THEN b ELSE 0)
    <2>1. \A j \in Items : item'[j] = IF j = i THEN row ELSE item[j]
        BY <1>1, <1>3
    <2>2. \A j \in Items : /\ leftOf'[j] = IF j = i THEN leftOf[j] + a ELSE leftOf[j]
                           /\ paidOf'[j] = IF j = i THEN paidOf[j] + b ELSE paidOf[j]
        BY <1>3, <2>1 DEF leftOf, paidOf
    <2> QED
        BY <2>2, ItemMoves
<1>4. ASSUME item' = item
      PROVE  UNCHANGED <<OwedBySales, OwedToBills, PaidBySales, PaidToBills>>
    BY <1>4 DEF leftOf, paidOf, OwedBySales, OwedToBills, PaidBySales, PaidToBills
<1>5. ASSUME NEW i \in Items
      PROVE  i \in Sales <=> i \notin Bills
    BY SettlementAssumption DEF Items
<1>6. CASE SameRows
    BY <1>4, <1>6, DirectSame, SlackSumsSame DEF SameRows, Agree, books, Near
<1>7. ASSUME NEW i \in Items, NEW n \in Nat, Opened(i, n) PROVE Agree'
    <2>1. PICK row : row = [status |-> "PENDING", total |-> n, paid |-> 0]
        OBVIOUS
    <2>2. /\ item' = [item EXCEPT ![i] = row]
          /\ item[i].paid = 0 /\ item[i].total = 0
          /\ row.total - row.paid = item[i].total - item[i].paid + n
          /\ row.paid = item[i].paid + 0
        BY <1>1, <1>7, <2>1 DEF Opened, Fresh
    <2>3. /\ OwedBySales' = OwedBySales + (IF i \in Sales THEN n ELSE 0)
          /\ OwedToBills' = OwedToBills + (IF i \in Bills THEN n ELSE 0)
          /\ PaidBySales' = PaidBySales + (IF i \in Sales THEN 0 ELSE 0)
          /\ PaidToBills' = PaidToBills + (IF i \in Bills THEN 0 ELSE 0)
        <3>1. n \in Int /\ 0 \in Int
            OBVIOUS
        <3> QED
            BY <1>3, <2>2, <3>1
    <2>4. PaidDirect' = PaidDirect /\ SlackOfSales' = SlackOfSales /\ SlackOfBills' = SlackOfBills
        BY <1>7, DirectSame, SlackSumsSame DEF Opened
    <2>5. ledger' = IF i \in Sales THEN [cash |-> cash, ar |-> ar + n, ap |-> ap]
                                   ELSE [cash |-> cash, ar |-> ar, ap |-> ap + n]
        BY <1>2, <1>7 DEF Opened
    <2> QED
        BY <1>2, <1>5, <2>3, <2>4, <2>5, SumsTyped DEF Agree, Near
<1>8. ASSUME NEW i \in Items, NEW n \in Nat, NEW paid \in Nat, NEW status,
             Paid(i, n, paid, status)
      PROVE  Agree'
    <2>1. PICK row : row = [status |-> status, total |-> item[i].total, paid |-> paid]
        OBVIOUS
    <2>9. PICK m \in Int : m = paid - item[i].paid /\ Near(m, n, Rounding) /\ -m \in Int
        <3>1. item[i].paid \in Nat /\ Rounding \in Nat
            BY <1>1, SettlementAssumption
        <3>2. Near(paid, item[i].paid + n, Rounding)
            BY <1>8 DEF Paid
        <3> QED
            BY <3>1, <3>2 DEF Near
    <2>2. /\ item' = [item EXCEPT ![i] = row]
          /\ row.total - row.paid = item[i].total - item[i].paid + (-m)
          /\ row.paid = item[i].paid + m
        BY <1>1, <1>8, <2>1, <2>9 DEF Paid
    <2>3. /\ OwedBySales' = OwedBySales + (IF i \in Sales THEN -m ELSE 0)
          /\ OwedToBills' = OwedToBills + (IF i \in Bills THEN -m ELSE 0)
          /\ PaidBySales' = PaidBySales + (IF i \in Sales THEN m ELSE 0)
          /\ PaidToBills' = PaidToBills + (IF i \in Bills THEN m ELSE 0)
        BY <1>3, <2>2, <2>9
    <2>4. /\ PaidDirect' = PaidDirect
          /\ SlackOfSales' = SlackOfSales + (IF i \in Sales THEN Rounding ELSE 0)
          /\ SlackOfBills' = SlackOfBills + (IF i \in Bills THEN Rounding ELSE 0)
        BY <1>8, DirectSame, SlackMoves DEF Paid
    <2>5. ledger' = IF i \in Sales THEN [cash |-> cash + n, ar |-> ar - n, ap |-> ap]
                                   ELSE [cash |-> cash - n, ar |-> ar, ap |-> ap - n]
        <3>1. ledger' = IF i \in Sales THEN [ledger EXCEPT !.cash = @ + n, !.ar = @ - n]
                                       ELSE [ledger EXCEPT !.cash = @ - n, !.ap = @ - n]
            BY <1>8 DEF Paid
        <3>2. PICK more, less : /\ more = [cash |-> cash + n, ar |-> ar, ap |-> ap]
                                /\ less = [cash |-> cash - n, ar |-> ar, ap |-> ap]
            OBVIOUS
        <3>3. ledger' = IF i \in Sales THEN [more EXCEPT !.ar = ar - n]
                                       ELSE [less EXCEPT !.ap = ap - n]
            <4>1. /\ [ledger EXCEPT !.cash = cash + n] = more
                  /\ [ledger EXCEPT !.cash = cash - n] = less
                BY <1>2, <3>2
            <4>2. ledger' = IF i \in Sales
                            THEN [[ledger EXCEPT !.cash = cash + n] EXCEPT !.ar = ar - n]
                            ELSE [[ledger EXCEPT !.cash = cash - n] EXCEPT !.ap = ap - n]
                BY <1>2, <3>1
            <4> QED
                BY <4>1, <4>2
        <3> QED
            BY <3>2, <3>3
    <2> QED
        BY <1>2, <1>5, <2>3, <2>4, <2>5, <2>9, SumsTyped, SettlementAssumption DEF Agree, Near
<1>9. ASSUME NEW i \in Items, Marked(i) PROVE Agree'
    <2>1. PICK row : row = [status |-> "OVERDUE", total |-> item[i].total, paid |-> item[i].paid]
        OBVIOUS
    <2>2. /\ item' = [item EXCEPT ![i] = row]
          /\ row.total - row.paid = item[i].total - item[i].paid + 0
          /\ row.paid = item[i].paid + 0
        BY <1>1, <1>9, <2>1 DEF Marked
    <2>3. /\ OwedBySales' = OwedBySales + (IF i \in Sales THEN 0 ELSE 0)
          /\ OwedToBills' = OwedToBills + (IF i \in Bills THEN 0 ELSE 0)
          /\ PaidBySales' = PaidBySales + (IF i \in Sales THEN 0 ELSE 0)
          /\ PaidToBills' = PaidToBills + (IF i \in Bills THEN 0 ELSE 0)
        <3>1. 0 \in Int
            OBVIOUS
        <3> QED
            BY <1>3, <2>2, <3>1
    <2> QED
        BY <1>9, <2>3, DirectSame, SlackSumsSame, SumsTyped DEF Marked, Agree, books, Near
<1>10. ASSUME NEW v \in Invoices, NEW n \in Nat, NEW paid \in Nat, PaidToInvoice(v, n, paid)
       PROVE  Agree'
    <2>1. \A w \in Invoices :
            direct[w] \in Int /\ direct'[w] = IF w = v THEN direct[w] + n ELSE direct[w]
        BY <1>1, <1>10 DEF PaidToInvoice
    <2>2. PaidDirect' = PaidDirect + (IF v \in Invoices THEN n ELSE 0)
        <3>1. n \in Int /\ IsFiniteSet(Invoices)
            BY InvoicesFinite
        <3>2. SumFunctionOnSet(direct', Invoices)
                = SumFunctionOnSet(direct, Invoices) + (IF v \in Invoices THEN n ELSE 0)
            <4>1. PICK f, g, a : f = direct /\ g = direct' /\ a = n /\ a \in Int
                BY <3>1
            <4>2. \A w \in Invoices :
                    f[w] \in Int /\ g[w] = IF w = v THEN f[w] + a ELSE f[w]
                BY <2>1, <4>1
            <4>3. SumFunctionOnSet(g, Invoices)
                    = SumFunctionOnSet(f, Invoices) + (IF v \in Invoices THEN a ELSE 0)
                <5>1. a \in Int /\ IsFiniteSet(Invoices)
                    BY <3>1, <4>1
                <5> QED
                    BY <4>2, <5>1, SumShift
            <4> QED
                BY <4>1, <4>3
        <3> QED
            BY <3>2 DEF PaidDirect
    <2>3. ledger' = [cash |-> cash + n, ar |-> ar - n, ap |-> ap]
        BY <1>2, <1>10 DEF PaidToInvoice
    <2>4. UNCHANGED <<OwedBySales, OwedToBills, PaidBySales, PaidToBills, SlackOfSales, SlackOfBills>>
        BY <1>4, <1>10, SlackSumsSame DEF PaidToInvoice
    <2> QED
        BY <1>2, <2>2, <2>3, <2>4, SumsTyped DEF Agree, Near
<1>11. ASSUME NEW v \in Invoices, Turned(v) PROVE Agree'
    BY <1>4, <1>11, DirectSame, SlackSumsSame DEF Turned, Agree, books, Near
<1> QED
    BY <1>6, <1>7, <1>8, <1>9, <1>10, <1>11, StepEffect DEF Effects, IInv

LEMMA AgreeInit == Init => Agree
<1> SUFFICES ASSUME Init PROVE Agree
    OBVIOUS
<1>1. \A i \in Items : leftOf[i] = 0 /\ paidOf[i] = 0 /\ slackOfItem[i] = 0
    BY SettlementAssumption DEF Init, leftOf, paidOf, slackOfItem
<1>2. \A v \in Invoices : direct[v] = 0
    BY DEF Init
<1>3. /\ OwedBySales = 0 /\ OwedToBills = 0 /\ PaidBySales = 0 /\ PaidToBills = 0
      /\ PaidDirect = 0 /\ SlackOfSales = 0 /\ SlackOfBills = 0
    BY <1>1, <1>2, InvoicesFinite, SumZero
    DEF Items, OwedBySales, OwedToBills, PaidBySales, PaidToBills, PaidDirect, SlackOfSales,
        SlackOfBills
<1> QED
    BY <1>3 DEF Init, Agree, Near

\* The balances of the receivable, payable and cash accounts are the sums over the
\* open items and the payments, up to the rounding of the payments, for any number of
\* items, invoices and payments.
THEOREM AccountsAgree == Spec => []LedgerAgrees
<1>1. ASSUME IInv, Agree, UNCHANGED vars PROVE Agree'
    BY <1>1, SlackSumsSame DEF vars, Agree, leftOf, paidOf, OwedBySales, OwedToBills, PaidBySales,
       PaidToBills, PaidDirect, Near
<1>2. IInv /\ Agree /\ [Next]_vars => Agree'
    BY <1>1, AgreeStep
<1>3. Spec => []Agree
    BY <1>2, AgreeInit, IInvAlways, PTL DEF Spec
<1> QED
    BY <1>3, AgreeIsLedgerAgrees, PTL

-----------------------------------------------------------------------------
(* Refinement.                                                             *)

LEMMA OpenStep ==
    ASSUME IInv, [Next]_vars
    PROVE  [\E i \in Items : Abstract!Bill(i) \/ Abstract!Instalment(i)]_(Abstract!openItems)
<1>1. /\ item \in [Items -> ItemRows] /\ allocated \in [Items -> Nat] /\ Rounding \in Nat
      /\ \A i \in Items : item[i].paid \in Nat /\ item[i].total \in Nat /\ allocated[i] \in Nat
    BY SettlementAssumption DEF IInv, TypeOK, ItemRows
<1>2. /\ openView = [i \in Items |-> item[i].total - item[i].paid]
      /\ openView' = [i \in Items |-> item'[i].total - item'[i].paid]
    BY DEF openView
<1>3. ASSUME NEW i \in Items, NEW row, item' = [item EXCEPT ![i] = row], row.status # "NONE"
      PROVE  /\ openView' = [openView EXCEPT ![i] = row.total - row.paid]
             /\ billedView' = billedView \cup {i}
             /\ settledView' = IF row.status = "PAID" THEN settledView \cup {i}
                                                      ELSE settledView \ {i}
    <2>1. \A j \in Items : item'[j] = IF j = i THEN row ELSE item[j]
        BY <1>1, <1>3
    <2>2. openView' = [openView EXCEPT ![i] = row.total - row.paid]
        BY <1>2, <2>1
    <2>3. settledView' = IF row.status = "PAID" THEN settledView \cup {i} ELSE settledView \ {i}
        BY <2>1 DEF settledView
    <2>4. billedView' = billedView \cup {i}
        BY <1>3, <2>1 DEF billedView
    <2> QED
        BY <2>2, <2>3, <2>4
<1>4. ASSUME item' = item, allocated' = allocated
      PROVE  UNCHANGED Abstract!openItems
    BY <1>4 DEF billedView, openView, settledView, Abstract!openItems
<1>5. ASSUME NEW i \in Items, NEW n \in Nat, Opened(i, n)
      PROVE  Abstract!Bill(i)
    <2>1. i \notin billedView /\ i \notin settledView
        BY <1>5 DEF Opened, billedView, settledView
    <2>2. PICK row : row = [status |-> "PENDING", total |-> n, paid |-> 0]
        OBVIOUS
    <2>3. item' = [item EXCEPT ![i] = row] /\ allocated' = allocated
        BY <1>5, <2>2 DEF Opened
    <2>4. row.total - row.paid = n /\ row.status # "PAID" /\ row.status # "NONE"
        BY <2>2
    <2>5. /\ openView' = [openView EXCEPT ![i] = n]
          /\ billedView' = billedView \cup {i} /\ settledView' = settledView
        <3>1. /\ openView' = [openView EXCEPT ![i] = row.total - row.paid]
              /\ billedView' = billedView \cup {i}
              /\ settledView' = settledView \ {i}
            BY <1>3, <2>3, <2>4
        <3>2. settledView \ {i} = settledView
            BY <2>1
        <3> QED
            BY <2>4, <3>1, <3>2
    <2>6. openView'[i] = n
        BY <1>2, <2>5
    <2> QED
        BY <2>1, <2>3, <2>5, <2>6 DEF Abstract!Bill
<1>6. ASSUME NEW i \in Items, NEW n \in Nat, NEW paid \in Nat,
             NEW status \in {"PAID", "PARTIALLY_PAID"}, Paid(i, n, paid, status)
      PROVE  Abstract!Instalment(i)
    <2>1. /\ openView[i] = item[i].total - item[i].paid /\ openView[i] \in Int
          /\ i \in billedView \ settledView
        BY <1>1, <1>2, <1>6 DEF Paid, billedView, settledView
    <2>2. PICK row : row = [status |-> status, total |-> item[i].total, paid |-> paid]
        OBVIOUS
    <2>3. item' = [item EXCEPT ![i] = row] /\ allocated' = [allocated EXCEPT ![i] = allocated[i] + n]
        BY <1>6, <2>2 DEF Paid
    <2>4. row.total - row.paid = item[i].total - paid /\ row.status = status /\ status # "NONE"
        BY <2>2
    <2>5. /\ openView' = [openView EXCEPT ![i] = item[i].total - paid]
          /\ billedView' = billedView \cup {i}
          /\ settledView' = IF status = "PAID" THEN settledView \cup {i} ELSE settledView \ {i}
        BY <1>3, <2>3, <2>4
    <2>6. openView'[i] = item[i].total - paid /\ openView'[i] \in Int
        BY <1>1, <1>2, <2>5
    <2>7. allocated'[i] - allocated[i] = n /\ allocated'[i] = allocated[i] + n
        BY <1>1, <2>3
    <2>8. n \in 1 .. (openView[i] + Rounding)
        BY <1>1, <1>6, <2>1 DEF Paid
    <2>9. openView'[i] \in (openView[i] - n - Rounding) .. (openView[i] - n + Rounding)
        <3>1. paid <= item[i].paid + n + Rounding /\ item[i].paid + n <= paid + Rounding
            BY <1>6 DEF Paid, Near
        <3> QED
            BY <1>1, <2>1, <2>6, <3>1
    <2>10. settledView' = IF openView'[i] <= 0 THEN settledView \cup {i} ELSE settledView
        <3>1. status = "PAID" <=> openView'[i] <= 0
            BY <1>1, <1>6, <2>6 DEF Paid
        <3> QED
            BY <2>1, <2>5, <3>1
    <2>11. openView' = [openView EXCEPT ![i] = openView'[i]] /\ billedView' = billedView
        BY <2>1, <2>5, <2>6
    <2> QED
        BY <2>1, <2>3, <2>7, <2>8, <2>9, <2>10, <2>11 DEF Abstract!Instalment
<1>7. ASSUME NEW i \in Items, Marked(i)
      PROVE  UNCHANGED Abstract!openItems
    <2>1. i \in billedView /\ i \notin settledView
        BY <1>7 DEF Marked, billedView, settledView
    <2>2. PICK row : row = [status |-> "OVERDUE", total |-> item[i].total, paid |-> item[i].paid]
        OBVIOUS
    <2>3. item' = [item EXCEPT ![i] = row] /\ allocated' = allocated
        BY <1>7, <2>2 DEF Marked, books
    <2>4. /\ row.total - row.paid = openView[i]
          /\ row.status # "PAID" /\ row.status # "NONE"
        BY <1>2, <2>2
    <2>5. /\ openView' = [openView EXCEPT ![i] = openView[i]]
          /\ billedView' = billedView /\ settledView' = settledView
        <3>1. /\ openView' = [openView EXCEPT ![i] = row.total - row.paid]
              /\ billedView' = billedView \cup {i}
              /\ settledView' = settledView \ {i}
            BY <1>3, <2>3, <2>4
        <3>2. settledView \ {i} = settledView /\ billedView \cup {i} = billedView
            BY <2>1
        <3> QED
            BY <2>4, <3>1, <3>2
    <2>6. openView' = openView
        BY <1>2, <2>5
    <2> QED
        BY <2>3, <2>5, <2>6 DEF Abstract!openItems
<1>8. CASE Next
    <2>1. \/ item' = item /\ allocated' = allocated
          \/ \E i \in Items, n \in Nat : Opened(i, n)
          \/ \E i \in Items, n \in Nat, paid \in Nat, status \in {"PAID", "PARTIALLY_PAID"} :
               Paid(i, n, paid, status)
          \/ \E i \in Items : Marked(i)
        BY <1>8, StepEffect DEF Effects, SameRows, PaidToInvoice, Turned, IInv, books
    <2> QED
        BY <1>4, <1>5, <1>6, <1>7, <2>1
<1>9. CASE UNCHANGED vars
    BY <1>4, <1>9 DEF vars
<1> QED
    BY <1>8, <1>9

\* Payments with their check, their lock and their recheck implement open items that
\* are paid in instalments.
THEOREM Refinement == Spec => ImplementsOpenItems
<1>1. Init => Abstract!OpenItemsInit
    BY DEF Init, billedView, openView, settledView, Abstract!OpenItemsInit
<1> QED
    BY <1>1, OpenStep, IInvAlways, PTL DEF Spec, ImplementsOpenItems, Abstract!OpenItemsSpec
=============================================================================
