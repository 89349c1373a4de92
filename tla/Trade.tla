------------------------------- MODULE Trade -------------------------------
(***************************************************************************)
(* Sales orders (sales.service.ts) and purchase orders                     *)
(* (purchase.service.ts) over the stock they move, with the bills and      *)
(* journal entries (accounting.service.ts) that a delivery or a receipt    *)
(* writes in its transaction. A request that reads an order and writes it  *)
(* later keeps what it read in req; between the two any other request may  *)
(* run. The invoice made after a delivery is in Settlement.                *)
(*                                                                         *)
(* An item list is a set of batches, the items one transaction inserted:   *)
(* an edit deletes the batches it can see and inserts its own. Prices are  *)
(* one per unit, so the value of a list is its quantity.                   *)
(***************************************************************************)
EXTENDS Stock

CONSTANTS
    Sales,
    Purchases,
    Requests,
    Lists,          \* item lists a caller may send: a quantity per product
    Edited,         \* bound: the orders whose items callers edit
    Author          \* the batch of the create call

ASSUME TradeAssumption ==
    /\ Sales \cap Purchases = {}
    /\ Lists \subseteq [Products -> Nat]
    /\ Edited \subseteq Sales \cup Purchases
    /\ Author \notin Requests

VARIABLES
    order,          \* the order rows with their item rows
    moves,          \* transactions that wrote movement rows for an order
    books,          \* the amounts of its receivables or payables, of its journal
                    \* entries and of its COGS entries
    req             \* what each request is doing

tradeVars == <<order, moves, books, req>>
vars == <<stockVars, tradeVars>>

Orders == Sales \cup Purchases
Batches == [by : Requests \cup {Author}, qty : Lists]
SalesStatuses == {"NONE", "DRAFT", "PENDING", "CONFIRMED", "DELIVERED", "CANCELLED"}
PurchaseStatuses == {"NONE", "DRAFT", "PENDING", "APPROVED", "RECEIVED", "CANCELLED"}
Statuses == SalesStatuses \cup PurchaseStatuses

\* FAULT: one word for both kinds of order.
AcceptedAlike(o) == "APPROVED"
Accepted(o) == IF o \in Sales THEN "CONFIRMED" ELSE "APPROVED"
Done(o) == IF o \in Sales THEN "DELIVERED" ELSE "RECEIVED"

RequestStates ==
    {Idle}
    \cup [pc : {"edit", "remove"}, order : Orders]
    \cup [pc : {"cancel"}, order : Orders, status : Statuses]
    \cup [pc : {"editing", "deliver", "receive"}, order : Orders, items : SUBSET Batches]
    \cup [pc : {"receiving"}, order : Orders, items : SUBSET Batches,
          found : [Products -> Rows \cup {NoRow}]]

Quantity(items, p) == SumFunctionOnSet([b \in items |-> b.qty[p]], items)
Needed(items) == {p \in Products : Quantity(items, p) > 0}
Value(items) == SumFunctionOnSet([p \in Products |-> Quantity(items, p)], Products)
Totals == {Value(items) : items \in SUBSET Batches}

OrderTypeOK ==
    /\ order \in [Orders -> [status : Statuses, deleted : BOOLEAN,
                             items : SUBSET Batches, total : Totals]]
    /\ \A o \in Sales : order[o].status \in SalesStatuses
    /\ \A o \in Purchases : order[o].status \in PurchaseStatuses
    /\ moves \in [Orders -> Nat]
    /\ books \in [Orders -> [bill : SUBSET Totals, journal : SUBSET Totals, cogs : SUBSET Totals]]
    /\ req \in [Requests -> RequestStates]

TypeOK == StockTypeOK /\ OrderTypeOK

Init ==
    /\ StockInit
    /\ order = [o \in Orders |-> [status |-> "NONE", deleted |-> FALSE,
                                  items |-> {}, total |-> Value({})]]
    /\ moves = [o \in Orders |-> 0]
    /\ books = [o \in Orders |-> [bill |-> {}, journal |-> {}, cogs |-> {}]]
    /\ req = [r \in Requests |-> Idle]

Live(o) == order[o].status # "NONE" /\ ~order[o].deleted
\* The row lock of a receipt that has passed its status gate.
Locked(o) == \E r \in Requests : req[r].pc = "receiving" /\ req[r].order = o

Goto(r, state) == req' = [req EXCEPT ![r] = state]
SetStatus(o, s) == order' = [order EXCEPT ![o].status = s]

-----------------------------------------------------------------------------
(* The life of an order up to its acceptance.                              *)

Create(o, q) ==
    /\ order[o].status = "NONE"
    /\ LET items == {[by |-> Author, qty |-> q]} IN
       order' = [order EXCEPT ![o] = [status |-> "DRAFT", deleted |-> FALSE,
                                      items |-> items, total |-> Value(items)]]
    /\ UNCHANGED <<stockVars, moves, books, req>>

Submit(o) ==
    /\ Live(o) /\ order[o].status = "DRAFT"
    /\ SetStatus(o, "PENDING")
    /\ UNCHANGED <<stockVars, moves, books, req>>

\* confirm of a sale, approve of a purchase
Accept(o) ==
    /\ Live(o) /\ order[o].status = "PENDING"
    /\ SetStatus(o, Accepted(o))
    /\ UNCHANGED <<stockVars, moves, books, req>>

UpdateReads(r, o) ==
    /\ o \in Edited
    /\ req[r] = Idle
    /\ Live(o) /\ order[o].status \in {"DRAFT", "PENDING"}
    /\ Goto(r, [pc |-> "edit", order |-> o])
    /\ UNCHANGED <<stockVars, order, moves, books>>

\* The transaction starts: deleteMany takes the item rows it can see.
UpdateDeletes(r) ==
    /\ req[r].pc = "edit"
    /\ Goto(r, [pc |-> "editing", order |-> req[r].order, items |-> order[req[r].order].items])
    /\ UNCHANGED <<stockVars, order, moves, books>>

\* createMany, the order's totals, commit.
UpdateCommits(r, q) ==
    /\ req[r].pc = "editing"
    /\ LET o == req[r].order
           mine == {[by |-> r, qty |-> q]} IN
       /\ ~Locked(o)
       /\ order' = [order EXCEPT ![o].items = (@ \ req[r].items) \cup mine,
                                 ![o].total = Value(mine)]
    /\ Goto(r, Idle)
    /\ UNCHANGED <<stockVars, moves, books>>

DeleteReads(r, o) ==
    /\ req[r] = Idle
    /\ Live(o) /\ order[o].status = "DRAFT"
    /\ Goto(r, [pc |-> "remove", order |-> o])
    /\ UNCHANGED <<stockVars, order, moves, books>>

DeleteCommits(r) ==
    /\ req[r].pc = "remove"
    /\ ~Locked(req[r].order)
    /\ order' = [order EXCEPT ![req[r].order].deleted = TRUE]
    /\ Goto(r, Idle)
    /\ UNCHANGED <<stockVars, moves, books>>

CancelReads(r, o) ==
    /\ o \in Sales
    /\ req[r] = Idle
    /\ Live(o) /\ order[o].status \in {"DRAFT", "PENDING", "CONFIRMED"}
    /\ Goto(r, [pc |-> "cancel", order |-> o, status |-> order[o].status])
    /\ UNCHANGED <<stockVars, order, moves, books>>

\* FAULT: the update is not conditioned on the status that was read.
CancelCommitsBlindly(r) ==
    /\ req[r].pc = "cancel"
    /\ SetStatus(req[r].order, "CANCELLED")
    /\ Goto(r, Idle)
    /\ UNCHANGED <<stockVars, moves, books>>

CancelCommits(r) ==
    /\ req[r].pc = "cancel"
    /\ LET o == req[r].order IN
       /\ Live(o) /\ order[o].status = req[r].status
       /\ SetStatus(o, "CANCELLED")
    /\ Goto(r, Idle)
    /\ UNCHANGED <<stockVars, moves, books>>

CancelPurchase(o) ==
    /\ o \in Purchases
    /\ Live(o) /\ order[o].status \in {"DRAFT", "PENDING", "APPROVED"}
    /\ ~Locked(o)
    /\ SetStatus(o, "CANCELLED")
    /\ UNCHANGED <<stockVars, moves, books, req>>

-----------------------------------------------------------------------------
(* Bills and journal entries, written inside the caller's transaction: a   *)
(* row that exists for the order is kept. The totals are those of the      *)
(* order at that moment, not those of the request's snapshot.              *)

Kept(old, new) == IF old = {} THEN {new} ELSE old

Book(o) ==
    books' = [books EXCEPT ![o] =
                [bill    |-> Kept(@.bill, order[o].total),
                 journal |-> Kept(@.journal, order[o].total),
                 cogs    |-> IF o \in Sales /\ Value(order[o].items) > 0
                             THEN Kept(@.cogs, Value(order[o].items)) ELSE @.cogs]]

-----------------------------------------------------------------------------
(* Delivery of a sale.                                                     *)

DeliverReads(r, o) ==
    /\ o \in Sales
    /\ req[r] = Idle
    /\ Live(o) /\ order[o].status = "CONFIRMED"
    /\ Goto(r, [pc |-> "deliver", order |-> o, items |-> order[o].items])
    /\ UNCHANGED <<stockVars, order, moves, books>>

\* The item lines, and what a transaction takes from or adds to row i:
\* findFirst picks a row of the product for each line.
Lines(items) == [l \in items \X Products |-> l[1].qty[l[2]]]
Share(pick, items, i) ==
    SumFunctionOnSet(Lines(items), {l \in items \X Products : pick[l] = i})

\* The transaction: the status gate, one guarded decrement per item, the
\* movement rows, the bill and the journal entries.
\* FAULT: the status is only checked when the order is read.
DeliverUngated(o) == TRUE
DeliverGate(o) == order[o].status = "CONFIRMED"

DeliverCommits(r) ==
    /\ req[r].pc = "deliver"
    /\ LET o == req[r].order
           items == req[r].items IN
       /\ DeliverGate(o)
       /\ \E pick \in [items \X Products -> Rows] :
            /\ \A l \in items \X Products :
                 Lines(items)[l] > 0 => stock[pick[l]].product = l[2]
            /\ \A i \in Rows : Share(pick, items, i) > 0 => stock[i].qty >= Share(pick, items, i)
            /\ stock' = [i \in Rows |-> [stock[i] EXCEPT !.qty = @ - Share(pick, items, i)]]
       /\ moved' = [p \in Products |-> moved[p] - Quantity(items, p)]
       /\ SetStatus(o, "DELIVERED")
       /\ moves' = [moves EXCEPT ![o] = @ + 1]
       /\ Book(o)
    /\ Goto(r, Idle)
    /\ UNCHANGED <<imported, clerk>>

-----------------------------------------------------------------------------
(* Receipt of a purchase: the transaction looks for a row of each product  *)
(* after its gate and creates the ones it did not find.                    *)

ReceiveReads(r, o) ==
    /\ o \in Purchases
    /\ req[r] = Idle
    /\ Live(o) /\ order[o].status = "APPROVED"
    /\ Goto(r, [pc |-> "receive", order |-> o, items |-> order[o].items])
    /\ UNCHANGED <<stockVars, order, moves, books>>

Found(p, i) == IF RowsOf(p) = {} THEN i = NoRow ELSE i \in RowsOf(p)

ReceiveGates(r) ==
    /\ req[r].pc = "receive"
    /\ order[req[r].order].status = "APPROVED"
    /\ ~Locked(req[r].order)
    /\ \E found \in [Products -> Rows \cup {NoRow}] :
         /\ \A p \in Products : Found(p, found[p])
         /\ Goto(r, [pc |-> "receiving", order |-> req[r].order,
                     items |-> req[r].items, found |-> found])
    /\ UNCHANGED <<stockVars, order, moves, books>>

ReceiveCommits(r) ==
    /\ req[r].pc = "receiving"
    /\ LET o == req[r].order
           items == req[r].items
           missing == {p \in Needed(items) : req[r].found[p] = NoRow} IN
       /\ \E new \in [missing -> Unused] :
            LET pick == [l \in items \X Products |->
                           IF l[2] \in missing THEN new[l[2]] ELSE req[r].found[l[2]]] IN
            /\ \A p, q \in missing : new[p] = new[q] => p = q
            /\ stock' = [i \in Rows |->
                 [product |-> IF \E p \in missing : new[p] = i
                              THEN CHOOSE p \in missing : new[p] = i ELSE stock[i].product,
                  qty     |-> stock[i].qty + Share(pick, items, i)]]
       /\ \A i \in Rows : stock'[i].qty <= MaxStock
       /\ moved' = [p \in Products |-> moved[p] + Quantity(items, p)]
       /\ SetStatus(o, "RECEIVED")
       /\ moves' = [moves EXCEPT ![o] = @ + 1]
       /\ Book(o)
    /\ Goto(r, Idle)
    /\ UNCHANGED <<imported, clerk>>

\* A check fails, the transaction rolls back or the process dies.
RequestFails(r) ==
    /\ req[r] # Idle
    /\ Goto(r, Idle)
    /\ UNCHANGED <<stockVars, order, moves, books>>

OrderNext ==
    \/ \E o \in Orders, q \in Lists : Create(o, q)
    \/ \E o \in Orders : Submit(o) \/ Accept(o) \/ CancelPurchase(o)
    \/ \E r \in Requests, o \in Orders :
         \/ UpdateReads(r, o) \/ DeleteReads(r, o) \/ CancelReads(r, o)
         \/ DeliverReads(r, o) \/ ReceiveReads(r, o)
    \/ \E r \in Requests, q \in Lists : UpdateCommits(r, q)
    \/ \E r \in Requests :
         \/ UpdateDeletes(r) \/ DeleteCommits(r) \/ CancelCommits(r)
         \/ DeliverCommits(r)
         \/ ReceiveGates(r) \/ ReceiveCommits(r) \/ RequestFails(r)

Next == OrderNext \/ (StockNext /\ UNCHANGED tradeVars)

Spec == Init /\ [][Next]_vars

-----------------------------------------------------------------------------
(* Stock, bill and journal follow the status of the order through every    *)
(* race of deliveries, receipts, cancellations, edits and failures: an     *)
(* order that was delivered or received has moved stock once and has a     *)
(* bill and a journal entry of one amount; any other order has none.       *)
BooksFollowStatus ==
    \A o \in Orders :
        LET done == order[o].status = Done(o) IN
        /\ moves[o] = IF done THEN 1 ELSE 0
        /\ books[o].bill = books[o].journal
        /\ (books[o].bill # {}) <=> done

Count(b) == IF b THEN 1 ELSE 0

Phase(o, status) ==
    IF status = Done(o) THEN "fulfilled" ELSE IF status = "CANCELLED" THEN "void" ELSE "open"

phaseView == [o \in Orders |-> Phase(o, order[o].status)]
billsView == [o \in Orders |-> Count(books[o].bill # {})]
journalsView == [o \in Orders |-> Count(books[o].journal # {})]

Abstract == INSTANCE Fulfilment
    WITH phase <- phaseView, bills <- billsView, journals <- journalsView

(* Deliver and receive, gates, snapshots, locks and all, implement the     *)
(* one-step fulfilment of Fulfilment: never twice, never in parts, never   *)
(* after a cancellation.                                                   *)
ImplementsFulfilment == Abstract!FulfilmentSpec
=============================================================================
