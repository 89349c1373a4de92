---------------------------- MODULE TradeProofs ----------------------------
(***************************************************************************)
(* Proofs about Trade: the types of orders, books, requests and stock;     *)
(* that stock movement, bill and journal entry follow the status of every  *)
(* order; that deliveries and receipts implement the one-step fulfilment   *)
(* of Fulfilment; that nothing is oversold; and that the movement rows     *)
(* explain what is on hand, from what a delivery or receipt of any item    *)
(* lists does to the sums over the rows (Sums).                            *)
(***************************************************************************)
EXTENDS Trade, Sums

OrderRows == [status : Statuses, deleted : BOOLEAN, items : SUBSET Batches, total : Totals]
BookRows == [bill : SUBSET Totals, journal : SUBSET Totals, cogs : SUBSET Totals]

\* A status that an order of o's kind may have.
Fits(o, status) ==
    /\ o \in Sales => status \in SalesStatuses
    /\ o \in Purchases => status \in PurchaseStatuses

\* What a request keeps across an await is of the right kind of order.
Kinds(state) ==
    /\ state.pc = "cancel" => /\ state.order \in Sales
                              /\ state.status \in {"DRAFT", "PENDING", "CONFIRMED"}
    /\ state.pc = "deliver" => state.order \in Sales
    /\ state.pc \in {"receive", "receiving"} => state.order \in Purchases
    /\ state.pc \in {"editing", "deliver", "receive", "receiving"} => IsFiniteSet(state.items)

ReadsKinds == \A r \in Requests : Kinds(req[r])

\* The row lock of a receipt: nobody else passes the gate of that order or
\* changes its status until the receipt commits.
LockHolds ==
    \A r \in Requests : req[r].pc = "receiving" =>
        /\ order[req[r].order].status = "APPROVED"
        /\ \A s \in Requests :
             req[s].pc = "receiving" /\ req[s].order = req[r].order => s = r

ItemsFinite == \A o \in Orders : IsFiniteSet(order[o].items)

IInv == OrderTypeOK /\ ReadsKinds /\ LockHolds /\ ItemsFinite /\ BooksFollowStatus

-----------------------------------------------------------------------------
(* Requests.                                                               *)

LEMMA IdleState == Idle \in RequestStates /\ Idle.pc = "idle" /\ Kinds(Idle)
BY DEF Idle, RequestStates, Kinds

\* What a request carries.
LEMMA Carried ==
    ASSUME req \in [Requests -> RequestStates], NEW r \in Requests
    PROVE  /\ req[r].pc # "idle" => req[r] # Idle /\ req[r].order \in Orders
           /\ req[r].pc \in {"editing", "deliver", "receive", "receiving"} =>
                req[r].items \in SUBSET Batches
<1> req[r] \in RequestStates
    OBVIOUS
<1> QED
    BY DEF RequestStates, Idle

\* A request moves to a state that takes no lock.
Moves(r, state) ==
    /\ r \in Requests /\ state \in RequestStates /\ Kinds(state)
    /\ state.pc # "receiving"
    /\ Goto(r, state)

\* A receipt passes its gate.
Gates(r, state) ==
    /\ r \in Requests /\ state \in RequestStates /\ Kinds(state)
    /\ state.pc = "receiving"
    /\ order[state.order].status = "APPROVED" /\ ~Locked(state.order)
    /\ \A p \in Products : Found(p, state.found[p])
    /\ Goto(r, state)
    /\ UNCHANGED <<order, moves, books>>

RequestEffect ==
    \/ UNCHANGED req
    \/ \E r, state : Moves(r, state)
    \/ \E r, state : Gates(r, state)

-----------------------------------------------------------------------------
(* Orders and their books.                                                 *)

\* The row of o is written.
Rewritten(o, row) ==
    /\ o \in Orders /\ row \in OrderRows /\ Fits(o, row.status)
    /\ IsFiniteSet(row.items)
    /\ order' = [order EXCEPT ![o] = row]
    /\ row.status = order[o].status \/ ~(Locked(o)')

\* The fate of o is still open.
Open(o) == order[o].status # Done(o) /\ order[o].status # "CANCELLED"

\* The row of o is written, and o is not fulfilled by it.
Worked(o, row) ==
    /\ Rewritten(o, row)
    /\ row.status = order[o].status \/ (Open(o) /\ row.status # Done(o))
    /\ UNCHANGED <<moves, books>>

\* o is fulfilled, and b is in its books.
Fulfilled(o, row, b) ==
    /\ Rewritten(o, row)
    /\ Open(o) /\ row.status = Done(o)
    /\ moves' = [moves EXCEPT ![o] = moves[o] + 1]
    /\ books' = [books EXCEPT ![o] = b]
    /\ b \in BookRows
    /\ books[o].bill = {} => b.bill = b.journal /\ b.bill # {}

OrderEffect ==
    \/ UNCHANGED <<order, moves, books>>
    \/ \E o, row : Worked(o, row)
    \/ \E o, row, b : Fulfilled(o, row, b)

LEMMA OrderKinds == \A o \in Orders : /\ o \in Sales <=> o \notin Purchases
                                      /\ Done(o) # "CANCELLED"
BY TradeAssumption DEF Orders, Done

LEMMA RowTyped ==
    ASSUME OrderTypeOK, NEW o \in Orders
    PROVE  order[o] \in OrderRows /\ Fits(o, order[o].status)
BY DEF OrderTypeOK, OrderRows, Fits, Orders

\* Fields of a row are written.
LEMMA EditedRow ==
    ASSUME NEW old \in OrderRows, NEW items \in SUBSET Batches, NEW total \in Totals
    PROVE  [old EXCEPT !.items = items, !.total = total]
             = [status |-> old.status, deleted |-> old.deleted, items |-> items, total |-> total]
<1>1. [old EXCEPT !.items = items]
        = [status |-> old.status, deleted |-> old.deleted, items |-> items, total |-> old.total]
    BY DEF OrderRows
<1>2. PICK mid \in OrderRows :
          mid = [status |-> old.status, deleted |-> old.deleted, items |-> items, total |-> old.total]
    BY DEF OrderRows
<1>3. [mid EXCEPT !.total = total]
        = [status |-> mid.status, deleted |-> mid.deleted, items |-> mid.items, total |-> total]
    BY DEF OrderRows
<1> QED
    BY <1>1, <1>2, <1>3

LEMMA DeletedRow ==
    ASSUME NEW old \in OrderRows, NEW d
    PROVE  [old EXCEPT !.deleted = d]
             = [status |-> old.status, deleted |-> d, items |-> old.items, total |-> old.total]
BY DEF OrderRows

LEMMA SetStatusRow ==
    ASSUME OrderTypeOK, NEW o \in Orders, NEW s \in Statuses, Fits(o, s), SetStatus(o, s)
    PROVE  \E row \in OrderRows : /\ row.status = s /\ row.items = order[o].items
                                  /\ order' = [order EXCEPT ![o] = row]
<1> DEFINE row == [status |-> s, deleted |-> order[o].deleted,
                   items |-> order[o].items, total |-> order[o].total]
<1>1. row \in OrderRows
    BY RowTyped DEF OrderRows
<1>2. [order[o] EXCEPT !.status = s] = row
    BY RowTyped DEF OrderRows
<1>3. order' = [order EXCEPT ![o] = [order[o] EXCEPT !.status = s]]
    BY DEF SetStatus
<1> QED
    BY <1>1, <1>2, <1>3

-----------------------------------------------------------------------------
(* The actions.                                                            *)

LEMMA LifeEffect ==
    ASSUME IInv, NEW o \in Orders,
           (\E q \in Lists : Create(o, q)) \/ Submit(o) \/ Accept(o) \/ CancelPurchase(o)
    PROVE  OrderEffect /\ UNCHANGED req
<1>1. UNCHANGED <<moves, books, req>>
    BY DEF Create, Submit, Accept, CancelPurchase
<1>2. Locked(o)' <=> Locked(o)
    BY <1>1 DEF Locked
<1>3. OrderTypeOK /\ order[o] \in OrderRows
    BY RowTyped DEF IInv
<1>4. order[o].status \in {"NONE", "DRAFT", "PENDING"} => ~Locked(o) /\ Open(o)
    BY DEF IInv, LockHolds, Locked, Open, Done
<1>5. ASSUME NEW s \in Statuses, SetStatus(o, s), Fits(o, s), Open(o), s # Done(o), ~Locked(o)
      PROVE  OrderEffect
    BY <1>1, <1>2, <1>3, <1>5, SetStatusRow DEF OrderEffect, Worked, Rewritten, IInv, ItemsFinite
<1>6. CASE \E q \in Lists : Create(o, q)
    <2>1. PICK q \in Lists : Create(o, q)
        BY <1>6
    <2> DEFINE items == {[by |-> Author, qty |-> q]}
    <2>2. items \in SUBSET Batches /\ Value(items) \in Totals
        BY DEF Batches, Totals
    <2>3. PICK row : /\ row = [status |-> "DRAFT", deleted |-> FALSE, items |-> items,
                               total |-> Value(items)]
                     /\ order' = [order EXCEPT ![o] = row]
        BY <2>1 DEF Create
    <2>4. row \in OrderRows /\ row.status = "DRAFT"
        BY <2>2, <2>3 DEF OrderRows, Statuses, SalesStatuses
    <2>5. order[o].status = "NONE" /\ IsFiniteSet(row.items)
        BY <2>1, <2>3, FS_Singleton DEF Create
    <2> HIDE DEF items
    <2> QED
        BY <1>1, <1>2, <1>4, <2>3, <2>4, <2>5 DEF OrderEffect, Worked, Rewritten, Fits,
           SalesStatuses, PurchaseStatuses, Done
<1>7. CASE Submit(o)
    BY <1>4, <1>5, <1>7 DEF Submit, Fits, Statuses, SalesStatuses, PurchaseStatuses, Done
<1>8. CASE Accept(o)
    BY <1>4, <1>5, <1>8, OrderKinds
       DEF Accept, Accepted, Fits, Statuses, SalesStatuses, PurchaseStatuses, Done
<1>9. CASE CancelPurchase(o)
    BY <1>5, <1>9, OrderKinds
       DEF CancelPurchase, Fits, Open, Statuses, SalesStatuses, PurchaseStatuses, Done
<1> QED
    BY <1>1, <1>6, <1>7, <1>8, <1>9

LEMMA EditEffect ==
    ASSUME IInv, NEW r \in Requests, (\E q \in Lists : UpdateCommits(r, q)) \/ DeleteCommits(r)
    PROVE  OrderEffect /\ Moves(r, Idle)
<1>0. PICK o : o = req[r].order
    OBVIOUS
<1>1. Goto(r, Idle) /\ UNCHANGED <<moves, books>> /\ req[r].pc \in {"editing", "remove"}
    BY <1>0 DEF UpdateCommits, DeleteCommits
<1>2. OrderTypeOK /\ req \in [Requests -> RequestStates]
    BY DEF IInv, OrderTypeOK
<1>3. o \in Orders /\ order[o] \in OrderRows /\ Fits(o, order[o].status)
    BY <1>0, <1>1, <1>2, Carried, RowTyped
<1>4. PICK row \in OrderRows : /\ row.status = order[o].status /\ IsFiniteSet(row.items)
                              /\ order' = [order EXCEPT ![o] = row]
    <2>0. IsFiniteSet(order[o].items)
        BY <1>3 DEF IInv, ItemsFinite
    <2>1. CASE \E q \in Lists : UpdateCommits(r, q)
        <3>1. PICK q \in Lists : UpdateCommits(r, q)
            BY <2>1
        <3> DEFINE mine == {[by |-> r, qty |-> q]}
                   row == [status |-> order[o].status, deleted |-> order[o].deleted,
                           items |-> (order[o].items \ req[r].items) \cup mine,
                           total |-> Value(mine)]
        <3>2. mine \in SUBSET Batches /\ Value(mine) \in Totals
            BY DEF Batches, Totals
        <3>3. row \in OrderRows
            BY <1>3, <3>2 DEF OrderRows
        <3>4. order' = [order EXCEPT ![o].items = (@ \ req[r].items) \cup mine,
                                     ![o].total = Value(mine)]
            BY <1>0, <3>1 DEF UpdateCommits
        <3>5. order' = [order EXCEPT ![o] = [order[o] EXCEPT
                  !.items = (order[o].items \ req[r].items) \cup mine, !.total = Value(mine)]]
            BY <1>2, <1>3, <3>4 DEF OrderTypeOK, OrderRows
        <3>6. [order[o] EXCEPT !.items = (order[o].items \ req[r].items) \cup mine,
                               !.total = Value(mine)] = row
            <4>1. (order[o].items \ req[r].items) \cup mine \in SUBSET Batches
                BY <1>3, <3>2 DEF OrderRows
            <4> HIDE DEF mine
            <4> QED
                BY <1>3, <3>2, <4>1, EditedRow
        <3>7. IsFiniteSet(row.items)
            <4>1. IsFiniteSet(order[o].items \ req[r].items) /\ IsFiniteSet(mine)
                BY <2>0, FS_Subset, FS_Singleton
            <4> QED
                BY <4>1, FS_Union
        <3> QED
            BY <3>3, <3>5, <3>6, <3>7
    <2>2. CASE DeleteCommits(r)
        <3> DEFINE row == [status |-> order[o].status, deleted |-> TRUE,
                           items |-> order[o].items, total |-> order[o].total]
        <3>1. row \in OrderRows
            BY <1>3 DEF OrderRows
        <3>2. order' = [order EXCEPT ![o] = [order[o] EXCEPT !.deleted = TRUE]]
            BY <1>0, <2>2 DEF DeleteCommits
        <3>3. [order[o] EXCEPT !.deleted = TRUE] = row
            BY <1>3, DeletedRow
        <3> QED
            BY <2>0, <3>1, <3>2, <3>3
    <2> QED
        BY <2>1, <2>2
<1>5. Worked(o, row)
    BY <1>1, <1>3, <1>4 DEF Worked, Rewritten
<1> QED
    BY <1>1, <1>5, IdleState DEF OrderEffect, Moves

LEMMA CancelEffect ==
    ASSUME IInv, NEW r \in Requests, CancelCommits(r)
    PROVE  OrderEffect /\ Moves(r, Idle)
<1>0. PICK o : o = req[r].order
    OBVIOUS
<1>1. /\ Goto(r, Idle) /\ UNCHANGED <<moves, books>> /\ req[r].pc = "cancel"
      /\ SetStatus(o, "CANCELLED") /\ order[o].status = req[r].status
    BY <1>0 DEF CancelCommits
<1>2. OrderTypeOK /\ req \in [Requests -> RequestStates] /\ ReadsKinds
    BY DEF IInv, OrderTypeOK
<1>3. o \in Sales /\ o \in Orders /\ req[r].status \in {"DRAFT", "PENDING", "CONFIRMED"}
    BY <1>0, <1>1, <1>2 DEF ReadsKinds, Kinds, Orders
<1>4. ~(Locked(o)')
    <2> SUFFICES ASSUME NEW s \in Requests, req'[s].pc = "receiving", req'[s].order = o PROVE FALSE
        BY <1>1 DEF Locked
    <2>1. req[s].pc = "receiving" /\ req[s].order = o
        BY <1>1, <1>2, IdleState DEF Goto
    <2> QED
        BY <1>2, <1>3, <2>1, OrderKinds DEF ReadsKinds, Kinds
<1>5. PICK row \in OrderRows : /\ row.status = "CANCELLED" /\ row.items = order[o].items
                              /\ order' = [order EXCEPT ![o] = row]
    BY <1>1, <1>2, <1>3, SetStatusRow, OrderKinds DEF Fits, Statuses, SalesStatuses
<1>6. Worked(o, row)
    BY <1>1, <1>3, <1>4, <1>5, OrderKinds
       DEF Worked, Rewritten, Open, Done, Fits, SalesStatuses, IInv, ItemsFinite
<1> QED
    BY <1>1, <1>6, IdleState DEF OrderEffect, Moves

\* b enters the books of o; if they were empty, with one amount.
Entered(o, b) ==
    /\ b \in BookRows
    /\ books' = [books EXCEPT ![o] = b]
    /\ books[o].bill = {} /\ books[o].journal = {} => b.bill = b.journal /\ b.bill # {}

LEMMA Booked ==
    ASSUME OrderTypeOK, NEW o \in Orders, Book(o)
    PROVE  \E b : Entered(o, b)
<1>1. books[o] \in BookRows /\ order[o] \in OrderRows
    BY DEF OrderTypeOK, BookRows, OrderRows
<1>2. PICK b : /\ b = [bill    |-> Kept(books[o].bill, order[o].total),
                       journal |-> Kept(books[o].journal, order[o].total),
                       cogs    |-> IF o \in Sales /\ Value(order[o].items) > 0
                                   THEN Kept(books[o].cogs, Value(order[o].items))
                                   ELSE books[o].cogs]
               /\ books' = [books EXCEPT ![o] = b]
    BY DEF Book
<1>3. Value(order[o].items) \in Totals
    BY <1>1 DEF OrderRows, Totals
<1>4. b \in BookRows
    BY <1>1, <1>2, <1>3 DEF BookRows, OrderRows, Kept
<1>5. books[o].bill = {} /\ books[o].journal = {} => b.bill = b.journal /\ b.bill # {}
    BY <1>2 DEF Kept
<1> QED
    BY <1>2, <1>4, <1>5 DEF Entered

LEMMA FulfilEffect ==
    ASSUME IInv, NEW r \in Requests, DeliverCommits(r) \/ ReceiveCommits(r)
    PROVE  OrderEffect /\ Moves(r, Idle)
<1>0. PICK o : o = req[r].order
    OBVIOUS
<1>1. /\ Goto(r, Idle) /\ Book(o) /\ moves' = [moves EXCEPT ![o] = @ + 1]
      /\ SetStatus(o, IF req[r].pc = "deliver" THEN "DELIVERED" ELSE "RECEIVED")
      /\ req[r].pc = "deliver" => order[o].status = "CONFIRMED"
      /\ req[r].pc \in {"deliver", "receiving"}
    BY <1>0 DEF DeliverCommits, DeliverGate, ReceiveCommits
<1>2. OrderTypeOK /\ req \in [Requests -> RequestStates] /\ ReadsKinds /\ LockHolds
    BY DEF IInv, OrderTypeOK
<1>3. /\ o \in Orders
      /\ req[r].pc = "deliver" => o \in Sales
      /\ req[r].pc = "receiving" => o \in Purchases /\ order[o].status = "APPROVED"
    BY <1>0, <1>1, <1>2 DEF ReadsKinds, Kinds, Orders, LockHolds
<1>4. SetStatus(o, Done(o)) /\ Open(o)
    BY <1>1, <1>3, OrderKinds DEF Open, Done
<1>5. ~(Locked(o)')
    <2> SUFFICES ASSUME NEW s \in Requests, req'[s].pc = "receiving", req'[s].order = o PROVE FALSE
        BY <1>1 DEF Locked
    <2>1. req[s].pc = "receiving" /\ req[s].order = o /\ s # r
        BY <1>1, <1>2, IdleState DEF Goto
    <2>2. CASE req[r].pc = "deliver"
        BY <1>0, <1>2, <1>3, <2>1, <2>2, OrderKinds DEF ReadsKinds, Kinds
    <2>3. CASE req[r].pc = "receiving"
        BY <1>0, <1>2, <2>1, <2>3 DEF LockHolds
    <2> QED
        BY <1>1, <2>2, <2>3
<1>6. Done(o) \in Statuses /\ Fits(o, Done(o))
    BY <1>3, OrderKinds DEF Done, Fits, Statuses, SalesStatuses, PurchaseStatuses
<1>7. PICK row \in OrderRows : /\ row.status = Done(o) /\ row.items = order[o].items
                              /\ order' = [order EXCEPT ![o] = row]
    BY <1>2, <1>3, <1>4, <1>6, SetStatusRow
<1>8. PICK b : Entered(o, b)
    BY <1>1, <1>2, <1>3, Booked
<1>9. books[o].bill = books[o].journal
    BY <1>3 DEF IInv, BooksFollowStatus
<1>10. Fulfilled(o, row, b)
    BY <1>1, <1>3, <1>4, <1>5, <1>6, <1>7, <1>8, <1>9
       DEF Fulfilled, Rewritten, Entered, IInv, ItemsFinite
<1> QED
    BY <1>1, <1>10, IdleState DEF OrderEffect, Moves

LEMMA ReadEffect ==
    ASSUME IInv, NEW r \in Requests,
           \/ \E o \in Orders : \/ UpdateReads(r, o) \/ DeleteReads(r, o) \/ CancelReads(r, o)
                               \/ DeliverReads(r, o) \/ ReceiveReads(r, o)
           \/ UpdateDeletes(r) \/ ReceiveGates(r) \/ RequestFails(r)
    PROVE  OrderEffect /\ \E state : Moves(r, state) \/ Gates(r, state)
<1>1. UNCHANGED <<order, moves, books>>
    BY DEF UpdateReads, DeleteReads, CancelReads, DeliverReads, ReceiveReads, UpdateDeletes,
       ReceiveGates, RequestFails
<1>2. OrderTypeOK /\ req \in [Requests -> RequestStates] /\ ReadsKinds
    BY DEF IInv, OrderTypeOK
<1>3. ASSUME NEW o \in Orders, UpdateReads(r, o) \/ DeleteReads(r, o)
      PROVE  \E state : Moves(r, state)
    <2>1. PICK p \in {"edit", "remove"} : Goto(r, [pc |-> p, order |-> o])
        BY <1>3 DEF UpdateReads, DeleteReads
    <2>2. [pc |-> p, order |-> o] \in RequestStates /\ Kinds([pc |-> p, order |-> o])
        BY DEF RequestStates, Kinds
    <2> QED
        BY <2>1, <2>2 DEF Moves
<1>4. ASSUME NEW o \in Orders, CancelReads(r, o)
      PROVE  \E state : Moves(r, state)
    <2>1. PICK st : /\ st = [pc |-> "cancel", order |-> o, status |-> order[o].status]
                    /\ Goto(r, st) /\ o \in Sales
                    /\ order[o].status \in {"DRAFT", "PENDING", "CONFIRMED"}
        BY <1>4 DEF CancelReads
    <2>2. st \in RequestStates
        BY <2>1 DEF RequestStates, Statuses, SalesStatuses
    <2> QED
        BY <2>1, <2>2 DEF Moves, Kinds
<1>5. ASSUME NEW o \in Orders, DeliverReads(r, o) \/ ReceiveReads(r, o)
      PROVE  \E state : Moves(r, state)
    <2>1. PICK p \in {"deliver", "receive"} :
              /\ Goto(r, [pc |-> p, order |-> o, items |-> order[o].items])
              /\ p = "deliver" => o \in Sales
              /\ p = "receive" => o \in Purchases
        BY <1>5 DEF DeliverReads, ReceiveReads
    <2>2. PICK st : st = [pc |-> p, order |-> o, items |-> order[o].items]
        OBVIOUS
    <2>3. order[o].items \in SUBSET Batches /\ IsFiniteSet(order[o].items)
        BY <1>2, RowTyped DEF OrderRows, IInv, ItemsFinite
    <2>4. st \in RequestStates /\ st.pc = p /\ st.order = o /\ IsFiniteSet(st.items)
        BY <2>2, <2>3 DEF RequestStates
    <2> QED
        BY <2>1, <2>2, <2>4 DEF Moves, Kinds
<1>6. ASSUME UpdateDeletes(r) PROVE \E state : Moves(r, state)
    <2>1. req[r].order \in Orders
        BY <1>2, <1>6, Carried DEF UpdateDeletes
    <2>2. PICK st : /\ st = [pc |-> "editing", order |-> req[r].order,
                             items |-> order[req[r].order].items]
                    /\ Goto(r, st)
        BY <1>6 DEF UpdateDeletes
    <2>3. st \in RequestStates /\ st.pc = "editing" /\ IsFiniteSet(st.items)
        BY <1>2, <2>1, <2>2, RowTyped DEF RequestStates, OrderRows, IInv, ItemsFinite
    <2> QED
        BY <2>2, <2>3 DEF Moves, Kinds
<1>7. ASSUME ReceiveGates(r) PROVE \E state : Gates(r, state)
    <2>1. /\ req[r].order \in Orders /\ req[r].order \in Purchases
          /\ req[r].items \in SUBSET Batches /\ IsFiniteSet(req[r].items)
        BY <1>2, <1>7, Carried DEF ReceiveGates, ReadsKinds, Kinds
    <2>2. PICK found \in [Products -> Rows \cup {NoRow}] :
              /\ \A p \in Products : Found(p, found[p])
              /\ Goto(r, [pc |-> "receiving", order |-> req[r].order,
                          items |-> req[r].items, found |-> found])
        BY <1>7 DEF ReceiveGates
    <2>3. PICK st : st = [pc |-> "receiving", order |-> req[r].order,
                          items |-> req[r].items, found |-> found]
        OBVIOUS
    <2>4. /\ st \in RequestStates /\ st.pc = "receiving" /\ st.order = req[r].order
          /\ st.found = found /\ IsFiniteSet(st.items)
        BY <2>1, <2>3 DEF RequestStates
    <2> QED
        BY <1>1, <1>7, <2>1, <2>2, <2>3, <2>4 DEF Gates, Kinds, ReceiveGates
<1>8. ASSUME RequestFails(r) PROVE \E state : Moves(r, state)
    BY <1>8, IdleState DEF RequestFails, Moves
<1> QED
    BY <1>1, <1>3, <1>4, <1>5, <1>6, <1>7, <1>8 DEF OrderEffect

LEMMA StepEffect == IInv /\ [Next]_vars => OrderEffect /\ RequestEffect
<1> SUFFICES ASSUME IInv, [Next]_vars PROVE OrderEffect /\ RequestEffect
    OBVIOUS
<1>1. CASE UNCHANGED tradeVars
    BY <1>1 DEF tradeVars, OrderEffect, RequestEffect
<1>2. CASE OrderNext
    <2>1. CASE \E o \in Orders : \/ \E q \in Lists : Create(o, q)
                               \/ Submit(o) \/ Accept(o) \/ CancelPurchase(o)
        BY <2>1, LifeEffect DEF RequestEffect
    <2>2. ASSUME NEW r \in Requests, (\E q \in Lists : UpdateCommits(r, q)) \/ DeleteCommits(r)
          PROVE  OrderEffect /\ RequestEffect
        BY <2>2, EditEffect DEF RequestEffect
    <2>3. ASSUME NEW r \in Requests, CancelCommits(r)
          PROVE  OrderEffect /\ RequestEffect
        BY <2>3, CancelEffect DEF RequestEffect
    <2>4. ASSUME NEW r \in Requests, DeliverCommits(r) \/ ReceiveCommits(r)
          PROVE  OrderEffect /\ RequestEffect
        BY <2>4, FulfilEffect DEF RequestEffect
    <2>5. ASSUME NEW r \in Requests,
                 \/ \E o \in Orders : \/ UpdateReads(r, o) \/ DeleteReads(r, o) \/ CancelReads(r, o)
                                     \/ DeliverReads(r, o) \/ ReceiveReads(r, o)
                 \/ UpdateDeletes(r) \/ ReceiveGates(r) \/ RequestFails(r)
          PROVE  OrderEffect /\ RequestEffect
        BY <2>5, ReadEffect DEF RequestEffect
    <2> QED
        BY <1>2, <2>1, <2>2, <2>3, <2>4, <2>5 DEF OrderNext
<1> QED
    BY <1>1, <1>2 DEF Next, vars

-----------------------------------------------------------------------------
(* The invariant.                                                          *)

LEMMA IInvInit == Init => IInv
<1> SUFFICES ASSUME Init PROVE IInv
    OBVIOUS
<1>1. OrderTypeOK
    <2>1. Value({}) \in Totals
        BY DEF Totals
    <2>2. order \in [Orders -> OrderRows]
        BY <2>1 DEF Init, OrderRows, Statuses, SalesStatuses
    <2>3. books \in [Orders -> BookRows]
        BY DEF Init, BookRows
    <2>4. req \in [Requests -> RequestStates]
        BY IdleState DEF Init
    <2> QED
        BY <2>2, <2>3, <2>4 DEF Init, OrderTypeOK, OrderRows, BookRows, Orders,
           SalesStatuses, PurchaseStatuses
<1>2. ReadsKinds /\ LockHolds /\ ItemsFinite
    BY IdleState, FS_EmptySet DEF Init, ReadsKinds, LockHolds, ItemsFinite
<1>3. BooksFollowStatus
    BY DEF Init, BooksFollowStatus, Done
<1> QED
    BY <1>1, <1>2, <1>3 DEF IInv

LEMMA OrderTypeStep == OrderTypeOK /\ OrderEffect /\ RequestEffect => OrderTypeOK'
<1> SUFFICES ASSUME OrderTypeOK, OrderEffect, RequestEffect PROVE OrderTypeOK'
    OBVIOUS
<1>1. /\ order \in [Orders -> OrderRows] /\ \A o \in Orders : Fits(o, order[o].status)
      /\ moves \in [Orders -> Nat] /\ books \in [Orders -> BookRows]
      /\ req \in [Requests -> RequestStates]
    BY DEF OrderTypeOK, OrderRows, BookRows, Fits, Orders
<1>2. req' \in [Requests -> RequestStates]
    BY <1>1 DEF RequestEffect, Moves, Gates, Goto
<1>3. order' \in [Orders -> OrderRows] /\ \A o \in Orders : Fits(o, order'[o].status)
    BY <1>1 DEF OrderEffect, Worked, Fulfilled, Rewritten
<1>4. moves' \in [Orders -> Nat] /\ books' \in [Orders -> BookRows]
    BY <1>1 DEF OrderEffect, Worked, Fulfilled, Rewritten
<1> QED
    BY <1>2, <1>3, <1>4 DEF OrderTypeOK, OrderRows, BookRows, Fits, Orders, RequestStates,
       Batches, Totals

LEMMA ReadsKindsStep == OrderTypeOK /\ ReadsKinds /\ RequestEffect => ReadsKinds'
<1> SUFFICES ASSUME OrderTypeOK, ReadsKinds, RequestEffect, NEW s \in Requests
             PROVE  Kinds(req'[s])
    BY DEF ReadsKinds, Kinds
<1>1. req \in [Requests -> RequestStates]
    BY DEF OrderTypeOK
<1> QED
    BY <1>1 DEF ReadsKinds, RequestEffect, Moves, Gates, Goto

LEMMA ItemsStep == OrderTypeOK /\ ItemsFinite /\ OrderEffect => ItemsFinite'
BY DEF OrderTypeOK, ItemsFinite, OrderEffect, Worked, Fulfilled, Rewritten

LEMMA LockStep == IInv /\ OrderEffect /\ RequestEffect => LockHolds'
<1> SUFFICES ASSUME IInv, OrderEffect, RequestEffect, NEW r \in Requests, req'[r].pc = "receiving"
             PROVE  /\ order'[req'[r].order].status = "APPROVED"
                    /\ \A s \in Requests :
                         req'[s].pc = "receiving" /\ req'[s].order = req'[r].order => s = r
    BY DEF LockHolds
<1>1. req \in [Requests -> RequestStates] /\ order \in [Orders -> OrderRows] /\ LockHolds
    BY DEF IInv, OrderTypeOK, OrderRows
<1>2. PICK o : o = req'[r].order /\ Locked(o)'
    BY DEF Locked
<1>3. CASE \E q, state : Gates(q, state)
    <2>1. PICK q, state : Gates(q, state)
        BY <1>3
    <2>2. /\ req' = [req EXCEPT ![q] = state] /\ q \in Requests /\ state.pc = "receiving"
          /\ order' = order /\ order[state.order].status = "APPROVED"
          /\ \A s \in Requests : ~(req[s].pc = "receiving" /\ req[s].order = state.order)
        BY <2>1 DEF Gates, Goto, Locked
    <2> QED
        BY <1>1, <2>2 DEF LockHolds
<1>4. CASE UNCHANGED req \/ \E q, state : Moves(q, state)
    <2>1. \A s \in Requests : req'[s].pc = "receiving" => req'[s] = req[s]
        BY <1>1, <1>4 DEF Moves, Goto
    <2>2. /\ order[o].status = "APPROVED"
          /\ \A s \in Requests : req'[s].pc = "receiving" /\ req'[s].order = o => s = r
        BY <1>1, <1>2, <2>1 DEF LockHolds
    <2>3. order' = order \/ \E x, row : Rewritten(x, row)
        BY DEF OrderEffect, Worked, Fulfilled
    <2>4. ASSUME NEW x, NEW row, Rewritten(x, row) PROVE order'[o].status = order[o].status
        <3>1. x # o \/ row.status = order[o].status
            BY <1>2, <2>4 DEF Rewritten
        <3>2. order' = [order EXCEPT ![x] = row] /\ x \in Orders
            BY <2>4 DEF Rewritten
        <3>3. order'[x] = row /\ (o # x => order'[o] = order[o])
            <4>1. o \in DOMAIN order
                <5>1. req[r].pc = "receiving" /\ req[r].order = o
                    BY <1>2, <2>1
                <5> QED
                    BY <1>1, <5>1, Carried
            <4> QED
                BY <1>1, <3>2, <4>1
        <3> QED
            BY <3>1, <3>3
    <2> QED
        BY <1>2, <2>2, <2>3, <2>4
<1> QED
    BY <1>3, <1>4 DEF RequestEffect

LEMMA BooksStep == OrderTypeOK /\ BooksFollowStatus /\ OrderEffect => BooksFollowStatus'
<1> SUFFICES ASSUME OrderTypeOK, BooksFollowStatus, OrderEffect, NEW x \in Orders
             PROVE  /\ moves'[x] = IF order'[x].status = Done(x) THEN 1 ELSE 0
                    /\ books'[x].bill = books'[x].journal
                    /\ (books'[x].bill # {}) <=> order'[x].status = Done(x)
    BY DEF BooksFollowStatus, Done
<1>1. /\ order \in [Orders -> OrderRows] /\ moves \in [Orders -> Nat]
      /\ books \in [Orders -> BookRows]
    BY DEF OrderTypeOK, OrderRows, BookRows
<1>2. /\ moves[x] = IF order[x].status = Done(x) THEN 1 ELSE 0
      /\ books[x].bill = books[x].journal
      /\ (books[x].bill # {}) <=> order[x].status = Done(x)
    BY DEF BooksFollowStatus
<1>3. CASE UNCHANGED <<order, moves, books>>
    BY <1>2, <1>3
<1>4. ASSUME NEW o, NEW row, Worked(o, row)
      PROVE  /\ UNCHANGED <<moves, books>>
             /\ order'[x].status = Done(x) <=> order[x].status = Done(x)
    BY <1>1, <1>4 DEF Worked, Rewritten, Open
<1>5. ASSUME NEW o, NEW row, NEW b, Fulfilled(o, row, b), x = o
      PROVE  /\ moves'[x] = 1 /\ order'[x].status = Done(x)
             /\ books'[x].bill = books'[x].journal /\ books'[x].bill # {}
    BY <1>1, <1>2, <1>5 DEF Fulfilled, Rewritten, Open
<1>6. ASSUME NEW o, NEW row, NEW b, Fulfilled(o, row, b), x # o
      PROVE  moves'[x] = moves[x] /\ order'[x] = order[x] /\ books'[x] = books[x]
    BY <1>1, <1>6 DEF Fulfilled, Rewritten
<1> QED
    BY <1>2, <1>3, <1>4, <1>5, <1>6 DEF OrderEffect

LEMMA IInvNext == IInv /\ [Next]_vars => IInv'
<1> SUFFICES ASSUME IInv, [Next]_vars PROVE IInv'
    OBVIOUS
<1>1. OrderEffect /\ RequestEffect
    BY StepEffect
<1> QED
    BY <1>1, OrderTypeStep, ReadsKindsStep, LockStep, ItemsStep, BooksStep DEF IInv

LEMMA IInvAlways == Spec => []IInv
BY IInvInit, IInvNext, PTL DEF Spec

-----------------------------------------------------------------------------
(* Stock movement, bill and journal entry follow the status of every       *)
(* order, for any number of orders, requests, products and clerks.         *)
THEOREM BooksFollow == Spec => []BooksFollowStatus
BY IInvAlways, PTL DEF IInv

-----------------------------------------------------------------------------
(* What a delivery or a receipt takes from or adds to the rows.            *)

\* A quantity of an item line.
LEMMA LinesTyped ==
    ASSUME NEW items \in SUBSET Batches, IsFiniteSet(items)
    PROVE  /\ IsFiniteSet(items \X Products)
           /\ \A l \in items \X Products : Lines(items)[l] \in Nat
           /\ \A b \in items, p \in Products :
                b.qty[p] \in Nat /\ Lines(items)[<<b, p>>] = b.qty[p]
<1>1. IsFiniteSet(items \X Products)
    BY StockAssumption, FS_Product
<1>2. \A b \in items, p \in Products : b.qty[p] \in Nat
    BY TradeAssumption DEF Batches
<1> QED
    BY <1>1, <1>2 DEF Lines

LEMMA QuantityTyped ==
    ASSUME NEW items \in SUBSET Batches, IsFiniteSet(items), NEW p \in Products
    PROVE  Quantity(items, p) \in Nat
<1>1. \A b \in items : [c \in items |-> c.qty[p]][b] \in Nat
    BY LinesTyped
<1> QED
    BY <1>1, SumNat DEF Quantity

LEMMA ShareTyped ==
    ASSUME NEW items \in SUBSET Batches, IsFiniteSet(items), NEW pick, NEW i
    PROVE  Share(pick, items, i) \in Nat
<1> DEFINE L == {l \in items \X Products : pick[l] = i}
<1>1. IsFiniteSet(L) /\ \A l \in L : Lines(items)[l] \in Nat
    BY LinesTyped, FS_Subset
<1> QED
    BY <1>1, SumNat DEF Share

\* Each line with a quantity lands on a row that is one of its product
\* afterwards: new.
Lands(pick, items, new) ==
    \A l \in items \X Products :
        Lines(items)[l] > 0 => pick[l] \in Rows /\ new[pick[l]] = l[2]

\* A row of no product gets nothing.
LEMMA NothingLands ==
    ASSUME NEW items \in SUBSET Batches, IsFiniteSet(items), NEW pick, NEW new,
           Lands(pick, items, new), NEW i \in Rows, new[i] = NoProduct
    PROVE  Share(pick, items, i) = 0
<1> DEFINE L == {l \in items \X Products : pick[l] = i}
<1>1. IsFiniteSet(L)
    BY LinesTyped, FS_Subset
<1>2. ASSUME NEW l \in L PROVE Lines(items)[l] = 0
    <2>1. Lines(items)[l] \in Nat /\ l[2] \in Products
        BY LinesTyped
    <2>2. ~(Lines(items)[l] > 0)
        BY <2>1, StockAssumption DEF Lands
    <2> QED
        BY <2>1, <2>2
<1> QED
    BY <1>1, <1>2, SumZero DEF Share

\* The rows of a product get the quantity of that product.
LEMMA AllLands ==
    ASSUME NEW items \in SUBSET Batches, IsFiniteSet(items), NEW pick, NEW new,
           Lands(pick, items, new), NEW p \in Products
    PROVE  SumFunctionOnSet([i \in Rows |-> Share(pick, items, i)], {i \in Rows : new[i] = p})
             = Quantity(items, p)
<1> DEFINE q == Lines(items)
           L == items \X Products
           R == {i \in Rows : new[i] = p}
           share == [i \in Rows |-> Share(pick, items, i)]
           A == {l \in L : pick[l] \in R}
           B == items \X {p}
           f == [b \in items |-> b.qty[p]]
<1>1. IsFiniteSet(L) /\ \A l \in L : q[l] \in Nat
    BY LinesTyped
<1>2. IsFiniteSet(R)
    BY StockAssumption, FS_Subset
<1>3. SumFunctionOnSet(share, R) = SumFunctionOnSet(q, A)
    <2> DEFINE class == [i \in Rows |-> {l \in L : pick[l] = i}]
    <2>1. \A i \in R : share[i] = SumFunctionOnSet(q, class[i])
        BY DEF Share
    <2>2. \A i \in R : \A l : l \in class[i] <=> l \in L /\ pick[l] = i
        OBVIOUS
    <2>3. \A l \in L : q[l] \in Int
        BY <1>1
    <2> HIDE DEF q, L, R, share, class
    <2> QED
        BY <1>1, <1>2, <2>1, <2>2, <2>3, SumByClass
<1>4. SumFunctionOnSet(q, A) = SumFunctionOnSet(q, B)
    <2>1. A \subseteq L /\ B \subseteq L
        OBVIOUS
    <2>2. IsFiniteSet(A) /\ IsFiniteSet(B)
        BY <1>1, <2>1, FS_Subset
    <2>3. ASSUME NEW l \in A \ B PROVE q[l] = 0
        <3>1. l \in L /\ l[2] # p /\ new[pick[l]] = p
            OBVIOUS
        <3>2. q[l] \in Nat /\ ~(q[l] > 0)
            BY <1>1, <3>1 DEF Lands
        <3> QED
            BY <3>2
    <2>4. ASSUME NEW l \in B \ A PROVE q[l] = 0
        <3>1. l \in L /\ l[2] = p /\ pick[l] \notin R
            BY <2>1
        <3>2. q[l] \in Nat /\ ~(q[l] > 0)
            BY <1>1, <3>1 DEF Lands
        <3> QED
            BY <3>2
    <2>5. \A l \in A \cup B : q[l] \in Int
        BY <1>1, <2>1
    <2> HIDE DEF q, A, B
    <2> QED
        BY <2>2, <2>3, <2>4, <2>5, SumSupport
<1>5. SumFunctionOnSet(q, B) = SumFunctionOnSet(f, items)
    <2>1. ASSUME NEW b \in items PROVE f[b] \in Int /\ q[<<b, p>>] = f[b]
        <3>1. b.qty[p] \in Nat /\ Lines(items)[<<b, p>>] = b.qty[p]
            BY LinesTyped
        <3>2. f[b] = b.qty[p]
            OBVIOUS
        <3> HIDE DEF f
        <3> QED
            BY <3>1, <3>2
    <2> HIDE DEF q, f
    <2> QED
        BY <2>1, SumOverPairs
<1> QED
    BY <1>3, <1>4, <1>5 DEF Quantity

-----------------------------------------------------------------------------
(* The stock: its invariant and what the steps do to it.                   *)

StockRows == [product : Products \cup {NoProduct}, qty : Int]

\* A row that was not created holds nothing.
RowsBlank == \A i \in Rows : stock[i].product = NoProduct => stock[i].qty = 0

\* The rows a receipt found are still rows of their product.
FoundHolds ==
    \A r \in Requests : req[r].pc = "receiving" =>
        \A p \in Products : req[r].found[p] \in Rows => stock[req[r].found[p]].product = p

\* So is the row an import found; a product it wrote is marked as imported.
Knows(state) ==
    /\ state.pc = "import" /\ state.row \in Rows => stock[state.row].product = state.product
    /\ state.pc = "imported" => state.product \in imported

ClerksKnow == \A c \in Clerks : Knows(clerk[c])

SInv == /\ StockTypeOK /\ RowsBlank /\ FoundHolds /\ ClerksKnow
        /\ NeverOversold /\ HistoryExplainsStock

\* Row i becomes or stays one of product new[i] and changes by d[i], and the
\* changes are on record.
Shifted(new, d) ==
    /\ new \in [Rows -> Products \cup {NoProduct}] /\ d \in [Rows -> Int]
    /\ \A i \in Rows :
         /\ stock[i].product \in {new[i], NoProduct}
         /\ new[i] = NoProduct => d[i] = 0
         /\ d[i] >= 0 \/ stock[i].qty + d[i] >= 0
    /\ stock' = [i \in Rows |-> [product |-> new[i], qty |-> stock[i].qty + d[i]]]
    /\ moved' = [p \in Products |-> moved[p] + SumFunctionOnSet(d, {i \in Rows : new[i] = p})]
    /\ imported' = imported

\* An import writes q into a row of product p, or a new one, and records nothing yet.
Overwritten(i, p, q) ==
    /\ i \in Rows /\ p \in Products /\ q \in Int
    /\ stock[i].product \in {p, NoProduct}
    /\ stock' = [stock EXCEPT ![i] = [product |-> p, qty |-> q]]
    /\ imported' = imported \cup {p}
    /\ moved' = moved

\* An import records what it computed for a product it wrote.
Noted(p, n) ==
    /\ p \in imported /\ n \in Int
    /\ moved' = [moved EXCEPT ![p] = moved[p] + n]
    /\ UNCHANGED <<stock, imported>>

StockEffect ==
    \/ UNCHANGED <<stock, moved, imported>>
    \/ \E new, d : Shifted(new, d)
    \/ \E i, p, q : Overwritten(i, p, q)
    \/ \E p, n : Noted(p, n)

ClerkEffect ==
    \/ UNCHANGED clerk
    \/ \E c \in Clerks, state \in ClerkStates :
         clerk' = [clerk EXCEPT ![c] = state] /\ Knows(state)'

\* A row keeps its product for good.
Keeps == \A i \in Rows : stock[i].product # NoProduct => stock'[i].product = stock[i].product

LEMMA StockTyped ==
    ASSUME StockTypeOK
    PROVE  /\ stock \in [Rows -> StockRows] /\ moved \in [Products -> Int]
           /\ \A i \in Rows : stock[i].qty \in Int /\ stock[i].product \in Products \cup {NoProduct}
           /\ imported \subseteq Products /\ NoProduct \notin Products
           /\ IsFiniteSet(Rows) /\ IsFiniteSet(Products)
BY StockAssumption DEF StockTypeOK, StockRows

-----------------------------------------------------------------------------
(* The effects keep the invariant.                                         *)

LEMMA ShiftKeeps ==
    ASSUME SInv, NEW new, NEW d, Shifted(new, d)
    PROVE  /\ stock' \in [Rows -> StockRows] /\ moved' \in [Products -> Int]
           /\ RowsBlank' /\ Keeps /\ NeverOversold' /\ HistoryExplainsStock'
<1>1. /\ stock \in [Rows -> StockRows] /\ moved \in [Products -> Int]
      /\ \A i \in Rows : stock[i].qty \in Int /\ stock[i].product \in Products \cup {NoProduct}
      /\ imported \subseteq Products /\ NoProduct \notin Products /\ IsFiniteSet(Rows)
    BY StockTyped DEF SInv
<1>2. \A i \in Rows :
        /\ new[i] \in Products \cup {NoProduct} /\ d[i] \in Int
        /\ stock'[i] = [product |-> new[i], qty |-> stock[i].qty + d[i]]
        /\ stock[i].qty + d[i] \in Int
        /\ stock[i].product \in {new[i], NoProduct}
        /\ new[i] = NoProduct => d[i] = 0
        /\ (d[i] >= 0 \/ stock[i].qty + d[i] >= 0)
    BY <1>1 DEF Shifted
<1>a. ASSUME NEW i \in Rows
      PROVE  stock'[i].product = new[i] /\ stock'[i].qty = stock[i].qty + d[i]
    <2>1. stock'[i] = [product |-> new[i], qty |-> stock[i].qty + d[i]]
        BY <1>2
    <2> QED
        BY <2>1
<1>3. stock' \in [Rows -> StockRows]
    <2>1. \A i \in Rows : [product |-> new[i], qty |-> stock[i].qty + d[i]] \in StockRows
        BY <1>2 DEF StockRows
    <2> QED
        BY <2>1 DEF Shifted
<1>4. ASSUME NEW p \in Products
      PROVE  /\ IsFiniteSet({i \in Rows : new[i] = p})
             /\ SumFunctionOnSet(d, {i \in Rows : new[i] = p}) \in Int
    <2>1. IsFiniteSet({i \in Rows : new[i] = p})
        BY <1>1, FS_Subset
    <2>2. \A i \in {j \in Rows : new[j] = p} : d[i] \in Int
        BY <1>2
    <2> QED
        BY <2>1, <2>2, SumInt
<1>5. moved' \in [Products -> Int]
    <2>1. ASSUME NEW p \in Products
          PROVE  moved[p] + SumFunctionOnSet(d, {i \in Rows : new[i] = p}) \in Int
        <3> DEFINE gain == SumFunctionOnSet(d, {i \in Rows : new[i] = p})
        <3>1. moved[p] \in Int /\ gain \in Int
            BY <1>1, <1>4
        <3> HIDE DEF gain
        <3>2. moved[p] + gain \in Int
            BY <3>1
        <3> QED
            BY <3>2 DEF gain
    <2> QED
        BY <2>1 DEF Shifted
<1>6. RowsBlank'
    <2> SUFFICES ASSUME NEW i \in Rows, stock'[i].product = NoProduct
                 PROVE  stock'[i].qty = 0
        BY DEF RowsBlank
    <2>1. stock[i].product = NoProduct /\ d[i] = 0
        BY <1>2, <1>a
    <2> QED
        BY <1>1, <1>a, <2>1 DEF SInv, RowsBlank
<1>7. Keeps
    <2> SUFFICES ASSUME NEW i \in Rows, stock[i].product # NoProduct
                 PROVE  stock'[i].product = stock[i].product
        BY DEF Keeps
    <2> QED
        BY <1>2, <1>a
<1>8. NeverOversold'
    <2> SUFFICES ASSUME NEW i \in Rows, ~(stock[i].qty + d[i] >= 0)
                 PROVE  new[i] \in imported
        BY <1>a DEF Shifted, NeverOversold
    <2>1. stock[i].qty \in Int /\ d[i] \in Int /\ d[i] >= 0
        BY <1>1, <1>2
    <2>2. ~(stock[i].qty >= 0)
        BY <2>1
    <2>3. stock[i].product \in imported
        BY <2>2 DEF SInv, NeverOversold
    <2> QED
        BY <1>1, <1>2, <2>3
<1>9. ASSUME NEW p \in Products, p \notin imported'
      PROVE  OnHand(p)' = moved'[p]
    <2> DEFINE R == RowsOf(p)
               N == {i \in Rows : new[i] = p}
               f == [i \in Rows |-> stock[i].qty]
               h == [i \in Rows |-> stock[i].qty + d[i]]
               old == SumFunctionOnSet(f, R)
               gain == SumFunctionOnSet(d, N)
    <2>1. p \notin imported /\ IsFiniteSet(R) /\ IsFiniteSet(N)
        BY <1>1, <1>4, <1>9, FS_Subset DEF Shifted, RowsOf
    <2>2. old = moved[p]
        BY <2>1 DEF SInv, HistoryExplainsStock, OnHand
    <2>3. OnHand(p)' = SumFunctionOnSet(h, N)
        <3>1. [i \in Rows |-> stock'[i].qty] = h
            BY <1>a
        <3>2. {i \in Rows : stock'[i].product = p} = N
            BY <1>a
        <3> HIDE DEF h, N
        <3> QED
            BY <3>1, <3>2 DEF OnHand, RowsOf
    <2>4. SumFunctionOnSet(f, N) = old
        <3>1. ASSUME NEW i \in N \ R PROVE f[i] = 0
            BY <1>1, <1>2 DEF SInv, RowsBlank, RowsOf
        <3>2. N \ R \subseteq Rows /\ R \ N = {}
            BY <1>1, <1>2 DEF RowsOf
        <3>3. \A i \in N \cup R : f[i] \in Int
            BY <1>1 DEF RowsOf
        <3> HIDE DEF f, R, N
        <3> QED
            BY <2>1, <3>1, <3>2, <3>3, SumSupport
    <2>5. SumFunctionOnSet(h, N) = SumFunctionOnSet(f, N) + SumFunctionOnSet(d, N)
        <3>1. \A i \in N : f[i] \in Int /\ d[i] \in Int /\ h[i] = f[i] + d[i]
            BY <1>1, <1>2
        <3> HIDE DEF f, h, N
        <3> QED
            BY <2>1, <3>1, SumPlus
    <2>6. moved'[p] = moved[p] + gain
        BY DEF Shifted
    <2>7. OnHand(p)' = old + gain
        BY <2>3, <2>4, <2>5
    <2> HIDE DEF old, gain
    <2> QED
        BY <2>2, <2>6, <2>7
<1> QED
    BY <1>3, <1>5, <1>6, <1>7, <1>8, <1>9 DEF HistoryExplainsStock

LEMMA OverwriteKeeps ==
    ASSUME SInv, NEW i, NEW p, NEW q, Overwritten(i, p, q)
    PROVE  /\ stock' \in [Rows -> StockRows] /\ imported' \subseteq Products
           /\ RowsBlank' /\ Keeps /\ NeverOversold' /\ HistoryExplainsStock'
<1>1. /\ stock \in [Rows -> StockRows] /\ moved \in [Products -> Int]
      /\ \A j \in Rows : stock[j].qty \in Int /\ stock[j].product \in Products \cup {NoProduct}
      /\ imported \subseteq Products /\ NoProduct \notin Products /\ IsFiniteSet(Rows)
    BY StockTyped DEF SInv
<1>2. PICK row : row = [product |-> p, qty |-> q]
    OBVIOUS
<1>3. row \in StockRows /\ row.product = p /\ row.qty = q /\ stock' = [stock EXCEPT ![i] = row]
    BY <1>2 DEF Overwritten, StockRows
<1>4. \A j \in Rows : stock'[j] = IF j = i THEN row ELSE stock[j]
    BY <1>1, <1>3
<1>5. stock' \in [Rows -> StockRows] /\ imported' \subseteq Products
    BY <1>1, <1>3 DEF Overwritten
<1>6. RowsBlank' /\ Keeps
    BY <1>1, <1>3, <1>4 DEF SInv, RowsBlank, Keeps, Overwritten
<1>7. NeverOversold'
    BY <1>1, <1>3, <1>4 DEF SInv, NeverOversold, Overwritten
<1>8. ASSUME NEW x \in Products, x \notin imported'
      PROVE  OnHand(x)' = moved'[x]
    <2> DEFINE R == RowsOf(x)
               f == [j \in Rows |-> stock[j].qty]
               g == [j \in Rows |-> stock'[j].qty]
    <2>1. x # p /\ x \notin imported
        BY <1>8 DEF Overwritten
    <2>2. \A j \in Rows :
            /\ stock'[j].product = x <=> stock[j].product = x
            /\ stock[j].product = x => stock'[j] = stock[j]
        <3>1. x # NoProduct /\ stock[i].product # x
            BY <1>1, <2>1 DEF Overwritten
        <3> QED
            BY <1>3, <1>4, <2>1, <3>1
    <2>3. {j \in Rows : stock'[j].product = x} = R
        BY <2>2 DEF RowsOf
    <2>4. ASSUME NEW j \in R PROVE g[j] = f[j]
        <3>1. j \in Rows /\ stock'[j] = stock[j]
            BY <2>2 DEF RowsOf
        <3> QED
            BY <3>1
    <2>5. IsFiniteSet(R)
        BY <1>1, FS_Subset DEF RowsOf
    <2>6. OnHand(x) = SumFunctionOnSet(f, R) /\ OnHand(x)' = SumFunctionOnSet(g, R)
        BY <2>3 DEF OnHand, RowsOf
    <2>7. SumFunctionOnSet(g, R) = SumFunctionOnSet(f, R)
        <3> HIDE DEF f, g, R
        <3> QED
            BY <2>4, <2>5, SumSame
    <2> QED
        BY <2>1, <2>6, <2>7 DEF SInv, HistoryExplainsStock, Overwritten
<1> QED
    BY <1>5, <1>6, <1>7, <1>8 DEF HistoryExplainsStock

LEMMA NoteKeeps ==
    ASSUME SInv, NEW p, NEW n, Noted(p, n)
    PROVE  /\ moved' \in [Products -> Int] /\ UNCHANGED <<stock, imported>>
           /\ RowsBlank' /\ Keeps /\ NeverOversold' /\ HistoryExplainsStock'
<1>1. moved \in [Products -> Int] /\ imported \subseteq Products
    BY StockTyped DEF SInv
<1>2. UNCHANGED <<stock, imported>> /\ \A x \in Products : OnHand(x)' = OnHand(x)
    BY DEF Noted, OnHand, RowsOf
<1>3. moved' \in [Products -> Int] /\ \A x \in Products \ imported : moved'[x] = moved[x]
    BY <1>1 DEF Noted
<1> QED
    BY <1>2, <1>3 DEF SInv, RowsBlank, Keeps, NeverOversold, HistoryExplainsStock

-----------------------------------------------------------------------------
(* The steps have these effects.                                           *)

\* What a clerk carries.
LEMMA ClerkCarried ==
    ASSUME StockTypeOK, NEW c \in Clerks
    PROVE  /\ clerk[c].pc = "adjust" =>
                clerk[c].product \in Products /\ clerk[c].amount \in Amounts
           /\ clerk[c].pc = "import" =>
                /\ clerk[c].product \in Products /\ clerk[c].row \in Rows \cup {NoRow}
                /\ clerk[c].prev \in Int
           /\ clerk[c].pc = "imported" =>
                clerk[c].product \in Products /\ clerk[c].delta \in Int
<1> clerk[c] \in ClerkStates
    BY DEF StockTypeOK
<1> QED
    BY DEF ClerkStates, Idle

LEMMA ClerkIdles ==
    ASSUME NEW c \in Clerks, clerk' = [clerk EXCEPT ![c] = Idle]
    PROVE  ClerkEffect
<1>1. Idle \in ClerkStates /\ Knows(Idle)'
    BY DEF ClerkStates, Idle, Knows
<1> QED
    BY <1>1 DEF ClerkEffect

\* One quantity is written and the difference recorded.
LEMMA OneRowShifts ==
    ASSUME SInv, NEW p \in Products, NEW i \in Rows, NEW q \in Int,
           stock[i].product \in {p, NoProduct},
           q >= 0 \/ q >= stock[i].qty,
           SetRow(i, p, q), Record(p, q - stock[i].qty), imported' = imported
    PROVE  StockEffect
<1>1. /\ stock \in [Rows -> StockRows] /\ moved \in [Products -> Int]
      /\ \A j \in Rows : stock[j].qty \in Int /\ stock[j].product \in Products \cup {NoProduct}
      /\ NoProduct \notin Products /\ IsFiniteSet(Rows)
    BY StockTyped DEF SInv
<1>2. PICK n \in Int : n = q - stock[i].qty
    BY <1>1
<1> DEFINE new == [j \in Rows |-> IF j = i THEN p ELSE stock[j].product]
           d == [j \in Rows |-> IF j = i THEN n ELSE 0]
           none == [j \in Rows |-> 0]
<1>3. new \in [Rows -> Products \cup {NoProduct}] /\ d \in [Rows -> Int]
    BY <1>1
<1>4. ASSUME NEW j \in Rows
      PROVE  /\ stock[j].product \in {new[j], NoProduct}
             /\ new[j] = NoProduct => d[j] = 0
             /\ d[j] >= 0 \/ stock[j].qty + d[j] >= 0
    <2>1. CASE j = i
        <3>1. new[j] = p /\ d[j] = n /\ p # NoProduct
            BY <1>1, <2>1
        <3>2. n >= 0 \/ stock[i].qty + n >= 0
            BY <1>1, <1>2
        <3> QED
            BY <2>1, <3>1, <3>2
    <2>2. CASE j # i
        BY <1>1, <2>2
    <2> QED
        BY <2>1, <2>2
<1>5. stock' = [j \in Rows |-> [product |-> new[j], qty |-> stock[j].qty + d[j]]]
    <2>1. stock' = [stock EXCEPT ![i] = [product |-> p, qty |-> q]]
        BY DEF SetRow
    <2>2. ASSUME NEW j \in Rows
          PROVE  stock'[j] = [product |-> new[j], qty |-> stock[j].qty + d[j]]
        <3>1. CASE j = i
            <4>1. stock'[j] = [product |-> p, qty |-> q] /\ new[j] = p /\ stock[j].qty + d[j] = q
                BY <1>1, <1>2, <2>1, <3>1
            <4> QED
                BY <4>1
        <3>2. CASE j # i
            <4>1. stock'[j] = stock[j] /\ new[j] = stock[j].product /\ stock[j].qty + d[j] = stock[j].qty
                BY <1>1, <2>1, <3>2
            <4>2. stock[j] = [product |-> stock[j].product, qty |-> stock[j].qty]
                BY <1>1 DEF StockRows
            <4> QED
                BY <4>1, <4>2
        <3> QED
            BY <3>1, <3>2
    <2>3. stock' = [j \in Rows |-> stock'[j]]
        BY <1>1, <2>1
    <2> HIDE DEF new, d
    <2> QED
        BY <2>2, <2>3
<1>6. moved' = [x \in Products |-> moved[x] + SumFunctionOnSet(d, {j \in Rows : new[j] = x})]
    <2>1. ASSUME NEW x \in Products
          PROVE  SumFunctionOnSet(d, {j \in Rows : new[j] = x}) = IF x = p THEN n ELSE 0
        <3> DEFINE N == {j \in Rows : new[j] = x}
        <3>1. IsFiniteSet(N)
            BY <1>1, FS_Subset
        <3>2. i \in N <=> x = p
            OBVIOUS
        <3>3. /\ \A j \in N : none[j] = 0
              /\ \A j \in N : none[j] \in Int /\ d[j] = IF j = i THEN none[j] + n ELSE none[j]
            BY <1>2
        <3> HIDE DEF N, d, none
        <3>4. SumFunctionOnSet(none, N) = 0
            BY <3>1, <3>3, SumZero
        <3>5. SumFunctionOnSet(d, N) = SumFunctionOnSet(none, N) + (IF i \in N THEN n ELSE 0)
            <4>1. n \in Int
                BY <1>2
            <4> QED
                BY <3>1, <3>3, <4>1, SumShift
        <3>6. SumFunctionOnSet(d, N) = IF x = p THEN n ELSE 0
            BY <3>2, <3>4, <3>5
        <3> QED
            BY <3>6 DEF N
    <2>2. moved' = [moved EXCEPT ![p] = @ + n]
        BY <1>2 DEF Record
    <2>3. \A x \in Products : moved'[x] = moved[x] + (IF x = p THEN n ELSE 0)
        BY <1>1, <2>2
    <2>4. moved' = [x \in Products |-> moved'[x]]
        BY <1>1, <2>2
    <2> HIDE DEF new, d
    <2> QED
        BY <2>1, <2>3, <2>4
<1> HIDE DEF new, d
<1>7. Shifted(new, d)
    BY <1>3, <1>4, <1>5, <1>6 DEF Shifted
<1> QED
    BY <1>7 DEF StockEffect

LEMMA AdjustEffect ==
    ASSUME SInv, NEW p \in Products, NEW i \in Rows, NEW n \in Amounts,
           AdjustIn(p, i, n) \/ AdjustOut(p, i, n) \/ AdjustTo(p, i, n)
    PROVE  StockEffect /\ ClerkEffect
<1>1. stock[i].qty \in Int /\ n \in Nat /\ stock[i].product = p
    BY StockTyped, StockAssumption DEF SInv, AdjustIn, AdjustOut, AdjustTo, RowsOf
<1>2. clerk' = clerk /\ imported' = imported
    BY DEF AdjustIn, AdjustOut, AdjustTo
<1>3. PICK q \in Int : /\ q >= 0 \/ q >= stock[i].qty
                       /\ SetRow(i, p, q) /\ Record(p, q - stock[i].qty)
    <2>1. CASE AdjustIn(p, i, n)
        <3>1. stock[i].qty + n \in Int /\ stock[i].qty + n >= stock[i].qty
              /\ (stock[i].qty + n) - stock[i].qty = n
            BY <1>1
        <3> QED
            BY <2>1, <3>1 DEF AdjustIn
    <2>2. CASE AdjustOut(p, i, n)
        <3>1. stock[i].qty - n \in Int /\ stock[i].qty - n >= 0
              /\ (stock[i].qty - n) - stock[i].qty = -n
            BY <1>1, <2>2 DEF AdjustOut
        <3> QED
            BY <2>2, <3>1 DEF AdjustOut
    <2>3. CASE AdjustTo(p, i, n)
        BY <1>1, <2>3 DEF AdjustTo
    <2> QED
        BY <2>1, <2>2, <2>3
<1>4. StockEffect
    BY <1>1, <1>2, <1>3, OneRowShifts
<1> QED
    BY <1>2, <1>4 DEF ClerkEffect

LEMMA CreateEffect ==
    ASSUME SInv, NEW c \in Clerks, AdjustCreates(c)
    PROVE  StockEffect /\ ClerkEffect
<1>1. PICK p \in Products, q \in Amounts : p = clerk[c].product /\ q = clerk[c].amount
    BY ClerkCarried DEF SInv, AdjustCreates
<1>2. q \in Nat
    BY StockAssumption
<1>3. PICK i \in Unused : SetRow(i, p, q)
    BY <1>1 DEF AdjustCreates
<1>4. i \in Rows /\ stock[i].product = NoProduct /\ stock[i].qty = 0
    BY DEF Unused, RowsOf, SInv, RowsBlank
<1>5. Record(p, q - stock[i].qty) /\ imported' = imported
    <2>1. q - stock[i].qty = q
        BY <1>2, <1>4
    <2> QED
        BY <1>1, <2>1 DEF AdjustCreates
<1>6. StockEffect
    BY <1>2, <1>3, <1>4, <1>5, OneRowShifts
<1>7. clerk' = [clerk EXCEPT ![c] = Idle]
    BY DEF AdjustCreates
<1> QED
    BY <1>6, <1>7, ClerkIdles

LEMMA ImportEffect ==
    ASSUME SInv, NEW c \in Clerks,
           \/ \E p \in Products : ImportReads(c, p)
           \/ \E n \in Imports : ImportWrites(c, n)
           \/ ImportRecords(c)
    PROVE  StockEffect /\ ClerkEffect
<1>1. /\ stock \in [Rows -> StockRows] /\ StockTypeOK
      /\ \A j \in Rows : stock[j].qty \in Int
    BY StockTyped DEF SInv
<1>2. ASSUME NEW p \in Products, ImportReads(c, p) PROVE StockEffect /\ ClerkEffect
    <2>1. PICK i \in Rows \cup {NoRow}, prev \in Int :
              /\ clerk' = [clerk EXCEPT ![c] =
                             [pc |-> "import", product |-> p, row |-> i, prev |-> prev]]
              /\ i \in Rows => stock[i].product = p
        <3>1. CASE \E i \in RowsOf(p) :
                     clerk' = [clerk EXCEPT ![c] = [pc |-> "import", product |-> p, row |-> i,
                                                    prev |-> stock[i].qty]]
            <4>1. PICK i \in RowsOf(p) :
                      clerk' = [clerk EXCEPT ![c] = [pc |-> "import", product |-> p, row |-> i,
                                                     prev |-> stock[i].qty]]
                BY <3>1
            <4>2. i \in Rows /\ stock[i].product = p /\ stock[i].qty \in Int
                BY <1>1 DEF RowsOf
            <4> QED
                BY <4>1, <4>2
        <3>2. CASE clerk' = [clerk EXCEPT ![c] = [pc |-> "import", product |-> p, row |-> NoRow,
                                                  prev |-> 0]]
            <4>1. NoRow \notin Rows /\ 0 \in Int
                BY StockAssumption
            <4> QED
                BY <3>2, <4>1
        <3> QED
            BY <1>2, <3>1, <3>2 DEF ImportReads
    <2>2. UNCHANGED <<stock, moved, imported>>
        BY <1>2 DEF ImportReads
    <2>3. PICK st : st = [pc |-> "import", product |-> p, row |-> i, prev |-> prev]
        OBVIOUS
    <2>4. st \in ClerkStates
        BY <2>3 DEF ClerkStates
    <2>5. Knows(st)'
        BY <2>1, <2>2, <2>3 DEF Knows
    <2> QED
        BY <2>1, <2>2, <2>3, <2>4, <2>5 DEF StockEffect, ClerkEffect
<1>3. ASSUME NEW n \in Imports, ImportWrites(c, n) PROVE StockEffect /\ ClerkEffect
    <2>1. PICK p \in Products, prev \in Int : p = clerk[c].product /\ prev = clerk[c].prev
        BY <1>1, <1>3, ClerkCarried DEF ImportWrites
    <2>2. n \in Int
        BY StockAssumption
    <2>3. PICK i \in IF clerk[c].row = NoRow THEN Unused ELSE {clerk[c].row} : SetRow(i, p, n)
        BY <1>3, <2>1 DEF ImportWrites
    <2>4. i \in Rows /\ stock[i].product \in {p, NoProduct}
        <3>1. CASE clerk[c].row = NoRow
            BY <2>3, <3>1 DEF Unused, RowsOf
        <3>2. CASE clerk[c].row # NoRow
            BY <1>1, <1>3, <2>1, <2>3, <3>2, ClerkCarried
               DEF SInv, ClerksKnow, Knows, ImportWrites
        <3> QED
            BY <3>1, <3>2
    <2>5. /\ imported' = imported \cup {p} /\ moved' = moved
          /\ clerk' = [clerk EXCEPT ![c] = [pc |-> "imported", product |-> p, delta |-> n - prev]]
        BY <1>3, <2>1 DEF ImportWrites
    <2>6. Overwritten(i, p, n)
        BY <2>2, <2>3, <2>4, <2>5 DEF Overwritten, SetRow
    <2>7. PICK st : st = [pc |-> "imported", product |-> p, delta |-> n - prev]
        OBVIOUS
    <2>8. st \in ClerkStates
        <3>1. n - prev \in Int
            BY <2>2
        <3> QED
            BY <2>7, <3>1 DEF ClerkStates
    <2>9. Knows(st)'
        BY <2>5, <2>7 DEF Knows
    <2> QED
        BY <2>5, <2>6, <2>7, <2>8, <2>9 DEF StockEffect, ClerkEffect
<1>4. ASSUME ImportRecords(c) PROVE StockEffect /\ ClerkEffect
    <2>1. clerk[c].pc = "imported" /\ clerk' = [clerk EXCEPT ![c] = Idle]
        BY <1>4 DEF ImportRecords
    <2>2. clerk[c].product \in imported /\ clerk[c].delta \in Int
        BY <1>1, <2>1, ClerkCarried DEF SInv, ClerksKnow, Knows
    <2>3. Noted(clerk[c].product, clerk[c].delta)
        BY <1>4, <2>2 DEF ImportRecords, Record, Noted
    <2> QED
        BY <2>1, <2>3, ClerkIdles DEF StockEffect
<1> QED
    BY <1>2, <1>3, <1>4

LEMMA ClerkSteps ==
    ASSUME SInv, StockNext
    PROVE  StockEffect /\ ClerkEffect
<1>1. ASSUME NEW c \in Clerks, NEW p \in Products, NEW n \in Amounts, AdjustFindsNone(c, p, n)
      PROVE  StockEffect /\ ClerkEffect
    <2>1. PICK st : st = [pc |-> "adjust", product |-> p, amount |-> n]
        OBVIOUS
    <2>2. st \in ClerkStates /\ Knows(st)'
        BY <2>1 DEF ClerkStates, Knows
    <2> QED
        BY <1>1, <2>1, <2>2 DEF AdjustFindsNone, StockEffect, ClerkEffect
<1>2. ASSUME NEW c \in Clerks, ClerkFails(c) PROVE StockEffect /\ ClerkEffect
    BY <1>2, ClerkIdles DEF ClerkFails, StockEffect
<1> QED
    BY <1>1, <1>2, AdjustEffect, CreateEffect, ImportEffect DEF StockNext

-----------------------------------------------------------------------------
(* Deliveries and receipts.                                                *)

LEMMA DeliverShifts ==
    ASSUME SInv, IInv, NEW r \in Requests, DeliverCommits(r)
    PROVE  StockEffect /\ UNCHANGED clerk
<1>1. /\ stock \in [Rows -> StockRows] /\ moved \in [Products -> Int]
      /\ \A i \in Rows : stock[i].qty \in Int /\ stock[i].product \in Products \cup {NoProduct}
      /\ NoProduct \notin Products /\ IsFiniteSet(Rows)
    BY StockTyped DEF SInv
<1> DEFINE items == req[r].items
<1>3. items \in SUBSET Batches /\ IsFiniteSet(items)
    BY Carried DEF IInv, OrderTypeOK, ReadsKinds, Kinds, DeliverCommits
<1>4. PICK pick \in [items \X Products -> Rows] :
          /\ \A l \in items \X Products : Lines(items)[l] > 0 => stock[pick[l]].product = l[2]
          /\ \A i \in Rows : Share(pick, items, i) > 0 => stock[i].qty >= Share(pick, items, i)
          /\ stock' = [i \in Rows |-> [stock[i] EXCEPT !.qty = @ - Share(pick, items, i)]]
    BY DEF DeliverCommits
<1>5. /\ moved' = [p \in Products |-> moved[p] - Quantity(items, p)]
      /\ UNCHANGED <<imported, clerk>>
    BY DEF DeliverCommits
<1> HIDE DEF items
<1> DEFINE new == [i \in Rows |-> stock[i].product]
           share == [i \in Rows |-> Share(pick, items, i)]
           d == [i \in Rows |-> 0 - share[i]]
<1>6. Lands(pick, items, new)
    BY <1>4 DEF Lands
<1>7. ASSUME NEW i \in Rows
      PROVE  /\ share[i] \in Nat /\ share[i] = Share(pick, items, i)
             /\ new[i] = stock[i].product
             /\ d[i] = 0 - share[i] /\ d[i] \in Int
             /\ new[i] = NoProduct => share[i] = 0
             /\ share[i] > 0 => stock[i].qty >= share[i]
    <2>1. Share(pick, items, i) \in Nat
        BY <1>3, ShareTyped
    <2>2. new[i] = NoProduct => Share(pick, items, i) = 0
        <3> HIDE DEF new
        <3> QED
            BY <1>3, <1>6, NothingLands
    <2> QED
        BY <1>4, <2>1, <2>2
<1>8. ASSUME NEW p \in Products
      PROVE  SumFunctionOnSet(d, {i \in Rows : new[i] = p}) = 0 - Quantity(items, p)
    <2> DEFINE N == {i \in Rows : new[i] = p}
               none == [i \in Rows |-> 0]
    <2>1. IsFiniteSet(N)
        <3> HIDE DEF new
        <3> QED
            BY <1>1, FS_Subset
    <2>2. SumFunctionOnSet(share, N) = Quantity(items, p)
        <3> HIDE DEF new
        <3> QED
            BY <1>3, <1>6, AllLands
    <2>3. /\ \A i \in N : share[i] \in Int /\ d[i] \in Int /\ none[i] = share[i] + d[i]
          /\ \A i \in N : none[i] = 0 /\ d[i] \in Int
        <3> HIDE DEF share, d, new
        <3> QED
            BY <1>7
    <2>4. SumFunctionOnSet(d, N) \in Int /\ Quantity(items, p) \in Nat
        <3>1. Quantity(items, p) \in Nat
            BY <1>3, QuantityTyped
        <3>2. \A i \in N : d[i] \in Int
            BY <2>3
        <3> HIDE DEF d, N
        <3> QED
            BY <2>1, <3>1, <3>2, SumInt
    <2>5. SumFunctionOnSet(none, N) = SumFunctionOnSet(share, N) + SumFunctionOnSet(d, N)
        <3> HIDE DEF share, d, none, N
        <3> QED
            BY <2>1, <2>3, SumPlus
    <2>6. SumFunctionOnSet(none, N) = 0
        <3> HIDE DEF none, N
        <3> QED
            BY <2>1, <2>3, SumZero
    <2>7. SumFunctionOnSet(d, N) = 0 - Quantity(items, p)
        <3> HIDE DEF share, d, none, N
        <3> QED
            BY <2>2, <2>4, <2>5, <2>6
    <2> QED
        BY <2>7
<1>9. stock' = [i \in Rows |-> [product |-> new[i], qty |-> stock[i].qty + d[i]]]
    <2>1. ASSUME NEW i \in Rows
          PROVE  stock'[i] = [product |-> new[i], qty |-> stock[i].qty + d[i]]
        <3>1. stock[i] \in StockRows /\ stock[i].qty \in Int
            BY <1>1
        <3>2. stock'[i] = [stock[i] EXCEPT !.qty = @ - Share(pick, items, i)]
            BY <1>4
        <3>3. stock'[i] = [product |-> stock[i].product,
                           qty |-> stock[i].qty - Share(pick, items, i)]
            BY <3>1, <3>2 DEF StockRows
        <3>4. stock[i].qty - Share(pick, items, i) = stock[i].qty + d[i]
            <4> HIDE DEF share, d, new
            <4> QED
                BY <1>7, <3>1
        <3>5. stock[i].product = new[i]
            BY <1>7
        <3> HIDE DEF share, d, new
        <3> QED
            BY <3>3, <3>4, <3>5
    <2>2. stock' = [i \in Rows |-> stock'[i]]
        BY <1>4
    <2> HIDE DEF share, d, new
    <2> QED
        BY <2>1, <2>2
<1>10. moved' = [p \in Products |-> moved[p] + SumFunctionOnSet(d, {i \in Rows : new[i] = p})]
    <2>1. ASSUME NEW p \in Products
          PROVE  moved'[p] = moved[p] + SumFunctionOnSet(d, {i \in Rows : new[i] = p})
        <3>1. moved'[p] = moved[p] - Quantity(items, p)
            BY <1>5
        <3>2. moved[p] \in Int /\ Quantity(items, p) \in Nat
            BY <1>1, <1>3, QuantityTyped
        <3>3. SumFunctionOnSet(d, {i \in Rows : new[i] = p}) = 0 - Quantity(items, p)
            BY <1>8
        <3> HIDE DEF d, new
        <3> QED
            BY <3>1, <3>2, <3>3
    <2>2. moved' = [p \in Products |-> moved'[p]]
        BY <1>5
    <2> HIDE DEF d, new
    <2> QED
        BY <2>1, <2>2
<1>11. new \in [Rows -> Products \cup {NoProduct}] /\ d \in [Rows -> Int]
    <2>1. new \in [Rows -> Products \cup {NoProduct}]
        BY <1>1
    <2>2. \A i \in Rows : 0 - share[i] \in Int
        <3> HIDE DEF share
        <3> QED
            BY <1>7
    <2> HIDE DEF share
    <2> QED
        BY <2>1, <2>2
<1> HIDE DEF new, d, share
<1>12. \A i \in Rows : /\ stock[i].product \in {new[i], NoProduct}
                       /\ new[i] = NoProduct => d[i] = 0
                       /\ d[i] >= 0 \/ stock[i].qty + d[i] >= 0
    BY <1>1, <1>7
<1>13. Shifted(new, d)
    BY <1>5, <1>9, <1>10, <1>11, <1>12 DEF Shifted
<1> QED
    BY <1>5, <1>13 DEF StockEffect

\* A product of which a line has a quantity is needed.
LEMMA LinesNeeded ==
    ASSUME NEW items \in SUBSET Batches, IsFiniteSet(items),
           NEW l \in items \X Products, Lines(items)[l] > 0
    PROVE  l[2] \in Needed(items)
<1>1. PICK b \in items, p \in Products : l = <<b, p>>
    OBVIOUS
<1> DEFINE f == [c \in items |-> c.qty[p]]
<1>2. /\ \A c \in items : f[c] \in Nat
      /\ f[b] = b.qty[p] /\ Lines(items)[l] = b.qty[p]
    BY <1>1, LinesTyped
<1>3. SumFunctionOnSet(f, items) = f[b] + SumFunctionOnSet(f, items \ {b})
    <2>1. \A c \in items : f[c] \in Int
        BY <1>2
    <2> HIDE DEF f
    <2> QED
        BY <2>1, SumRemove
<1>4. SumFunctionOnSet(f, items \ {b}) \in Nat
    <2>1. IsFiniteSet(items \ {b}) /\ \A c \in items \ {b} : f[c] \in Nat
        BY <1>2, FS_Subset
    <2> HIDE DEF f
    <2> QED
        BY <2>1, SumNat
<1>5. Quantity(items, p) > 0
    <2>1. f[b] \in Nat /\ f[b] > 0 /\ Quantity(items, p) = SumFunctionOnSet(f, items)
        BY <1>2 DEF Quantity
    <2> HIDE DEF f
    <2> QED
        BY <1>3, <1>4, <2>1
<1> QED
    BY <1>1, <1>5 DEF Needed

LEMMA ReceiveShifts ==
    ASSUME SInv, IInv, NEW r \in Requests, ReceiveCommits(r)
    PROVE  StockEffect /\ UNCHANGED clerk
<1>1. /\ stock \in [Rows -> StockRows] /\ moved \in [Products -> Int]
      /\ \A i \in Rows : stock[i].qty \in Int /\ stock[i].product \in Products \cup {NoProduct}
      /\ NoProduct \notin Products /\ IsFiniteSet(Rows)
    BY StockTyped DEF SInv
<1> DEFINE items == req[r].items
           found == req[r].found
           missing == {p \in Needed(items) : found[p] = NoRow}
<1>2. req[r] \in RequestStates /\ req[r].pc = "receiving"
    BY DEF IInv, OrderTypeOK, ReceiveCommits
<1>3. /\ items \in SUBSET Batches /\ IsFiniteSet(items)
      /\ found \in [Products -> Rows \cup {NoRow}]
      /\ \A p \in Products : found[p] \in Rows => stock[found[p]].product = p
    <2>1. items \in SUBSET Batches /\ found \in [Products -> Rows \cup {NoRow}]
        BY <1>2 DEF RequestStates, Idle
    <2>2. IsFiniteSet(items)
        BY <1>2 DEF IInv, ReadsKinds, Kinds
    <2> QED
        BY <1>2, <2>1, <2>2 DEF SInv, FoundHolds
<1>4. PICK fresh \in [missing -> Unused] :
          /\ \A p, q \in missing : fresh[p] = fresh[q] => p = q
          /\ stock' = [i \in Rows |->
               [product |-> IF \E p \in missing : fresh[p] = i
                            THEN CHOOSE p \in missing : fresh[p] = i ELSE stock[i].product,
                qty     |-> stock[i].qty
                            + Share([l \in items \X Products |->
                                       IF l[2] \in missing THEN fresh[l[2]] ELSE found[l[2]]],
                                    items, i)]]
    BY DEF ReceiveCommits
<1>5. /\ moved' = [p \in Products |-> moved[p] + Quantity(items, p)]
      /\ UNCHANGED <<imported, clerk>>
    BY DEF ReceiveCommits
<1>6. missing \subseteq Products /\ \A p \in missing : p \in Needed(items) /\ found[p] = NoRow
    BY DEF Needed
<1>7. \A p \in Needed(items) : p \notin missing => found[p] # NoRow
    OBVIOUS
<1> HIDE DEF items, found, missing
<1> DEFINE pick == [l \in items \X Products |->
                      IF l[2] \in missing THEN fresh[l[2]] ELSE found[l[2]]]
           new == [i \in Rows |-> IF \E p \in missing : fresh[p] = i
                                  THEN CHOOSE p \in missing : fresh[p] = i ELSE stock[i].product]
           share == [i \in Rows |-> Share(pick, items, i)]
<1>8. \A p \in missing : /\ fresh[p] \in Rows /\ stock[fresh[p]].product = NoProduct
                         /\ new[fresh[p]] = p
    BY <1>4 DEF Unused, RowsOf
<1>9. ASSUME NEW i \in Rows
      PROVE  /\ new[i] \in Products \cup {NoProduct}
             /\ stock[i].product \in {new[i], NoProduct}
             /\ stock[i].product # NoProduct => new[i] = stock[i].product
    <2>1. CASE \E p \in missing : fresh[p] = i
        <3>1. PICK p \in missing : fresh[p] = i
            BY <2>1
        <3>2. new[i] = p /\ stock[i].product = NoProduct
            BY <1>8, <3>1
        <3> QED
            BY <1>6, <3>2
    <2>2. CASE ~ \E p \in missing : fresh[p] = i
        BY <1>1, <2>2
    <2> QED
        BY <2>1, <2>2
<1>10. Lands(pick, items, new)
    <2> SUFFICES ASSUME NEW l \in items \X Products, Lines(items)[l] > 0
                 PROVE  pick[l] \in Rows /\ new[pick[l]] = l[2]
        BY DEF Lands
    <2>1. l[2] \in Products /\ l[2] \in Needed(items)
        BY <1>3, LinesNeeded
    <2>2. CASE l[2] \in missing
        <3>1. pick[l] = fresh[l[2]]
            BY <2>2
        <3> HIDE DEF pick, new
        <3> QED
            BY <1>8, <2>2, <3>1
    <2>3. CASE l[2] \notin missing
        <3>1. pick[l] = found[l[2]]
            BY <2>3
        <3>2. found[l[2]] \in Rows /\ stock[found[l[2]]].product = l[2]
            BY <1>3, <1>7, <2>1, <2>3
        <3>3. new[found[l[2]]] = l[2]
            <4> HIDE DEF new
            <4> QED
                BY <1>1, <1>9, <2>1, <3>2
        <3> QED
            BY <3>1, <3>2, <3>3
    <2> QED
        BY <2>2, <2>3
<1>11. ASSUME NEW i \in Rows
       PROVE  share[i] \in Nat /\ (new[i] = NoProduct => share[i] = 0)
    <2>1. share[i] = Share(pick, items, i)
        OBVIOUS
    <2> HIDE DEF share, pick, new
    <2>2. Share(pick, items, i) \in Nat
        BY <1>3, ShareTyped
    <2>3. new[i] = NoProduct => Share(pick, items, i) = 0
        BY <1>3, <1>10, NothingLands
    <2> QED
        BY <2>1, <2>2, <2>3
<1>12. ASSUME NEW p \in Products
       PROVE  SumFunctionOnSet(share, {i \in Rows : new[i] = p}) = Quantity(items, p)
    <2> HIDE DEF pick, new
    <2> QED
        BY <1>3, <1>10, AllLands
<1>13. stock' = [i \in Rows |-> [product |-> new[i], qty |-> stock[i].qty + share[i]]]
    <2>1. \A i \in Rows : stock'[i] = [product |-> new[i], qty |-> stock[i].qty + share[i]]
        BY <1>4
    <2>2. stock' = [i \in Rows |-> stock'[i]]
        BY <1>4
    <2> HIDE DEF share, pick, new
    <2> QED
        BY <2>1, <2>2
<1>14. moved' = [p \in Products |-> moved[p] + SumFunctionOnSet(share, {i \in Rows : new[i] = p})]
    <2>1. moved' = [p \in Products |-> moved'[p]]
        BY <1>5
    <2>2. ASSUME NEW p \in Products
          PROVE  moved'[p] = moved[p] + SumFunctionOnSet(share, {i \in Rows : new[i] = p})
        <3>1. moved'[p] = moved[p] + Quantity(items, p)
            BY <1>5
        <3>2. SumFunctionOnSet(share, {i \in Rows : new[i] = p}) = Quantity(items, p)
            BY <1>12
        <3> HIDE DEF share, pick, new
        <3> QED
            BY <3>1, <3>2
    <2> HIDE DEF share, pick, new
    <2> QED
        BY <2>1, <2>2
<1>15. new \in [Rows -> Products \cup {NoProduct}] /\ share \in [Rows -> Int]
    <2>1. new = [i \in Rows |-> new[i]] /\ share = [i \in Rows |-> share[i]]
        OBVIOUS
    <2> HIDE DEF share, pick, new
    <2>2. \A i \in Rows : new[i] \in Products \cup {NoProduct} /\ share[i] \in Int
        BY <1>9, <1>11
    <2> QED
        BY <2>1, <2>2
<1> HIDE DEF new, share, pick
<1>16. \A i \in Rows : /\ stock[i].product \in {new[i], NoProduct}
                       /\ new[i] = NoProduct => share[i] = 0
                       /\ share[i] >= 0 \/ stock[i].qty + share[i] >= 0
    BY <1>9, <1>11
<1>17. Shifted(new, share)
    BY <1>5, <1>13, <1>14, <1>15, <1>16 DEF Shifted
<1> QED
    BY <1>5, <1>17 DEF StockEffect

-----------------------------------------------------------------------------
(* The invariant of the stock.                                             *)

LEMMA StockStep ==
    ASSUME SInv, IInv, [Next]_vars
    PROVE  StockEffect /\ ClerkEffect
<1>1. CASE UNCHANGED stockVars
    BY <1>1 DEF stockVars, StockEffect, ClerkEffect
<1>2. CASE OrderNext
    <2>1. CASE \E r \in Requests : DeliverCommits(r) \/ ReceiveCommits(r)
        BY <2>1, DeliverShifts, ReceiveShifts DEF ClerkEffect
    <2>2. CASE ~ \E r \in Requests : DeliverCommits(r) \/ ReceiveCommits(r)
        <3>1. UNCHANGED stockVars
            BY <1>2, <2>2 DEF OrderNext, Create, Submit, Accept, CancelPurchase, UpdateReads,
               DeleteReads, CancelReads, DeliverReads, ReceiveReads, UpdateCommits, UpdateDeletes,
               DeleteCommits, CancelCommits, ReceiveGates, RequestFails
        <3> QED
            BY <1>1, <3>1
    <2> QED
        BY <2>1, <2>2
<1>3. CASE StockNext
    BY <1>3, ClerkSteps
<1> QED
    BY <1>1, <1>2, <1>3 DEF Next, vars

LEMMA EffectKeeps ==
    ASSUME SInv, StockEffect
    PROVE  /\ stock' \in [Rows -> StockRows] /\ moved' \in [Products -> Int]
           /\ imported \subseteq imported' /\ imported' \subseteq Products
           /\ RowsBlank' /\ Keeps /\ NeverOversold' /\ HistoryExplainsStock'
<1>1. /\ stock \in [Rows -> StockRows] /\ moved \in [Products -> Int]
      /\ imported \subseteq Products
    BY StockTyped DEF SInv
<1>2. CASE UNCHANGED <<stock, moved, imported>>
    <2>1. \A p \in Products : OnHand(p)' = OnHand(p)
        BY <1>2 DEF OnHand, RowsOf
    <2> QED
        BY <1>1, <1>2, <2>1 DEF SInv, RowsBlank, Keeps, NeverOversold, HistoryExplainsStock
<1>3. ASSUME NEW new, NEW d, Shifted(new, d)
      PROVE  imported' = imported
    BY <1>3 DEF Shifted
<1>4. ASSUME NEW i, NEW p, NEW q, Overwritten(i, p, q)
      PROVE  imported \subseteq imported' /\ moved' = moved
    BY <1>4 DEF Overwritten
<1>5. ASSUME NEW p, NEW n, Noted(p, n)
      PROVE  UNCHANGED <<stock, imported>>
    BY <1>5 DEF Noted
<1>6. CASE \E new, d : Shifted(new, d)
    BY <1>1, <1>3, <1>6, ShiftKeeps
<1>7. CASE \E i, p, q : Overwritten(i, p, q)
    BY <1>1, <1>4, <1>7, OverwriteKeeps
<1>8. CASE \E p, n : Noted(p, n)
    BY <1>1, <1>5, <1>8, NoteKeeps
<1> QED
    BY <1>2, <1>6, <1>7, <1>8 DEF StockEffect

\* A receipt that passes its gate finds rows of the products; they stay so.
LEMMA FoundStep ==
    ASSUME SInv, IInv, RequestEffect, Keeps
    PROVE  FoundHolds'
<1> SUFFICES ASSUME NEW r \in Requests, req'[r].pc = "receiving",
                    NEW p \in Products, req'[r].found[p] \in Rows
             PROVE  stock'[req'[r].found[p]].product = p
    BY DEF FoundHolds
<1>1. req \in [Requests -> RequestStates] /\ p # NoProduct /\ NoRow \notin Rows
    BY StockAssumption DEF IInv, OrderTypeOK
<1>2. stock[req'[r].found[p]].product = p
    <2>1. CASE req'[r] = req[r]
        BY <2>1 DEF SInv, FoundHolds
    <2>2. CASE req'[r] # req[r]
        <3>1. PICK state : Moves(r, state) \/ Gates(r, state)
            BY <1>1, <2>2 DEF RequestEffect, Moves, Gates, Goto
        <3>2. req'[r] = state
            BY <1>1, <3>1 DEF Moves, Gates, Goto
        <3>3. Found(p, state.found[p])
            BY <3>1, <3>2 DEF Moves, Gates
        <3> QED
            BY <1>1, <3>2, <3>3 DEF Found, RowsOf
    <2> QED
        BY <2>1, <2>2
<1> QED
    BY <1>1, <1>2 DEF Keeps

LEMMA ClerksStep ==
    ASSUME SInv, ClerkEffect, Keeps, imported \subseteq imported'
    PROVE  clerk' \in [Clerks -> ClerkStates] /\ ClerksKnow'
<1>1. StockTypeOK /\ clerk \in [Clerks -> ClerkStates]
    BY DEF SInv, StockTypeOK
<1>2. ASSUME NEW c \in Clerks, clerk'[c] = clerk[c] PROVE Knows(clerk[c])'
    <2>1. Knows(clerk[c])
        BY DEF SInv, ClerksKnow
    <2>2. clerk[c].pc = "import" => clerk[c].product \in Products
        BY <1>1, ClerkCarried
    <2>3. NoProduct \notin Products
        BY StockAssumption
    <2> QED
        BY <1>2, <2>1, <2>2, <2>3 DEF Knows, Keeps
<1>3. ASSUME NEW c \in Clerks, clerk'[c] # clerk[c]
      PROVE  Knows(clerk[c])'
    <2>1. PICK state \in ClerkStates : clerk' = [clerk EXCEPT ![c] = state] /\ Knows(state)'
        BY <1>1, <1>3 DEF ClerkEffect
    <2>2. clerk'[c] = state
        BY <1>1, <2>1
    <2> QED
        BY <2>1, <2>2 DEF Knows
<1>4. clerk' \in [Clerks -> ClerkStates]
    BY <1>1 DEF ClerkEffect
<1> QED
    BY <1>2, <1>3, <1>4 DEF ClerksKnow

LEMMA SInvInit == Init => SInv
<1> SUFFICES ASSUME Init PROVE SInv
    OBVIOUS
<1>1. /\ stock = [i \in Rows |-> [product |-> NoProduct, qty |-> 0]]
      /\ moved = [p \in Products |-> 0] /\ imported = {}
      /\ clerk = [c \in Clerks |-> Idle] /\ req = [r \in Requests |-> Idle]
    BY DEF Init, StockInit
<1>2. \A i \in Rows : stock[i].product = NoProduct /\ stock[i].qty = 0
    BY <1>1
<1>3. StockTypeOK
    <2>1. [product |-> NoProduct, qty |-> 0] \in StockRows /\ Idle \in ClerkStates
        BY DEF StockRows, ClerkStates
    <2> QED
        BY <1>1, <2>1 DEF StockTypeOK, StockRows
<1>4. RowsBlank /\ NeverOversold /\ FoundHolds /\ ClerksKnow
    BY <1>1, <1>2 DEF RowsBlank, NeverOversold, FoundHolds, ClerksKnow, Knows, Idle
<1>5. ASSUME NEW p \in Products PROVE OnHand(p) = moved[p]
    <2>1. RowsOf(p) = {}
        BY <1>2, StockAssumption DEF RowsOf
    <2>2. OnHand(p) = 0
        BY <2>1, SumEmpty DEF OnHand
    <2> QED
        BY <1>1, <2>2
<1> QED
    BY <1>3, <1>4, <1>5 DEF SInv, HistoryExplainsStock

LEMMA SInvNext == SInv /\ IInv /\ [Next]_vars => SInv'
<1> SUFFICES ASSUME SInv, IInv, [Next]_vars PROVE SInv'
    OBVIOUS
<1>1. StockEffect /\ ClerkEffect /\ RequestEffect
    BY StockStep, StepEffect
<1>2. /\ stock' \in [Rows -> StockRows] /\ moved' \in [Products -> Int]
      /\ imported \subseteq imported' /\ imported' \subseteq Products
      /\ RowsBlank' /\ Keeps /\ NeverOversold' /\ HistoryExplainsStock'
    BY <1>1, EffectKeeps
<1>3. FoundHolds'
    BY <1>1, <1>2, FoundStep
<1>4. clerk' \in [Clerks -> ClerkStates] /\ ClerksKnow'
    BY <1>1, <1>2, ClerksStep
<1>5. StockTypeOK'
    BY <1>2, <1>4 DEF StockTypeOK, StockRows, ClerkStates
<1> QED
    BY <1>2, <1>3, <1>4, <1>5 DEF SInv

LEMMA SInvAlways == Spec => []SInv
BY IInvAlways, SInvInit, SInvNext, PTL DEF Spec

(* Everything keeps its type: the stock rows, the recorded changes and the *)
(* clerks of inventory.service.ts and import.service.ts, and the orders,   *)
(* books and requests.                                                     *)
THEOREM TypeCorrect == Spec => []TypeOK
<1>1. IInv /\ SInv => TypeOK
    BY DEF IInv, SInv, TypeOK
<1> QED
    BY <1>1, IInvAlways, SInvAlways, PTL

(* Deliveries of any item lists, adjustments, receipts and imports, in any *)
(* order and number: no row goes below zero unless an import wrote its     *)
(* product.                                                                *)
THEOREM NothingOversold == Spec => []NeverOversold
BY SInvAlways, PTL DEF SInv

(* The movement rows of deliveries, receipts and adjustments add up to     *)
(* what the rows of a product hold, until an import writes that product:   *)
(* each item line moves one row of its product by its quantity.            *)
THEOREM HistoryHolds == Spec => []HistoryExplainsStock
BY SInvAlways, PTL DEF SInv

-----------------------------------------------------------------------------
(* Refinement.                                                             *)

LEMMA AbstractInit == Init => Abstract!FulfilmentInit
BY DEF Init, Abstract!FulfilmentInit, phaseView, billsView, journalsView, Phase, Count, Done

LEMMA WorkStep ==
    ASSUME IInv, NEW o, NEW row, Worked(o, row)
    PROVE  [Abstract!FulfilmentNext]_(Abstract!fulfilment)
<1>1. order \in [Orders -> OrderRows]
    BY DEF IInv, OrderTypeOK, OrderRows
<1>2. UNCHANGED <<moves, billsView, journalsView>>
    BY DEF Worked, billsView, journalsView
<1>3. /\ o \in Orders
      /\ \A x \in Orders : order'[x].status = IF x = o THEN row.status ELSE order[x].status
    BY <1>1 DEF Worked, Rewritten
<1>4. CASE Phase(o, row.status) = Phase(o, order[o].status)
    <2>1. phaseView' = phaseView
        BY <1>3, <1>4 DEF phaseView
    <2> QED
        BY <1>2, <2>1 DEF Abstract!fulfilment
<1>5. CASE Phase(o, row.status) # Phase(o, order[o].status)
    <2>1. Phase(o, order[o].status) = "open" /\ Phase(o, row.status) = "void"
        BY <1>5 DEF Worked, Open, Phase
    <2>2. /\ phaseView[o] = "open"
          /\ phaseView' = [phaseView EXCEPT ![o] = "void"]
        BY <1>3, <2>1 DEF phaseView
    <2> QED
        BY <1>2, <1>3, <2>2 DEF Abstract!FulfilmentNext, Abstract!Void
<1> QED
    BY <1>4, <1>5

LEMMA FulfilStep ==
    ASSUME IInv, NEW o, NEW row, NEW b, Fulfilled(o, row, b)
    PROVE  [Abstract!FulfilmentNext]_(Abstract!fulfilment)
<1>1. /\ order \in [Orders -> OrderRows] /\ books \in [Orders -> BookRows]
      /\ moves \in [Orders -> Nat]
    BY DEF IInv, OrderTypeOK, OrderRows, BookRows
<1>2. /\ o \in Orders
      /\ \A x \in Orders : order'[x].status = IF x = o THEN row.status ELSE order[x].status
      /\ \A x \in Orders : books'[x] = IF x = o THEN b ELSE books[x]
    BY <1>1 DEF Fulfilled, Rewritten
<1>3. moves[o] = 0 /\ books[o].bill = {}
    BY <1>2 DEF IInv, BooksFollowStatus, Fulfilled, Open
<1>4. moves' = [moves EXCEPT ![o] = 1]
    BY <1>1, <1>3 DEF Fulfilled
<1>5. b.bill # {} /\ b.journal # {}
    BY <1>3 DEF Fulfilled
<1>6. phaseView[o] = "open" /\ phaseView' = [phaseView EXCEPT ![o] = "fulfilled"]
    <2>1. Phase(o, order[o].status) = "open" /\ Phase(o, row.status) = "fulfilled"
        BY DEF Fulfilled, Open, Phase
    <2> QED
        BY <1>2, <2>1 DEF phaseView
<1>7. billsView' = [billsView EXCEPT ![o] = 1]
    BY <1>2, <1>5 DEF billsView, Count
<1>8. journalsView' = [journalsView EXCEPT ![o] = 1]
    BY <1>2, <1>5 DEF journalsView, Count
<1> QED
    BY <1>2, <1>4, <1>6, <1>7, <1>8 DEF Abstract!FulfilmentNext, Abstract!Fulfil

(* Deliveries and receipts, with their gates, locks and stale reads, are   *)
(* the one-step fulfilment of Fulfilment; everything else stutters or      *)
(* voids an open order.                                                    *)
THEOREM Implements == Spec => ImplementsFulfilment
<1>1. IInv /\ [Next]_vars =>
        [Abstract!FulfilmentNext]_(Abstract!fulfilment)
    <2> SUFFICES ASSUME IInv, [Next]_vars
                 PROVE  [Abstract!FulfilmentNext]_(Abstract!fulfilment)
        OBVIOUS
    <2>1. OrderEffect
        BY StepEffect
    <2>2. CASE UNCHANGED <<order, moves, books>>
        BY <2>2 DEF Abstract!fulfilment, phaseView, billsView, journalsView
    <2> QED
        BY <2>1, <2>2, WorkStep, FulfilStep DEF OrderEffect
<1> QED
    BY <1>1, AbstractInit, IInvInit, IInvNext, PTL DEF Spec, ImplementsFulfilment, Abstract!FulfilmentSpec
=============================================================================
