------------------------------- MODULE Stock -------------------------------
(***************************************************************************)
(* The stock of an organization: the Inventory rows without a warehouse    *)
(* and the movement rows (InventoryTransaction) written beside them, as    *)
(* manual adjustments (inventory.service.ts) and the inventory import      *)
(* (import.service.ts) change them. Trade extends this module with the     *)
(* deliveries and receipts of orders.                                      *)
(*                                                                         *)
(* Every transaction runs at READ COMMITTED: one that locks the row it     *)
(* works on is one step; one that found no row to lock, and every call     *)
(* made outside a transaction, is a step of its own.                       *)
(***************************************************************************)
EXTENDS Integers, FiniteSets, Functions

CONSTANTS
    Products,
    Rows,           \* identities of Inventory rows
    NoProduct,      \* the product of a row that was not created
    NoRow,
    Clerks,         \* requests of the inventory and import services
    Amounts,        \* quantities of an adjustment
    Imports,        \* quantities of an imported line: any integer is accepted
    MaxStock        \* bound: no row grows beyond it

ASSUME StockAssumption ==
    /\ IsFiniteSet(Products) /\ IsFiniteSet(Rows)
    /\ NoProduct \notin Products
    /\ NoRow \notin Rows
    /\ Amounts \subseteq Nat
    /\ Imports \subseteq Int
    /\ MaxStock \in Nat

VARIABLES
    stock,          \* the Inventory rows: product and quantity
    moved,          \* per product, the sum of newQuantity - previousQuantity
    imported,       \* the products a data import has written
    clerk           \* what each clerk's request is doing

stockVars == <<stock, moved, imported, clerk>>

Idle == [pc |-> "idle"]

ClerkStates ==
    {Idle}
    \cup [pc : {"adjust"}, product : Products, amount : Amounts]
    \cup [pc : {"import"}, product : Products, row : Rows \cup {NoRow}, prev : Int]
    \cup [pc : {"imported"}, product : Products, delta : Int]

StockTypeOK ==
    /\ stock \in [Rows -> [product : Products \cup {NoProduct}, qty : Int]]
    /\ moved \in [Products -> Int]
    /\ imported \in SUBSET Products
    /\ clerk \in [Clerks -> ClerkStates]

StockInit ==
    /\ stock = [i \in Rows |-> [product |-> NoProduct, qty |-> 0]]
    /\ moved = [p \in Products |-> 0]
    /\ imported = {}
    /\ clerk = [c \in Clerks |-> Idle]

RowsOf(p) == {i \in Rows : stock[i].product = p}
Unused == RowsOf(NoProduct)

\* One quantity written into a row, with the movement row beside it.
SetRow(i, p, q) == stock' = [stock EXCEPT ![i] = [product |-> p, qty |-> q]]
Record(p, delta) == moved' = [moved EXCEPT ![p] = @ + delta]

-----------------------------------------------------------------------------
(* Manual adjustments.                                                     *)

\* FAULT: the decrement is not conditioned on the quantity.
AdjustOutUnchecked(p, i, n) ==
    /\ i \in RowsOf(p)
    /\ SetRow(i, p, stock[i].qty - n)
    /\ Record(p, -n)
    /\ UNCHANGED <<imported, clerk>>

\* FAULT: previousQuantity is taken for zero.
AdjustToFromZero(p, i, n) ==
    /\ i \in RowsOf(p)
    /\ SetRow(i, p, n)
    /\ Record(p, n)
    /\ UNCHANGED <<imported, clerk>>

\* The row exists and is locked by SELECT ... FOR UPDATE until the commit.
AdjustIn(p, i, n) ==
    /\ i \in RowsOf(p)
    /\ stock[i].qty + n <= MaxStock
    /\ SetRow(i, p, stock[i].qty + n)
    /\ Record(p, n)
    /\ UNCHANGED <<imported, clerk>>

AdjustOut(p, i, n) ==
    /\ i \in RowsOf(p)
    /\ stock[i].qty >= n
    /\ SetRow(i, p, stock[i].qty - n)
    /\ Record(p, -n)
    /\ UNCHANGED <<imported, clerk>>

AdjustTo(p, i, n) ==
    /\ i \in RowsOf(p)
    /\ SetRow(i, p, n)
    /\ Record(p, n - stock[i].qty)
    /\ UNCHANGED <<imported, clerk>>

\* No row yet: the lock holds nothing, and the row is created later.
AdjustFindsNone(c, p, n) ==
    /\ clerk[c] = Idle
    /\ RowsOf(p) = {}
    /\ clerk' = [clerk EXCEPT ![c] = [pc |-> "adjust", product |-> p, amount |-> n]]
    /\ UNCHANGED <<stock, moved, imported>>

AdjustCreates(c) ==
    /\ clerk[c].pc = "adjust"
    /\ \E i \in Unused : SetRow(i, clerk[c].product, clerk[c].amount)
    /\ Record(clerk[c].product, clerk[c].amount)
    /\ clerk' = [clerk EXCEPT ![c] = Idle]
    /\ UNCHANGED imported

-----------------------------------------------------------------------------
(* The inventory import: the quantities are read before the rows of the    *)
(* file are written, one call at a time and outside any transaction.       *)

\* Bound: once a product has been imported no further import of it starts.
ImportReads(c, p) ==
    /\ clerk[c] = Idle
    /\ p \notin imported
    /\ \/ \E i \in RowsOf(p) :
            clerk' = [clerk EXCEPT ![c] =
                        [pc |-> "import", product |-> p, row |-> i, prev |-> stock[i].qty]]
       \/ /\ RowsOf(p) = {}
          /\ clerk' = [clerk EXCEPT ![c] =
                        [pc |-> "import", product |-> p, row |-> NoRow, prev |-> 0]]
    /\ UNCHANGED <<stock, moved, imported>>

ImportWrites(c, n) ==
    /\ clerk[c].pc = "import"
    /\ \E i \in IF clerk[c].row = NoRow THEN Unused ELSE {clerk[c].row} :
         SetRow(i, clerk[c].product, n)
    /\ imported' = imported \cup {clerk[c].product}
    /\ clerk' = [clerk EXCEPT ![c] = [pc |-> "imported", product |-> clerk[c].product,
                                      delta |-> n - clerk[c].prev]]
    /\ UNCHANGED moved

ImportRecords(c) ==
    /\ clerk[c].pc = "imported"
    /\ Record(clerk[c].product, clerk[c].delta)
    /\ clerk' = [clerk EXCEPT ![c] = Idle]
    /\ UNCHANGED <<stock, imported>>

\* The call fails, its transaction rolls back or the process dies.
ClerkFails(c) ==
    /\ clerk[c] # Idle
    /\ clerk' = [clerk EXCEPT ![c] = Idle]
    /\ UNCHANGED <<stock, moved, imported>>

StockNext ==
    \/ \E p \in Products, i \in Rows, n \in Amounts :
         AdjustIn(p, i, n) \/ AdjustOut(p, i, n) \/ AdjustTo(p, i, n)
    \/ \E c \in Clerks, p \in Products, n \in Amounts : AdjustFindsNone(c, p, n)
    \/ \E c \in Clerks, p \in Products : ImportReads(c, p)
    \/ \E c \in Clerks, n \in Imports : ImportWrites(c, n)
    \/ \E c \in Clerks : AdjustCreates(c) \/ ImportRecords(c) \/ ClerkFails(c)

-----------------------------------------------------------------------------
\* What is on hand of a product, over all its rows.
OnHand(p) == SumFunctionOnSet([i \in Rows |-> stock[i].qty], RowsOf(p))

(* Every decrement (deliver, adjust OUT) is guarded by the row as it is at *)
(* that moment, so no interleaving of deliveries, adjustments and receipts *)
(* drives a row below zero; only an import can write a negative quantity.  *)
NeverOversold ==
    \A i \in Rows : stock[i].qty >= 0 \/ stock[i].product \in imported

(* For a product no import has touched, the movement history explains the  *)
(* stock: what the rows hold is the sum of all recorded changes, whoever   *)
(* made them and even when two creators each made a row.                   *)
HistoryExplainsStock ==
    \A p \in Products \ imported : OnHand(p) = moved[p]
=============================================================================
