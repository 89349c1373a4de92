----------------------------- MODULE OpenItems -----------------------------
(***************************************************************************)
(* What receivables and payables promise: an item opens once with its      *)
(* amount, is paid in instalments of which none exceeds what is still      *)
(* open, every instalment moves the same amount of money at the same       *)
(* moment, and the one that leaves nothing open settles the item. What is  *)
(* open is known to a rounding. Nothing is opened again, paid back, or     *)
(* paid after it was settled.                                              *)
(***************************************************************************)
EXTENDS Integers

CONSTANTS
    Items,
    Rounding    \* how far one calculation may be off

VARIABLES
    billed,     \* the items that were opened
    open,       \* what is still to be paid
    settled,    \* the items that are reported as paid
    received    \* the money booked for an item

openItems == <<billed, open, settled, received>>

OpenItemsInit ==
    /\ billed = {}
    /\ open = [i \in Items |-> 0]
    /\ settled = {}
    /\ received = [i \in Items |-> 0]

Bill(i) ==
    /\ i \notin billed
    /\ billed' = billed \cup {i}
    /\ open'[i] \in Nat
    /\ open' = [open EXCEPT ![i] = open'[i]]
    /\ UNCHANGED <<settled, received>>

Instalment(i) ==
    LET n == received'[i] - received[i] IN
    /\ i \in billed \ settled
    /\ n \in 1 .. (open[i] + Rounding)
    /\ received' = [received EXCEPT ![i] = @ + n]
    /\ open'[i] \in (open[i] - n - Rounding) .. (open[i] - n + Rounding)
    /\ open' = [open EXCEPT ![i] = open'[i]]
    /\ settled' = IF open'[i] <= 0 THEN settled \cup {i} ELSE settled
    /\ UNCHANGED billed

OpenItemsSpec ==
    OpenItemsInit /\ [][\E i \in Items : Bill(i) \/ Instalment(i)]_openItems
=============================================================================
