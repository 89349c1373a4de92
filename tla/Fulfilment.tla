----------------------------- MODULE Fulfilment -----------------------------
(***************************************************************************)
(* What delivering a sale and receiving a purchase promise: an order is    *)
(* fulfilled at most once, its stock movement, its bill and its journal    *)
(* entry appear together in that step, and an order that was cancelled     *)
(* never gets any of them.                                                 *)
(***************************************************************************)
EXTENDS Naturals

CONSTANT Orders

VARIABLES
    phase,      \* "open", "fulfilled" or "void"
    moves,      \* how often stock was moved for an order
    bills,      \* receivables or payables of an order
    journals    \* journal entries of its revenue or receipt

fulfilment == <<phase, moves, bills, journals>>

FulfilmentInit ==
    /\ phase = [o \in Orders |-> "open"]
    /\ moves = [o \in Orders |-> 0]
    /\ bills = [o \in Orders |-> 0]
    /\ journals = [o \in Orders |-> 0]

Fulfil(o) ==
    /\ phase[o] = "open"
    /\ phase' = [phase EXCEPT ![o] = "fulfilled"]
    /\ moves' = [moves EXCEPT ![o] = 1]
    /\ bills' = [bills EXCEPT ![o] = 1]
    /\ journals' = [journals EXCEPT ![o] = 1]

Void(o) ==
    /\ phase[o] = "open"
    /\ phase' = [phase EXCEPT ![o] = "void"]
    /\ UNCHANGED <<moves, bills, journals>>

FulfilmentNext == \E o \in Orders : Fulfil(o) \/ Void(o)

FulfilmentSpec == FulfilmentInit /\ [][FulfilmentNext]_fulfilment
=============================================================================
