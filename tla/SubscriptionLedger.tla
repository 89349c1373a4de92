------------------------- MODULE SubscriptionLedger -------------------------
(***************************************************************************)
(* What billing promises an organization, with no handlers, no gateway and *)
(* no webhooks: a payment is bought at most once, which entitles its       *)
(* organization to the plan it was made for, and is reversed at most once, *)
(* which ends the entitlement.  The money's record (the invoice) and the   *)
(* entitlement change in the same step.                                    *)
(***************************************************************************)
CONSTANTS Payments, Orgs, Plans, NoOffer, NoPlan

VARIABLES
    ledger,         \* of each payment: its financial record, and what it was for
    entitled        \* the plan each organization may use because it paid

ledgerVars == <<ledger, entitled>>

Unpaid == [record |-> "unpaid", offer |-> NoOffer]

LedgerInit ==
    /\ ledger = [p \in Payments |-> Unpaid]
    /\ entitled = [o \in Orgs |-> NoPlan]

Buy(p, o, plan) ==
    /\ ledger[p] = Unpaid
    /\ ledger' = [ledger EXCEPT ![p] = [record |-> "paid", offer |-> <<o, plan>>]]
    /\ entitled' = [entitled EXCEPT ![o] = plan]

GiveBack(p) ==
    /\ ledger[p].record = "paid"
    /\ ledger' = [ledger EXCEPT ![p].record = "reversed"]
    /\ entitled' = [entitled EXCEPT ![ledger[p].offer[1]] = NoPlan]

LedgerNext ==
    \E p \in Payments :
        \/ \E o \in Orgs, plan \in Plans : Buy(p, o, plan)
        \/ GiveBack(p)

LedgerSpec == LedgerInit /\ [][LedgerNext]_ledgerVars

=============================================================================
