--------------------------- MODULE PaymentLedger ---------------------------
(***************************************************************************)
(* PaymentProcessing implements SubscriptionLedger.  The ledger is read    *)
(* off the invoices, not off the payments' status, and the entitlement off *)
(* the subscription rows: the step that issues an invoice is the step that *)
(* activates, and the step that voids it is the one that cancels.          *)
(***************************************************************************)
EXTENDS PaymentProcessing

RecordOf(p) ==
    IF InvoicesOf(p) = {} THEN "unpaid"
    ELSE IF \E i \in InvoicesOf(p) : i.status = "PAID" THEN "paid"
    ELSE "reversed"

ledgerView ==
    [p \in Payments |->
        [record |-> RecordOf(p),
         offer |-> IF InvoicesOf(p) = {} THEN NoOffer ELSE pay[p].offer]]

entitledView ==
    [o \in Orgs |-> IF sub[o].status = "ACTIVE" THEN sub[o].plan ELSE NoPlan]

Ledger == INSTANCE SubscriptionLedger WITH ledger <- ledgerView, entitled <- entitledView

\* Every step of the service either leaves the ledger alone, or buys one
\* payment, or gives one back, record and entitlement together ("All state
\* mutations that activate a subscription and generate an invoice are performed
\* inside a single database transaction").
ImplementsLedger == Ledger!LedgerSpec

=============================================================================
