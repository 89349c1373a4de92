------------------------- MODULE PaymentProcessing -------------------------
(***************************************************************************)
(* PaymentProcessingService (payment-processing.service.ts): checkout,     *)
(* verification, webhooks and refunds of subscription payments.            *)
(*                                                                         *)
(* Each API request runs in a handler.  A handler is suspended at every    *)
(* await, so each action below is one database statement, one database     *)
(* transaction or one gateway call, and what a handler carries over an     *)
(* await - the row it read, the reference it got - is in proc[h].          *)
(*                                                                         *)
(* The two $transaction blocks are single actions.  Both start with SELECT *)
(* ... FOR UPDATE on the payment row, and finalizing then takes the row    *)
(* lock of the organization's only Subscription by its upsert before it    *)
(* reads the invoice numbers, so finalizations of one organization run one *)
(* after the other; a transaction that fails or dies leaves no trace       *)
(* (Abort).                                                                *)
(***************************************************************************)
EXTENDS StripeGateway

CONSTANTS
    Orgs,           \* organizations
    Plans,          \* subscription plans, each with its billing interval
    Handlers        \* API requests served at the same time

VARIABLES
    pay,            \* SubscriptionPayment rows
    sub,            \* Subscription row of each organization
    invoices,       \* SubscriptionInvoice rows
    proc            \* what each handler is about to do and the data it holds

vars == <<sess, emitted, ack, pay, sub, invoices, proc>>

Offers == Orgs \X Plans
NoOffer == <<>>
NoPlan == <<>>

ASSUME PlansAssumption == NoPlan \notin Plans

PaymentStates == {"NONE", "PENDING", "SUCCEEDED", "FAILED", "CANCELLED", "REFUNDED"}
SubscriptionStates == {"NONE", "TRIALING", "ACTIVE", "PAST_DUE", "CANCELLED", "EXPIRED"}
InvoiceStates == {"PAID", "VOID"}
Steps == {"idle", "createPayment", "createSession", "storeSession", "storeValId",
          "askGateway", "finalize", "fail", "refundAtGateway", "refund"}

OrgOf(p) == pay[p].offer[1]
PlanOf(p) == pay[p].offer[2]

Idle == [step |-> "idle", offer |-> NoOffer, pay |-> NoPayment,
         ref |-> NoRef, seen |-> {}, evt |-> NoEvent]

PaymentRows == [offer: Offers \cup {NoOffer}, status: PaymentStates,
                ref: Refs \cup {NoRef}, seen: SUBSET Events]
InvoiceRows == [pay: Payments, number: Nat \ {0}, status: InvoiceStates]
Requests == [step: Steps, offer: Offers \cup {NoOffer}, pay: Payments \cup {NoPayment},
             ref: Refs \cup {NoRef}, seen: SUBSET Events, evt: Events \cup {NoEvent}]

TypeOK ==
    /\ GatewayTypeOK
    /\ pay \in [Payments -> PaymentRows]
    /\ \A p \in Payments : IF pay[p].status = "NONE" THEN pay[p].ref = NoRef
                                                    ELSE pay[p].offer \in Offers
    /\ sub \in [Orgs -> [status: SubscriptionStates, plan: Plans \cup {NoPlan}]]
    /\ invoices \in SUBSET InvoiceRows
    /\ proc \in [Handlers -> Requests]

\* Provisioning has given an organization a trial, or nothing yet.
Init ==
    /\ GatewayInit
    /\ pay = [p \in Payments |-> [offer |-> NoOffer, status |-> "NONE", ref |-> NoRef, seen |-> {}]]
    /\ sub \in [Orgs -> {[status |-> "NONE", plan |-> NoPlan]}
                        \cup [status: {"TRIALING"}, plan: Plans]]
    /\ invoices = {}
    /\ proc = [h \in Handlers |-> Idle]

-----------------------------------------------------------------------------
(* Handlers.                                                                *)

Begin(h, request) == proc[h] = Idle /\ proc' = [proc EXCEPT ![h] = request]
Return(h) == proc' = [proc EXCEPT ![h] = Idle]
Continue(h, step) == proc' = [proc EXCEPT ![h].step = step]

\* The controller answers 2xx to the delivery of e.
Answer(e, how) ==
    ack' = IF e \in Events /\ ack[e] # "processed" THEN [ack EXCEPT ![e] = how] ELSE ack

EventIds(e) == {e} \ {NoEvent}

\* A gateway or database call fails, the transaction times out or the process dies.
Abort(h) ==
    /\ proc[h] # Idle
    /\ Return(h)
    /\ UNCHANGED <<sess, emitted, ack, pay, sub, invoices>>

-----------------------------------------------------------------------------
(* createCheckout                                                           *)

PendingFor(offer) == {p \in Payments : pay[p].offer = offer /\ pay[p].status = "PENDING"}

\* The latest PENDING payment of the same organization and plan is reused.
ReusePending(h, offer) ==
    /\ \E p \in PendingFor(offer) :
        /\ \A q \in PendingFor(offer) : q <= p
        /\ Begin(h, [Idle EXCEPT !.step = "createSession", !.pay = p])
    /\ UNCHANGED <<sess, emitted, ack, pay, sub, invoices>>

FindNoPending(h, offer) ==
    /\ PendingFor(offer) = {}
    /\ Begin(h, [Idle EXCEPT !.step = "createPayment", !.offer = offer])
    /\ UNCHANGED <<sess, emitted, ack, pay, sub, invoices>>

CreatePayment(h) ==
    /\ proc[h].step = "createPayment"
    /\ \E p \in Payments :
        /\ pay[p].status = "NONE"
        /\ \A q \in Payments : q < p => pay[q].status # "NONE"
        /\ pay' = [pay EXCEPT ![p] = [@ EXCEPT !.offer = proc[h].offer, !.status = "PENDING"]]
        /\ proc' = [proc EXCEPT ![h] = [Idle EXCEPT !.step = "createSession", !.pay = p]]
    /\ UNCHANGED <<sess, emitted, ack, sub, invoices>>

\* provider.createCheckoutSession
CreateSession(h) ==
    /\ proc[h].step = "createSession"
    /\ \E s \in Sessions :
        /\ sess[s].state = "none"
        /\ sess' = [sess EXCEPT ![s] = [@ EXCEPT !.state = "created", !.pay = proc[h].pay]]
        /\ proc' = [proc EXCEPT ![h] = [@ EXCEPT !.step = "storeSession", !.ref = SessionRef(s)]]
    /\ UNCHANGED <<emitted, ack, pay, sub, invoices>>

\* The reference is written whatever became of the payment in the meantime,
\* gatewayData is replaced, and the customer is sent to the session's URL.
StoreSession(h) ==
    /\ proc[h].step = "storeSession"
    /\ pay' = [pay EXCEPT ![proc[h].pay] = [@ EXCEPT !.ref = proc[h].ref, !.seen = {}]]
    /\ sess' = [sess EXCEPT ![proc[h].ref[2]].state = IF @ = "created" THEN "open" ELSE @]
    /\ Return(h)
    /\ UNCHANGED <<emitted, ack, sub, invoices>>

-----------------------------------------------------------------------------
(* verifyPayment                                                            *)

\* The row is read; a valId in the request is stored before the gateway is asked.
BeginVerify(h, p) ==
    /\ pay[p].status \notin {"NONE", "SUCCEEDED"}
    /\ pay[p].ref # NoRef
    /\ \E step \in {"storeValId", "askGateway"} :
        Begin(h, [Idle EXCEPT !.step = step, !.pay = p, !.ref = pay[p].ref, !.seen = pay[p].seen])
    /\ UNCHANGED <<sess, emitted, ack, pay, sub, invoices>>

\* gatewayData as it was read, with the valId, goes back into the row.
StoreValId(h) ==
    /\ proc[h].step = "storeValId"
    /\ pay' = [pay EXCEPT ![proc[h].pay].seen = proc[h].seen]
    /\ Continue(h, "askGateway")
    /\ UNCHANGED <<sess, emitted, ack, sub, invoices>>

\* provider.verifyPayment looks the reference up as a checkout session; Stripe
\* knows no session by the name of a payment intent, and the call fails.
AskGateway(h) ==
    /\ proc[h].step = "askGateway"
    /\ LET s == proc[h].ref[2]
           status == IF proc[h].ref = SessionRef(s) THEN VerificationStatus(s) ELSE "PENDING"
       IN \/ /\ status = "SUCCEEDED"
             /\ proc' = [proc EXCEPT ![h] = [@ EXCEPT !.step = "finalize", !.ref = Intent(s)]]
          \/ /\ status = "CANCELLED"
             /\ Continue(h, "fail")
          \/ /\ status = "PENDING"
             /\ Return(h)
    /\ UNCHANGED <<sess, emitted, ack, pay, sub, invoices>>

-----------------------------------------------------------------------------
(* handleWebhook                                                            *)

WithRef(ref) == {p \in Payments : ref # NoRef /\ pay[p].ref = ref}

\* FAULT: events are looked up by transaction only.
PaymentsOfTransaction(e) == WithRef(WebhookTransactionRef(e))

\* findPaymentByWebhook: by session first, then by transaction.
PaymentsOf(e) ==
    IF WithRef(WebhookSessionRef(e)) # {} THEN WithRef(WebhookSessionRef(e))
    ELSE WithRef(WebhookTransactionRef(e))

NextStep(status) ==
    CASE status = "SUCCEEDED" -> "finalize"
      [] status = "REFUNDED" -> "refund"
      [] status = "CANCELLED" -> "fail"

DispatchEvent(h, e) ==
    /\ e \in emitted
    /\ WebhookStatus(e) # "UNHANDLED"
    /\ \E p \in PaymentsOf(e) :
        /\ e \notin pay[p].seen
        /\ Begin(h, [Idle EXCEPT !.step = NextStep(WebhookStatus(e)), !.pay = p,
                                 !.ref = WebhookTransactionRef(e),
                                 !.seen = pay[p].seen, !.evt = e])
    /\ UNCHANGED <<sess, emitted, ack, pay, sub, invoices>>

\* An event of no interest, of no known payment, or seen before is answered at once.
IgnoreEvent(h, e) ==
    /\ e \in emitted
    /\ proc[h] = Idle
    /\ \/ WebhookStatus(e) = "UNHANDLED"
       \/ PaymentsOf(e) = {}
       \/ \E p \in PaymentsOf(e) : e \in pay[p].seen
    /\ Answer(e, "ignored")
    /\ UNCHANGED <<sess, emitted, pay, sub, invoices, proc>>

-----------------------------------------------------------------------------
(* refundPayment                                                            *)

BeginRefund(h, p) ==
    /\ pay[p].status = "SUCCEEDED"
    /\ Begin(h, [Idle EXCEPT !.step = "refundAtGateway", !.pay = p,
                             !.ref = pay[p].ref, !.seen = pay[p].seen])
    /\ UNCHANGED <<sess, emitted, ack, pay, sub, invoices>>

\* provider.refundPayment refunds the charge of the payment intent.  The key
\* refund:<payment> makes a second request answer what the first one did; a
\* reference that is no intent, or a charge refunded otherwise, is an error.
RefundAtGateway(h) ==
    /\ proc[h].step = "refundAtGateway"
    /\ \E s \in Sessions :
        /\ proc[h].ref = Intent(s)
        /\ sess[s].charge \in {"captured", "refundedByApi"}
        /\ sess' = [sess EXCEPT ![s].charge = "refundedByApi"]
        /\ emitted' = emitted \cup {<<"refunded", s>>}
    /\ Continue(h, "refund")
    /\ UNCHANGED <<ack, pay, sub, invoices>>

-----------------------------------------------------------------------------
(* finalizeSuccessfulPayment, markPaymentFailed, markPaymentRefunded        *)

\* FAULT: the numbers of voided invoices count as free.
UsedNumbersOfPaid(org) ==
    {i.number : i \in {j \in invoices : OrgOf(j.pay) = org /\ j.status = "PAID"}}

\* nextInvoiceNumber: the first number no invoice of the organization has.
UsedNumbers(org) == {i.number : i \in {j \in invoices : OrgOf(j.pay) = org}}

\* FAULT: the sequence starts at zero.
NextInvoiceNumberFromZero(org) ==
    CHOOSE n \in 0 .. Cardinality(invoices) :
        /\ n \notin UsedNumbers(org)
        /\ \A m \in 0 .. (n - 1) : m \in UsedNumbers(org)

NextInvoiceNumber(org) ==
    CHOOSE n \in 1 .. (Cardinality(invoices) + 1) :
        /\ n \notin UsedNumbers(org)
        /\ \A m \in 1 .. (n - 1) : m \in UsedNumbers(org)

CreateInvoice(p) ==
    invoices' = invoices \cup
        {[pay |-> p, number |-> NextInvoiceNumber(OrgOf(p)), status |-> "PAID"]}

\* FAULT: the row read under the lock is not looked at again.
ActivateAgain(h, p) ==
    /\ pay[p].status # "REFUNDED"
    /\ sub' = [sub EXCEPT ![OrgOf(p)] = [status |-> "ACTIVE", plan |-> PlanOf(p)]]
    /\ CreateInvoice(p)
    /\ pay' = [pay EXCEPT ![p] = [@ EXCEPT !.status = "SUCCEEDED", !.ref = proc[h].ref]]
    /\ Answer(proc[h].evt, "processed")

\* Everything a confirmed payment brings about, in one transaction.
Activate(h, p) ==
    /\ pay[p].status \in {"PENDING", "FAILED", "CANCELLED"}
    /\ sub' = [sub EXCEPT ![OrgOf(p)] = [status |-> "ACTIVE", plan |-> PlanOf(p)]]
    /\ CreateInvoice(p)
    /\ pay' = [pay EXCEPT ![p] = [@ EXCEPT !.status = "SUCCEEDED", !.ref = proc[h].ref,
                                          !.seen = pay[p].seen \cup EventIds(proc[h].evt)]]
    /\ Answer(proc[h].evt, "processed")

AlreadySucceeded(h, p) ==
    /\ pay[p].status = "SUCCEEDED"
    /\ Answer(proc[h].evt, "processed")
    /\ UNCHANGED <<pay, sub, invoices>>

\* A refunded payment is never activated again: the request fails.
RejectRefunded(p) ==
    /\ pay[p].status = "REFUNDED"
    /\ UNCHANGED <<ack, pay, sub, invoices>>

FinalizeSuccessfulPayment(h) ==
    /\ proc[h].step = "finalize"
    /\ LET p == proc[h].pay
       IN Activate(h, p) \/ AlreadySucceeded(h, p) \/ RejectRefunded(p)
    /\ Return(h)
    /\ UNCHANGED <<sess, emitted>>

\* FAULT: the update is not conditioned on PENDING.
MarkPaymentFailedAnyway(h) ==
    /\ proc[h].step = "fail"
    /\ pay' = [pay EXCEPT ![proc[h].pay].status = "CANCELLED"]
    /\ Answer(proc[h].evt, "processed")
    /\ Return(h)
    /\ UNCHANGED <<sess, emitted, sub, invoices>>

\* Only a PENDING payment can fail; gatewayData is merged into what was read before.
MarkPaymentFailed(h) ==
    /\ proc[h].step = "fail"
    /\ LET p == proc[h].pay
       IN pay' = IF pay[p].status = "PENDING"
                 THEN [pay EXCEPT ![p] = [@ EXCEPT
                                !.status = "CANCELLED",
                                !.seen = proc[h].seen \cup EventIds(proc[h].evt)]]
                 ELSE pay
    /\ Answer(proc[h].evt, "processed")
    /\ Return(h)
    /\ UNCHANGED <<sess, emitted, sub, invoices>>

\* FAULT: a refund leaves the invoice standing.
VoidNothing(p) == UNCHANGED invoices

VoidInvoicesOf(p) ==
    invoices' = {IF i.pay = p THEN [i EXCEPT !.status = "VOID"] ELSE i : i \in invoices}

\* FAULT: only a subscription past due is cancelled.
CancelIfPastDue(org) ==
    sub' = IF sub[org].status = "PAST_DUE"
           THEN [sub EXCEPT ![org].status = "CANCELLED"] ELSE sub

CancelSubscription(org) ==
    sub' = IF sub[org].status \in {"ACTIVE", "PAST_DUE"}
           THEN [sub EXCEPT ![org].status = "CANCELLED"] ELSE sub

\* Everything a refund brings about; gatewayData as it was read goes back.
Reverse(h, p) ==
    /\ pay[p].status = "SUCCEEDED"
    /\ pay' = [pay EXCEPT ![p] = [@ EXCEPT !.status = "REFUNDED", !.seen = proc[h].seen]]
    /\ VoidInvoicesOf(p)
    /\ CancelSubscription(OrgOf(p))

\* FAULT: the subscription is cancelled whether or not this refund won.
NotRefundableButCancelled(p) ==
    /\ pay[p].status # "SUCCEEDED"
    /\ CancelSubscription(OrgOf(p))
    /\ UNCHANGED <<pay, invoices>>

NotRefundable(p) ==
    /\ pay[p].status # "SUCCEEDED"
    /\ UNCHANGED <<pay, sub, invoices>>

MarkPaymentRefunded(h) ==
    /\ proc[h].step = "refund"
    /\ LET p == proc[h].pay IN Reverse(h, p) \/ NotRefundable(p)
    /\ Answer(proc[h].evt, "processed")
    /\ Return(h)
    /\ UNCHANGED <<sess, emitted>>

-----------------------------------------------------------------------------

CheckoutNext(h) ==
    \/ \E offer \in Offers : ReusePending(h, offer) \/ FindNoPending(h, offer)
    \/ CreatePayment(h) \/ CreateSession(h) \/ StoreSession(h)

VerifyNext(h) ==
    \/ \E p \in Payments : BeginVerify(h, p)
    \/ StoreValId(h) \/ AskGateway(h)

WebhookNext(h) == \E e \in Events : DispatchEvent(h, e) \/ IgnoreEvent(h, e)

RefundNext(h) == (\E p \in Payments : BeginRefund(h, p)) \/ RefundAtGateway(h)

SettleNext(h) ==
    FinalizeSuccessfulPayment(h) \/ MarkPaymentFailed(h) \/ MarkPaymentRefunded(h)

HandlerNext(h) ==
    \/ CheckoutNext(h) \/ VerifyNext(h) \/ WebhookNext(h) \/ RefundNext(h)
    \/ SettleNext(h) \/ Abort(h)

ServiceNext == \E h \in Handlers : HandlerNext(h)
OutsideNext == GatewayNext /\ UNCHANGED <<pay, sub, invoices, proc>>

Next == ServiceNext \/ OutsideNext

Spec == Init /\ [][Next]_vars

-----------------------------------------------------------------------------
(* Fairness.  Stripe redelivers an event until it is answered with 2xx, and *)
(* a request in a handler ends, by its own steps or by an abort; a          *)
(* transaction that is tried again and again commits in the end.  Only the  *)
(* events that report money are relied on.                                  *)

Redeliver(e) ==
    /\ ack[e] = "no"
    /\ \E h \in Handlers : DispatchEvent(h, e) \/ IgnoreEvent(h, e)

Proceed(h) == proc[h] # Idle /\ HandlerNext(h)

Fairness ==
    /\ \A e \in {"completed", "refunded"} \X Sessions : SF_vars(Redeliver(e))
    /\ \A h \in Handlers : WF_vars(Proceed(h))
    /\ SF_vars(\E h \in Handlers : FinalizeSuccessfulPayment(h))
    /\ SF_vars(\E h \in Handlers : MarkPaymentRefunded(h))

FairSpec == Spec /\ Fairness

-----------------------------------------------------------------------------
(* Properties.                                                              *)

InvoicesOf(p) == {i \in invoices : i.pay = p}

\* A payment that counts as paid has exactly one invoice and it is PAID, a
\* refunded one has exactly one and it is VOID, any other has none: however
\* webhooks, verifications and refunds of it interleave, abort or repeat, none
\* of them issues a second invoice or leaves one standing (F-1 and F-2 of the
\* service's comments).
InvoiceMatchesPayment ==
    \A p \in Payments :
        \/ /\ pay[p].status = "SUCCEEDED"
           /\ \E i \in invoices : InvoicesOf(p) = {i} /\ i.status = "PAID"
        \/ /\ pay[p].status = "REFUNDED"
           /\ \E i \in invoices : InvoicesOf(p) = {i} /\ i.status = "VOID"
        \/ /\ pay[p].status \notin {"SUCCEEDED", "REFUNDED"}
           /\ InvoicesOf(p) = {}

\* Two invoices of one organization never share a number, voided ones included
\* (nextInvoiceNumber; the database enforces it with a unique index).
InvoiceNumbersUnique ==
    \A i, j \in invoices :
        OrgOf(i.pay) = OrgOf(j.pay) /\ i.number = j.number => i = j

\* An ACTIVE subscription stands on a payment of that organization, for that
\* very plan, which succeeded and was not refunded (finalize activates, the
\* refund's transaction cancels).
ActivePlanIsPaid ==
    \A o \in Orgs : sub[o].status = "ACTIVE" =>
        \E p \in Payments : pay[p].status = "SUCCEEDED" /\ pay[p].offer = <<o, sub[o].plan>>

\* No payment is recorded as paid unless Stripe captured money for a session of
\* that payment, and none as refunded unless Stripe gave such money back.
MoneyMoved ==
    \A p \in Payments :
        /\ pay[p].status = "SUCCEEDED" =>
            \E s \in Sessions : sess[s].pay = p /\ sess[s].charge # "none"
        /\ pay[p].status = "REFUNDED" =>
            \E s \in Sessions : sess[s].pay = p /\ sess[s].charge \in Refunded

\* How a payment may change: success is final but for a refund, a refund is
\* final, and a late success may still overrule a failure.
Lifecycle(from, to) ==
    \/ from = to
    \/ from = "NONE" /\ to = "PENDING"
    \/ from = "PENDING" /\ to \in {"SUCCEEDED", "CANCELLED"}
    \/ from \in {"FAILED", "CANCELLED"} /\ to = "SUCCEEDED"
    \/ from = "SUCCEEDED" /\ to = "REFUNDED"

\* An event that comes late, twice or out of order never takes a payment back
\* (the guarded updateMany of markPaymentFailed and markPaymentRefunded and the
\* REFUNDED check of finalizeSuccessfulPayment).
PaymentNeverReverts ==
    [][\A p \in Payments : Lifecycle(pay[p].status, pay'[p].status)]_vars

\* A subscription is cancelled only by the one step that turns a payment of the
\* organization from SUCCEEDED to REFUNDED: a duplicate refund never cancels a
\* subscription that was bought again since (comment F-3).
CancelledOnlyByRefund ==
    [][\A o \in Orgs :
        sub[o].status # "CANCELLED" /\ sub'[o].status = "CANCELLED" =>
            \E p \in Payments : /\ OrgOf(p) = o
                                /\ pay[p].status = "SUCCEEDED"
                                /\ pay'[p].status = "REFUNDED"]_vars

\* The row refers to a session Stripe captured money for, and does not say so.
PaidUnrecorded(p) ==
    /\ \E s \in Sessions : pay[p].ref = SessionRef(s) /\ sess[s].charge # "none"
    /\ pay[p].status \notin {"SUCCEEDED", "REFUNDED"}

\* The row refers to a charge refunded at the service's request, and says paid.
RefundUnrecorded(p) ==
    /\ \E s \in Sessions : pay[p].ref = Intent(s) /\ sess[s].charge = "refundedByApi"
    /\ pay[p].status = "SUCCEEDED"

\* A payment whose row refers to a session Stripe captured money for does not
\* stay unpaid on the books: even if verification aborts, the webhook is
\* redelivered and finds the row ("a webhook will confirm the final state").
\* What the row must not do is let go of the session: a second checkout of the
\* pending payment may overwrite the reference (StoreSession), and then the
\* property asks for the new session only - nothing finds the old one's money.
PaidSessionActivates == \A p \in Payments : []<>~PaidUnrecorded(p)

\* A payment whose row refers to a charge refunded at the service's request does
\* not stay paid on the books, even if the process dies between the gateway call
\* and the transaction: the charge.refunded event finds the row by the intent -
\* unless a checkout begun while it was pending overwrites that intent.
RefundReachesRecord == \A p \in Payments : []<>~RefundUnrecorded(p)

=============================================================================
