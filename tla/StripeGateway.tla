--------------------------- MODULE StripeGateway ---------------------------
(***************************************************************************)
(* The payment gateway as the API sees it.                                 *)
(*                                                                         *)
(* Stripe itself is external: a checkout session is created for one        *)
(* payment, the customer pays it (at once or with a delayed method), lets  *)
(* it expire, or an operator refunds its charge from Stripe's dashboard.   *)
(* Every change emits a webhook event.  An event may be delivered any      *)
(* number of times and in any order; one that was never answered with 2xx  *)
(* is delivered again.                                                     *)
(*                                                                         *)
(* The adapter gateways/stripe.provider.ts turns an event into a result    *)
(* (a status, a session reference, a transaction reference) that           *)
(* PaymentProcessing acts on; its four operators are at the end.           *)
(*                                                                         *)
(* A definition marked FAULT is what a plausible mistake would make of the *)
(* one after it.  No specification uses it; it is put in that one's place  *)
(* to see that the properties would notice.                                *)
(***************************************************************************)
EXTENDS Integers, FiniteSets

CONSTANTS
    Sessions,       \* identities of checkout sessions, each with one payment intent
    MaxPayments,    \* bound on the rows of SubscriptionPayment
    AsyncMethods,   \* whether customers may use delayed payment methods
    NoRef           \* a null transactionRef

ASSUME GatewayAssumption ==
    /\ MaxPayments \in Nat
    /\ AsyncMethods \in BOOLEAN

VARIABLES
    sess,           \* what Stripe stores of each checkout session
    emitted,        \* the events Stripe has produced
    ack             \* the answer each event has had so far

gatewayVars == <<sess, emitted, ack>>

Payments == 1 .. MaxPayments
NoPayment == 0

SessionRef(s) == <<"session", s>>
Intent(s) == <<"intent", s>>
Refs == {"session", "intent"} \X Sessions

ASSUME NoRefAssumption == NoRef \notin Refs

EventKinds == {"completed", "completedUnpaid", "asyncSucceeded",
               "asyncFailed", "expired", "refunded"}
Events == EventKinds \X Sessions
NoEvent == <<>>

SessionStates == {"none", "created", "open", "processing", "paid", "failed", "expired"}
ChargeStates == {"none", "captured", "refundedByApi", "refundedByDashboard"}
Refunded == {"refundedByApi", "refundedByDashboard"}
Answers == {"no", "ignored", "processed"}

GatewayTypeOK ==
    /\ sess \in [Sessions -> [pay: Payments \cup {NoPayment},
                              state: SessionStates, charge: ChargeStates]]
    /\ emitted \in SUBSET Events
    /\ ack \in [Events -> Answers]

GatewayInit ==
    /\ sess = [s \in Sessions |-> [pay |-> NoPayment, state |-> "none", charge |-> "none"]]
    /\ emitted = {}
    /\ ack = [e \in Events |-> "no"]

-----------------------------------------------------------------------------
(* Steps of the customer, of Stripe and of the dashboard.                   *)

Emit(s, state, charge, kind) ==
    /\ sess' = [sess EXCEPT ![s] = [@ EXCEPT !.state = state, !.charge = charge]]
    /\ emitted' = emitted \cup {<<kind, s>>}
    /\ UNCHANGED ack

\* The customer, sent to the session's URL, pays at once.
Pay(s) ==
    /\ sess[s].state = "open"
    /\ Emit(s, "paid", "captured", "completed")

\* The customer completes the session with a delayed payment method.
PayLater(s) ==
    /\ AsyncMethods
    /\ sess[s].state = "open"
    /\ Emit(s, "processing", "none", "completedUnpaid")

\* The delayed payment arrives ...
Settle(s) ==
    /\ sess[s].state = "processing"
    /\ Emit(s, "paid", "captured", "asyncSucceeded")

\* ... or it does not.
SettleFails(s) ==
    /\ sess[s].state = "processing"
    /\ Emit(s, "failed", "none", "asyncFailed")

\* The session runs out of time.
Expire(s) ==
    /\ sess[s].state \in {"created", "open"}
    /\ Emit(s, "expired", "none", "expired")

\* An operator refunds the whole charge outside this program.
DashboardRefund(s) ==
    /\ sess[s].charge = "captured"
    /\ Emit(s, "paid", "refundedByDashboard", "refunded")

GatewayNext ==
    \E s \in Sessions :
        \/ Pay(s) \/ PayLater(s) \/ Settle(s) \/ SettleFails(s)
        \/ Expire(s) \/ DashboardRefund(s)

-----------------------------------------------------------------------------
(* stripe.provider.ts: what handleWebhook returns for an event, and what    *)
(* verifyPayment returns for a session.                                     *)

\* result.status; "UNHANDLED" stands for handled: false.
WebhookStatus(e) ==
    CASE e[1] = "completed" -> "SUCCEEDED"
      [] e[1] \in {"expired", "asyncFailed"} -> "CANCELLED"
      [] e[1] = "refunded" -> "REFUNDED"
      [] OTHER -> "UNHANDLED"

\* result.sessionRef: a charge carries no checkout session.
WebhookSessionRef(e) ==
    IF e[1] \in {"completed", "expired", "asyncFailed"} THEN SessionRef(e[2]) ELSE NoRef

\* FAULT: a refund event is not traced to its payment intent.
WebhookTransactionRefOfPaid(e) == IF e[1] = "completed" THEN Intent(e[2]) ELSE NoRef

\* result.transactionRef.
WebhookTransactionRef(e) ==
    IF e[1] \in {"completed", "refunded"} THEN Intent(e[2]) ELSE NoRef

\* FAULT: the session's payment_status is not looked at.
VerificationStatusUnlessExpired(s) ==
    IF sess[s].state = "expired" THEN "CANCELLED" ELSE "SUCCEEDED"

\* verification.status of a session, when asked directly.
VerificationStatus(s) ==
    CASE sess[s].state = "paid" -> "SUCCEEDED"
      [] sess[s].state = "expired" -> "CANCELLED"
      [] OTHER -> "PENDING"

=============================================================================
