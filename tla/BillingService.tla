--------------------------- MODULE BillingService ---------------------------
(***************************************************************************)
(* BillingService (billing.service.ts) beside PaymentProcessingService:    *)
(* trials and plan changes write the Subscription rows that payments       *)
(* activate and refunds cancel, and so does the subscription checkpoint of *)
(* a provisioning run (provisioning-executor.service.ts).  All of them     *)
(* read the row, await, and write what follows from what they read;        *)
(* whatever a payment did to the row in between is overwritten.            *)
(***************************************************************************)
EXTENDS PaymentProcessing

CONSTANT Clients    \* requests for a trial or another plan, and provisioning runs

VARIABLE asked      \* of each: what it asks for, and the status it read

billingVars == <<sess, emitted, ack, pay, sub, invoices, proc, asked>>

Kinds == {"startTrial", "changePlan", "setupSubscription"}

NoRequest == [kind |-> "none", offer |-> NoOffer, found |-> "NONE"]

BillingTypeOK ==
    /\ TypeOK
    /\ \A o \in Orgs : sub[o].status = "NONE" <=> sub[o].plan = NoPlan
    /\ asked \in [Clients -> [kind: {"none"} \cup Kinds,
                              offer: Offers \cup {NoOffer}, found: SubscriptionStates]]

BillingInit == Init /\ asked = [c \in Clients |-> NoRequest]

-----------------------------------------------------------------------------

Read(c, kind, offer) ==
    asked' = [asked EXCEPT ![c] = [kind |-> kind, offer |-> offer, found |-> sub[offer[1]].status]]

ReadSubscription(c, kind, offer) ==
    /\ asked[c] = NoRequest
    /\ Read(c, kind, offer)
    /\ UNCHANGED sub

\* The row becomes what the request computed, and the request is answered.
Write(c, status) ==
    LET org == asked[c].offer[1]
    IN /\ sub' = [sub EXCEPT ![org] = [status |-> status, plan |-> asked[c].offer[2]]]
       /\ asked' = [asked EXCEPT ![c] = NoRequest]

\* A row that was found is updated; a new one must be the organization's only one.
WriteTrial(c) ==
    /\ \/ asked[c].found # "NONE"
       \/ sub[asked[c].offer[1]].status = "NONE"
    /\ Write(c, "TRIALING")

StartTrial(c) == asked[c].kind = "startTrial" /\ WriteTrial(c)

\* The provisioning transaction commits: the row it found starts a trial again,
\* whatever its status was.
SetupSubscription(c) == asked[c].kind = "setupSubscription" /\ WriteTrial(c)

\* FAULT: a subscription that had ended starts again as a paid one.
StatusKept(found) == IF found \in {"CANCELLED", "EXPIRED", "TRIALING"} THEN "ACTIVE" ELSE found

\* A plan change keeps the status, but for a subscription that had ended.
StatusAfterChange(found) == IF found \in {"CANCELLED", "EXPIRED"} THEN "TRIALING" ELSE found

\* FAULT: changePlan does not check that there is a subscription.
ChangePlanOfNothing(c) ==
    /\ asked[c].kind = "changePlan"
    /\ Write(c, StatusAfterChange(asked[c].found))

ChangePlan(c) ==
    /\ asked[c].kind = "changePlan"
    /\ asked[c].found # "NONE"
    /\ Write(c, StatusAfterChange(asked[c].found))

\* Nothing to change: changePlan calls startTrial, which reads again.
ChangePlanStartsTrial(c) ==
    /\ asked[c].kind = "changePlan"
    /\ asked[c].found = "NONE"
    /\ Read(c, "startTrial", asked[c].offer)
    /\ UNCHANGED sub

\* A request fails: a database error, a provisioning run that rolls back, or a row
\* that another request created first (organizationId is unique).
Fail(c) ==
    /\ asked[c] # NoRequest
    /\ asked' = [asked EXCEPT ![c] = NoRequest]
    /\ UNCHANGED sub

ClientNext(c) ==
    \/ \E kind \in Kinds, offer \in Offers : ReadSubscription(c, kind, offer)
    \/ StartTrial(c) \/ SetupSubscription(c)
    \/ ChangePlan(c) \/ ChangePlanStartsTrial(c) \/ Fail(c)

PlansNext ==
    /\ \E c \in Clients : ClientNext(c)
    /\ UNCHANGED <<sess, emitted, ack, pay, invoices, proc>>

BillingNext == PlansNext \/ (Next /\ UNCHANGED asked)

BillingSpec == BillingInit /\ [][BillingNext]_billingVars

-----------------------------------------------------------------------------
(* Properties.                                                              *)

PaidFor(org, states) == \E p \in Payments : pay[p].status \in states /\ OrgOf(p) = org

\* Trials, plan changes and provisioning give nobody a paid subscription: it is
\* ACTIVE only in an organization that has paid at some time, whatever row a plan
\* change read and however late it writes (changePlan keeps ACTIVE, never grants it).
ActiveWasPaidFor ==
    \A o \in Orgs : sub[o].status = "ACTIVE" => PaidFor(o, {"SUCCEEDED", "REFUNDED"})

=============================================================================
