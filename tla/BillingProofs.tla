--------------------------- MODULE BillingProofs ---------------------------
(***************************************************************************)
(* Proofs about BillingService: its types, and that the requests that read *)
(* a subscription and write it later cannot make a paid subscription out   *)
(* of an unpaid one.  What they carry over the await must be part of the   *)
(* invariant: a request that read ACTIVE belongs to an organization that   *)
(* had paid, and once paid, always paid or given back.                     *)
(***************************************************************************)
EXTENDS BillingService, PaymentProofs

EverPaid(org) == PaidFor(org, {"SUCCEEDED", "REFUNDED"})

RequestRecords == [kind: {"none"} \cup Kinds,
                   offer: Offers \cup {NoOffer}, found: SubscriptionStates]

ReadsPaid ==
    \A c \in Clients :
        /\ asked[c].kind # "none" => asked[c].offer \in Offers
        /\ asked[c].kind # "none" /\ asked[c].found = "ACTIVE" => EverPaid(asked[c].offer[1])

BillingInv ==
    Typed /\ asked \in [Clients -> RequestRecords] /\ ReadsPaid /\ ActiveWasPaidFor

LEMMA PaidForGood ==
    ASSUME Typed, [Next]_vars, NEW o, EverPaid(o)
    PROVE  EverPaid(o)'
<1> PICK p \in Payments : pay[p].status \in {"SUCCEEDED", "REFUNDED"} /\ OrgOf(p) = o
    BY DEF EverPaid, PaidFor, OrgOf
<1>1. pay'[p].offer = pay[p].offer /\ pay'[p].status \in {"SUCCEEDED", "REFUNDED"}
    BY StepEffect DEF Quiet, Booked, GivenBack, SameRow
<1> QED
    BY <1>1 DEF EverPaid, PaidFor, OrgOf, Payments

LEMMA PaymentsStep == BillingInv /\ Next /\ UNCHANGED asked => BillingInv'
<1> SUFFICES ASSUME BillingInv, Next, UNCHANGED asked PROVE BillingInv'
    OBVIOUS
<1>1. Typed /\ Typed' /\ \A o : EverPaid(o) => EverPaid(o)'
    BY TypedNext, PaidForGood DEF BillingInv
<1>2. sub \in [Orgs -> [status: SubscriptionStates, plan: Plans \cup {NoPlan}]]
    BY <1>1 DEF Typed, TypeOK
<1>3. ReadsPaid'
    <2> SUFFICES ASSUME NEW c \in Clients, asked[c].kind # "none"
                 PROVE  /\ asked[c].offer \in Offers
                        /\ asked[c].found = "ACTIVE" =>
                            \E p \in Payments : /\ pay'[p].offer[1] = asked[c].offer[1]
                                                /\ pay'[p].status \in {"SUCCEEDED", "REFUNDED"}
        BY DEF ReadsPaid, EverPaid, PaidFor, OrgOf, Offers, Payments
    <2>1. asked[c].offer \in Offers
        BY DEF BillingInv, ReadsPaid
    <2>2. ASSUME asked[c].found = "ACTIVE"
          PROVE  \E p \in Payments : /\ pay'[p].offer[1] = asked[c].offer[1]
                                     /\ pay'[p].status \in {"SUCCEEDED", "REFUNDED"}
        <3>1. EverPaid(asked[c].offer[1])
            BY <2>2 DEF BillingInv, ReadsPaid
        <3> QED
            BY <1>1, <3>1 DEF EverPaid, PaidFor, OrgOf, Payments
    <2> QED
        BY <2>1, <2>2
<1>4. ActiveWasPaidFor'
    <2> SUFFICES ASSUME NEW o \in Orgs, sub'[o].status = "ACTIVE" PROVE EverPaid(o)'
        BY DEF ActiveWasPaidFor, EverPaid, PaidFor, OrgOf, Payments
    <2>1. CASE sub[o].status = "ACTIVE"
        BY <1>1, <2>1 DEF BillingInv, ActiveWasPaidFor, EverPaid
    <2>2. CASE sub[o].status # "ACTIVE"
        <3>1. PICK p \in Payments : Booked(p) /\ OrgOf(p) = o
            <4>1. ~Quiet
                BY <2>2 DEF Quiet
            <4>2. \A p \in Payments : ~GivenBack(p)
                BY <1>2, <2>2 DEF GivenBack, CancelSubscription
            <4>3. PICK p \in Payments : Booked(p)
                BY <1>1, <4>1, <4>2, StepEffect
            <4> QED
                BY <1>2, <2>2, <4>3 DEF Booked
        <3> QED
            BY <3>1 DEF Booked, OrgOf, EverPaid, PaidFor, OrgOf, Payments
    <2> QED
        BY <2>1, <2>2
<1> QED
    BY <1>1, <1>3, <1>4 DEF BillingInv, RequestRecords, Offers

LEMMA PlansStep == BillingInv /\ PlansNext => BillingInv'
<1> SUFFICES ASSUME BillingInv, NEW c \in Clients, ClientNext(c),
                    UNCHANGED <<sess, emitted, ack, pay, invoices, proc>>
             PROVE  BillingInv'
    BY DEF PlansNext
<1>0. /\ sub \in [Orgs -> [status: SubscriptionStates, plan: Plans \cup {NoPlan}]]
      /\ asked \in [Clients -> RequestRecords]
      /\ asked[c].kind # "none" => asked[c].offer \in Offers
    BY DEF BillingInv, Typed, TypeOK, ReadsPaid
<1>1. \A o : EverPaid(o)' <=> EverPaid(o)
    BY DEF EverPaid, PaidFor, OrgOf, Payments
<1>2. ASSUME sub' \in [Orgs -> [status: SubscriptionStates, plan: Plans \cup {NoPlan}]]
      PROVE  Typed'
    BY <1>2, SameGateway DEF BillingInv, Typed, TypeOK, HandlersTyped, GatewayTypeOK, Payments,
       PaymentRows, InvoiceRows, Requests, Offers, Refs, Events
<1>3. ASSUME NEW kind \in Kinds, NEW offer \in Offers,
             Read(c, kind, offer), UNCHANGED sub
      PROVE  BillingInv'
    <2>1. offer[1] \in Orgs
        BY DEF Offers
    <2>2. asked' = [asked EXCEPT ![c] =
                        [kind |-> kind, offer |-> offer, found |-> sub[offer[1]].status]]
        BY <1>3 DEF Read
    <2>3. asked' \in [Clients -> RequestRecords]
        BY <1>0, <2>1, <2>2 DEF RequestRecords
    <2>4. ReadsPaid'
        BY <1>0, <1>1, <2>1, <2>2, <1>3 DEF ReadsPaid, BillingInv, ActiveWasPaidFor, EverPaid, PaidFor, OrgOf, Offers, Payments
    <2>5. ActiveWasPaidFor'
        BY <1>3 DEF BillingInv, ActiveWasPaidFor, PaidFor, OrgOf, Payments
    <2> QED
        BY <1>0, <1>2, <1>3, <2>3, <2>4, <2>5 DEF BillingInv, RequestRecords, Offers
<1>4. ASSUME NEW status \in SubscriptionStates, asked[c].kind # "none", Write(c, status),
             status = "ACTIVE" => asked[c].found = "ACTIVE"
      PROVE  BillingInv'
    <2> DEFINE org == asked[c].offer[1]
    <2>1. org \in Orgs /\ asked[c].offer[2] \in Plans
        BY <1>0, <1>4 DEF Offers
    <2>2. /\ sub' = [sub EXCEPT ![org] = [status |-> status, plan |-> asked[c].offer[2]]]
          /\ asked' = [asked EXCEPT ![c] = NoRequest]
        BY <1>4 DEF Write
    <2>3. Typed'
        BY <1>0, <1>2, <2>1, <2>2
    <2>4. asked' \in [Clients -> RequestRecords]
        BY <1>0, <2>2 DEF RequestRecords, NoRequest, Kinds, SubscriptionStates
    <2>5. ReadsPaid'
        BY <1>0, <2>2 DEF ReadsPaid, BillingInv, NoRequest, EverPaid, PaidFor, OrgOf, Offers, Payments
    <2>6. ActiveWasPaidFor'
        BY <1>0, <1>4, <2>1, <2>2 DEF BillingInv, ReadsPaid, ActiveWasPaidFor, EverPaid, PaidFor, OrgOf, Payments
    <2> QED
        BY <2>3, <2>4, <2>5, <2>6 DEF BillingInv, RequestRecords, Offers
<1>5. ASSUME Fail(c) PROVE BillingInv'
    <2>1. asked' = [asked EXCEPT ![c] = NoRequest] /\ UNCHANGED sub
        BY <1>5 DEF Fail
    <2>2. asked' \in [Clients -> RequestRecords]
        BY <1>0, <2>1 DEF RequestRecords, NoRequest, Kinds, SubscriptionStates
    <2>3. ReadsPaid'
        BY <1>0, <2>1 DEF ReadsPaid, BillingInv, NoRequest, EverPaid, PaidFor, OrgOf, Offers, Payments
    <2>4. ActiveWasPaidFor'
        BY <2>1 DEF BillingInv, ActiveWasPaidFor, PaidFor, OrgOf, Payments
    <2> QED
        BY <1>0, <1>2, <2>1, <2>2, <2>3, <2>4 DEF BillingInv, RequestRecords, Offers
<1> QED
    <2>1. CASE StartTrial(c)
        BY <1>4, <2>1 DEF StartTrial, WriteTrial, SubscriptionStates
    <2>2. CASE SetupSubscription(c)
        BY <1>4, <2>2 DEF SetupSubscription, WriteTrial, SubscriptionStates
    <2>3. CASE ChangePlan(c)
        BY <1>0, <1>4, <2>3 DEF ChangePlan, StatusAfterChange, SubscriptionStates, RequestRecords
    <2>4. CASE ChangePlanStartsTrial(c)
        BY <1>0, <1>3, <2>4 DEF ChangePlanStartsTrial, Kinds
    <2> QED
        BY <1>3, <1>5, <2>1, <2>2, <2>3, <2>4 DEF ClientNext, ReadSubscription

LEMMA BillingInvAlways == BillingSpec => []BillingInv
<1>1. BillingInit => BillingInv
    BY TypedInit DEF BillingInit, Init, BillingInv, RequestRecords, NoRequest, ReadsPaid,
       ActiveWasPaidFor, SubscriptionStates
<1>2. BillingInv /\ [BillingNext]_billingVars => BillingInv'
    <2>1. ASSUME BillingInv, UNCHANGED billingVars PROVE BillingInv'
        <3>1. Typed'
            BY <2>1, TypedNext DEF BillingInv, billingVars, vars
        <3> QED
            BY <2>1, <3>1 DEF billingVars, BillingInv, ReadsPaid, ActiveWasPaidFor, EverPaid, PaidFor, OrgOf,
               RequestRecords, Offers, Payments
    <2> QED
        BY <2>1, PaymentsStep, PlansStep DEF BillingNext
<1> QED
    BY <1>1, <1>2, PTL DEF BillingSpec

\* However trials, plan changes, payments and refunds of an organization overlap,
\* its subscription is ACTIVE only if it has paid at some time.
THEOREM ActiveIsPaidFor == BillingSpec => []ActiveWasPaidFor
BY BillingInvAlways, PTL DEF BillingInv

-----------------------------------------------------------------------------
(* The type of the whole.  A row that exists has a plan: payments write the *)
(* plan that was paid, requests the one that was asked for, and a refund    *)
(* cancels a row but leaves its plan.                                       *)

RowsHavePlans == \A o \in Orgs : sub[o].status = "NONE" <=> sub[o].plan = NoPlan

\* The row of an organization is written with a plan, or keeps the one it has.
PlanWritten ==
    \/ UNCHANGED sub
    \/ \E o \in Orgs, status \in SubscriptionStates \ {"NONE"} :
        \/ \E plan \in Plans : sub' = [sub EXCEPT ![o] = [status |-> status, plan |-> plan]]
        \/ sub[o].status # "NONE" /\ sub' = [sub EXCEPT ![o].status = status]

LEMMA WrittenHasPlan ==
    ASSUME sub \in [Orgs -> [status: SubscriptionStates, plan: Plans \cup {NoPlan}]],
           RowsHavePlans, PlanWritten
    PROVE  RowsHavePlans'
BY PlansAssumption DEF RowsHavePlans, PlanWritten

LEMMA PaymentsWritePlans == ASSUME Typed, [Next]_vars PROVE PlanWritten
<1>1. CASE Quiet
    BY <1>1 DEF Quiet, PlanWritten
<1>2. ASSUME NEW p \in Payments, Booked(p) PROVE PlanWritten
    <2>1. OrgOf(p) \in Orgs /\ PlanOf(p) \in Plans
        BY <1>2 DEF Booked, Offers, OrgOf, PlanOf
    <2> QED
        BY <1>2, <2>1 DEF Booked, PlanWritten, SubscriptionStates
<1>3. ASSUME NEW p \in Payments, GivenBack(p) PROVE PlanWritten
    <2>1. OrgOf(p) \in Orgs
        BY <1>3 DEF GivenBack, Offers, OrgOf
    <2> QED
        BY <1>3, <2>1 DEF GivenBack, CancelSubscription, PlanWritten, SubscriptionStates
<1> QED
    BY <1>1, <1>2, <1>3, StepEffect

LEMMA RequestsWritePlans ==
    ASSUME BillingInv, NEW c \in Clients, ClientNext(c)
    PROVE  PlanWritten
<1>1. asked \in [Clients -> RequestRecords]
    BY DEF BillingInv
<1>2. asked[c].kind # "none" => asked[c].offer[1] \in Orgs /\ asked[c].offer[2] \in Plans
    BY DEF BillingInv, ReadsPaid, Offers
<1>3. ASSUME asked[c].kind # "none", NEW status \in SubscriptionStates \ {"NONE"}, Write(c, status)
      PROVE  PlanWritten
    BY <1>2, <1>3 DEF Write, PlanWritten
<1>4. CASE StartTrial(c) \/ SetupSubscription(c)
    BY <1>3, <1>4 DEF StartTrial, SetupSubscription, WriteTrial, SubscriptionStates
<1>5. CASE ChangePlan(c)
    BY <1>1, <1>3, <1>5 DEF ChangePlan, StatusAfterChange, SubscriptionStates, RequestRecords
<1> QED
    BY <1>4, <1>5 DEF ClientNext, ReadSubscription, ChangePlanStartsTrial, Fail, PlanWritten

\* Payments, trials, plan changes, provisioning runs and refunds keep every
\* table and every request well-typed, and no subscription is without a plan.
THEOREM BillingTypeCorrect == BillingSpec => []BillingTypeOK
<1>1. BillingInit => RowsHavePlans
    BY PlansAssumption DEF BillingInit, Init, RowsHavePlans
<1>2. BillingInv /\ RowsHavePlans /\ [BillingNext]_billingVars => RowsHavePlans'
    <2> SUFFICES ASSUME BillingInv, RowsHavePlans, [BillingNext]_billingVars
                 PROVE  RowsHavePlans'
        OBVIOUS
    <2>1. Typed /\ sub \in [Orgs -> [status: SubscriptionStates, plan: Plans \cup {NoPlan}]]
        BY DEF BillingInv, Typed, TypeOK
    <2>2. CASE Next
        BY <2>1, <2>2, PaymentsWritePlans, WrittenHasPlan
    <2>3. CASE PlansNext
        BY <2>1, <2>3, RequestsWritePlans, WrittenHasPlan DEF PlansNext
    <2>4. CASE UNCHANGED billingVars
        BY <2>4 DEF billingVars, RowsHavePlans
    <2> QED
        BY <2>2, <2>3, <2>4 DEF BillingNext
<1>3. BillingInv /\ RowsHavePlans => BillingTypeOK
    BY DEF BillingInv, Typed, RowsHavePlans, BillingTypeOK, RequestRecords
<1> QED
    BY <1>1, <1>2, <1>3, BillingInvAlways, PTL DEF BillingSpec

-----------------------------------------------------------------------------
(* What holds of payments alone holds beside trials, plan changes and       *)
(* provisioning: these write subscriptions, and no payment reads one.       *)

PaymentsInv == BillingInv /\ Books /\ Trail

LEMMA PlansLeavePayments ==
    ASSUME PaymentsInv, BillingInv', UNCHANGED <<sess, emitted, pay, invoices, proc>>
    PROVE  PaymentsInv'
<1>1. Typed'
    BY DEF BillingInv
<1>2. InvoiceRecords' /\ InvoiceNumbersUnique'
    BY DEF PaymentsInv, Books, InvoiceRecords, InvoiceNumbersUnique, OrgOf, Payments
<1>3. EventsTrue' /\ RowsOwn'
    BY DEF PaymentsInv, Trail, EventsTrue, RowsOwn, Own, Payments
<1>4. RequestsTracked'
    BY DEF PaymentsInv, Trail, RequestsTracked, Tracked, Own, Captured, Returned, Payments
<1>5. MoneyMoved'
    BY DEF PaymentsInv, Trail, MoneyMoved, Payments
<1> QED
    BY <1>1, <1>2, <1>3, <1>4, <1>5 DEF PaymentsInv, Books, Trail

LEMMA PaymentsInvAlways == BillingSpec => []PaymentsInv
<1>1. BillingInit => Books /\ Trail
    BY BooksInit, TrailInit DEF BillingInit
<1>2. BillingInv /\ BillingInv' /\ PaymentsInv /\ [BillingNext]_billingVars => PaymentsInv'
    <2> SUFFICES ASSUME BillingInv', PaymentsInv, [BillingNext]_billingVars
                 PROVE  PaymentsInv'
        OBVIOUS
    <2>1. CASE Next
        BY <2>1, BooksNext, TrailNext DEF PaymentsInv
    <2>2. CASE PlansNext \/ UNCHANGED billingVars
        BY <2>2, PlansLeavePayments DEF PlansNext, billingVars
    <2> QED
        BY <2>1, <2>2 DEF BillingNext
<1>3. BillingInv /\ Books /\ Trail => PaymentsInv
    BY DEF PaymentsInv
<1> QED
    BY <1>1, <1>2, <1>3, BillingInvAlways, PTL DEF BillingSpec

\* With trials, plan changes and provisioning runs beside them, payments still
\* have one invoice each, numbered apart, stand on money Stripe moved, and never
\* revert.
THEOREM PaymentsBesidePlans ==
    BillingSpec => /\ [](InvoiceMatchesPayment /\ InvoiceNumbersUnique /\ MoneyMoved)
                   /\ PaymentNeverReverts
<1> DEFINE A == \A p \in Payments : Lifecycle(pay[p].status, pay'[p].status)
<1>1. PaymentsInv => InvoiceMatchesPayment /\ InvoiceNumbersUnique /\ MoneyMoved
    BY RecordsMatch DEF PaymentsInv, Books, Trail, Typed
<1>2. PaymentsInv /\ [BillingNext]_billingVars => [A]_vars
    <2> SUFFICES ASSUME PaymentsInv, [BillingNext]_billingVars PROVE [A]_vars
        OBVIOUS
    <2>1. CASE Next
        BY <2>1, LifecycleStep DEF PaymentsInv, Books
    <2>2. CASE PlansNext \/ UNCHANGED billingVars
        BY <2>2 DEF PlansNext, billingVars, Lifecycle
    <2> QED
        BY <2>1, <2>2 DEF BillingNext
<1> QED
    BY <1>1, <1>2, PaymentsInvAlways, PTL DEF BillingSpec, PaymentNeverReverts

=============================================================================
