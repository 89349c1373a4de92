--------------------------- MODULE PaymentProofs ---------------------------
(***************************************************************************)
(* Proofs about PaymentProcessing, for any number of payments, sessions,   *)
(* organizations, plans and concurrent requests.                           *)
(***************************************************************************)
EXTENDS PaymentLedger, FiniteSetTheorems, WellFoundedInduction, TLAPS

-----------------------------------------------------------------------------
(* Types, and what a handler may rely on at each step.                      *)

\* A handler past the creation of its payment holds the identity of a row that
\* exists; the steps that talk to the gateway hold a reference.
HandlersTyped ==
    \A h \in Handlers :
        /\ proc[h].step = "createPayment" => proc[h].offer \in Offers
        /\ proc[h].step \notin {"idle", "createPayment"} =>
            proc[h].pay \in Payments /\ pay[proc[h].pay].status # "NONE"
        /\ proc[h].step \in {"storeSession", "storeValId", "askGateway"} => proc[h].ref \in Refs

Typed == TypeOK /\ HandlersTyped /\ IsFiniteSet(invoices)

LEMMA TypedInit == Init => Typed
<1> SUFFICES ASSUME Init PROVE Typed
    OBVIOUS
<1>1. IsFiniteSet(invoices)
    BY FS_EmptySet DEF Init
<1>2. GatewayTypeOK
    BY GatewayAssumption DEF Init, GatewayInit, GatewayTypeOK, SessionStates, ChargeStates,
       Answers, NoPayment, Payments
<1>3. TypeOK
    BY <1>2 DEF Init, TypeOK, Idle, PaymentRows, Requests, PaymentStates, SubscriptionStates,
       Steps, NoPayment
<1>4. HandlersTyped
    BY DEF Init, HandlersTyped, Idle
<1> QED
    BY <1>1, <1>3, <1>4 DEF Typed

-----------------------------------------------------------------------------
(* nextInvoiceNumber always finds a free number: among one number more than *)
(* there are invoices, one is unused, and the least such is the answer.     *)

LEMMA SomeNumberFree ==
    ASSUME TypeOK, IsFiniteSet(invoices), NEW org
    PROVE  \E n \in 1 .. (Cardinality(invoices) + 1) : n \notin UsedNumbers(org)
<1> DEFINE N == Cardinality(invoices)
<1>1. N \in Nat
    BY FS_CardinalityType
<1>2. IsFiniteSet(1 .. (N + 1)) /\ Cardinality(1 .. (N + 1)) = N + 1
    BY <1>1, FS_Interval
<1> SUFFICES ASSUME \A n \in 1 .. (N + 1) : n \in UsedNumbers(org)
             PROVE  FALSE
    OBVIOUS
<1> DEFINE holder == [n \in 1 .. (N + 1) |-> CHOOSE i \in invoices : i.number = n]
<1>3. \A n \in 1 .. (N + 1) : holder[n] \in invoices /\ holder[n].number = n
    BY DEF UsedNumbers, TypeOK
<1>4. holder \in [1 .. (N + 1) -> invoices]
    BY <1>3
<1> HIDE DEF holder
<1>5. PICK x, y \in 1 .. (N + 1) : x # y /\ holder[x] = holder[y]
    BY <1>1, <1>2, <1>4, FS_PigeonHole
<1> QED
    BY <1>3, <1>5

LEMMA NextInvoiceNumberFree ==
    ASSUME TypeOK, IsFiniteSet(invoices), NEW org
    PROVE  NextInvoiceNumber(org) \in Nat \ {0} /\ NextInvoiceNumber(org) \notin UsedNumbers(org)
<1> DEFINE S == 1 .. (Cardinality(invoices) + 1)
           T == {n \in S : n \notin UsedNumbers(org)}
<1>1. Cardinality(invoices) \in Nat
    BY FS_CardinalityType
<1>2. T \subseteq Nat /\ T # {}
    BY <1>1, SomeNumberFree
<1>3. PICK n \in T : \A m \in T : <<m, n>> \notin OpToRel(<, Nat)
    <2> HIDE DEF T
    <2> QED BY <1>2, NatLessThanWellFounded, WFMin
<1>4. \A m \in T : ~(m < n)
    BY <1>2, <1>3 DEF OpToRel
<1>5. \A m \in 1 .. (n - 1) : m \in UsedNumbers(org)
    BY <1>1, <1>4
<1>6. \E k \in S : k \notin UsedNumbers(org) /\ \A m \in 1 .. (k - 1) : m \in UsedNumbers(org)
    BY <1>5
<1>7. NextInvoiceNumber(org) \in S /\ NextInvoiceNumber(org) \notin UsedNumbers(org)
    BY <1>6 DEF NextInvoiceNumber
<1> QED
    BY <1>1, <1>7

-----------------------------------------------------------------------------
(* Types are preserved.                                                     *)

LEMMA GatewayTyped ==
    ASSUME GatewayTypeOK, GatewayNext
    PROVE  GatewayTypeOK'
<1> PICK s \in Sessions :
        Pay(s) \/ PayLater(s) \/ Settle(s) \/ SettleFails(s) \/ Expire(s) \/ DashboardRefund(s)
    BY DEF GatewayNext
<1>1. ASSUME NEW state \in SessionStates, NEW charge \in ChargeStates, NEW kind \in EventKinds,
             Emit(s, state, charge, kind)
      PROVE  GatewayTypeOK'
    BY <1>1 DEF GatewayTypeOK, Emit, Events
<1> QED
    BY <1>1 DEF Pay, PayLater, Settle, SettleFails, Expire, DashboardRefund,
       SessionStates, ChargeStates, EventKinds

LEMMA AnswerTyped ==
    ASSUME GatewayTypeOK, NEW e, NEW how \in Answers, Answer(e, how)
    PROVE  ack' \in [Events -> Answers]
BY DEF Answer, GatewayTypeOK

LEMMA IdleTyped == Idle \in Requests
BY DEF Idle, Requests, Steps, NoPayment

LEMMA SameGateway ==
    ASSUME GatewayTypeOK, UNCHANGED <<sess, emitted>>, ack' \in [Events -> Answers]
    PROVE  GatewayTypeOK'
BY DEF GatewayTypeOK, Payments, Events

\* Writing one existing row keeps the rows typed and in existence.
LEMMA RowWritten ==
    ASSUME Typed, NEW p \in Payments, NEW row \in PaymentRows,
           row.status # "NONE", row.offer \in Offers,
           pay' = [pay EXCEPT ![p] = row]
    PROVE  /\ pay' \in [Payments -> PaymentRows]
           /\ \A q \in Payments : IF pay'[q].status = "NONE" THEN pay'[q].ref = NoRef
                                                      ELSE pay'[q].offer \in Offers
           /\ \A q \in Payments : pay[q].status # "NONE" => pay'[q].status # "NONE"
           /\ pay'[p].status # "NONE"
<1>1. pay \in [Payments -> PaymentRows]
    BY DEF Typed, TypeOK
<1> QED
    BY <1>1 DEF Typed, TypeOK

\* What a request may hold at its step.
SoundRequest(r) ==
    /\ r \in Requests
    /\ r.step = "createPayment" => r.offer \in Offers
    /\ r.step \notin {"idle", "createPayment"} =>
        r.pay \in Payments /\ pay[r.pay].status # "NONE"
    /\ r.step \in {"storeSession", "storeValId", "askGateway"} => r.ref \in Refs

LEMMA RequestsSound == ASSUME Typed, NEW h \in Handlers PROVE SoundRequest(proc[h])
BY DEF Typed, TypeOK, HandlersTyped, SoundRequest

LEMMA RequestWritten ==
    ASSUME Typed, NEW h \in Handlers, NEW r, SoundRequest(r)',
           \A q \in Payments : pay[q].status # "NONE" => pay'[q].status # "NONE",
           proc' = [proc EXCEPT ![h] = r]
    PROVE  proc' \in [Handlers -> Requests] /\ HandlersTyped'
<1>1. r \in Requests
    BY DEF SoundRequest, Requests, Offers, Payments, Refs, Events
<1>2. proc' \in [Handlers -> Requests]
    BY <1>1 DEF Typed, TypeOK
<1>3. HandlersTyped'
    BY DEF Typed, TypeOK, HandlersTyped, SoundRequest
<1> QED
    BY <1>2, <1>3

LEMMA IdleSound == SoundRequest(Idle) /\ SoundRequest(Idle)'
BY DEF Idle, Requests, Steps, NoPayment, SoundRequest

\* A step that leaves all tables alone and moves one request on.
LEMMA OnlyRequest ==
    ASSUME Typed, NEW h \in Handlers, NEW r, SoundRequest(r),
           proc' = [proc EXCEPT ![h] = r], GatewayTypeOK', UNCHANGED <<pay, sub, invoices>>
    PROVE  Typed'
<1>1. SoundRequest(r)'
    BY DEF SoundRequest, Requests, Offers, Payments, Refs, Events
<1>2. proc' \in [Handlers -> Requests] /\ HandlersTyped'
    BY <1>1, RequestWritten
<1> QED
    BY <1>2 DEF Typed, TypeOK, Payments, PaymentRows

-----------------------------------------------------------------------------
(* One lemma per kind of step.                                              *)

LEMMA CheckoutTyped == ASSUME Typed, NEW h \in Handlers, CheckoutNext(h) PROVE Typed'
<1>0. GatewayTypeOK /\ (UNCHANGED <<sess, emitted, ack>> => GatewayTypeOK')
    BY SameGateway DEF Typed, TypeOK, GatewayTypeOK
<1>1. ASSUME NEW offer \in Offers, ReusePending(h, offer) PROVE Typed'
    <2> PICK p \in Payments : /\ pay[p].status = "PENDING"
                              /\ Begin(h, [Idle EXCEPT !.step = "createSession", !.pay = p])
        BY <1>1 DEF ReusePending, PendingFor
    <2>1. SoundRequest([Idle EXCEPT !.step = "createSession", !.pay = p])
        BY DEF SoundRequest, Idle, Requests, Steps
    <2> QED
        BY <1>0, <1>1, <2>1, OnlyRequest DEF ReusePending, Begin
<1>2. ASSUME NEW offer \in Offers, FindNoPending(h, offer) PROVE Typed'
    <2>1. SoundRequest([Idle EXCEPT !.step = "createPayment", !.offer = offer])
        BY DEF SoundRequest, Idle, Requests, Steps, NoPayment
    <2> QED
        BY <1>0, <1>2, <2>1, OnlyRequest DEF FindNoPending, Begin
<1>3. ASSUME CreatePayment(h) PROVE Typed'
    <2> PICK p \in Payments :
            /\ pay' = [pay EXCEPT ![p] = [@ EXCEPT !.offer = proc[h].offer, !.status = "PENDING"]]
            /\ proc' = [proc EXCEPT ![h] = [Idle EXCEPT !.step = "createSession", !.pay = p]]
        BY <1>3 DEF CreatePayment
    <2> DEFINE row == [pay[p] EXCEPT !.offer = proc[h].offer, !.status = "PENDING"]
               r == [Idle EXCEPT !.step = "createSession", !.pay = p]
    <2>1. proc[h].offer \in Offers /\ UNCHANGED <<sess, emitted, ack, sub, invoices>>
        BY <1>3 DEF CreatePayment, Typed, HandlersTyped
    <2>2. row \in PaymentRows /\ row.status # "NONE" /\ row.offer \in Offers
        BY <2>1 DEF Typed, TypeOK, PaymentRows, PaymentStates
    <2> HIDE DEF row
    <2>3. pay' = [pay EXCEPT ![p] = row]
        BY DEF row
    <2>4. /\ pay' \in [Payments -> PaymentRows]
          /\ \A q \in Payments : IF pay'[q].status = "NONE" THEN pay'[q].ref = NoRef
                                                      ELSE pay'[q].offer \in Offers
          /\ \A q \in Payments : pay[q].status # "NONE" => pay'[q].status # "NONE"
          /\ pay'[p].status # "NONE"
        BY <2>2, <2>3, RowWritten
    <2>5. SoundRequest(r)'
        BY <2>4 DEF SoundRequest, Idle, Requests, Steps, Payments
    <2>6. proc' \in [Handlers -> Requests] /\ HandlersTyped'
        BY <2>4, <2>5, RequestWritten
    <2> QED
        BY <1>0, <2>1, <2>4, <2>6 DEF Typed, TypeOK, Payments, PaymentRows
<1>4. ASSUME CreateSession(h) PROVE Typed'
    <2> PICK s \in Sessions :
            /\ sess' = [sess EXCEPT ![s] = [@ EXCEPT !.state = "created", !.pay = proc[h].pay]]
            /\ proc' = [proc EXCEPT ![h] = [@ EXCEPT !.step = "storeSession", !.ref = SessionRef(s)]]
        BY <1>4 DEF CreateSession
    <2> DEFINE r == [proc[h] EXCEPT !.step = "storeSession", !.ref = SessionRef(s)]
    <2>1. SoundRequest(proc[h]) /\ proc[h].step = "createSession"
        BY <1>4, RequestsSound DEF CreateSession
    <2>2. GatewayTypeOK'
        BY <1>0, <1>4, <2>1 DEF CreateSession, GatewayTypeOK, SoundRequest, Payments, SessionStates, Events
    <2>3. SoundRequest(r)
        BY <2>1 DEF SoundRequest, Requests, Steps, Refs, SessionRef
    <2> QED
        BY <1>4, <2>2, <2>3, OnlyRequest DEF CreateSession
<1>5. ASSUME StoreSession(h) PROVE Typed'
    <2> DEFINE p == proc[h].pay
               row == [pay[p] EXCEPT !.ref = proc[h].ref, !.seen = {}]
    <2>1. SoundRequest(proc[h]) /\ proc[h].step = "storeSession"
        BY <1>5, RequestsSound DEF StoreSession
    <2>2. p \in Payments /\ pay[p] \in PaymentRows /\ pay[p].status # "NONE" /\ pay[p].offer \in Offers
        BY <2>1 DEF SoundRequest, Typed, TypeOK
    <2>3. row \in PaymentRows /\ row.status # "NONE" /\ row.offer \in Offers
        BY <2>1, <2>2 DEF SoundRequest, PaymentRows
    <2>4. pay' = [pay EXCEPT ![p] = row] /\ proc' = [proc EXCEPT ![h] = Idle]
        BY <1>5 DEF StoreSession, Return
    <2> HIDE DEF row, p
    <2>5. /\ pay' \in [Payments -> PaymentRows]
          /\ \A q \in Payments : IF pay'[q].status = "NONE" THEN pay'[q].ref = NoRef
                                                      ELSE pay'[q].offer \in Offers
          /\ \A q \in Payments : pay[q].status # "NONE" => pay'[q].status # "NONE"
        BY <2>2, <2>3, <2>4, RowWritten
    <2>6. proc' \in [Handlers -> Requests] /\ HandlersTyped'
        BY <2>4, <2>5, RequestWritten, IdleSound
    <2>7. proc[h].ref \in Refs
        BY <2>1 DEF SoundRequest
    <2>8. GatewayTypeOK'
        BY <1>0, <1>5, <2>7 DEF StoreSession, GatewayTypeOK, Payments, SessionStates, Events, Refs
    <2> QED
        BY <1>5, <2>5, <2>6, <2>8 DEF StoreSession, Typed, TypeOK, Payments, PaymentRows
<1> QED
    BY <1>1, <1>2, <1>3, <1>4, <1>5 DEF CheckoutNext

LEMMA VerifyTyped == ASSUME Typed, NEW h \in Handlers, VerifyNext(h) PROVE Typed'
<1>0. GatewayTypeOK /\ (UNCHANGED <<sess, emitted, ack>> => GatewayTypeOK')
    BY SameGateway DEF Typed, TypeOK, GatewayTypeOK
<1>1. ASSUME NEW p \in Payments, BeginVerify(h, p) PROVE Typed'
    <2> PICK step \in {"storeValId", "askGateway"} :
            Begin(h, [Idle EXCEPT !.step = step, !.pay = p, !.ref = pay[p].ref, !.seen = pay[p].seen])
        BY <1>1 DEF BeginVerify
    <2>1. pay[p] \in PaymentRows /\ pay[p].status # "NONE" /\ pay[p].ref # NoRef
        BY <1>1 DEF BeginVerify, Typed, TypeOK
    <2>2. SoundRequest([Idle EXCEPT !.step = step, !.pay = p, !.ref = pay[p].ref, !.seen = pay[p].seen])
        BY <2>1 DEF SoundRequest, Idle, Requests, Steps, PaymentRows
    <2> QED
        BY <1>0, <1>1, <2>2, OnlyRequest DEF BeginVerify, Begin
<1>2. ASSUME StoreValId(h) PROVE Typed'
    <2> DEFINE p == proc[h].pay
               row == [pay[p] EXCEPT !.seen = proc[h].seen]
    <2> PICK r : r = [proc[h] EXCEPT !.step = "askGateway"]
        OBVIOUS
    <2>1. SoundRequest(proc[h]) /\ proc[h].step = "storeValId"
        BY <1>2, RequestsSound DEF StoreValId
    <2>2. p \in Payments /\ pay[p] \in PaymentRows /\ pay[p].status # "NONE" /\ pay[p].offer \in Offers
        BY <2>1 DEF SoundRequest, Typed, TypeOK
    <2>3. row \in PaymentRows /\ row.status # "NONE" /\ row.offer \in Offers
        BY <2>1, <2>2 DEF SoundRequest, PaymentRows, Requests
    <2>4. pay' = [pay EXCEPT ![p] = row] /\ proc' = [proc EXCEPT ![h] = r]
        BY <1>2 DEF StoreValId, Continue
    <2> HIDE DEF row
    <2>5. /\ pay' \in [Payments -> PaymentRows]
          /\ \A q \in Payments : IF pay'[q].status = "NONE" THEN pay'[q].ref = NoRef
                                                      ELSE pay'[q].offer \in Offers
          /\ \A q \in Payments : pay[q].status # "NONE" => pay'[q].status # "NONE"
        BY <2>2, <2>3, <2>4, RowWritten
    <2>6. SoundRequest(r)'
        BY <2>1, <2>5 DEF SoundRequest, Requests, Steps, Payments, Offers, Refs, Events
    <2>7. proc' \in [Handlers -> Requests] /\ HandlersTyped'
        BY <2>4, <2>5, <2>6, RequestWritten
    <2> QED
        BY <1>0, <1>2, <2>5, <2>7 DEF StoreValId, Typed, TypeOK, Payments, PaymentRows
<1>3. ASSUME AskGateway(h) PROVE Typed'
    <2> DEFINE s == proc[h].ref[2]
    <2>1. SoundRequest(proc[h]) /\ proc[h].step = "askGateway"
        BY <1>3, RequestsSound DEF AskGateway
    <2>2. s \in Sessions
        BY <2>1 DEF SoundRequest, Refs
    <2>3. SoundRequest([proc[h] EXCEPT !.step = "finalize", !.ref = Intent(s)])
        BY <2>1, <2>2 DEF SoundRequest, Requests, Steps, Refs, Intent
    <2>4. SoundRequest([proc[h] EXCEPT !.step = "fail"])
        BY <2>1 DEF SoundRequest, Requests, Steps
    <2>5. \/ proc' = [proc EXCEPT ![h] = [proc[h] EXCEPT !.step = "finalize", !.ref = Intent(s)]]
          \/ proc' = [proc EXCEPT ![h] = [proc[h] EXCEPT !.step = "fail"]]
          \/ proc' = [proc EXCEPT ![h] = Idle]
        BY <1>3 DEF AskGateway, Continue, Return
    <2>6. GatewayTypeOK' /\ UNCHANGED <<pay, sub, invoices>>
        BY <1>0, <1>3 DEF AskGateway
    <2> QED
        BY <2>3, <2>4, <2>5, <2>6, IdleSound, OnlyRequest
<1> QED
    BY <1>1, <1>2, <1>3 DEF VerifyNext

LEMMA WebhookTyped == ASSUME Typed, NEW h \in Handlers, WebhookNext(h) PROVE Typed'
<1>0. GatewayTypeOK /\ (UNCHANGED <<sess, emitted, ack>> => GatewayTypeOK')
    BY SameGateway DEF Typed, TypeOK, GatewayTypeOK
<1>1. ASSUME NEW e \in Events, DispatchEvent(h, e) PROVE Typed'
    <2> PICK p \in PaymentsOf(e) :
            Begin(h, [Idle EXCEPT !.step = NextStep(WebhookStatus(e)), !.pay = p,
                                  !.ref = WebhookTransactionRef(e),
                                  !.seen = pay[p].seen, !.evt = e])
        BY <1>1 DEF DispatchEvent
    <2> DEFINE r == [Idle EXCEPT !.step = NextStep(WebhookStatus(e)), !.pay = p,
                                  !.ref = WebhookTransactionRef(e),
                                  !.seen = pay[p].seen, !.evt = e]
    <2>1. p \in Payments /\ pay[p].ref # NoRef
        BY DEF PaymentsOf, WithRef
    <2>2. pay[p] \in PaymentRows
        BY <2>1 DEF Typed, TypeOK
    <2>3. NextStep(WebhookStatus(e)) \in {"finalize", "refund", "fail"}
        BY <1>1 DEF DispatchEvent, WebhookStatus, NextStep
    <2>4. WebhookTransactionRef(e) \in Refs \cup {NoRef}
        BY DEF WebhookTransactionRef, Events, Refs, Intent
    <2>5. pay[p].status # "NONE"
        BY <2>1 DEF Typed, TypeOK
    <2>6. SoundRequest(r)
        BY <2>1, <2>2, <2>3, <2>4, <2>5 DEF SoundRequest, Idle, Requests, Steps, PaymentRows
    <2> QED
        BY <1>0, <1>1, <2>6, OnlyRequest DEF DispatchEvent, Begin
<1>2. ASSUME NEW e \in Events, IgnoreEvent(h, e) PROVE Typed'
    <2>1. ack' \in [Events -> Answers]
        BY <1>0, <1>2, AnswerTyped DEF IgnoreEvent, Answers
    <2>2. GatewayTypeOK'
        BY <1>0, <1>2, <2>1, SameGateway DEF IgnoreEvent
    <2> QED
        BY <1>2, <2>2 DEF IgnoreEvent, Typed, TypeOK, HandlersTyped, Payments, PaymentRows
<1> QED
    BY <1>1, <1>2 DEF WebhookNext

LEMMA RefundTyped == ASSUME Typed, NEW h \in Handlers, RefundNext(h) PROVE Typed'
<1>0. GatewayTypeOK /\ (UNCHANGED <<sess, emitted, ack>> => GatewayTypeOK')
    BY SameGateway DEF Typed, TypeOK, GatewayTypeOK
<1>1. ASSUME NEW p \in Payments, BeginRefund(h, p) PROVE Typed'
    <2> DEFINE r == [Idle EXCEPT !.step = "refundAtGateway", !.pay = p,
                                 !.ref = pay[p].ref, !.seen = pay[p].seen]
    <2>1. pay[p] \in PaymentRows /\ pay[p].status # "NONE"
        BY <1>1 DEF BeginRefund, Typed, TypeOK
    <2>2. SoundRequest(r)
        BY <2>1 DEF SoundRequest, Idle, Requests, Steps, PaymentRows
    <2> QED
        BY <1>0, <1>1, <2>2, OnlyRequest DEF BeginRefund, Begin
<1>2. ASSUME RefundAtGateway(h) PROVE Typed'
    <2> DEFINE r == [proc[h] EXCEPT !.step = "refund"]
    <2>1. SoundRequest(proc[h]) /\ proc[h].step = "refundAtGateway"
        BY <1>2, RequestsSound DEF RefundAtGateway
    <2>2. SoundRequest(r)
        BY <2>1 DEF SoundRequest, Requests, Steps
    <2>3. GatewayTypeOK'
        BY <1>0, <1>2 DEF RefundAtGateway, GatewayTypeOK, Payments, ChargeStates, Events, EventKinds
    <2> QED
        BY <1>2, <2>2, <2>3, OnlyRequest DEF RefundAtGateway, Continue
<1> QED
    BY <1>1, <1>2 DEF RefundNext

\* The steps that settle a payment write at most its row, answer the event and return.
LEMMA SettledTyped ==
    ASSUME Typed, NEW h \in Handlers, NEW p \in Payments, NEW row \in PaymentRows,
           row.status # "NONE", row.offer \in Offers,
           pay' = [pay EXCEPT ![p] = row], Return(h), UNCHANGED <<sess, emitted>>,
           ack' \in [Events -> Answers],
           sub' \in [Orgs -> [status: SubscriptionStates, plan: Plans \cup {NoPlan}]],
           invoices' \in SUBSET InvoiceRows, IsFiniteSet(invoices')
    PROVE  Typed'
<1>1. GatewayTypeOK'
    BY SameGateway DEF Typed, TypeOK
<1>2. /\ pay' \in [Payments -> PaymentRows]
      /\ \A q \in Payments : IF pay'[q].status = "NONE" THEN pay'[q].ref = NoRef
                                                      ELSE pay'[q].offer \in Offers
      /\ \A q \in Payments : pay[q].status # "NONE" => pay'[q].status # "NONE"
    BY RowWritten
<1>3. proc' \in [Handlers -> Requests] /\ HandlersTyped'
    BY <1>2, RequestWritten, IdleSound DEF Return
<1> QED
    BY <1>1, <1>2, <1>3 DEF Typed, TypeOK, Payments, PaymentRows, InvoiceRows

LEMMA VoidingFinite ==
    ASSUME TypeOK, IsFiniteSet(invoices), NEW p, VoidInvoicesOf(p)
    PROVE  invoices' \in SUBSET InvoiceRows /\ IsFiniteSet(invoices')
<1> DEFINE f == [i \in invoices |-> IF i.pay = p THEN [i EXCEPT !.status = "VOID"] ELSE i]
<1>1. invoices' \in SUBSET InvoiceRows
    BY DEF VoidInvoicesOf, TypeOK, InvoiceRows, InvoiceStates
<1>2. f \in Surjection(invoices, invoices')
    BY DEF VoidInvoicesOf, Surjection
<1> QED
    BY <1>1, <1>2, FS_Surjection

LEMMA SettleTyped == ASSUME Typed, NEW h \in Handlers, SettleNext(h) PROVE Typed'
<1> DEFINE p == proc[h].pay
<1>1. SoundRequest(proc[h]) /\ proc[h].step \in {"finalize", "fail", "refund"}
    BY RequestsSound DEF SettleNext, FinalizeSuccessfulPayment, MarkPaymentFailed, MarkPaymentRefunded
<1>2. p \in Payments /\ pay[p] \in PaymentRows /\ pay[p].status # "NONE" /\ pay[p].offer \in Offers
    BY <1>1 DEF SoundRequest, Typed, TypeOK
<1>3. EventIds(proc[h].evt) \subseteq Events /\ proc[h].seen \subseteq Events
      /\ proc[h].ref \in Refs \cup {NoRef}
    BY <1>1 DEF SoundRequest, Requests, EventIds
<1>4. UNCHANGED ack \/ Answer(proc[h].evt, "processed") => ack' \in [Events -> Answers]
    BY AnswerTyped DEF Typed, TypeOK, GatewayTypeOK, Answers
<1>5. pay' = pay => pay' = [pay EXCEPT ![p] = pay[p]]
    BY DEF Typed, TypeOK
<1>6. /\ sub \in [Orgs -> [status: SubscriptionStates, plan: Plans \cup {NoPlan}]]
      /\ invoices \in SUBSET InvoiceRows /\ IsFiniteSet(invoices)
    BY DEF Typed, TypeOK
<1>7. CASE FinalizeSuccessfulPayment(h)
    <2>1. CASE Activate(h, p)
        <3> DEFINE row == [pay[p] EXCEPT !.status = "SUCCEEDED", !.ref = proc[h].ref,
                                         !.seen = pay[p].seen \cup EventIds(proc[h].evt)]
        <3>1. row \in PaymentRows /\ row.status # "NONE" /\ row.offer \in Offers
            BY <1>2, <1>3 DEF PaymentRows, PaymentStates
        <3>2. OrgOf(p) \in Orgs /\ PlanOf(p) \in Plans
            BY <1>2 DEF OrgOf, PlanOf, Offers
        <3>3. sub' \in [Orgs -> [status: SubscriptionStates, plan: Plans \cup {NoPlan}]]
            BY <1>6, <2>1, <3>2 DEF Activate, SubscriptionStates
        <3>4. NextInvoiceNumber(OrgOf(p)) \in Nat \ {0}
            BY <1>6, NextInvoiceNumberFree DEF Typed
        <3>5. invoices' \in SUBSET InvoiceRows
            BY <1>2, <1>6, <2>1, <3>4 DEF Activate, CreateInvoice, InvoiceRows, InvoiceStates
        <3>6. IsFiniteSet(invoices')
            BY <1>6, <2>1, FS_AddElement DEF Activate, CreateInvoice
        <3>7. pay' = [pay EXCEPT ![p] = row]
            BY <2>1 DEF Activate
        <3>8. ack' \in [Events -> Answers]
            BY <1>4, <2>1 DEF Activate
        <3> HIDE DEF row, p
        <3> QED
            BY <1>2, <1>7, <3>1, <3>3, <3>5, <3>6, <3>7, <3>8, SettledTyped DEF FinalizeSuccessfulPayment
    <2>2. CASE AlreadySucceeded(h, p) \/ RejectRefunded(p)
        BY <1>2, <1>4, <1>5, <1>6, <1>7, <2>2, SettledTyped
        DEF AlreadySucceeded, RejectRefunded, FinalizeSuccessfulPayment
    <2> QED
        BY <1>7, <2>1, <2>2 DEF FinalizeSuccessfulPayment
<1>8. CASE MarkPaymentFailed(h)
    <2> DEFINE row == [pay[p] EXCEPT !.status = "CANCELLED",
                                     !.seen = proc[h].seen \cup EventIds(proc[h].evt)]
    <2>1. row \in PaymentRows /\ row.status # "NONE" /\ row.offer \in Offers
        BY <1>2, <1>3 DEF PaymentRows, PaymentStates
    <2>2. pay' = [pay EXCEPT ![p] = row] \/ pay' = pay
        BY <1>8 DEF MarkPaymentFailed
    <2>3. ack' \in [Events -> Answers] /\ Return(h) /\ UNCHANGED <<sess, emitted, sub, invoices>>
        BY <1>4, <1>8 DEF MarkPaymentFailed
    <2> HIDE DEF row, p
    <2> QED
        BY <1>2, <1>5, <1>6, <2>1, <2>2, <2>3, SettledTyped
<1>9. CASE MarkPaymentRefunded(h)
    <2>1. CASE Reverse(h, p)
        <3> DEFINE row == [pay[p] EXCEPT !.status = "REFUNDED", !.seen = proc[h].seen]
        <3>1. row \in PaymentRows /\ row.status # "NONE" /\ row.offer \in Offers
            BY <1>2, <1>3 DEF PaymentRows, PaymentStates
        <3>2. OrgOf(p) \in Orgs
            BY <1>2 DEF OrgOf, Offers
        <3>3. sub' \in [Orgs -> [status: SubscriptionStates, plan: Plans \cup {NoPlan}]]
            BY <1>6, <2>1, <3>2 DEF Reverse, CancelSubscription, SubscriptionStates
        <3>4. invoices' \in SUBSET InvoiceRows /\ IsFiniteSet(invoices')
            BY <1>6, <2>1, VoidingFinite DEF Reverse, Typed
        <3>5. pay' = [pay EXCEPT ![p] = row]
            BY <2>1 DEF Reverse
        <3>6. ack' \in [Events -> Answers]
            BY <1>4, <1>9 DEF MarkPaymentRefunded
        <3> HIDE DEF row, p
        <3> QED
            BY <1>2, <1>9, <3>1, <3>3, <3>4, <3>5, <3>6, SettledTyped DEF MarkPaymentRefunded
    <2>2. CASE NotRefundable(p)
        BY <1>2, <1>4, <1>5, <1>6, <1>9, <2>2, SettledTyped DEF NotRefundable, MarkPaymentRefunded
    <2> QED
        BY <1>9, <2>1, <2>2 DEF MarkPaymentRefunded
<1> QED
    BY <1>7, <1>8, <1>9 DEF SettleNext

LEMMA TypedNext == Typed /\ [Next]_vars => Typed'
<1> SUFFICES ASSUME Typed, [Next]_vars PROVE Typed'
    OBVIOUS
<1>0. GatewayTypeOK /\ (UNCHANGED <<sess, emitted, ack>> => GatewayTypeOK')
    BY SameGateway DEF Typed, TypeOK, GatewayTypeOK
<1>1. ASSUME NEW h \in Handlers, HandlerNext(h) PROVE Typed'
    <2>1. CASE Abort(h)
        BY <1>0, <2>1, IdleSound, OnlyRequest DEF Abort, Return
    <2> QED
        BY <1>1, <2>1, CheckoutTyped, VerifyTyped, WebhookTyped, RefundTyped, SettleTyped DEF HandlerNext
<1>2. CASE OutsideNext
    <2>1. GatewayTypeOK'
        BY <1>0, <1>2, GatewayTyped DEF OutsideNext
    <2> QED
        BY <1>2, <2>1 DEF OutsideNext, Typed, TypeOK, HandlersTyped, Payments, PaymentRows
<1>3. CASE UNCHANGED vars
    BY <1>0, <1>3 DEF vars, Typed, TypeOK, HandlersTyped, Payments, PaymentRows
<1> QED
    BY <1>1, <1>2, <1>3 DEF Next, ServiceNext

\* In every reachable state every table, every request and the gateway's state
\* are well typed, a request names an existing payment, and there are finitely
\* many invoices: the basis of every other theorem here.
THEOREM TypeCorrect == Spec => []TypeOK
<1>1. Spec => []Typed
    BY TypedInit, TypedNext, PTL DEF Spec
<1>2. Typed => TypeOK
    BY DEF Typed
<1> QED
    BY <1>1, <1>2, PTL

-----------------------------------------------------------------------------
(* What a step can do to the books.  Whatever handler, event or order: it   *)
(* activates one payment, reverses one, or leaves subscriptions and         *)
(* invoices alone and at most creates or cancels a pending payment.         *)

SameRow(p) == pay'[p].status = pay[p].status /\ pay'[p].offer = pay[p].offer

Quiet ==
    /\ UNCHANGED <<sub, invoices>>
    /\ \A p \in Payments :
        \/ SameRow(p)
        \/ pay[p].status = "NONE" /\ pay'[p].status = "PENDING"
        \/ /\ pay[p].status = "PENDING" /\ pay'[p].status = "CANCELLED"
           /\ pay'[p].offer = pay[p].offer

\* p is activated, with its invoice.
Booked(p) ==
    /\ pay[p].status \in {"PENDING", "FAILED", "CANCELLED"}
    /\ pay[p].offer \in Offers
    /\ pay'[p].status = "SUCCEEDED" /\ pay'[p].offer = pay[p].offer
    /\ \A q \in Payments \ {p} : SameRow(q)
    /\ sub' = [sub EXCEPT ![OrgOf(p)] = [status |-> "ACTIVE", plan |-> PlanOf(p)]]
    /\ CreateInvoice(p)

\* p is given back, its invoices voided and its organization's subscription cancelled.
GivenBack(p) ==
    /\ pay[p].status = "SUCCEEDED"
    /\ pay[p].offer \in Offers
    /\ pay'[p].status = "REFUNDED" /\ pay'[p].offer = pay[p].offer
    /\ \A q \in Payments \ {p} : SameRow(q)
    /\ VoidInvoicesOf(p)
    /\ CancelSubscription(OrgOf(p))

LEMMA StepEffect ==
    ASSUME Typed, [Next]_vars
    PROVE  Quiet \/ \E p \in Payments : Booked(p) \/ GivenBack(p)
<1>0. pay \in [Payments -> PaymentRows]
    BY DEF Typed, TypeOK
<1>1. UNCHANGED <<pay, sub, invoices>> => Quiet
    BY DEF Quiet, SameRow
<1>2. ASSUME NEW h \in Handlers, CheckoutNext(h) PROVE Quiet
    <2>1. CASE CreatePayment(h)
        BY <1>0, <2>1 DEF CreatePayment, Quiet, SameRow, PaymentRows
    <2>2. CASE StoreSession(h)
        <3>1. proc[h].pay \in Payments
            BY <2>2, RequestsSound DEF StoreSession, SoundRequest
        <3> QED
            BY <1>0, <2>2, <3>1 DEF StoreSession, Quiet, SameRow, PaymentRows
    <2> QED
        BY <1>1, <1>2, <2>1, <2>2 DEF CheckoutNext, ReusePending, FindNoPending, CreateSession
<1>3. ASSUME NEW h \in Handlers, VerifyNext(h) PROVE Quiet
    <2>1. CASE StoreValId(h)
        BY <1>0, <2>1 DEF StoreValId, Quiet, SameRow, PaymentRows
    <2> QED
        BY <1>1, <1>3, <2>1 DEF VerifyNext, BeginVerify, AskGateway
<1>4. ASSUME NEW h \in Handlers, SettleNext(h)
      PROVE  Quiet \/ \E p \in Payments : Booked(p) \/ GivenBack(p)
    <2> DEFINE p == proc[h].pay
    <2>1. p \in Payments /\ pay[p].status # "NONE" /\ pay[p].offer \in Offers
        BY <1>4, RequestsSound DEF SettleNext, FinalizeSuccessfulPayment, MarkPaymentFailed,
           MarkPaymentRefunded, SoundRequest, Typed, TypeOK
    <2>2. CASE FinalizeSuccessfulPayment(h) /\ Activate(h, p)
        BY <1>0, <2>1, <2>2 DEF Activate, Booked, SameRow, PaymentRows
    <2>3. CASE MarkPaymentFailed(h)
        BY <1>0, <2>1, <2>3 DEF MarkPaymentFailed, Quiet, SameRow, PaymentRows
    <2>4. CASE MarkPaymentRefunded(h) /\ Reverse(h, p)
        BY <1>0, <2>1, <2>4 DEF Reverse, GivenBack, SameRow, PaymentRows
    <2> QED
        BY <1>1, <1>4, <2>1, <2>2, <2>3, <2>4 DEF SettleNext, FinalizeSuccessfulPayment,
           MarkPaymentRefunded, AlreadySucceeded, RejectRefunded, NotRefundable
<1>5. ASSUME NEW h \in Handlers, WebhookNext(h) \/ RefundNext(h) \/ Abort(h) PROVE Quiet
    BY <1>1, <1>5 DEF WebhookNext, DispatchEvent, IgnoreEvent, RefundNext, BeginRefund,
       RefundAtGateway, Abort
<1>6. CASE OutsideNext \/ UNCHANGED vars
    BY <1>1, <1>6 DEF OutsideNext, vars
<1> QED
    BY <1>2, <1>3, <1>4, <1>5, <1>6 DEF Next, ServiceNext, HandlerNext

-----------------------------------------------------------------------------
(* Invoices.  The inductive form of InvoiceMatchesPayment and               *)
(* InvoiceNumbersUnique, quantified over invoices.                          *)

InvoiceRecords ==
    /\ \A i \in invoices :
        \/ i.status = "PAID" /\ pay[i.pay].status = "SUCCEEDED"
        \/ i.status = "VOID" /\ pay[i.pay].status = "REFUNDED"
    /\ \A i, j \in invoices : i.pay = j.pay => i = j
    /\ \A p \in Payments : pay[p].status \in {"SUCCEEDED", "REFUNDED"} =>
        \E i \in invoices : i.pay = p

LEMMA RecordsMatch == ASSUME TypeOK, InvoiceRecords PROVE InvoiceMatchesPayment
<1> SUFFICES ASSUME NEW p \in Payments
             PROVE  \/ /\ pay[p].status = "SUCCEEDED"
                       /\ \E i \in invoices : InvoicesOf(p) = {i} /\ i.status = "PAID"
                    \/ /\ pay[p].status = "REFUNDED"
                       /\ \E i \in invoices : InvoicesOf(p) = {i} /\ i.status = "VOID"
                    \/ /\ pay[p].status \notin {"SUCCEEDED", "REFUNDED"}
                       /\ InvoicesOf(p) = {}
    BY DEF InvoiceMatchesPayment
<1>1. CASE pay[p].status \in {"SUCCEEDED", "REFUNDED"}
    <2> PICK i \in invoices : i.pay = p
        BY <1>1 DEF InvoiceRecords
    <2>1. InvoicesOf(p) = {i}
        BY DEF InvoicesOf, InvoiceRecords
    <2> QED
        BY <1>1, <2>1 DEF InvoiceRecords
<1>2. CASE pay[p].status \notin {"SUCCEEDED", "REFUNDED"}
    BY <1>2 DEF InvoicesOf, InvoiceRecords
<1> QED
    BY <1>1, <1>2

LEMMA RecordsNext ==
    ASSUME Typed, InvoiceRecords, InvoiceNumbersUnique, [Next]_vars
    PROVE  InvoiceRecords' /\ InvoiceNumbersUnique'
<1>0. invoices \in SUBSET InvoiceRows
    BY DEF Typed, TypeOK
<1>1. CASE Quiet
    BY <1>0, <1>1 DEF Quiet, SameRow, InvoiceRecords, InvoiceNumbersUnique, InvoiceRows, OrgOf
<1>2. ASSUME NEW p \in Payments, Booked(p) PROVE InvoiceRecords' /\ InvoiceNumbersUnique'
    <2> DEFINE n == NextInvoiceNumber(OrgOf(p))
               new == [pay |-> p, number |-> n, status |-> "PAID"]
    <2>1. n \notin UsedNumbers(OrgOf(p))
        BY NextInvoiceNumberFree DEF Typed
    <2>2. invoices' = invoices \cup {new}
        BY <1>2 DEF Booked, CreateInvoice
    <2>3. \A i \in invoices : i.pay \in Payments \ {p}
        BY <1>0, <1>2 DEF Booked, InvoiceRecords, InvoiceRows
    <2>4. \A i \in invoices : OrgOf(i.pay) = OrgOf(p) => i.number # n
        BY <2>1 DEF UsedNumbers
    <2> HIDE DEF n
    <2>5. InvoiceRecords'
        <3>1. /\ new.pay = p /\ new.status = "PAID" /\ pay'[p].status = "SUCCEEDED"
              /\ \A q \in Payments \ {p} : pay'[q].status = pay[q].status
            BY <1>2 DEF Booked, SameRow
        <3> HIDE DEF new
        <3>2. \A i \in invoices' :
                \/ i.status = "PAID" /\ pay'[i.pay].status = "SUCCEEDED"
                \/ i.status = "VOID" /\ pay'[i.pay].status = "REFUNDED"
            BY <2>2, <2>3, <3>1 DEF InvoiceRecords
        <3>3. \A i, j \in invoices' : i.pay = j.pay => i = j
            BY <2>2, <2>3, <3>1 DEF InvoiceRecords
        <3>4. ASSUME NEW q \in Payments, pay'[q].status \in {"SUCCEEDED", "REFUNDED"}
              PROVE  \E i \in invoices' : i.pay = q
            BY <2>2, <3>1, <3>4 DEF InvoiceRecords
        <3> QED
            BY <3>2, <3>3, <3>4 DEF InvoiceRecords, Payments
    <2>6. InvoiceNumbersUnique'
        BY <1>2, <2>2, <2>3, <2>4 DEF Booked, SameRow, InvoiceNumbersUnique, OrgOf
    <2> QED
        BY <2>5, <2>6
<1>3. ASSUME NEW p \in Payments, GivenBack(p) PROVE InvoiceRecords' /\ InvoiceNumbersUnique'
    <2>1. invoices' = {IF i.pay = p THEN [i EXCEPT !.status = "VOID"] ELSE i : i \in invoices}
        BY <1>3 DEF GivenBack, VoidInvoicesOf
    <2>2. \A j \in invoices' : \E i \in invoices :
            /\ j.pay = i.pay /\ j.number = i.number /\ i.pay \in Payments
            /\ i.pay = p => j = [i EXCEPT !.status = "VOID"]
            /\ i.pay # p => j = i
        BY <1>0, <2>1 DEF InvoiceRows
    <2>3. ASSUME NEW i \in invoices PROVE \E j \in invoices' : j.pay = i.pay
        <3> DEFINE j == IF i.pay = p THEN [i EXCEPT !.status = "VOID"] ELSE i
        <3>1. j \in invoices'
            BY <2>1
        <3>2. j.pay = i.pay
            BY <1>0 DEF InvoiceRows
        <3> QED
            BY <3>1, <3>2
    <2>4. InvoiceRecords'
        BY <1>0, <1>3, <2>2, <2>3 DEF GivenBack, SameRow, InvoiceRecords, InvoiceRows
    <2>5. \A q \in Payments : OrgOf(q)' = OrgOf(q)
        BY <1>3 DEF GivenBack, SameRow, OrgOf
    <2>6. InvoiceNumbersUnique'
        BY <2>2, <2>5 DEF InvoiceNumbersUnique
    <2> QED
        BY <2>4, <2>6
<1> QED
    BY <1>1, <1>2, <1>3, StepEffect

Books == Typed /\ InvoiceRecords /\ InvoiceNumbersUnique

LEMMA BooksInit == Init => Books
BY TypedInit DEF Init, Books, InvoiceRecords, InvoiceNumbersUnique

LEMMA BooksNext == Books /\ [Next]_vars => Books'
BY TypedNext, RecordsNext DEF Books

LEMMA BooksAlways == Spec => []Books
BY BooksInit, BooksNext, PTL DEF Spec

\* However requests interleave, abort and repeat, a succeeded payment has exactly
\* one invoice, paid; a refunded one exactly one, void; any other none.
THEOREM InvoicesCorrect == Spec => []InvoiceMatchesPayment
<1>1. Books => InvoiceMatchesPayment
    BY RecordsMatch DEF Books, Typed
<1> QED
    BY <1>1, BooksAlways, PTL

\* No organization ever has two invoices of the same number.
THEOREM NumbersCorrect == Spec => []InvoiceNumbersUnique
<1>1. Books => InvoiceNumbersUnique
    BY DEF Books
<1> QED
    BY <1>1, BooksAlways, PTL

-----------------------------------------------------------------------------
(* Subscriptions.                                                           *)

\* A subscription is ACTIVE only on the strength of an unrefunded payment for
\* the plan it grants.
THEOREM ActivationPaid == Spec => []ActivePlanIsPaid
<1> DEFINE IInv == Typed /\ ActivePlanIsPaid
<1>1. Init => IInv
    BY TypedInit DEF Init, ActivePlanIsPaid
<1>2. IInv /\ [Next]_vars => IInv'
    <2> SUFFICES ASSUME Typed, ActivePlanIsPaid, [Next]_vars PROVE ActivePlanIsPaid'
        BY TypedNext
    <2>1. sub \in [Orgs -> [status: SubscriptionStates, plan: Plans \cup {NoPlan}]]
        BY DEF Typed, TypeOK
    <2>2. CASE Quiet
        <3> SUFFICES ASSUME NEW o \in Orgs, sub'[o].status = "ACTIVE"
                     PROVE  \E q \in Payments : /\ pay'[q].status = "SUCCEEDED"
                                                /\ pay'[q].offer = <<o, sub'[o].plan>>
            BY DEF ActivePlanIsPaid, Payments
        <3>1. sub'[o] = sub[o]
            BY <2>2 DEF Quiet
        <3>2. PICK q \in Payments : pay[q].status = "SUCCEEDED" /\ pay[q].offer = <<o, sub[o].plan>>
            BY <3>1 DEF ActivePlanIsPaid
        <3> QED
            BY <2>2, <3>1, <3>2 DEF Quiet, SameRow
    <2>3. ASSUME NEW p \in Payments, Booked(p) PROVE ActivePlanIsPaid'
        <3>1. OrgOf(p) \in Orgs /\ pay[p].offer = <<OrgOf(p), PlanOf(p)>>
            BY <2>3 DEF Booked, OrgOf, PlanOf, Offers
        <3>2. /\ sub'[OrgOf(p)].plan = PlanOf(p)
              /\ \A o \in Orgs : o # OrgOf(p) => sub'[o] = sub[o]
            BY <2>1, <2>3, <3>1 DEF Booked
        <3> SUFFICES ASSUME NEW o \in Orgs, sub'[o].status = "ACTIVE"
                     PROVE  \E q \in Payments : /\ pay'[q].status = "SUCCEEDED"
                                                /\ pay'[q].offer = <<o, sub'[o].plan>>
            BY DEF ActivePlanIsPaid, Payments
        <3>3. CASE o = OrgOf(p)
            BY <2>3, <3>1, <3>2, <3>3 DEF Booked
        <3>4. CASE o # OrgOf(p)
            BY <2>3, <3>2, <3>4 DEF ActivePlanIsPaid, Booked, SameRow
        <3> QED
            BY <3>3, <3>4
    <2>4. ASSUME NEW p \in Payments, GivenBack(p) PROVE ActivePlanIsPaid'
        <3>1. OrgOf(p) \in Orgs /\ pay[p].offer = <<OrgOf(p), PlanOf(p)>>
            BY <2>4 DEF GivenBack, OrgOf, PlanOf, Offers
        <3>2. /\ sub'[OrgOf(p)].status # "ACTIVE"
              /\ \A o \in Orgs : o # OrgOf(p) => sub'[o] = sub[o]
            BY <2>1, <2>4, <3>1 DEF GivenBack, CancelSubscription
        <3> SUFFICES ASSUME NEW o \in Orgs, sub'[o].status = "ACTIVE"
                     PROVE  \E q \in Payments : /\ pay'[q].status = "SUCCEEDED"
                                                /\ pay'[q].offer = <<o, sub'[o].plan>>
            BY DEF ActivePlanIsPaid, Payments
        <3>3. sub'[o] = sub[o] /\ o # OrgOf(p)
            BY <3>2
        <3>4. PICK q \in Payments : pay[q].status = "SUCCEEDED" /\ pay[q].offer = <<o, sub[o].plan>>
            BY <3>3 DEF ActivePlanIsPaid
        <3>5. q # p
            BY <3>1, <3>3, <3>4
        <3> QED
            BY <2>4, <3>3, <3>4, <3>5 DEF GivenBack, SameRow
    <2> QED
        BY <2>2, <2>3, <2>4, StepEffect
<1>3. IInv => ActivePlanIsPaid
    OBVIOUS
<1> QED
    BY <1>1, <1>2, <1>3, PTL DEF Spec

LEMMA LifecycleStep ==
    ASSUME Typed, [Next]_vars, NEW p \in Payments
    PROVE  Lifecycle(pay[p].status, pay'[p].status)
<1>1. Quiet => Lifecycle(pay[p].status, pay'[p].status)
    BY DEF Quiet, SameRow, Lifecycle
<1>2. ASSUME NEW q \in Payments, Booked(q)
      PROVE  Lifecycle(pay[p].status, pay'[p].status)
    BY <1>2 DEF Booked, SameRow, Lifecycle
<1>3. ASSUME NEW q \in Payments, GivenBack(q)
      PROVE  Lifecycle(pay[p].status, pay'[p].status)
    BY <1>3 DEF GivenBack, SameRow, Lifecycle
<1> QED
    BY <1>1, <1>2, <1>3, StepEffect

\* No step takes a payment back from success but its refund, nor out of refund.
THEOREM NeverReverts == Spec => PaymentNeverReverts
<1>1. Typed /\ [Next]_vars => [\A p \in Payments : Lifecycle(pay[p].status, pay'[p].status)]_vars
    BY LifecycleStep
<1>2. Spec => []Typed
    BY TypedInit, TypedNext, PTL DEF Spec
<1> QED
    BY <1>1, <1>2, PTL DEF Spec, PaymentNeverReverts

\* A subscription turns CANCELLED only in the step that refunds a succeeded
\* payment of its organization.
THEOREM CancellationIsRefund == Spec => CancelledOnlyByRefund
<1> DEFINE A == \A o \in Orgs :
        sub[o].status # "CANCELLED" /\ sub'[o].status = "CANCELLED" =>
            \E p \in Payments : /\ OrgOf(p) = o
                                /\ pay[p].status = "SUCCEEDED"
                                /\ pay'[p].status = "REFUNDED"
<1>1. Typed /\ [Next]_vars => [A]_vars
    <2> SUFFICES ASSUME Typed, [Next]_vars, NEW o \in Orgs,
                        sub[o].status # "CANCELLED", sub'[o].status = "CANCELLED"
                 PROVE  \E p \in Payments : /\ OrgOf(p) = o
                                            /\ pay[p].status = "SUCCEEDED"
                                            /\ pay'[p].status = "REFUNDED"
        OBVIOUS
    <2>1. sub \in [Orgs -> [status: SubscriptionStates, plan: Plans \cup {NoPlan}]]
        BY DEF Typed, TypeOK
    <2>2. ASSUME NEW p \in Payments, Booked(p) PROVE FALSE
        BY <2>1, <2>2 DEF Booked
    <2>3. ASSUME NEW p \in Payments, GivenBack(p) PROVE OrgOf(p) = o
        BY <2>1, <2>3 DEF GivenBack, CancelSubscription
    <2> QED
        BY <2>2, <2>3, StepEffect DEF Quiet, GivenBack
<1>2. Spec => []Typed
    BY TypedInit, TypedNext, PTL DEF Spec
<1> QED
    BY <1>1, <1>2, PTL DEF Spec, CancelledOnlyByRefund

-----------------------------------------------------------------------------
(* Refinement.  Under the invoices' invariant the ledger can be read off     *)
(* the payments' status, which StepEffect speaks of.                        *)

Standing(p) ==
    CASE pay[p].status = "SUCCEEDED" -> "paid"
      [] pay[p].status = "REFUNDED" -> "reversed"
      [] OTHER -> "unpaid"

LEMMA RecordIsStanding ==
    ASSUME Books, NEW p \in Payments
    PROVE  RecordOf(p) = Standing(p) /\ (InvoicesOf(p) = {} <=> Standing(p) = "unpaid")
<1>1. InvoiceMatchesPayment
    BY RecordsMatch DEF Books, Typed
<1> QED
    BY <1>1 DEF InvoiceMatchesPayment, RecordOf, Standing

LedgerByStanding ==
    ledgerView = [p \in Payments |->
        [record |-> Standing(p),
         offer |-> IF Standing(p) = "unpaid" THEN NoOffer ELSE pay[p].offer]]

LEMMA LedgerRead == Books => LedgerByStanding
    BY RecordIsStanding DEF ledgerView, LedgerByStanding

LEMMA LedgerStep ==
    ASSUME Books, LedgerByStanding, LedgerByStanding', [Next]_vars
    PROVE  [Ledger!LedgerNext]_(Ledger!ledgerVars)
<1>0. sub \in [Orgs -> [status: SubscriptionStates, plan: Plans \cup {NoPlan}]]
    BY DEF Books, Typed, TypeOK
<1>1. CASE Quiet
    <2>1. \A p \in Payments :
            /\ Standing(p)' = Standing(p)
            /\ Standing(p) # "unpaid" => pay'[p].offer = pay[p].offer
        BY <1>1 DEF Quiet, SameRow, Standing
    <2>2. ledgerView' = ledgerView
        BY <2>1 DEF LedgerByStanding, Payments
    <2>3. entitledView' = entitledView
        BY <1>1 DEF Quiet, entitledView
    <2> QED
        BY <2>2, <2>3 DEF Ledger!ledgerVars
<1>2. ASSUME NEW p \in Payments, Booked(p) PROVE Ledger!Buy(p, OrgOf(p), PlanOf(p))
    <2>1. /\ OrgOf(p) \in Orgs /\ PlanOf(p) \in Plans
          /\ pay'[p].offer = <<OrgOf(p), PlanOf(p)>>
        BY <1>2 DEF Booked, OrgOf, PlanOf, Offers
    <2>2. /\ Standing(p) = "unpaid" /\ Standing(p)' = "paid"
          /\ \A q \in Payments \ {p} : Standing(q)' = Standing(q) /\ pay'[q].offer = pay[q].offer
        BY <1>2 DEF Booked, SameRow, Standing
    <2>3. ledgerView[p] = Ledger!Unpaid
        BY <2>2 DEF LedgerByStanding, Ledger!Unpaid
    <2>4. ledgerView' = [ledgerView EXCEPT ![p] =
                            [record |-> "paid", offer |-> <<OrgOf(p), PlanOf(p)>>]]
        BY <2>1, <2>2 DEF LedgerByStanding, Payments
    <2>5. entitledView' = [entitledView EXCEPT ![OrgOf(p)] = PlanOf(p)]
        BY <1>0, <1>2, <2>1 DEF Booked, entitledView
    <2> QED
        BY <2>3, <2>4, <2>5 DEF Ledger!Buy
<1>3. ASSUME NEW p \in Payments, GivenBack(p) PROVE Ledger!GiveBack(p)
    <2>1. OrgOf(p) \in Orgs /\ OrgOf(p) = pay[p].offer[1]
        BY <1>3 DEF GivenBack, OrgOf, Offers
    <2>2. /\ Standing(p) = "paid" /\ Standing(p)' = "reversed"
          /\ \A q \in Payments : pay'[q].offer = pay[q].offer
          /\ \A q \in Payments \ {p} : Standing(q)' = Standing(q)
        BY <1>3 DEF GivenBack, SameRow, Standing
    <2>3. ledgerView[p].record = "paid" /\ ledgerView[p].offer = pay[p].offer
        BY <2>2 DEF LedgerByStanding
    <2>4. ledgerView' = [ledgerView EXCEPT ![p].record = "reversed"]
        BY <2>2 DEF LedgerByStanding, Payments
    <2>5. entitledView' = [entitledView EXCEPT ![OrgOf(p)] = NoPlan]
        BY <1>0, <1>3, <2>1 DEF GivenBack, CancelSubscription, entitledView
    <2> QED
        BY <2>1, <2>3, <2>4, <2>5 DEF Ledger!GiveBack
<1>4. ASSUME NEW p \in Payments, Booked(p) PROVE OrgOf(p) \in Orgs /\ PlanOf(p) \in Plans
    BY <1>4 DEF Booked, OrgOf, PlanOf, Offers
<1> QED
    BY <1>1, <1>2, <1>3, <1>4, StepEffect DEF Books, Ledger!LedgerNext

\* PaymentProcessing implements SubscriptionLedger: whatever its handlers, aborts
\* and webhooks do, invoices and entitlement change together, one payment at a time.
THEOREM Refinement == Spec => ImplementsLedger
<1>1. Init => Ledger!LedgerInit
    BY DEF Init, Ledger!LedgerInit, Ledger!Unpaid, ledgerView, entitledView, RecordOf, InvoicesOf
<1>2. Spec => []LedgerByStanding
    BY BooksAlways, LedgerRead, PTL
<1>3. Books /\ LedgerByStanding /\ LedgerByStanding' /\ [Next]_vars
        => [Ledger!LedgerNext]_(Ledger!ledgerVars)
    BY LedgerStep
<1> QED
    BY <1>1, <1>2, <1>3, BooksAlways, PTL DEF Spec, ImplementsLedger, Ledger!LedgerSpec

-----------------------------------------------------------------------------
(* The books agree with the gateway. That a payment is recorded as paid    *)
(* says something about Stripe only because every reference in the system  *)
(* leads back to a session of the very payment that holds it, in the rows  *)
(* and in the requests under way; the inductive invariant Trail says so.   *)

\* ref names a session of payment p, or its payment intent.
Own(p, ref) == \E s \in Sessions : sess[s].pay = p /\ ref \in {SessionRef(s), Intent(s)}

Captured(p) == \E s \in Sessions : sess[s].pay = p /\ sess[s].charge # "none"
Returned(p) == \E s \in Sessions : sess[s].pay = p /\ sess[s].charge \in Refunded

\* Events tell of charges that exist.
EventsTrue ==
    \A s \in Sessions :
        /\ sess[s].state = "none" => sess[s].pay = NoPayment
        /\ sess[s].state = "paid" <=> sess[s].charge # "none"
        /\ <<"completed", s>> \in emitted => sess[s].charge # "none"
        /\ <<"refunded", s>> \in emitted => sess[s].charge \in Refunded

RowsOwn == \A p \in Payments : pay[p].ref # NoRef => Own(p, pay[p].ref)

\* A request holds references of its own payment only; one that is about to
\* finalize or to record a refund has evidence of the money.
Tracked(r) ==
    /\ r.ref # NoRef => r.pay \in Payments /\ Own(r.pay, r.ref)
    /\ r.step = "finalize" => r.pay \in Payments /\ Captured(r.pay)
    /\ r.step = "refund" => r.pay \in Payments /\ Returned(r.pay)

RequestsTracked == \A h \in Handlers : Tracked(proc[h])

Trail == Typed /\ EventsTrue /\ RowsOwn /\ RequestsTracked /\ MoneyMoved

-----------------------------------------------------------------------------
(* Stripe forgets nothing: a session stays with its payment and money that   *)
(* moved has moved for good.                                                *)

MoneyKept ==
    \A s \in Sessions :
        /\ sess[s].pay \in Payments => sess'[s].pay = sess[s].pay
        /\ sess[s].charge # "none" => sess'[s].charge # "none"
        /\ sess[s].charge \in Refunded => sess'[s].charge \in Refunded

LEMMA GatewayKeeps ==
    ASSUME GatewayTypeOK, EventsTrue, GatewayNext
    PROVE  MoneyKept /\ EventsTrue'
<1> PICK s \in Sessions :
        Pay(s) \/ PayLater(s) \/ Settle(s) \/ SettleFails(s) \/ Expire(s) \/ DashboardRefund(s)
    BY DEF GatewayNext
<1>1. ASSUME NEW state \in SessionStates \ {"none"}, NEW charge \in ChargeStates, NEW kind,
             Emit(s, state, charge, kind), sess[s].state # "none",
             state = "paid" <=> charge # "none",
             sess[s].charge # "none" => charge # "none",
             sess[s].charge \in Refunded => charge \in Refunded,
             kind = "completed" => charge # "none", kind = "refunded" => charge \in Refunded
      PROVE  MoneyKept /\ EventsTrue'
    <2> DEFINE row == [sess[s] EXCEPT !.state = state, !.charge = charge]
    <2>1. row.state = state /\ row.charge = charge /\ row.pay = sess[s].pay
        BY <1>1 DEF GatewayTypeOK
    <2>2. sess' = [sess EXCEPT ![s] = row] /\ emitted' = emitted \cup {<<kind, s>>}
        BY <1>1 DEF Emit
    <2> HIDE DEF row
    <2>3. sess'[s] = row /\ \A t \in Sessions \ {s} : sess'[t] = sess[t]
        BY <2>2 DEF GatewayTypeOK
    <2> QED
        BY <1>1, <2>1, <2>2, <2>3 DEF EventsTrue, MoneyKept
<1> QED
    BY <1>1 DEF Pay, PayLater, Settle, SettleFails, Expire, DashboardRefund, EventsTrue,
       SessionStates, ChargeStates, Refunded

LEMMA SessionsKeep ==
    ASSUME Typed, EventsTrue, [Next]_vars
    PROVE  MoneyKept /\ EventsTrue'
<1>0. GatewayTypeOK
    BY DEF Typed, TypeOK
<1>1. UNCHANGED <<sess, emitted>> => MoneyKept /\ EventsTrue'
    BY DEF MoneyKept, EventsTrue
<1>2. ASSUME NEW h \in Handlers, CreateSession(h) PROVE MoneyKept /\ EventsTrue'
    <2> PICK s \in Sessions :
            /\ sess[s].state = "none"
            /\ sess' = [sess EXCEPT ![s] = [@ EXCEPT !.state = "created", !.pay = proc[h].pay]]
        BY <1>2 DEF CreateSession
    <2>1. sess'[s].state = "created" /\ sess'[s].charge = sess[s].charge
        BY <1>0 DEF GatewayTypeOK
    <2>2. \A t \in Sessions \ {s} : sess'[t] = sess[t]
        BY <1>0 DEF GatewayTypeOK
    <2>3. sess[s].pay \notin Payments
        <3>1. sess[s].pay = NoPayment
            BY DEF EventsTrue
        <3>2. NoPayment \notin Payments
            BY GatewayAssumption DEF GatewayAssumption, Payments, NoPayment
        <3> QED
            BY <3>1, <3>2
    <2>4. UNCHANGED emitted
        BY <1>2 DEF CreateSession
    <2> QED
        BY <2>1, <2>2, <2>3, <2>4 DEF MoneyKept, EventsTrue
<1>3. ASSUME NEW h \in Handlers, StoreSession(h) PROVE MoneyKept /\ EventsTrue'
    <2>1. \A t \in Sessions :
            /\ sess'[t].pay = sess[t].pay /\ sess'[t].charge = sess[t].charge
            /\ sess'[t].state \in {sess[t].state, "open"}
            /\ sess[t].state # "created" => sess'[t].state = sess[t].state
        BY <1>0, <1>3 DEF StoreSession, GatewayTypeOK
    <2>2. UNCHANGED emitted
        BY <1>3 DEF StoreSession
    <2> QED
        BY <2>1, <2>2 DEF MoneyKept, EventsTrue
<1>4. ASSUME NEW h \in Handlers, RefundAtGateway(h) PROVE MoneyKept /\ EventsTrue'
    <2> PICK s \in Sessions :
            /\ sess[s].charge \in {"captured", "refundedByApi"}
            /\ sess' = [sess EXCEPT ![s].charge = "refundedByApi"]
            /\ emitted' = emitted \cup {<<"refunded", s>>}
        BY <1>4 DEF RefundAtGateway
    <2>1. /\ sess'[s].charge = "refundedByApi" /\ sess'[s].pay = sess[s].pay
          /\ sess'[s].state = sess[s].state
        BY <1>0 DEF GatewayTypeOK
    <2>2. \A t \in Sessions \ {s} : sess'[t] = sess[t]
        BY <1>0 DEF GatewayTypeOK
    <2> QED
        BY <2>1, <2>2 DEF MoneyKept, EventsTrue, Refunded
<1>5. ASSUME NEW h \in Handlers, HandlerNext(h) PROVE MoneyKept /\ EventsTrue'
    BY <1>1, <1>2, <1>3, <1>4, <1>5 DEF HandlerNext, CheckoutNext, ReusePending, FindNoPending,
       CreatePayment, VerifyNext, BeginVerify, StoreValId, AskGateway, WebhookNext, DispatchEvent,
       IgnoreEvent, RefundNext, BeginRefund, SettleNext, FinalizeSuccessfulPayment,
       MarkPaymentFailed, MarkPaymentRefunded, Abort
<1> QED
    BY <1>0, <1>1, <1>5, GatewayKeeps DEF Next, ServiceNext, OutsideNext, vars

LEMMA EvidenceKept ==
    ASSUME MoneyKept
    PROVE  /\ \A p \in Payments, ref \in Refs \cup {NoRef} : Own(p, ref) =>
                \E s \in Sessions : sess'[s].pay = p /\ ref \in {SessionRef(s), Intent(s)}
           /\ \A p \in Payments : Captured(p) =>
                \E s \in Sessions : sess'[s].pay = p /\ sess'[s].charge # "none"
           /\ \A p \in Payments : Returned(p) =>
                \E s \in Sessions : sess'[s].pay = p /\ sess'[s].charge \in Refunded
BY DEF MoneyKept, Own, Captured, Returned

-----------------------------------------------------------------------------
(* Rows and requests.  One lemma per kind of request: what it writes into    *)
(* its payment's row and what it goes on with is backed by the gateway.     *)

\* The part of Trail that a step of handler h has to establish anew.
Backed(h) ==
    /\ \A p \in Payments :
        /\ \/ pay'[p].ref = pay[p].ref
           \/ p = proc[h].pay /\ pay'[p].ref = proc[h].ref
        /\ pay'[p].status # pay[p].status =>
            /\ pay'[p].status = "SUCCEEDED" => p = proc[h].pay /\ proc[h].step = "finalize"
            /\ pay'[p].status = "REFUNDED" => p = proc[h].pay /\ proc[h].step = "refund"
    /\ Tracked(proc[h])'
    /\ \A g \in Handlers \ {h} : proc'[g] = proc[g]

LEMMA ReferenceUnique ==
    \A s, t \in Sessions : \A ref \in {SessionRef(s), Intent(s)} :
        ref \in {SessionRef(t), Intent(t)} => s = t
BY DEF SessionRef, Intent

LEMMA CheckoutBacked == ASSUME Trail, NEW h \in Handlers, CheckoutNext(h) PROVE Backed(h)
<1>0. /\ pay \in [Payments -> PaymentRows] /\ proc \in [Handlers -> Requests]
      /\ sess \in [Sessions -> [pay: Payments \cup {NoPayment},
                                state: SessionStates, charge: ChargeStates]]
      /\ SoundRequest(proc[h])
    BY RequestsSound DEF Trail, Typed, TypeOK, GatewayTypeOK
<1>1. ASSUME NEW offer \in Offers, ReusePending(h, offer) \/ FindNoPending(h, offer)
      PROVE  Backed(h)
    BY <1>0, <1>1 DEF ReusePending, FindNoPending, Begin, Idle, Backed, Tracked
<1>2. CASE CreatePayment(h)
    <2> PICK p \in Payments :
            /\ pay' = [pay EXCEPT ![p] = [@ EXCEPT !.offer = proc[h].offer, !.status = "PENDING"]]
            /\ proc' = [proc EXCEPT ![h] = [Idle EXCEPT !.step = "createSession", !.pay = p]]
        BY <1>2 DEF CreatePayment
    <2> QED
        BY <1>0 DEF Idle, Backed, Tracked, PaymentRows
<1>3. CASE CreateSession(h)
    <2> PICK s \in Sessions :
            /\ sess' = [sess EXCEPT ![s] = [@ EXCEPT !.state = "created", !.pay = proc[h].pay]]
            /\ proc' = [proc EXCEPT ![h] = [@ EXCEPT !.step = "storeSession", !.ref = SessionRef(s)]]
        BY <1>3 DEF CreateSession
    <2>1. proc'[h].pay = proc[h].pay /\ proc'[h].ref = SessionRef(s) /\ proc'[h].step = "storeSession"
        BY <1>0 DEF Requests
    <2>2. sess'[s].pay = proc[h].pay /\ proc[h].pay \in Payments
        BY <1>0, <1>3 DEF CreateSession, SoundRequest
    <2>3. Tracked(proc[h])'
        BY <2>1, <2>2 DEF Tracked, Own, Payments, SessionRef, Intent
    <2> QED
        BY <1>3, <2>3 DEF CreateSession, Backed
<1>4. CASE StoreSession(h)
    BY <1>0, <1>4 DEF StoreSession, Return, Idle, Backed, Tracked, PaymentRows
<1> QED
    BY <1>1, <1>2, <1>3, <1>4 DEF CheckoutNext

LEMMA VerifyBacked == ASSUME Trail, NEW h \in Handlers, VerifyNext(h) PROVE Backed(h)
<1>0. /\ pay \in [Payments -> PaymentRows] /\ proc \in [Handlers -> Requests]
      /\ SoundRequest(proc[h]) /\ Tracked(proc[h]) /\ EventsTrue
    BY RequestsSound DEF Trail, Typed, TypeOK, RequestsTracked
<1>1. ASSUME NEW p \in Payments, BeginVerify(h, p) PROVE Backed(h)
    <2> PICK step \in {"storeValId", "askGateway"} :
            Begin(h, [Idle EXCEPT !.step = step, !.pay = p, !.ref = pay[p].ref, !.seen = pay[p].seen])
        BY <1>1 DEF BeginVerify
    <2>1. proc'[h].step = step /\ proc'[h].pay = p /\ proc'[h].ref = pay[p].ref
        BY <1>0 DEF Begin, Idle
    <2>2. Own(p, pay[p].ref) /\ UNCHANGED <<sess, pay>>
        BY <1>1 DEF Trail, RowsOwn, BeginVerify
    <2>3. Tracked(proc[h])'
        BY <2>1, <2>2 DEF Tracked, Own, Payments, SessionRef, Intent
    <2> QED
        BY <1>0, <2>2, <2>3 DEF Begin, Backed
<1>2. CASE StoreValId(h)
    <2>1. proc'[h].step = "askGateway" /\ proc'[h].pay = proc[h].pay /\ proc'[h].ref = proc[h].ref
        BY <1>0, <1>2 DEF StoreValId, Continue, Requests
    <2>2. Tracked(proc[h])'
        BY <1>0, <1>2, <2>1 DEF StoreValId, Tracked, Own, Payments, SessionRef, Intent
    <2> QED
        BY <1>0, <1>2, <2>2 DEF StoreValId, Continue, Backed, PaymentRows
<1>3. CASE AskGateway(h)
    <2> DEFINE s == proc[h].ref[2]
    <2>1. UNCHANGED <<sess, pay>> /\ \A g \in Handlers \ {h} : proc'[g] = proc[g]
        BY <1>0, <1>3 DEF AskGateway, Continue, Return
    <2>2. proc[h].pay \in Payments /\ proc[h].ref \in Refs /\ proc[h].ref # NoRef
        BY <1>0, <1>3, NoRefAssumption DEF AskGateway, SoundRequest
    <2>3. CASE /\ proc[h].ref = SessionRef(s) /\ sess[s].state = "paid"
               /\ proc' = [proc EXCEPT ![h] = [@ EXCEPT !.step = "finalize", !.ref = Intent(s)]]
        <3>1. s \in Sessions /\ sess[s].pay = proc[h].pay
            BY <1>0, <2>2, <2>3 DEF Tracked, Own, SessionRef, Intent, Refs
        <3>2. sess[s].charge # "none"
            BY <1>0, <2>3, <3>1 DEF EventsTrue
        <3> HIDE DEF s
        <3>3. proc'[h].step = "finalize" /\ proc'[h].pay = proc[h].pay /\ proc'[h].ref = Intent(s)
            BY <1>0, <2>3 DEF Requests
        <3> PICK t \in Sessions : t = s
            BY <3>1
        <3>4. Tracked(proc[h])'
            BY <2>1, <2>2, <3>1, <3>2, <3>3 DEF Tracked, Own, Captured, Payments, SessionRef, Intent
        <3> QED
            BY <2>1, <3>4 DEF Backed
    <2>4. CASE proc' = [proc EXCEPT ![h].step = "fail"]
        <3>1. proc'[h].step = "fail" /\ proc'[h].pay = proc[h].pay /\ proc'[h].ref = proc[h].ref
            BY <1>0, <2>4 DEF Requests
        <3>2. Tracked(proc[h])'
            BY <1>0, <2>1, <3>1 DEF Tracked, Own, Payments, SessionRef, Intent
        <3> QED
            BY <2>1, <3>2 DEF Backed
    <2>5. CASE Return(h)
        BY <1>0, <2>1, <2>5 DEF Return, Idle, Tracked, Backed
    <2> QED
        BY <1>3, <2>3, <2>4, <2>5 DEF AskGateway, Continue, VerificationStatus
<1> QED
    BY <1>1, <1>2, <1>3 DEF VerifyNext

LEMMA WebhookBacked == ASSUME Trail, NEW h \in Handlers, WebhookNext(h) PROVE Backed(h)
<1>0. /\ proc \in [Handlers -> Requests] /\ Tracked(proc[h]) /\ EventsTrue /\ RowsOwn
    BY DEF Trail, Typed, TypeOK, RequestsTracked
<1>1. ASSUME NEW e \in Events, DispatchEvent(h, e) PROVE Backed(h)
    <2>1. PICK p \in PaymentsOf(e) :
            Begin(h, [Idle EXCEPT !.step = NextStep(WebhookStatus(e)), !.pay = p,
                                  !.ref = WebhookTransactionRef(e),
                                  !.seen = pay[p].seen, !.evt = e])
        BY <1>1 DEF DispatchEvent
    <2> DEFINE s == e[2]
    <2>2. s \in Sessions /\ e = <<e[1], s>> /\ e[1] \in EventKinds
        BY DEF Events
    <2>3. p \in Payments /\ pay[p].ref # NoRef
          /\ pay[p].ref \in {WebhookSessionRef(e), WebhookTransactionRef(e)}
        BY <2>1 DEF PaymentsOf, WithRef
    <2>4. WebhookSessionRef(e) \in {NoRef, SessionRef(s)} /\ WebhookTransactionRef(e) \in {NoRef, Intent(s)}
        BY DEF WebhookSessionRef, WebhookTransactionRef
    <2>5. sess[s].pay = p
        <3>1. pay[p].ref \in {SessionRef(s), Intent(s)}
            BY <2>3, <2>4
        <3> QED
            BY <1>0, <2>2, <2>3, <3>1, ReferenceUnique DEF RowsOwn, Own
    <2>6. /\ proc'[h].step = NextStep(WebhookStatus(e)) /\ proc'[h].pay = p
          /\ proc'[h].ref = WebhookTransactionRef(e)
          /\ \A g \in Handlers \ {h} : proc'[g] = proc[g]
        BY <1>0, <2>1 DEF Begin, Idle
    <2>7. UNCHANGED <<sess, pay>> /\ e \in emitted /\ WebhookStatus(e) # "UNHANDLED"
        BY <1>1 DEF DispatchEvent
    <2>8. NextStep(WebhookStatus(e)) = "finalize" => sess[s].charge # "none"
        BY <1>0, <2>2, <2>7 DEF NextStep, WebhookStatus, EventsTrue, EventKinds
    <2>9. NextStep(WebhookStatus(e)) = "refund" => sess[s].charge \in Refunded
        BY <1>0, <2>2, <2>7 DEF NextStep, WebhookStatus, EventsTrue, EventKinds
    <2> HIDE DEF s
    <2>10. Tracked(proc[h])'
        BY <2>2, <2>3, <2>4, <2>5, <2>6, <2>7, <2>8, <2>9
           DEF Tracked, Own, Captured, Returned, Payments, SessionRef, Intent, Refunded
    <2> QED
        BY <2>6, <2>7, <2>10 DEF Backed
<1>2. ASSUME NEW e \in Events, IgnoreEvent(h, e) PROVE Backed(h)
    <2>1. UNCHANGED <<sess, pay, proc>>
        BY <1>2 DEF IgnoreEvent
    <2>2. Tracked(proc[h])'
        BY <1>0, <2>1 DEF Tracked, Own, Captured, Returned, Payments, SessionRef, Intent, Refunded
    <2> QED
        BY <2>1, <2>2 DEF Backed
<1> QED
    BY <1>1, <1>2 DEF WebhookNext

LEMMA RefundBacked == ASSUME Trail, NEW h \in Handlers, RefundNext(h) PROVE Backed(h)
<1>0. /\ proc \in [Handlers -> Requests] /\ SoundRequest(proc[h]) /\ Tracked(proc[h]) /\ RowsOwn
      /\ sess \in [Sessions -> [pay: Payments \cup {NoPayment},
                                state: SessionStates, charge: ChargeStates]]
    BY RequestsSound DEF Trail, Typed, TypeOK, GatewayTypeOK, RequestsTracked
<1>1. ASSUME NEW p \in Payments, BeginRefund(h, p) PROVE Backed(h)
    <2>1. /\ proc'[h].step = "refundAtGateway" /\ proc'[h].pay = p /\ proc'[h].ref = pay[p].ref
          /\ \A g \in Handlers \ {h} : proc'[g] = proc[g]
        BY <1>0, <1>1 DEF BeginRefund, Begin, Idle
    <2>2. UNCHANGED <<sess, pay>>
        BY <1>1 DEF BeginRefund
    <2>3. Tracked(proc[h])'
        BY <1>0, <2>1, <2>2 DEF RowsOwn, Tracked, Own, Payments, SessionRef, Intent
    <2> QED
        BY <2>1, <2>2, <2>3 DEF Backed
<1>2. CASE RefundAtGateway(h)
    <2> PICK s \in Sessions :
            proc[h].ref = Intent(s) /\ sess' = [sess EXCEPT ![s].charge = "refundedByApi"]
        BY <1>2 DEF RefundAtGateway
    <2>1. proc[h].ref # NoRef
        BY NoRefAssumption DEF Refs, Intent
    <2>2. sess[s].pay = proc[h].pay /\ proc[h].pay \in Payments
        BY <1>0, <2>1, ReferenceUnique DEF Tracked, Own
    <2>3. sess'[s].pay = sess[s].pay /\ sess'[s].charge = "refundedByApi"
        BY <1>0
    <2>4. /\ proc'[h].step = "refund" /\ proc'[h].pay = proc[h].pay /\ proc'[h].ref = proc[h].ref
          /\ \A g \in Handlers \ {h} : proc'[g] = proc[g]
          /\ UNCHANGED pay
        BY <1>0, <1>2 DEF RefundAtGateway, Continue, Requests
    <2>5. Tracked(proc[h])'
        BY <2>2, <2>3, <2>4 DEF Tracked, Own, Returned, Refunded, Payments, SessionRef, Intent
    <2> QED
        BY <2>4, <2>5 DEF Backed
<1> QED
    BY <1>1, <1>2 DEF RefundNext

LEMMA SettleBacked == ASSUME Trail, NEW h \in Handlers, SettleNext(h) \/ Abort(h) PROVE Backed(h)
<1>0. pay \in [Payments -> PaymentRows] /\ proc \in [Handlers -> Requests]
    BY DEF Trail, Typed, TypeOK
<1>1. Return(h) /\ UNCHANGED sess
    BY DEF SettleNext, FinalizeSuccessfulPayment, MarkPaymentFailed, MarkPaymentRefunded, Abort
<1>2. Tracked(proc[h])' /\ \A g \in Handlers \ {h} : proc'[g] = proc[g]
    BY <1>0, <1>1 DEF Return, Idle, Tracked
<1>3. \A p \in Payments :
        /\ \/ pay'[p].ref = pay[p].ref
           \/ p = proc[h].pay /\ pay'[p].ref = proc[h].ref
        /\ pay'[p].status # pay[p].status =>
            /\ pay'[p].status = "SUCCEEDED" => p = proc[h].pay /\ proc[h].step = "finalize"
            /\ pay'[p].status = "REFUNDED" => p = proc[h].pay /\ proc[h].step = "refund"
    <2>1. CASE FinalizeSuccessfulPayment(h)
        BY <1>0, <2>1 DEF FinalizeSuccessfulPayment, Activate, AlreadySucceeded, RejectRefunded,
           PaymentRows
    <2>2. CASE MarkPaymentFailed(h)
        BY <1>0, <2>2 DEF MarkPaymentFailed, PaymentRows
    <2>3. CASE MarkPaymentRefunded(h)
        <3>1. CASE UNCHANGED pay
            BY <3>1
        <3>2. CASE Reverse(h, proc[h].pay)
            <4> DEFINE row == [pay[proc[h].pay] EXCEPT !.status = "REFUNDED", !.seen = proc[h].seen]
            <4>1. pay' = [pay EXCEPT ![proc[h].pay] = row]
                BY <3>2 DEF Reverse
            <4>2. ASSUME NEW p \in Payments, p = proc[h].pay
                  PROVE  row.ref = pay[p].ref /\ row.status = "REFUNDED"
                BY <1>0, <4>2 DEF PaymentRows
            <4> HIDE DEF row
            <4> QED
                BY <1>0, <2>3, <4>1, <4>2 DEF MarkPaymentRefunded
        <3> QED
            BY <2>3, <3>1, <3>2 DEF MarkPaymentRefunded, NotRefundable
    <2>4. CASE Abort(h)
        BY <2>4 DEF Abort
    <2> QED
        BY <2>1, <2>2, <2>3, <2>4 DEF SettleNext
<1> QED
    BY <1>2, <1>3 DEF Backed

-----------------------------------------------------------------------------

LEMMA EvidenceNext ==
    ASSUME Trail, MoneyKept, NEW h \in Handlers, Backed(h)
    PROVE  RowsOwn' /\ RequestsTracked' /\ MoneyMoved'
<1>0. Tracked(proc[h])
    BY DEF Trail, RequestsTracked
<1>1. RowsOwn'
    <2> SUFFICES ASSUME NEW p \in Payments, pay'[p].ref # NoRef
                 PROVE  \E s \in Sessions : sess'[s].pay = p /\ pay'[p].ref \in {SessionRef(s), Intent(s)}
        BY DEF RowsOwn, Own, Payments, SessionRef, Intent
    <2>1. Own(p, pay'[p].ref)
        BY <1>0 DEF Backed, Trail, RowsOwn, Tracked
    <2> QED
        BY <2>1 DEF MoneyKept, Own
<1>2. RequestsTracked'
    <2> SUFFICES ASSUME NEW g \in Handlers PROVE Tracked(proc[g])'
        BY DEF RequestsTracked
    <2>1. CASE g = h
        BY <2>1 DEF Backed
    <2>2. CASE g # h
        <3>1. proc'[g] = proc[g] /\ Tracked(proc[g])
            BY <2>2 DEF Backed, Trail, RequestsTracked
        <3> QED
            BY <3>1 DEF Tracked, Own, Captured, Returned, MoneyKept, Payments, SessionRef, Intent,
               Refunded
    <2> QED
        BY <2>1, <2>2
<1>3. MoneyMoved'
    <2>1. \A p \in Payments :
            /\ pay'[p].status = "SUCCEEDED" => Captured(p)
            /\ pay'[p].status = "REFUNDED" => Returned(p)
        BY <1>0 DEF Backed, Tracked, Trail, MoneyMoved, Captured, Returned
    <2> QED
        BY <2>1 DEF MoneyMoved, MoneyKept, Captured, Returned, Payments, Refunded
<1> QED
    BY <1>1, <1>2, <1>3

LEMMA TrailNext == Trail /\ [Next]_vars => Trail'
<1> SUFFICES ASSUME Trail, [Next]_vars PROVE Trail'
    OBVIOUS
<1>1. Typed' /\ MoneyKept /\ EventsTrue'
    BY TypedNext, SessionsKeep DEF Trail
<1>2. ASSUME NEW h \in Handlers, HandlerNext(h) PROVE Trail'
    <2>1. Backed(h)
        BY <1>2, CheckoutBacked, VerifyBacked, WebhookBacked, RefundBacked, SettleBacked
           DEF HandlerNext
    <2> QED
        BY <1>1, <2>1, EvidenceNext DEF Trail
<1>3. CASE UNCHANGED <<pay, proc>>
    <2>1. RowsOwn'
        BY <1>1, <1>3 DEF Trail, RowsOwn, Own, MoneyKept, Payments, SessionRef, Intent
    <2>2. RequestsTracked'
        <3> SUFFICES ASSUME NEW g \in Handlers PROVE Tracked(proc[g])'
            BY DEF RequestsTracked
        <3>1. proc'[g] = proc[g] /\ Tracked(proc[g])
            BY <1>3 DEF Trail, RequestsTracked
        <3> QED
            BY <1>1, <3>1 DEF Tracked, Own, Captured, Returned, MoneyKept, Payments, SessionRef,
               Intent, Refunded
    <2>3. MoneyMoved'
        BY <1>1, <1>3 DEF Trail, MoneyMoved, MoneyKept, Payments, Refunded
    <2> QED
        BY <1>1, <2>1, <2>2, <2>3 DEF Trail
<1> QED
    BY <1>2, <1>3 DEF Next, ServiceNext, OutsideNext, vars

LEMMA TrailInit == Init => Trail
<1> SUFFICES ASSUME Init PROVE Trail
    OBVIOUS
<1>1. EventsTrue /\ RowsOwn /\ MoneyMoved
    BY DEF Init, GatewayInit, EventsTrue, RowsOwn, MoneyMoved
<1>2. RequestsTracked
    BY DEF Init, RequestsTracked, Tracked, Idle
<1> QED
    BY <1>1, <1>2, TypedInit DEF Trail

\* No payment is on the books as paid unless Stripe captured money for it, none
\* as refunded unless Stripe gave that money back, in whatever order webhooks,
\* verifications and refunds arrive and wherever requests abort.
THEOREM MoneyCorrect == Spec => []MoneyMoved
<1>1. Trail => MoneyMoved
    BY DEF Trail
<1> QED
    BY <1>1, TrailInit, TrailNext, PTL DEF Spec
=============================================================================
