# Verification of Business Copilot

TLA+ models, TLC configurations and TLAPS proofs for the stateful parts of
Business Copilot, a multi-tenant business suite: a NestJS API over PostgreSQL
(`src/apps/api`), a Next.js front end (`src/apps/web`) and shared packages.

The API is a set of Node.js processes. A request handler is suspended at every
`await`, several handlers run at the same time, in one process or in several, and
what they share is the database. Outside are payment gateways, which call back by
webhooks, and mail. So the unit of atomicity in every model here is one database
statement, one database transaction or one call to the outside, and what a handler
read before an `await` is part of its own state afterwards. Transactions run at
READ COMMITTED, PostgreSQL's default, which nothing in the code changes: a
transaction that takes a row lock before it decides is one step; one that decides on
what it read without a lock is several.

## Inventory

Statuses: M modelled, P partly, - not modelled (reasons at the end and in
`PROJECT.json`).

| Component | State | Operations | What is hard | |
|---|---|---|---|---|
| Subscription payments (`billing/payment-processing.service.ts`) | `SubscriptionPayment`, `Subscription`, `SubscriptionInvoice` rows | createCheckout, verifyPayment, handleWebhook, refundPayment | verification, webhooks in any order and number, refunds and new checkouts of one payment interleave; a gateway call cannot be part of a transaction | M |
| Stripe adapter (`billing/gateways/stripe.provider.ts`) | none; the gateway's sessions and charges | create session, verify, parse webhook, refund | events late, duplicated, reordered; methods that settle later | M |
| Trials and plan changes (`billing/billing.service.ts`) | the same `Subscription` row | startTrial, changePlan | read, await, write back, with no lock | M |
| Provisioning (`onboarding/provisioning/*`) | session status, progress and checkpoint; organization, owner, roles, departments, subscription, settings | provision, retry, recover, compensate | one transaction over seven checkpoints, retried after rollback, raced by a second request, interrupted by a crash | M |
| Onboarding sessions (`onboarding/*.service.ts`) | `OnboardingSession` rows with version and expiry | create, update, complete a step, cleanup | the rows are provisioned and bound to accounts meanwhile | P |
| Accounts (`auth/auth.service.ts`, `invitations/`, `organization/`, `users/`) | users, pending registrations, codes, refresh tokens, invitations, members | register, verify, login, refresh, logout, reset, invite, accept, add, update, found, provision | an address becomes an account in four ways, statement by statement; rotation of a token by concurrent requests | M/P |
| Sales and purchase orders (`sales/`, `purchase/`) | orders, items | create, edit, submit, confirm, deliver, receive, cancel, delete | read before the transaction, gate inside it; goods, bills and journal entries in one transaction | M |
| Stock (`inventory/`, inventory import of `import/`) | `Inventory`, `InventoryTransaction` rows | adjust, import | a row that does not exist cannot be locked; the import works from old quantities | M/P |
| Receivables, payables, payments (`accounting/accounting.service.ts`) | items, allocations, control accounts | pay, overdue job | check, lock, recheck; absolute values | M/P |
| Customer invoices (`invoices/invoices.service.ts`) | `Invoice` rows | create, createFromOrder, issue, email, cancel, remove, overdue job | check, then unconditioned write | M |
| General journal (`accounting/accounting.service.ts`) | `JournalEntry` rows with lines | create, update, post, delete, reverse | check, then unconditioned write; lines replaced | M/P |
| Payroll (`payroll/payroll.service.ts`) | `Payroll` rows | create, update, submit, approve, reject, pay, remove | journal entries outside the transaction of the status | M |
| Idempotency keys, rate limiting, Redis | stored responses, counters | look up, store, consume | look, run, store | - |
| Inventory engine, leaves, CRM, RBAC, kernels, master data, users, settings, platform administration, dashboards, AI, audit, mail, config, web UI | rows, registries | CRUD, queries, presentation | little beyond single-row updates | - |

How they interact: a delivery or receipt (`Trade`) opens a receivable or payable and
posts journal entries in its transaction, and then asks for an invoice
(`Settlement`); payments settle items and invoices; payroll and orders write to the
journal bookkeepers edit (`Journals`); a verified account (`Accounts`) has its
onboarding session bound, which provisioning turns into an organization and a trial
(`Provisioning`, `BillingService`); payments activate what the trial started.

Hazards, 40 of them, each at its line and with the properties that would catch it,
are in `PROJECT.json`.

## Modules

    SubscriptionLedger   <- implements -  PaymentLedger
                                             | extends
    StripeGateway  <- extends -  PaymentProcessing  <- extends -  BillingService
    Workspaces     <- implements -  Provisioning    <- extends -  ProvisioningClaims
    Fulfilment     <- implements -  Trade  - extends ->  Stock
    OpenItems      <- implements -  Settlement
    Payroll  - extends ->  Journals           JournalClaims  - extends ->  Payroll
    AccountLife    <- implements -  Accounts

The quantities of `Stock` and `Trade`, the amounts of `Settlement` and the lines of
`Journals` are added up by a fold; `Sums` holds the lemmas about it.

On the left of an "implements" is what the component promises, in a few lines; the
module on the right is the code, and its refinement mapping is at its end (for
payments in `PaymentLedger`). `MC*` are the instances for TLC, `*Proofs` the
theorems, `*Claims` statements of docs and tests that TLC refutes. A definition
marked `FAULT` is a mistake that could be made in the definition after it; no
specification uses it, and each checked property is violated when one of them takes
that definition's place.

### Billing

**StripeGateway.** `sess[s]` is what Stripe stores of a checkout session: the
payment it was created for, its state and its charge. `emitted` is the set of
events produced; they are never removed, so an event may be delivered at any later
time and again, in any order. `ack[e]` is how its last delivery was answered. The
steps of customer, Stripe and dashboard (`Pay`, `PayLater`, `Settle`,
`SettleFails`, `Expire`, `DashboardRefund`) are external. `WebhookStatus`,
`WebhookSessionRef`, `WebhookTransactionRef` and `VerificationStatus` are the
adapter: what `stripe.provider.ts` returns for an event or a session.

**PaymentProcessing.** `pay`, `sub` and `invoices` are the three tables: of a
payment row, the status, the organization and plan, `transactionRef` (`ref`) and
`gatewayData.processedEvents` (`seen`). `proc[h]` is a request being served: the
step it is about to take and the locals it carries there. One action per await:

| Method | Actions |
|---|---|
| createCheckout | `ReusePending` or `FindNoPending`, `CreatePayment`, `CreateSession`, `StoreSession` |
| verifyPayment | `BeginVerify`, `StoreValId`, `AskGateway` |
| handleWebhook | `DispatchEvent` or `IgnoreEvent` |
| refundPayment | `BeginRefund`, `RefundAtGateway` |
| finalizeSuccessfulPayment | `FinalizeSuccessfulPayment` = `Activate`, `AlreadySucceeded` or `RejectRefunded` |
| markPaymentFailed | `MarkPaymentFailed` |
| markPaymentRefunded | `MarkPaymentRefunded` = `Reverse` or `NotRefundable` |
| any | `Abort`: a call fails or the process dies; only the request's own state is lost |

The two `$transaction` blocks are one action each. That is what the code's locks
give: both begin with `SELECT ... FOR UPDATE` on the payment row, and finalizing
takes the row lock of the organization's only `Subscription` row by its upsert
before it reads the invoice numbers. The two lookups of `findPaymentByWebhook` are
one read. Left out: amounts, currencies and dates, audit records, the billing
interval (a plan with another interval is another plan), partial refunds (rejected
by the service, ignored by the adapter) and refunds that Stripe reports as pending
and later fails.

**SubscriptionLedger / PaymentLedger.** The promise without any of that: a payment
is bought at most once, which entitles its organization to its plan, and given back
at most once, which ends the entitlement, record and entitlement changing together.
The mapping reads the ledger off the invoices and the entitlement off the
subscription rows, not off the payments' status.

**BillingService.** `asked[c]` is a trial, a plan change or the subscription
checkpoint of a provisioning run (`SetupSubscription`,
`provisioning-executor.service.ts`) that has read the subscription and not yet
written it; for the checkpoint the write is the commit of its transaction. Every
step of `PaymentProcessing` may come in between. `ActivePlanIsPaid`, true of
payments alone, is not a property of this composition, since a plan change keeps
ACTIVE and takes no payment; `ActiveWasPaidFor` is.

### Provisioning

`session`, `owner` and `org` are the tables: of an `OnboardingSession` row,
`provisionStatus`, `provisionData.failedTask` and `organizationId`; of a user,
`organizationId`; of an organization, the checkpoints whose rows are committed.
`call[c]` is one request to provision, with the session object its attempts share
(`org`, `failed`), the retries made and where its attempt stands.

| Code | Actions |
|---|---|
| `ProvisioningEngineService.provision` up to the dispatch | `Begin`, `GetProgress`, `CheckOwner`, `Start` |
| tryRecoverCommittedProvision | `Recover`, then `MarkCompleted` |
| `orchestrate` | `Load` |
| `ProvisioningRetryService.execute` | `AttemptFailed`, inside the action that fails |
| executeProvisioningInTransaction | `BeginTx`, `Commit`, `NoResult`; `Flush`, `LoseObservation` |
| executeCheckpoint | `CreateOrg`, `AssignOwner`, `RunTask` for the others |
| after the dispatch | `MarkCompleted`, `InitChecklist` |
| the catch block | `MarkFailed`, `Rollback`, `Compensate` |
| faults | `AttemptFails` in the transaction, `StepFails` in the try block, `Crash` |

The checkpoints of an attempt share an interactive transaction. What it has
written is derived from where it stands (`Created`, `Claimed`) and reaches the
tables with `Commit`; until then the transaction holds the row locks of what it
wrote, and a statement of another request on the same session, user or unique
name waits (`SessionLocked`, `UserLocked`, `NameLocked`). A crash or a rollback
therefore has nothing to undo in the tables; what it does not undo is the session
object in memory, which is why `call[c].org` survives `AttemptFailed`. `Crash`
stands for a failing statement outside the try block too. A checkpoint is an element
of a set: which rows it writes is left out (the subscription's is in
`BillingService`), and so are validation of a session's fields, its expiry, and
audit, metrics and events. A name stands for its slug as well; both are unique. The
executor registers no compensations, so `rollback` only writes the session.

**Workspaces.** A user is given one organization, once, in a single step that makes
everything of it. The mapping takes the tables as they are.

### Orders and stock

**Stock.** `stock` are the `Inventory` rows of an organization (product, quantity),
`moved[p]` the sum of `newQuantity - previousQuantity` over the movement rows,
`imported` the products an import has written, `clerk[c]` an adjustment or import
under way. An adjustment of a row that exists locks it and is one step (`AdjustIn`,
`AdjustOut`, `AdjustTo`); one that finds no row has nothing to lock and creates it
later (`AdjustFindsNone`, `AdjustCreates`), so two creators make two rows. The import
reads all quantities before it writes the first line (`ImportReads`, `ImportWrites`,
`ImportRecords`), outside any transaction. Warehouses, transfers and soft deletion
are left out.

**Trade.** `order` are the rows of sales and purchases with their item rows, `books`
the bills, journal and cost entries of an order, `moves` how often stock was moved
for it, `req[r]` a request on orders and what it has read.

| Code | Actions |
|---|---|
| create, submit, confirm / approve | `Create`, `Submit`, `Accept` |
| update | `UpdateReads`, `UpdateDeletes`, `UpdateCommits` |
| remove | `DeleteReads`, `DeleteCommits` |
| cancel | `CancelReads`, `CancelCommits` (sales), `CancelPurchase` |
| deliver | `DeliverReads`, `DeliverCommits` |
| receive | `ReceiveReads`, `ReceiveGates`, `ReceiveCommits` |
| createReceivableFromSale, createJournalEntriesForSale and their purchase twins | `Book`, inside the commit |
| failures | `RequestFails` |

A receipt that passed its gate holds the order's row lock until it commits
(`Locked`). An item list is the set of batches the transactions inserted: an edit
deletes the batches it sees and inserts its own, so two edits leave both. Quantities
and prices are reduced to one price per unit.

**Fulfilment.** An order is fulfilled at most once, goods, bill and entries together,
and never after a cancellation.

### Open items and invoices

**Settlement.** `item` are the receivables of sales and the payables of bills,
`allocated` and `direct` the allocations, `ledger` the control accounts, `invoice`
the invoices of sales and those made by hand, `req` the payments and invoice calls
under way. `PayChecks` is `createPayment` up to the row lock; `PayCommits` is
`processPaymentAllocation` from the lock, with its recheck and the update of the
sale's invoice; `PayInvoice` is a payment to an invoice; `instalments` and `deposits`
count the two. `InvoiceReads` and `InvoiceCreates` are `createFromOrder`; remove, issue,
cancel and emailInvoice are `InvoiceCall` and then `InvoiceWrites`, which is not
conditioned on what the call read. `ItemOverdue` and `InvoiceOverdue` are the daily
jobs. How orders come to open an item is `Trade`'s; here it is `OpenItem`, and
`LateEdit` is the edit that commits after the confirmation.

The columns are decimals, but the service converts them with `Number()`, adds and
subtracts floating-point numbers and writes the results back. Amounts count the last
digit a column may hold, and `FloatSum` and `FloatDifference` are any number within
`Rounding` of the exact result that rounding to the nearest number permits: adding or
subtracting nothing is exact, a sum is no less than what is added, a difference has the
right sign. The journal entries take the amounts themselves, so `ledger` is exact.

**OpenItems.** An item opens once and is paid in instalments none of which exceeds what
is open; each moves the same amount of money, and the one that leaves nothing open
settles the item. What is open is known to a rounding.

### Journal and payroll

**Journals.** `entry` are the journal entries with their batches of lines, `keeper`
the calls of bookkeepers: each reads (`UpdateReads`, `PostReads`, `DeleteReads`,
`ReverseReads`), checks, and writes later without a condition (`UpdateDeletes` and
`UpdateCommits`, `PostWrites`, `DeleteWrites`, `ReverseCreates`). `validateLines` rounds
the sums of debits and credits to cents and compares those, and the lines are stored as
they came: so `Balanced` compares `Cents`, and amounts count a smaller unit, `Cent` of
which make a cent. A sum half-way between two cents may be rounded to either, since it
is a floating-point number. One restriction: an
entry made by hand names no reference. The API accepts any text there, and an entry
that names a payroll would stand for its accrual.

**Payroll.** `payroll` are the rows, `officer` the calls. The status changes by a
conditional update (`Approve`, `MarkAsPaid`, `Submit`, `Reject`); the journal entry
is looked up and created afterwards (`AccrueLooksUp`, `AccrueWrites`,
`PaymentLooksUp`, `PaymentWrites`), outside any transaction, and a process may die
anywhere in between (`OfficerFails`). Salary components are their sum, `net`, which is
an integer of any sign: the code checks that no component is negative, not that the
deductions stay below the pay. All payrolls of the model are of one employee and one period.

### Accounts

**Accounts.** `user`, `claim` (pending registration), `code`, `members`, `invite`,
`token` and `bound` (onboarding sessions bound to the user) are the tables, per
email address; `req` the calls under way.

| Code | Actions |
|---|---|
| register, resendVerification | `RegisterReads`, `RegisterWrites`, `SendCode`; `Resend`, `ResendDrops` |
| verifyEmailByCode | `VerifyReads`, `ConsumeCode`, `Promote`, `Bind`, `DropClaim`, `Enter`, `SignIn`; or `Discard` |
| verifyEmail (link) | `VerifyByLink` |
| login; login at the platform console | `Login`, `SignIn`; `AdminLogin`, `SignIn` |
| refresh | `RefreshReads`, `Rotate`, `Renew`, `RefreshRefused` |
| logout, resetPassword | `Logout` |
| users: create | `AddUser` |
| users: updateStatus, update | `Deactivates`, `DeactivateWrites`; `Activate`; `Demote` |
| organization.create | `FoundReads`, `FoundCommits`, `SignIn` |
| a provisioning run's claim of its user | `Provision` |
| invitations: create, revoke, verifyToken, accept | `InviteReads`, `InviteCreates`; `InviteCall`, `InviteWrites`; `AcceptReads`, `AcceptCommits` |
| time | `ClaimExpires`, `CodeExpires`, `LinkExpires` |

`login` asks for a proven address. The platform console (`admin-auth.service.ts`) does
not: it asks for the role SUPER_ADMIN, which only the seed gives, to accounts whose
address nobody proved (`SeededAdmin`), and which `users.update` takes from a member of
an organization (`Demote`). `OnlyProven` therefore says that a refresh token belongs to
a proven address or to an administrator of the platform. The seeded rows are initial
states; no step makes another.

A token is remembered with the sign-in it goes back to (`root`). A token's identity
may be used again when no row has it and no request presents it, which keeps the
instance finite and stands for new ones. `Provision` is what a run of `Provisioning`
does to users and members when it commits; here any bound account may have such a
run. Passwords, suspended organizations, rate limits, roles and departments are left
out, and so are soft deletion, after which a row only fails checks, and the
organizations a platform administrator creates; the owners made with them are, as rows
of users, what `AddUser` makes.

**AccountLife.** One account per address, made by proving it, by an administrator or by
one invitation; a proof lasts; only who accepted no invitation founds an organization.

## What TLC checks

| Run | Bounds | Checks |
|---|---|---|
| payment_safety | 2 sessions, 2 payments, 1 organization, 2 plans, 2 requests at a time | `TypeOK`, `InvoiceMatchesPayment`, `MoneyMoved`, `InvoiceNumbersUnique`, `ActivePlanIsPaid`, `ImplementsLedger`, `PaymentNeverReverts`, `CancelledOnlyByRefund` |
| payment_liveness | 2 sessions, 1 payment, 1 plan, no trial before, 2 requests | `PaidSessionActivates`, `RefundReachesRecord` |
| billing_plans | 1 payment, 2 plans, delayed methods, 2 trial, plan or provisioning requests beside 1 payment request | `BillingTypeOK`, `ActiveWasPaidFor` |
| provisioning_safety | 3 requests, 2 sessions of 1 user, 3 checkpoints, 1 retry | `TypeOK`, `SessionsOwnTheirOrg`, `ImplementsWorkspaces` |
| provisioning_liveness | 2 requests and a last try, 1 session, 3 checkpoints, 1 retry | `CallsEnd`, `CommittedIsUsable` |
| trade_safety | 1 sale, 1 purchase, 1 product, 2 stock rows of at most 2, 2 requests and 1 clerk | `TypeOK`, `NeverOversold`, `HistoryExplainsStock`, `BooksFollowStatus`, `ImplementsFulfilment` |
| settlement_safety | 1 sale, 1 bill, 1 manual invoice, totals 3 and 6, 3 payments of 3, each sum rounded by at most 1, 2 requests | `TypeOK`, `SettledToRounding`, `LedgerAgrees`, `InvoiceNeverOverstates`, `ImplementsOpenItems` |
| payroll_safety | 2 entries, 1 payroll, 2 bookkeepers, 2 officers, lines of 1.5 against 0.5 and 0 cents, net salaries of 1 and -0.5 cents | `TypeOK`, `PostedNearlyBalances`, `BookedOnce`, `DecidedStays` |
| accounts_safety | 1 address (free, an old user or a seeded administrator), 2 hosts, 1 founded organization, 2 invitations, 2 tokens, 2 requests | `TypeOK`, `OneTokenPerSignIn`, `OnlyProven`, `AcceptedJoins`, `ImplementsAccountLife` |

Every passing run but payroll_safety checks deadlock as well: there the entries of
the instance run out, which the program's do not.

The hazards are races of two requests over one row, so two requests, which are used
again once they end, are the least that interleave, and any number of them run one
after another. Where two are not enough, there are more: of three provisioning
requests two can race for one session beside one for the other, or a request can
follow two that raced; in orders a clerk works beside two requests. Two sessions are
the least with which one payment can have an older and a newer session, or two
payments one each; two payments the least with which a subscription is bought,
refunded and bought again; two sessions of one user are what the claim of the user
decides between; two invitations of two hosts the least that compete for an address,
two tokens the least that could both go back to one sign-in, two entries the least
that could both be the accrual of a payroll. The checkpoints of provisioning after
the second do the same to the model, so one of them stands for five; one retry is
enough for an attempt that follows a rollback. One address suffices in Accounts: no
step reads two. Two foundings by one user need a second organization, which the
instance leaves out and the proofs, for any number of organizations, do not.

The bounds that cut behaviour off are named in the modules: `MaxPayments`,
`Sessions`; `MaxStock` (no row grows beyond it), one import per product, `Edited`
(the orders whose items are edited: the sale); the `MaxPayments` of Settlement (how
many payments are made), `Followed` (the invoices that are issued, cancelled, emailed
and deleted: the sale's). Interchangeable values are symmetric, but in no liveness
run.

**Fairness** (`FairSpec`, liveness only). In provisioning, weak fairness of each
request that runs: Node.js resumes it once its statement is answered, and a row lock
is given to those who wait when its holder commits, rolls back or dies. A fault ends
or repeats a step, so it does not stop a request either. `LastTry` is the user who
comes back later: that request is made when no other runs, and meets no fault. In
billing, Stripe redelivers an event until it is answered with 2xx: strong fairness
of `Redeliver(e)`, strong because all handlers may be busy now and then. A request
that was begun ends, by its own steps or by `Abort`: weak fairness of `Proceed(h)`. A
transaction that is attempted over and over, on each redelivery, commits in the end:
strong fairness of `FinalizeSuccessfulPayment` and of `MarkPaymentRefunded`, by
whichever request. Only events that report money taken or given back need to be
redelivered.
Nothing makes the customer pay or verify, or an operator refund. The other
components owe nobody anything that they do not do within the request.

`PaidSessionActivates` and `RefundReachesRecord` speak of what a payment's row refers
to: a captured charge of the session it names, and a refund of the intent it names
that the operator asked for, do not stay unrecorded. The run has two sessions, so a
second checkout, or the slow write of one, replaces these references while money is on
the way. What the row referred to before is lost to it, as the first of the other
behaviours below says; of money of which no row names the session nothing is claimed.

### Statements the code does not live up to

Each of these runs ends in a violation; `PROJECT.json` quotes the statement and
says what the code does.

| Run | What TLC shows |
|---|---|
| claim_completed_never_fails | a slow request that read PENDING takes a COMPLETED session back to PROVISIONING, then fails it |
| claim_retry_frees_session | a crash before the commit leaves PROVISIONING with nothing to recover; every later try is turned away |
| claim_reversed_once | two calls reverse one journal entry, both finding no reversal |

`SessionsOwnTheirOrg` and `ImplementsWorkspaces` hold all the same: the first two
spoil the session's status, never the organizations.

### Other behaviours of the code

Met in the same models or while reading for them; none has a run of its own. The
properties above are stated so that they hold beside them.

Billing:

- A second checkout of a pending payment opens another session while the first stays
  payable. If the customer pays the older one, its webhook finds no payment,
  verification asks about the newer one, and the captured payment is not activated.
  A slow checkout may also store its reference after the payment was finalized
  through an older session; a refund then cannot name the charge.
- Refunding an older payment cancels the plan a newer one bought; a plan change that
  read ACTIVE before a refund writes ACTIVE back after it; a provisioning run that is
  repeated takes a paid subscription back to TRIALING.
- `checkout.session.async_payment_succeeded` has no case in the adapter, though it
  waits for it; pending refunds count as done; two writers of `gatewayData` lose an
  event id, and that event is processed again when redelivered, without effect on
  the books.

Onboarding and accounts:

- A retried attempt reuses the organization id of the attempt that rolled back, and
  can resume after a checkpoint that is gone; its retries then fail.
- `createSession` and `getSession` write EXPIRED on the strength of an earlier read,
  whatever the session has become.
- Accepting an invitation answers "You can now sign in." while the account is
  unverified and login refuses it; registering the address again verifies it in
  place. An invitation that expired and was never opened stays PENDING and blocks
  registration and another invitation.
- A seeded SUPER_ADMIN signs in at the console without having proven the address, and
  gets both tokens. The access token is refused by every route behind `JwtAuthGuard`
  (`jwt.strategy.ts`), and the refresh token is refused and deleted when presented, so
  until the address is verified the sign-in opens nothing.
- Deactivation deletes tokens before it clears `isActive`: a login in between leaves
  a token, which is refused when presented.
- Two `organization.create` of one user, both past the check, or one and a
  provisioning run, make two organizations; the user row shows the later one.
- A user an administrator adds gets a temporary password to share, and login refuses
  it until the address is proven. `users.update` with `isActive` false, unlike
  `updateStatus`, leaves the refresh tokens, which are refused when presented.
- Two owners who deactivate each other both pass `ensureNotLastOwner`, which counts
  before the write: the organization is left without an active owner.
- In the browser, a refresh answered after a sign-out sets cookies and clears the
  promise of a newer refresh, though a comment in `lib/api/client.ts` says a stale
  response can never clobber a newer session.

Orders and money:

- An edit that began before the confirmation may commit after the delivery was read:
  the goods moved are those of the old list, the amounts billed those of the new.
  Two edits at once leave the lines of both.
- Order and entry numbers are unique over all organizations and generated per
  organization; a call that draws a taken one fails.
- Payments are added up as floating-point numbers. Of 0.80, 0.70 and then 0.10 leave
  `paidAmount` at 0.7999999999999999 and the item PARTIALLY_PAID, with a rest nobody
  can pay to the cent; of 3.30, after 1.10 the remaining 2.20 are refused as more than
  is open. Invoices paid directly do the same. The journal has the exact amounts.
- Two edits of one entry, each of lines that pass when rounded (1.004 against 1.00),
  leave the lines of both, 2.008 against 2.00: posted by a call that read the entry
  before, it is out of balance even to the cent. A net salary below zero is accepted,
  approved and booked with negative lines.
- cancel and emailInvoice write on an older read: a paid invoice can become
  CANCELLED, a cancelled one SENT. A sale can be paid through its invoice and again
  through its receivable. Payments of manual invoices credit a receivable account
  that nothing debited.
- A posted journal entry can be deleted, or its lines replaced, by a call that read
  it as a draft. A payroll that was APPROVED or PAID when the process died has no
  entry and none is made later; its net may be changed by an update that read DRAFT;
  two records of one period can be created at once.

## What TLAPS proves

For any sets of the constants, any number of requests included, under the named
assumptions of the modules (`GatewayAssumption`, `NoRefAssumption`,
`PlansAssumption`, `ProvisioningAssumption`, `StockAssumption`, `TradeAssumption`,
`SettlementAssumption`, `JournalAssumption`, `PayrollAssumption`,
`AccountsAssumption`): bounds are natural numbers, null values are none of the
others, sets that name different things are disjoint; products, stock rows and items
are finite sets, of any size, since they are added up; `Rounding` is any natural number
and `Cent` any positive one. TLC evaluates them in the runs.

| Module | Theorem | Property |
|---|---|---|
| `PaymentProofs` | `TypeCorrect` | `TypeOK` |
| | `InvoicesCorrect` | `InvoiceMatchesPayment` |
| | `NumbersCorrect` | `InvoiceNumbersUnique` |
| | `ActivationPaid` | `ActivePlanIsPaid` |
| | `NeverReverts` | `PaymentNeverReverts` |
| | `CancellationIsRefund` | `CancelledOnlyByRefund` |
| | `Refinement` | `ImplementsLedger` |
| | `MoneyCorrect` | `MoneyMoved` |
| `BillingProofs` | `BillingTypeCorrect`, `ActiveIsPaidFor` | `BillingTypeOK`, `ActiveWasPaidFor` |
| | `PaymentsBesidePlans` | of payments beside `BillingService`: `InvoiceMatchesPayment`, `InvoiceNumbersUnique`, `MoneyMoved`, `PaymentNeverReverts` |
| `ProvisioningProofs` | `TypeCorrect`, `SessionsBound`, `Refinement` | `TypeOK`, `SessionsOwnTheirOrg`, `ImplementsWorkspaces` |
| `TradeProofs` | `TypeCorrect`, `BooksFollow`, `Implements` | `TypeOK`, `BooksFollowStatus`, `ImplementsFulfilment` |
| | `NothingOversold`, `HistoryHolds` | `NeverOversold`, `HistoryExplainsStock` |
| `SettlementProofs` | `TypeCorrect`, `SettledNearly`, `AccountsAgree` | `TypeOK`, `SettledToRounding`, `LedgerAgrees` |
| | `InvoicesAreHonest`, `Refinement` | `InvoiceNeverOverstates`, `ImplementsOpenItems` |
| `PayrollProofs` | `TypeCorrect`, `PostedBalance`, `BooksAreOnce`, `DecisionsStand` | `TypeOK`, `PostedNearlyBalances`, `BookedOnce`, `DecidedStays` |
| `AccountsProofs` | `TypeCorrect`, `OneToken`, `ProvenOnly`, `JoinsStand`, `Refinement` | `TypeOK`, `OneTokenPerSignIn`, `OnlyProven`, `AcceptedJoins`, `ImplementsAccountLife` |

*Payments.* `TypeOK` is not inductive: a request writes the row it names, so `Typed`
adds that a request past its first steps names an existing row (`HandlersTyped`),
and that there are finitely many invoices. Finiteness is what makes
`nextInvoiceNumber` find a number at all: by the pigeonhole principle one of the
first n+1 numbers is free when there are n invoices (`SomeNumberFree`). `StepEffect`
says what any step does to the books: it activates one payment with its invoice
(`Booked`), gives one back (`GivenBack`), or leaves subscriptions and invoices alone
(`Quiet`). It is the only lemma that looks at every action; the properties of the
books follow from it. `InvoiceRecords` is the inductive form of
`InvoiceMatchesPayment`, quantified over invoices. Under it the mapped ledger is a
function of the payments' status, so `Booked` is `Buy`, `GivenBack` is `GiveBack`,
and `Quiet` a stutter.

*Money.* That a row says SUCCEEDED tells something about Stripe only if every
reference leads back to a session of the payment that holds it. `Trail` says so of
rows and of requests, with the evidence a request holds before it finalizes or
records a refund, and that emitted events are true. It survives overwritten
references: they lose track of money, they never invent any.

*Trials, plan changes and provisioning runs.* The invariant has to speak of requests
too: one that read ACTIVE belongs to an organization that had paid (`ReadsPaid`).
That a row has a plan exactly when it exists follows from `PlanWritten`, what any
step writes into a subscription. No payment reads a subscription, so the theorems
about payments that do not speak of subscriptions carry over to the composition.

*Provisioning.* Neither property is inductive: that a commit founds one whole
organization follows from what the attempt has been through. `IInv` follows an
organization from its id to its commit. The ids a request has not used yet are free,
so what it creates is new; an id held but not committed is the holder's own, so a
commit does not change what another request sees; an attempt that created its
organization ran from the first checkpoint, so it commits all of them, and one that
resumes works on an organization that is whole already (`Whole`); two claims of a
user exclude each other (`ClaimsExclude`), so the claim still holds at the commit.
With `IInv`, the `Commit` of an attempt that created its organization is `Found`, any
other a stutter, as is every other step.

*Orders.* `IInv` adds two things to the property. What a request carries across an
await fits its kind of order (`ReadsKinds`), so that a slow cancellation cannot write
over a delivery; and the row lock of a receipt holds from its gate to its commit
(`LockHolds`), so that a second receipt does not pass the gate. `OrderEffect` and
`RequestEffect` say what any step does; a step that fulfils is `Fulfil`, one that
cancels is `Void`, all others stutter.

*Sums.* The models add up quantities and amounts with `SumFunctionOnSet` of the
community modules, a fold over a finite set. What such a fold does is not given by
its definition but by induction. The library's induction theorems take an operator
as a parameter, which the provers cannot instantiate; but that the strict subset
order on a finite set is well-founded is stated with sets alone, so `Sums` proves
induction over the subsets of a finite set with a set in place of the predicate
(`SubsetInduction`), shows with it that the fold satisfies its recursion
(`FoldExists`), and from there that an element can be taken out of a sum whichever
one the fold would take (`SumRemove`), that sums of integers are integers, that a sum
of sums is a sum, that one value that moves moves the sum by as much (`SumShift`),
that a sum can be split by classes of its elements (`SumByClass`), and that two sums
whose terms are near each other are as near as the terms together (`SumsNear`).

*Stock.* `NeverOversold` and `HistoryExplainsStock` are two conjuncts of `SInv`. The
others say that a row that was not created holds nothing (`RowsBlank`), that the
rows a receipt found at its gate are still rows of their products (`FoundHolds`),
and the same of the row an import found, and that an import on the way to its
movement row has marked its product (`ClerksKnow`). Rows never change their product
(`Keeps`), which is why the two stale reads do no harm. Every step on the stock is
one of three (`StockEffect`): rows change, some of them created, with the changes on
record (`Shifted`), an import overwrites a row, or it records what it computed. That
a delivery or a receipt is of the first kind is a double sum: each line of the items
lands on one row of its product (`Lands`), so the shares of the rows of a product add
up to the quantity of the product over all items (`AllLands`), whichever rows were
picked and however many lines land on one. `SInv` needs of orders only that a
request's items are finitely many and well-typed, which `IInv` says. The guards that
only keep TLC's instance finite, `MaxStock` and one import per product, are not used.

*Open items.* `SettledToRounding` is inductive with the types, with `Fresh` (an item
that is not open was not paid) and with `InvoiceNeverOverstates`, because the recheck
is made under the lock on the row it then writes. What a request saw before
the lock appears in no lemma, which is the point of the recheck. Each payment adds one
`Rounding` to what a row may be off (`ItemSlack`, `InvoiceSlack`, `SlackGrows`); the
first adds none, since it is added to zero. `LedgerAgrees` is inductive beside them:
each step moves one item, or what is paid directly to one invoice, and the accounts by
the same amount up to that rounding, so the sums move along (`SumShift`); `Fresh` makes
the opening of an item add its whole total.

*Payroll.* `PostedNearlyBalances` follows from a stronger and simpler fact: every batch
of lines, by itself, is at most a cent out of balance (`Balances`, from
`BalancedWithin`), whether in an entry or in the hands of a call, and swapping sides
keeps it so. Any union of batches is then out by at most a cent for each (`SumsNear`),
whatever edits and posts race; that the post checked the sum is not used, since the
lines may be others when it writes. `BookedOnce` needs `AllBooks`: an officer who is on
the way to an entry is the only one, and there is no entry yet; which in turn holds
since only one conditional update can succeed.

*Accounts.* `Chains` follows a sign-in through a rotation: a request that deleted the
token stands for the sign-in alone until it writes the next. `Entered` says that who
is past the check of a proven address still has one, since no step takes a proof
back, and who is past the console's is still an administrator or has proven the
address, since the role is taken only from members of organizations, who have
(`Administrators`); `Founders`, that who is about to found an organization joined
none; `Noted` and `Present`, that what a request is about to write to exists. The
refinement maps `Promote` and `VerifyByLink` to `Prove`, `AcceptCommits` to `Join`,
`AddUser` to `Add`, `FoundCommits` and `Provision` to `Found`; roles are none of its
business.

Only model-checked: the four liveness properties, since fairness and `ENABLED` are
out of the provers' reach. Every other property of the passing runs is the statement
of a theorem.

## Not modelled

The models cover what keeps state that several requests share and whose properties
need more than one step to go wrong. Most of the repository's code is not that: the
web front end (pages, components, hooks), reports and dashboards, single-row create,
read, update and delete, request validation, mail and audit. By lines of code it is
nine tenths of the system, so the modelled share of the lines is small.

Of what keeps state, left out are:

- *Idempotency keys*: a cache of answers, looked up before a handler and filled after
  it. Two calls with one key both run; Provisioning therefore lets any number of calls
  run and relies on nothing of it.
- *The wizard's steps and the nightly cleanup* of onboarding sessions: updates
  conditioned on a version, and deletion of sessions long expired.
- *SSLCommerz*, a second gateway under PaymentProcessing; bKash, Nagad and PayPal
  reject every call.
- *The inventory engine*: its services write rows of their own table as the caller
  sends them and read no other's.
- *Leave requests*: one update per change, conditioned on the status that was read.
  *CRM*: rows with a timeline; lead conversion checks once and may make two customers.
- *Rate limiting and Redis*: counters per window, and a switch between two stores.
- *The browser's token refresh*: one promise per tab, timers, and messages between
  tabs. What it calls on the server is in `Accounts`.
- *Roles and permissions, the API and web kernels*: decisions over role tables, and
  registries filled once at start.

Next in order, if the project grows: the finalize and refund transactions statement
by statement under row locks, refining the single actions of `PaymentProcessing`;
session expiry as a further writer of `Provisioning`; orders, items and journal in
one composition (`Trade` opening the items of `Settlement`).
