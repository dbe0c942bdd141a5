# Cargo Agent backend: a verification project

This directory holds TLA+ models of the Cargo Agent backend, the TLC
configurations that check them on small instances, and TLAPS proofs of what
holds for every instance. Paths below are relative to the repository.

## 1. The system

An Express API over PostgreSQL (Prisma, READ COMMITTED), a BullMQ worker process
over Redis, Stripe webhooks, and node-cron jobs in the API process. Each module
is route, controller, service, repository: the *service* reads and decides, the
*repository* writes. There is no cache and no in-memory state that matters;
everything that can go wrong goes wrong between two statements of the database,
between the database and Stripe or Redis, or between two processes.

| Component | State | Operations | Touches | What is hard |
|---|---|---|---|---|
| Credit wallets (`shared/credits`, `companyCredits`, `jobSeekerBilling`) | one wallet row per owner, append-only ledger, checkout session rows | spend, grant, adjust, create wallet, open checkout | every feature that costs credits | read then write under READ COMMITTED; ledger rows must match |
| Billing webhooks (`webhooks`, `shared/queue`, `workers`) | BullMQ jobs, Stripe's own delivery state | post, enqueue, take, retry, fail, stall | wallets, subscriptions | repeated, lost and concurrent deliveries; dead workers; two modes |
| Posts, bids, contracts | three tables with a status each, `deletedAt`, unique keys | create, edit, status, accept, delete, restore | wallets (fees), notifications | status checked on a row read earlier and written by id |
| Jobs (`jobs/`) | none | expire posts and checkouts, close bids, reconcile and downgrade subscriptions, delete old auth rows | all tables | run against requests, from snapshots |
| Publishing quota, vehicle marketplace, job listings | monthly counters, listings, applications | publish, promote, apply, inquire | wallets | row first, payment after |
| Subscriptions | `Subscription.isCurrent`, company plan, Stripe's subscription | lifecycle events, cancel, revert, reconcile, downgrade | plans, entitlements | unordered events, two current rows |
| Auth, invites, membership | sessions, token version, OTP challenges, invites, company members | login, refresh, logout, reset, invite, accept, revoke | users, entitlements | single use, rotation, checks outside the transaction |
| Company verification, notifications | verification status, inbox rows, jobs with fixed ids | request, process, edit profile; announce, deliver, read | the two other queues | kept failed jobs, stale answers, lost jobs, who is the other side |
| Vehicle assignments and fleet | assignments, vehicles, drivers | create, patch, delete, restore | an exclusion constraint of the database | a window checked from parts read at different times |
| Reviews, documents, licenses, routes, geo, plans, audit | rows with soft delete | CRUD | notifications (reviews) | plain CRUD |

What makes each of them correct:

* **Wallets**: the statement adds up; nobody spends what is not there; a
  checkout session is completed exactly when its credits were granted.
* **Webhooks**: a payment is credited, and credited once.
* **Marketplace**: one winner per post; an accepted bid and its contract go
  together; what is settled stays settled; plan limits hold; nobody waits for
  ever for an answer.
* **Publishing**: what shows was billed, only publishing it is, free quota first.
  **Applications**: what failed cost nothing.
* **Subscriptions**: always one current subscription, the one Stripe spoke of
  last, and the company's plan is that subscription's in the end.
* **Accounts**: a code that was typed once is used once; no token outlives the
  password it was issued for; an invite lets one person in; an address is
  registered once.
* **Verification**: a verified company is the company that was looked at.
  **Notifications**: the other side is told, and in the end it is told.
  **Assignments**: a driver is in one place at a time.

The components and the hazards found in their code, each at its line, are listed
in `PROJECT.json`.

## 2. Modules

| Module | Models | Extends |
|---|---|---|
| `CreditWallet` | wallets, ledgers, sessions and the transactions on them | |
| `BillingQueue` | how a Stripe event reaches its handler | |
| `CreditPurchase` | a purchase end to end: both of the above composed | `CreditWallet`, `BillingQueue` |
| `CreditLedger` | abstract: what customers are promised about credits | |
| `RouteDeals` | abstract: what shipper and carrier are promised about offers and deals | |
| `CompanyPlan` | abstract: the plan a company is on, as Stripe's events say it | |
| `RouteMarketplace` | posts, bids, contracts, the cleanup job | |
| `Publishing` | vehicle listings, job listings and posts: the row first, then its bill; boosts | |
| `Applications` | responses to job listings as metered transactions; promotions | |
| `Subscriptions` | the current subscription under events, jobs and requests | |
| `OtpChallenges` | one-time passwords | |
| `Sessions` | users, passwords, token versions, sessions | `OtpChallenges` |
| `CompanyTeam` | invites and membership | `Sessions` |
| `Registration` | drafts and their completion | `Sessions` |
| `Accounts` | the four above composed | `CompanyTeam`, `Registration` |
| `CompanyVerification` | the verification of a company, its job and its inline mode | |
| `Notifications` | events from the commit to the inbox | |
| `VehicleAssignments` | drivers on vehicles, next to the database's constraints | |
| `MC<name>` | the instance of that module that TLC checks | the module of that name |
| `MCMarketplaceOverlap` | the instance with overlapping requests; `MCRouteMarketplace` is the one of the serial and the race run | `RouteMarketplace` |
| `MCOperations` | the last three, `Publishing` and `Applications` in one run | all five |
| `CreditWalletProofs`, `PurchaseProofs`, `RouteMarketplaceProofs`, `SubscriptionsProofs`, `AccountsProofs` | theorems | the module they are about |
| `MeteringProofs` | theorems about `Publishing` and `Applications` | both |
| `WorkerProofs` | theorems about `CompanyVerification` and `Notifications` | both |
| `OperationsProofs` | theorems about `VehicleAssignments`, and about the five components of `MCOperations` together | `MCOperations`, `MeteringProofs`, `WorkerProofs` |

Definitions marked `MUTANT of X` stand before `X` and are used nowhere: each is
`X` with a plausible bug, and the property it is paired with in `PROJECT.json`
fails when it takes the place of `X`.

### Wallets (`CreditWallet`)

The company lane and the job-seeker lane are the same code on different tables,
so an `Owner` is either. A database transaction is cut where another one can
get in between under READ COMMITTED: `Begin...` is its read, with the decision
taken from it; `Commit...` runs from the `UPDATE` of the wallet row, which
locks it, to the commit. The grant has two reads (ledger, then wallet). `found`
remembers whether the read saw a wallet row, because the INSERT of a missing one
fails on the unique owner if somebody else's has committed. `Post` is what the
three share: move the balance, append a row that carries the balance after it.
Spending re-evaluates its guard in the `UPDATE` (`CommitSpend` reads `balance`
at that moment); the manual adjustment does not, and that is the difference
between `SpendsAreCovered` and the violation below.

### Delivery (`BillingQueue`) and purchase (`CreditPurchase`)

`stripe[e]` is Stripe's view of an event: it posts while `due`. `Answer` may get
lost, which is why the same event arrives again. With `QueueEnabled`, `Enqueue`
adds a job under the event's id; a job that exists, failed ones included, makes
it a no-op. Completed jobs vanish, so a late repeat is queued, taken and handled
again, and has to be recognised by the handler. `Crash` kills the worker
process: active jobs go back to the queue once. Without the queue
`HandleInline` starts the handler in the request, as often as Stripe posts.
BullMQ and Stripe are external; they are modelled from the options and calls in
`src/shared/queue` and `src/modules/webhooks`.

`CreditPurchase` gives worker slots a database connection each (`Worker` is a
subset of `Slot`), so a handler is the grant transaction of `CreditWallet`
carried by a job of `BillingQueue`, next to clients that spend, read and expire.
A dead worker rolls back its transactions. `checkout` is the request that
opens the session: Stripe first, the row after, the URL last, so a customer can
only pay for a session whose row exists. Stripe refuses payment after a
session's `expires_at`, and that is when the cleanup job may expire the row.

### Marketplace (`RouteMarketplace`)

No endpoint repeats its decision in its `UPDATE`: a request is `Begin...` (read,
check, keep what was decided in `request[s]`) and `Commit...` (write it into
whatever the rows have become). `Slot` is the number of requests in progress.
`Drop` covers refusals, failures and a process that dies in between. Accepting
writes everything in one transaction whose `UPDATE`s lock the bid and the post,
so it is one `CommitAccept`; its upsert leaves an existing contract of the bid
alone, and its INSERT fails on `postId` if the post has another one. A contract
is named after its accepted bid, which its unique key allows. The monthly bid
counter is reserved in the transaction that inserts the bid; the counter row is
made by the usage check that runs before the first bid of a month, so it starts
at 0. A PATCH of a bid may clear its price (`NoPrice`); a bid without one can
neither be accepted nor get a contract (INVALID_BID_PRICE). `ExpirePosts` and `CloseBids` are the job's two statements, separate
actions because requests get in between.

The post status CANCELLED is in the schema and never written; it is not a
status of the model. Creating a contract by hand always ends in
CONTRACT_ALREADY_EXISTS, because accepting the bid has created it
(`AcceptedBidHasContract`); `CommitContractCreate` has the code's other branch
all the same.

`RouteDeals` is what remains when requests do not overlap: no reads, requests or
deleted rows, an offer may change or lose its price until it is accepted, an award
takes the price that stands at that moment and needs one, and a deal then only
advances. The mapping
(`Deals`) reads the offers and the accepted bids off the bid rows, the deals off
the contract rows and the posts given away off the post rows.

### Publishing and applications (`Publishing`, `Applications`)

Creating a listing as published, or an update that turns it so, writes the row
and only then asks for the money: a request of `Publishing` is a `task` that
goes from the row ("quota", then "credits") to its end, and any task may die on
the way (`DropTask`). An empty wallet refuses the bill and leaves the row as it
is, which is what the code does. Updates decide on the row they read whether
they publish. Reopening a job listing bills nothing; posts count the active ones *after* the
row is there. A boost pays first and extends `until` later, from what it read.
`tally` is the history of each ad: the requests that found it hidden and left it
published, what became of their bills (free, paid, or unpaid: refused, or lost
with the process), the boosts paid and those of them lost with the process. Ads
that stale writes or dead requests have hit are counted like any other.
`PublishedIsCharged` is three statements: an ad that shows was billed and only
publishing it is billed (`OnlyPublishingIsBilled`), credits come after the free
quota (`QuotaGoesFirst`), and a promotion is never longer than the boosts that
were paid and written (`BoostsArePaid`). That an ad is charged for its first
publication only, as the API documentation says, is not so: that is the run
`publishing_again`.

An application is the opposite: insert, upsert of the month's counter (a row
lock that holds the others up), quota or credits, one commit. `tx[a]` is an
open transaction; a second one for the same listing waits for the unique key.

### Subscriptions (`Subscriptions`)

`events` is what Stripe has emitted, in order; a handler takes any event not in
`billed` that no other handler has, a failed one again, which covers late,
retried and reordered deliveries (`ordered` remembers whether an older one was
skipped).
A handler is cut at its statements: what it reads is what is committed then;
`held` are the rows its UPDATE has locked until its commit. `FailHandler` is an
error or the end of a worker, and rolls back. The downgrade job uses the same
slots (`ScanExpired`, `FindCurrent`, `CommitDowngrade`); the reconcile job reads
all companies and then writes group by group (`sweep`). `request[q]` is a cancel
or revert: read the current row, ask Stripe, write whatever is current by then.
Any number of them overlap. Two marks remember what they did to each other, for
the property only: a request is `overtaken` if another one told Stripe the
opposite about its subscription before it wrote; a row is `astray` if it was
written by a request that was, or that had read another row. Stripe's next event
about the subscription takes the mark away.
Plan and status are written together everywhere, so one status stands for both.

`CompanyPlan` is the promise: an event is applied (any number of times) before it
is acknowledged and not after, and between events only an unpaid plan lapses.
It is mapped (`Promise`) onto the current row, Stripe's events and the
`BillingEvent` rows.

### Accounts (`OtpChallenges`, `Sessions`, `CompanyTeam`, `Registration`)

`call[k]` is an API call: what it has read and decided and not yet written. Each
statement that reads ends in a new `call[k]`, each that writes is an action that
takes it up; `Drop` ends a call anywhere (a refusal, an error, a dead process),
so refusals are not listed one by one. A consumer's UPDATE of a code repeats its
conditions (`Consume`); verification, resending, revocation and membership
write by id. Time is left open: a row may be past its `expiresAt` ("late") from
any moment on. A session stands for both of its tokens, and remembers the
password it was opened with; `Accepted` is the check of access tokens.
History for the properties only: `credit` (verifications of a code less its
uses), `joins` (acceptances of an invite), `origin` (the draft an account was
made from), `companies` (founded with an address).

### Verification and notifications (`CompanyVerification`, `Notifications`)

The verification job has a fixed id per company: adding it while it waits, runs
or is kept as failed does nothing. The check reads the identity, asks the
registry (external: accepts `Usable`, refuses `Unusable`) and writes the verdict
by id. An edit of the identity takes the verdict back. With BullMQ off the
caller runs the same check itself. `stale` marks a verdict whose identity had
changed when it was written, `byHand` a flag an admin wrote.

An event of `Notifications` is `pending` from the commit to the `add` (there is
no outbox: `LoseEvent`), then a `job` whose worker looks the subject up, works
out the recipient, and inserts. A failure or a dead worker comes before or after
the INSERT, so an event may be told twice: the code does not prevent it. A
thread has two sides, each a company, a person or both; who the other side of a
reply is gets guessed from its author, as the handlers do. All twelve event
types of the code are there.

### Assignments (`VehicleAssignments`)

A request looks for an overlap and writes later. `Permits` is the database: a
CHECK on the window and an exclusion constraint on driver and range over the
rows not deleted. A PATCH is checked with the fields it does not give as they
were read, and writes only those it gives.

## 3. Runs

| Run | Instance | Shows |
|---|---|---|
| `wallet_adjust` | 1 owner, 2 sessions, 2 connections, costs 1 and 2, adjustments of 1 either way, at most 4 credits | violation: an adjustment takes a wallet below zero |
| `purchase` | 2 sessions, 2 workers, 1 client, 1 lost answer or error, 1 crash, 5 attempts | `GrantedAtMostOnce`, `BalanceNeverNegative`, `OnlyPaidIsGranted`, `NoPaymentIsLost`; `PaidIsGranted` under fairness; `ImplementsLedger`: refinement of `CreditLedger` |
| `purchase_inline` | the same, without the queue | violation: two concurrent posts of one event grant twice |
| `purchase_inline_safe` | 1 owner, 2 sessions, 2 handlers and 2 other connections, cost 1, reductions of 1, the expiry job, 1 lost answer or error, 1 crash | without the queue, whatever transactions meet on the wallet: `LedgerExplainsBalance`, `SpendsAreCovered`, `CompletedIffGranted`; and a payment is still credited, at least once: `PaidIsGranted`, because Stripe posts until it gets a 200 |
| `marketplace` | 2 requests at a time, limit 1; either 1 post with the bids of 2 carriers, or 2 posts with two bids of a third | `AcceptedBidHasContract`, `OneWinner`, `ContractNeverRestarts`, `BidLimitKept` under every interleaving |
| `marketplace_serial` | 2 posts, 3 bids, 2 prices or none, 1 request at a time, limit 1 | `WorkflowIntegrity`, `SettledStays`; `StrandedBidsAreClosed` under fairness; `ImplementsDeals`: refinement of `RouteDeals` |
| `marketplace_race` | 1 post, 2 carriers, 2 prices, 2 requests at a time | violation: `WorkflowIntegrity` when requests overlap |
| `subscription` | 2 Stripe subscriptions, 3 events, 1 handler; either two open checkouts, or one checkout and one cancel or revert, or two checkouts and two cancel or revert requests | `AlwaysSubscribed`, `SingleCurrent`, `CurrentFollowsStripe`, `CancelAgreesWithStripe`; `PlanIsReconciled` under fairness; `ImplementsPlan`: refinement of `CompanyPlan` |
| `subscription_race` | the same with 2 handlers | violation: two current subscriptions |
| `account` | 2 calls at a time, 2 of each row, 1 wrong code, 1 resend, 1 seat | `EachUseIsVerified`, `OldPasswordsAreDead`, `InviteUsedOnce`, `RegisteredOnce`; no step makes an ended session good again: `EndedStaysEnded` |
| `operations` | five components that share no state, each from its own initial states | `PublishedIsCharged`, `SubmissionsAreMetered`, `ReplyReachesTheOtherSide`, `VerdictMatchesIdentity`, `AssignmentsAreSound`; `EventIsNotified` under fairness |
| `publishing_again` | the same | violation: an ad that is published again, or by two requests, is charged again |

Every passing run but `purchase_inline_safe` and `marketplace_serial` also
checks the type invariant of what it runs; that of the wallets is part of
`PurchaseTypeOK`, and proved on its own (`WalletTypeCorrect`).

**Why the bounds are enough.** Every race in these modules is between two
actors on one row, so two connections on one wallet, two handlers of one event
and two requests on one post reach it. Amounts 1 and 2 let a balance suffice for
one spend and not for both. `MaxRows` admits new requests while a ledger is
short; what was admitted still commits, so ledgers grow past it. `MaxFaults` and
`MaxCrashes` of 1 each are enough to lose the answer of an event already handled
and to lose a worker after its commit. `MaxAttempts` is the code's. With more
faults than attempts a payment is not granted: the job is kept as failed and
blocks its id; `PaidIsGranted` is about fewer.

*Marketplace.* With overlapping requests (`MCMarketplaceOverlap`) two questions are
told apart by the initial state: the bids of two carriers on one post, and a
carrier of one bid a month who bids on two posts at the same time. `MaxDeleted`
bounds the rows that are deleted at a time, and the requests that delete or
restore. The two carriers of the first question are interchangeable together
with their bids, and so are the request slots.

*Subscriptions* (`MCSubscriptions`). Three events are a subscription, a change or an
end, and one of another subscription. `SingleCurrent` is about one handler at a
time, next to requests and the reconcile job; the second handler is the violation
run. `part` picks the initial state: two checkouts and no requests, where a
downgrade is repeated by a retry; one checkout and one request; or two checkouts
and two requests that overlap once an event is handled. In this last part
handlers do not fail, the reconcile job does not run, checkouts stay open and
emit no event; `CancelAgrees` is proved without these cuts. `MaxFree` bounds the
FREE rows that downgrades write. 1.35 million states.

*Accounts* (`MCAccounts`). Two calls of any kind overlap on two rows of each
table. All components at once are too many states, so the initial state picks
one question: sessions of one user, with a login code, a reset code or an address
still free; invites of two companies for one user; registrations of one address.
`Focus` keeps each to what it is about: the login part uses one challenge;
sessions grow late only with a login code, where refreshes do not rotate and
logouts do not bump the version; profiles change there and in the team part;
wrong codes and resends are not tried on registration codes; in the team part only members are removed and
restored, and nobody is moved to the second company by hand. Calls, sessions and
invites are symmetric. What is cut by `Focus` is not cut in `AccountsProofs`.

*Operations* (`MCOperations`). `part` picks the component, `about` some of its
operations. Publishing: a vehicle and a job listing, or two posts (the second is
only created, removed and restored), or one post with boosts; one free use, a
plan of one active post, two credits, two publications an ad, two requests that
may die or write stale.
Applications: three openings, one free, two transactions. Verification: two
callers, two attempts, with the queue and without. Assignments: one vehicle, two
drivers, two rows, two requests, windows over two instants and infinity; a PATCH
gives one field; vehicle and driver come and go between requests. Notifications:
one thread of each kind, one reply, two attempts (the code has five: the bound is
where the last attempt fails), two people in two companies; failures for
contracts and reviews, replies for the other kinds, two events under way. These
cuts are not in the proofs: `MeteringProofs`, `WorkerProofs` and
`AssignmentTypeCorrect`, `DriversAreInOnePlace` are about the components as they
are, and `OperationsImplementParts` shows that the composition, cuts included, is
one of them at every step.

**Deadlock.** Checked for the marketplace. Off elsewhere: when all sessions are
handled and the ledgers have reached their bound, when Stripe has emitted its
last event, when the rows of a bounded table are used up, the model may stop.

**Fairness.** `Deliver`: Stripe keeps posting for days and an idle worker slot takes a
waiting job. `HandleEvent`/`FinishEvent`: a handler that runs comes to its end, and a
refused one throws (`GrantRefused /\ FailEvent`). Nothing is assumed of customers, clients
or requests. `CloseBids`: node-cron runs it every ten minutes. `Reconcile`: node-cron runs it every
half hour; `PlanIsReconciled` is about handlers that fail finitely often, since each
failure may leave the copy behind again. `Work(e)`: the notification worker is restarted
and takes what waits; the number of its failures is bounded by the attempts.

## 4. Proofs

For every value of the constants, from the assumptions named in the modules
(`WalletAssumption`, `QueueAssumption`, `PurchaseAssumption`, `MarketAssumption`,
`SubscriptionAssumption`, `OtpAssumption`, `SessionAssumption`, `TeamAssumption`,
`ApplicationAssumption`, `PublishingAssumption`, `VerificationAssumption`,
`NotificationAssumption`, `AssignmentAssumption`). All that the passing runs check
is proved except liveness: every type invariant, safety invariant, action
property and refinement. What a theorem assumes beyond those assumptions is what its
run assumes, and the other case is a violation run: one handler (`OneHandler`,
against `subscription_race`), one request (`OneAtATime`, against
`marketplace_race`), the queue (`QueueEnabled`, against `purchase_inline`),
adjustments off (against `wallet_adjust`). What events out of order lead to is said
by a theorem of its own (`AcknowledgedIsShown`).

* `WalletTypeCorrect`, then `StatementAddsUp` (`LedgerExplainsBalance`),
  `SpendingIsCovered` (`SpendsAreCovered`), `CompletionIsGrant`
  (`CompletedIffGranted`) and, assuming that adjustments are disabled,
  `NeverBelowZero` (`BalanceNeverNegative`).
  `WalletTypeOK` is inductive. To keep one proof per property instead of one per
  property and action, `StepShape` first shows that every step of the module is
  a debit, a credit, a correction or quiet; each property is then
  shown for those four. `NeverBelowZero` needs to know that no adjustment is in
  progress (`AdjustmentsStayAllowed`).
* `MarketTypeCorrect`, `AcceptanceBinds`, `OnlyOneWins`, `ContractsOnlyAdvance`
  and `BidLimitHolds` for any interleaving. The strengthening is about
  what a request in progress may still carry: it names a bid or a contract that
  exists (`RequestsFit`), never asks for CONFIRMED, and contracts have prices
  (`ContractsArePriced`). `OnlyOneWins` adds that a post has one contract, and
  `BidLimitHolds` that a carrier's counter is at least the number of its bids.
* `SerialWorkflow` and `SerialSettled` assume `OneAtATime`: one slot. The
  invariant says that what the request read is still so when it writes, which is
  exactly what two slots break and the `marketplace_race` run shows.
* `SerialMarketImplementsDeals`, under the same assumption: the marketplace
  implements `RouteDeals`. Each step is shown to be one of its actions or a stutter
  (`DealsOfPosts`, `DealsOfOffers`, `DealsOfAccepts`, `DealsOfContracts`, ...): a commit of an
  accept is an `Award` at the price of the bid as it is now, which is a price,
  because with one request nobody edits the bid between the read and the write
  (`StillDecided`), a bid whose price is cleared is not accepted,
  and a status commit is an `Advance` the table of moves allows, for the
  same reason.

* `PurchaseUsesWallets`: every step of a purchase is a step of the wallets or
  leaves them alone, so what is proved of `CreditWallet` holds of the
  composition (`PurchaseStatements`, and `PurchaseNeverBelowZero` assuming that
  adjustments are disabled). `PurchaseTypeCorrect` and `GrantsArePaid` hold with
  the queue and without. Assuming `QueueEnabled`, `GrantsAreSingle` and from it
  `PurchaseImplementsLedger`: the refinement of `CreditLedger`. `DeliveryInv`
  says that an event's job has one handler, and that a job that may run has an
  attempt left; `GrantInv` that a transaction that grants belongs to the handler
  of its event, whose session is not granted yet. Without the queue the second
  half fails, which is the `purchase_inline` run.
* `NoPaymentLost` (`NoPaymentIsLost`), the safety half of `PaidIsGranted`, with the
  queue and without, for any number of errors and dead workers, permanent failures
  included. On its own it is not inductive: an event is answered when its handler
  finds no session, and when the job it wants to add is there already. `KeptInv`
  adds that a payment has its session (the row is written before the URL is
  given out, and nothing removes it), that jobs exist only with the queue, and that an
  active job has a handler; `GrantsAndSessionsLast` that no step of anybody takes a
  grant or a session away.
* `SubscriptionTypeCorrect` and `NeverUnsubscribed` for any number of handlers:
  only two steps touch the current flags, and each sets one. The strengthening
  (`Carries`): a handler's event was emitted. `OneCurrentSubscription` assumes
  `OneHandler`; `SoleInv` says that a handler about to commit has found all rows
  that are current, which the second handler of `subscription_race` breaks.
* `FollowsStripe` (`CurrentFollowsStripe`), `CancelAgrees`
  (`CancelAgreesWithStripe`) and `SubscriptionsImplementPlan` (`ImplementsPlan`),
  all with `OneHandler`. `FitInv` relates what a handler has read to the event it
  carries, and the events to Stripe's side. `TrackInv`: while events came in
  order, there is a k such that the first k are billed and the rows show k or k + 1 of
  them; a handler about to write its `BillingEvent` row has made them show k + 1.
  `FollowsStripe` is about events handled in the order of their emission, late,
  repeated and failed ones included. Of events out of order `AcknowledgedIsShown` says
  what there is to say: an event that is acknowledged is the one the current row
  shows, so the one handled last counts, were it the older.
  `CancelAgrees` holds for any number of overlapping cancel and revert requests.
  `CancelInv` says of the answer to a cancel what `TrackInv` says of the plan;
  `UpdateLast` that Stripe's last event about a subscription carries Stripe's present
  answer; `RequestsFit` that a request which was not overtaken is about to write it.
  `AckInv` is what the refinement needs: a handler's event is not acknowledged
  yet, and applied once only its acknowledgement is left.
* `AccountsAreSound`, and from it `AccountTypeCorrect`, `EachUseIsBacked`,
  `OldPasswordsDie`, `InvitesAreSingleUse`, `RegistrationsAreSingle` and the action
  property `EndedSessionsStayEnded` (`EndedStaysEnded`). Each of
  the sixty actions is first shown to move each table in one of a few ways
  (`OtpMoves`, `CallMoves`, ...); the invariants are shown for the moves. A
  VERIFIED code has a verification left (`Backed`); what a login has read and
  what a session was opened with has the user's password if it has the user's
  version (`CallFresh`, `SessionFresh`); a PENDING invite has let nobody in
  (`InviteFits`); the draft of an account is there (`OriginFits`).
* `ApplicationsTypeCorrect`, `ApplicationsAreMetered`: inserts of open
  transactions are apart (`InsertsAreApart`), so the counter counts.
  `PublishingTypeCorrect`, `PublicationsAreCharged`: the books of each ad balance
  exactly (`AdFits`: bills, settled or on the way, are as many as the requests that
  published it). What a request read may be old when it writes, but was once
  true (`TaskFits`): an ad it read as published had been billed, the promotion it
  read had been paid for. A vehicle or job request asks for credits when the quota
  is gone (`QuotaComesFirst`).
* `VerificationTypeCorrect`, `VerdictsMatch`: the steps that write the row, and
  an attempt left for what has not failed. `NotificationsTypeCorrect`,
  `RepliesReachTheOtherSide`: threads and replies keep their sides, bids are
  between companies and a reply to a bid comes from one of them, so a recipient
  worked out earlier is still the right one (`EventsFit`). `JobsEndTold`, the safety half
  of `EventIsNotified`: no step takes a job out of the queue unless its notification
  is written or its subject gone (`WrittenIsTold`: a job past its INSERT has its row).
* `AssignmentTypeCorrect`, `DriversAreInOnePlace`: what a request checked may be
  out of date; the proof needs only that its row exists, the rest is the
  statement. That the service looks for exactly what the database refuses is
  arithmetic (`OverlapIsArithmetic`).
* `OperationsImplementParts`: a behaviour of `MCOperations` is one of each of its five
  components, fairness of the notification worker included; so each of the
  theorems above holds of the composition, and `OperationsTypeCorrect`
  (`OperationsTypeOK`) follows from the five type theorems.

Only model-checked: liveness (`PaidIsGranted`, `StrandedBidsAreClosed`,
`PlanIsReconciled`, `EventIsNotified`), which is out of the prover's reach, as is
ENABLED. Of `PaidIsGranted` and `EventIsNotified` the safety half is proved: nothing
is dropped, and what remains is that those who hold it go on. No module uses a
RECURSIVE operator.

## 5. Findings

* Without the queue an event delivered twice at the same time is credited twice
  (`purchase_inline`).
* A manual reduction can take a wallet below zero (`wallet_adjust`).
* Overlapping requests leave a contract on a bid that is withdrawn or rejected,
  on a post that is archived, or at a price the bid no longer has
  (`marketplace_race`).
* Two handlers of one company, or one and the downgrade job, leave two current
  subscriptions; the unique index that would have refused the second was dropped
  by a migration (`subscription_race`).

* An ad that is hidden and published again is charged again, and one that two
  overlapping requests publish is charged twice, although the API documentation
  charges the first publication only (`publishing_again`).

Two more contradict the repository's own words and have no run, because the
models have them as plain steps:

* A post is written as OPEN before it is paid. Where the plan's active posts are
  used up and the wallet is empty, the request ends with 402 INSUFFICIENT_CREDITS and the
  post stays open. `tests/integration/postUsageLimits.spec.ts:172-173` expects
  403 USAGE_LIMIT_REACHED for the metric ACTIVE_POSTS, and
  `docs/contracts/api/marketplace-operations.md:50` says that usage limits apply to
  active post creation. `SpendCredits` counts the bill as `unpaid`.
* Two boosts that overlap both extend from the `promotedUntil` they read and
  count as one, for two payments; `docs/contracts/api/route-marketplace.md:55` says
  that a boost extends from the current one. `BoostsArePaid` is the bound that is left.

What the models show and nothing in the repository promises otherwise is not a
finding: a paid boost may be lost with its request, two invites accepted together
exceed the seats, a cancel and a revert that overlap may leave the answer Stripe
gave first until its next event (and `CancelAgreesWithStripe` says that only this,
and a plan that changed in between, does), an older event handled late wins, a
verification job that failed for good keeps its id, a notification is lost between
the commit and the queue. These stand among the hazards of `PROJECT.json`.

## 6. Not modelled

Amounts of money, currencies, texts and dates are data the properties do not
tell apart. Authorisation (who may call what) is a set of equality checks
against the caller and is left out, but for the sides of a thread and the
scope of an inbox. Job-seeker tables are modelled together with company tables.

* Contract times (`updateTimeline`): dates that nothing else is
  decided on; the stale check in it is a hazard without a property.
* Boosts of bids: as of posts, in `Publishing`, with the credits first. The activity list of a bid.
* Edits of contents of posts, listings and vehicles; the unique review of a
  contract and its rating.
* Invoice events (history rows only), the billing portal, roles, the phone
  channel of one-time passwords, tokens and their signatures, rate limits.
* Documents, licenses, routes, locations and geo, plans, billing history,
  localization, audit log, the HTTP shell: CRUD, read-only lists and wiring;
  each with its reason in `PROJECT.json`.

## 7. Plan

1. *Done*: wallets, delivery, purchase, marketplace.
2. *Done*: publishing, applications, subscriptions, accounts, verification,
   notifications, assignments.
3. *Done*: the safety invariants, the action properties and the refinements of
   `CreditLedger`, `CompanyPlan` and `RouteDeals` proved.
4. Left: safety halves of `PlanIsReconciled` and `StrandedBidsAreClosed` (who is
   responsible for a copy that is behind, for a bid that waits); an abstract
   specification of the metered components; contract times, with two overlapping
   updates; bid boosts.
