--------------------------- MODULE Subscriptions ---------------------------
(***************************************************************************)
(* The plan of one company: the Subscription rows, the copy of the plan on *)
(* the company, and everything that writes them: Stripe's lifecycle events,*)
(* the jobs that downgrade and reconcile, and the requests that cancel or  *)
(* revert.  Plan and status are written together everywhere (FREE with     *)
(* FREE, PRO with the rest), so a status stands for both.                  *)
(*                                                                         *)
(* A transaction is a read of committed rows per statement and one commit. *)
(* The rows an UPDATE has touched are locked until then (held).  Invoice    *)
(* events only add a row to the billing history and are left out.          *)
(***************************************************************************)
EXTENDS Integers, Sequences, FiniteSets

CONSTANTS
    Sub,        \* Stripe subscriptions, and the checkout sessions they come from
    FreeRow,    \* rows of the FREE plan; registration takes one
    Slot,       \* handlers and job runs that may be under way at a time
    Request,    \* cancel and revert requests
    FirstRow,   \* the row of the registration
    NoRow,
    MaxEvents   \* bound: events Stripe emits

ASSUME SubscriptionAssumption ==
    /\ FirstRow \in FreeRow
    /\ NoRow \notin Sub \cup FreeRow
    /\ Sub \cap FreeRow = {}
    /\ IsFiniteSet(Sub) /\ IsFiniteSet(FreeRow)
    /\ MaxEvents \in Nat

VARIABLES
    row,        \* Subscription rows
    company,    \* plan and status on the company row
    checkout,   \* CheckoutSession rows
    billed,     \* events with a BillingEvent row
    handler,    \* what each slot is doing
    sweep,      \* statuses the reconcile run has still to write
    request,    \* cancel and revert requests in progress
    stripe,     \* Stripe's subscriptions
    events,     \* what Stripe has emitted, oldest first
    ordered     \* whether every event so far was handled after all older ones

subscriptionVars == <<row, company, checkout, billed, handler, sweep, request,
                      stripe, events, ordered>>

RowId == Sub \cup FreeRow
StripeStatus == {"ACTIVE", "UNPAID", "CANCELED"}
Status == StripeStatus \cup {"FREE"}
EventType == {"checkout", "updated", "deleted"}

\* In a row, astray is history: whether a request wrote its cancel that had not
\* got this answer from Stripe for this row, or not as the last one.
Absent == [status |-> "NONE", cancel |-> FALSE, current |-> FALSE, astray |-> FALSE]
FreePlan == [status |-> "FREE", cancel |-> FALSE, current |-> TRUE, astray |-> FALSE]

Idle == [pc |-> "idle", event |-> 0, target |-> {}, held |-> {}, found |-> FALSE, todo |-> 0]
\* In a request, overtaken is history: whether another request has told Stripe the
\* opposite since this one did.
NoRequest == [pc |-> "idle", row |-> NoRow, cancel |-> FALSE, overtaken |-> FALSE]

SubscriptionTypeOK ==
    /\ row \in [RowId -> [status : Status \cup {"NONE"}, cancel : BOOLEAN,
                          current : BOOLEAN, astray : BOOLEAN]]
    /\ company \in Status
    /\ checkout \in [Sub -> {"NONE", "CREATED", "COMPLETED", "EXPIRED"}]
    /\ billed \subseteq 1 .. MaxEvents
    /\ handler \in [Slot ->
         [pc : {"idle", "read", "lock", "clear", "commit", "scan", "free", "bill", "mark"},
          event : 0 .. MaxEvents, target : SUBSET RowId, held : SUBSET RowId,
          found : BOOLEAN, todo : Nat]]
    /\ sweep \subseteq Status
    /\ request \in [Request ->
         [pc : {"idle", "stripe", "write", "done"}, row : RowId \cup {NoRow},
          cancel : BOOLEAN, overtaken : BOOLEAN]]
    /\ stripe \in [Sub -> [status : StripeStatus \cup {"NONE"}, cancel : BOOLEAN]]
    /\ Len(events) <= MaxEvents
    /\ \A n \in DOMAIN events :
         events[n] \in [sub : Sub, type : EventType, status : StripeStatus, cancel : BOOLEAN]
    /\ ordered \in BOOLEAN

\* A company is registered with a FREE row.
SubscriptionInit ==
    /\ row = [r \in RowId |-> IF r = FirstRow THEN FreePlan ELSE Absent]
    /\ company = "FREE"
    /\ checkout = [b \in Sub |-> "NONE"]
    /\ billed = {}
    /\ handler = [s \in Slot |-> Idle]
    /\ sweep = {}
    /\ request = [q \in Request |-> NoRequest]
    /\ stripe = [b \in Sub |-> [status |-> "NONE", cancel |-> FALSE]]
    /\ events = <<>>
    /\ ordered = TRUE

Exists(r) == row[r].status # "NONE"
CurrentRows == {r \in RowId : row[r].current}
HeldByOthers(s) == UNION {handler[t].held : t \in Slot \ {s}}
HeldByAny == UNION {handler[t].held : t \in Slot}

-----------------------------------------------------------------------------
(* Stripe.                                                                 *)

EventOf(b, type, status, cancel) ==
    [sub |-> b, type |-> type, status |-> status, cancel |-> cancel]

Emit(e) ==
    /\ Len(events) < MaxEvents
    /\ events' = Append(events, e)

StripeOnly == UNCHANGED <<row, company, checkout, billed, handler, sweep, request, ordered>>

\* The customer pays at the checkout page.
Subscribe(b) ==
    /\ checkout[b] = "CREATED"
    /\ stripe[b].status = "NONE"
    /\ stripe' = [stripe EXCEPT ![b].status = "ACTIVE"]
    /\ Emit(EventOf(b, "updated", "ACTIVE", FALSE))
    /\ StripeOnly

CompleteCheckout(b) ==
    /\ stripe[b].status # "NONE"
    /\ \A n \in DOMAIN events : events[n].sub = b => events[n].type # "checkout"
    /\ Emit(EventOf(b, "checkout", "ACTIVE", FALSE))
    /\ StripeOnly /\ UNCHANGED stripe

\* A renewal fails, or is paid at last.
Change(b) ==
    /\ \/ stripe[b].status = "ACTIVE" /\ stripe' = [stripe EXCEPT ![b].status = "UNPAID"]
       \/ stripe[b].status = "UNPAID" /\ stripe' = [stripe EXCEPT ![b].status = "ACTIVE"]
    /\ Emit(EventOf(b, "updated", stripe'[b].status, stripe[b].cancel))
    /\ StripeOnly

End(b) ==
    /\ stripe[b].status \in {"ACTIVE", "UNPAID"}
    /\ stripe' = [stripe EXCEPT ![b].status = "CANCELED"]
    /\ Emit(EventOf(b, "deleted", "CANCELED", stripe[b].cancel))
    /\ StripeOnly

-----------------------------------------------------------------------------
(* Checkout requests.                                                      *)

CheckoutOnly == UNCHANGED <<row, company, billed, handler, sweep, request, stripe,
                            events, ordered>>

\* The Stripe session, then its row, then the URL: a session without a row is
\* not known to anyone who could pay.
CreateCheckoutSession(b) ==
    /\ checkout[b] = "NONE"
    /\ checkout' = [checkout EXCEPT ![b] = "CREATED"]
    /\ CheckoutOnly

\* The nightly job; a session that was paid may still be CREATED.
ExpireStaleCheckouts(due) ==
    /\ due # {} /\ \A b \in due : checkout[b] = "CREATED"
    /\ checkout' = [b \in Sub |-> IF b \in due THEN "EXPIRED" ELSE checkout[b]]
    /\ CheckoutOnly

-----------------------------------------------------------------------------
(* Handling an event.  The queue runs one handler per event at a time and  *)
(* may hand it out again until its BillingEvent row exists.                *)

HandlerOnly == UNCHANGED <<row, company, checkout, billed, sweep, request, stripe,
                           events, ordered>>

Goto(s, h) == handler' = [handler EXCEPT ![s] = h]
MyEvent(s) == events[handler[s].event]

FirstStep(type) ==
    CASE type = "updated" -> "read"
      [] type = "deleted" -> "scan"
      [] type = "checkout" -> "bill"

StartEvent(s, n) ==
    /\ handler[s] = Idle
    /\ n \in DOMAIN events \ billed
    /\ \A t \in Slot : handler[t].event # n
    /\ ordered' = (ordered /\ 1 .. n - 1 \subseteq billed)
    /\ Goto(s, [Idle EXCEPT !.pc = FirstStep(events[n].type), !.event = n, !.todo = 1])
    /\ UNCHANGED <<row, company, checkout, billed, sweep, request, stripe, events>>

\* upsertCurrentSubscription: findFirst takes the row updated last; which of
\* several current rows that is, is left open.
ReadCurrent(s) ==
    /\ handler[s].pc = "read"
    /\ LET b == MyEvent(s).sub
       IN  \E c \in IF CurrentRows = {} THEN {NoRow} ELSE CurrentRows :
             Goto(s, [handler[s] EXCEPT
                        !.pc = "lock",
                        !.target = IF c = b THEN {} ELSE CurrentRows,
                        !.found = Exists(b)])
    /\ HandlerOnly

\* Its first two UPDATEs (or the INSERT) get their locks.
LockRows(s) ==
    /\ handler[s].pc = "lock"
    /\ LET rows == handler[s].target \cup {MyEvent(s).sub}
       IN  /\ rows \cap HeldByOthers(s) = {}
           /\ handler[s].found = Exists(MyEvent(s).sub)
           /\ Goto(s, [handler[s] EXCEPT !.pc = "clear", !.held = rows])
    /\ HandlerOnly

\* The last UPDATE looks for other current rows once more.
FindOthers(s) ==
    /\ handler[s].pc = "clear"
    /\ Goto(s, [handler[s] EXCEPT !.pc = "commit",
                                  !.target = CurrentRows \ {MyEvent(s).sub}])
    /\ HandlerOnly

WriteUpsert(s, cleared) ==
    LET e == MyEvent(s)
    IN  /\ row' = [r \in RowId |->
            IF r = e.sub
            THEN [status |-> e.status, cancel |-> e.cancel, current |-> TRUE, astray |-> FALSE]
            ELSE IF r \in cleared THEN [row[r] EXCEPT !.current = FALSE]
            ELSE row[r]]
        /\ company' = e.status

CommitUpsertStep(s) ==
    /\ handler[s].pc = "commit"
    /\ handler[s].target \cap HeldByOthers(s) = {}
    /\ Goto(s, [handler[s] EXCEPT !.pc = "bill", !.target = {}, !.held = {}])
    /\ UNCHANGED <<checkout, billed, sweep, request, stripe, events, ordered>>

\* MUTANT of CommitUpsert: the current rows are not cleared.
CommitUpsertOnly(s) == CommitUpsertStep(s) /\ WriteUpsert(s, {})

\* MUTANT of CommitUpsert: the UPDATE of a known row leaves isCurrent alone.
CommitUpsertKeepFlag(s) ==
    /\ CommitUpsertStep(s)
    /\ LET e == MyEvent(s)
       IN  row' = [r \in RowId |->
             IF r = e.sub
             THEN [status |-> e.status, cancel |-> e.cancel,
                   current |-> row[r].current \/ ~Exists(r), astray |-> FALSE]
             ELSE IF r \in handler[s].held \cup handler[s].target
             THEN [row[r] EXCEPT !.current = FALSE] ELSE row[r]]
    /\ company' = MyEvent(s).status

CommitUpsert(s) ==
    CommitUpsertStep(s) /\ WriteUpsert(s, handler[s].held \cup handler[s].target)

-----------------------------------------------------------------------------
(* downgradeCompanyToFree, by an event or by the job.                      *)

\* MUTANT of ScanExpired: the status of the row is not looked at.
ScanExpiredAny(s) ==
    /\ handler[s] = Idle
    /\ CurrentRows # {}
    /\ Goto(s, [Idle EXCEPT !.pc = "scan", !.todo = Cardinality(CurrentRows)])
    /\ HandlerOnly

\* The hourly job picks current rows that ended unpaid; time is left open.
ScanExpired(s) ==
    LET expired == {r \in CurrentRows : row[r].status \in {"CANCELED", "UNPAID"}}
    IN  /\ handler[s] = Idle
        /\ expired # {}
        /\ Goto(s, [Idle EXCEPT !.pc = "scan", !.todo = Cardinality(expired)])
        /\ HandlerOnly

FindCurrent(s) ==
    /\ handler[s].pc = "scan"
    /\ Goto(s, [handler[s] EXCEPT !.pc = "free", !.target = CurrentRows])
    /\ HandlerOnly

CommitDowngradeStep(s) ==
    /\ handler[s].pc = "free"
    /\ handler[s].target \cap HeldByOthers(s) = {}
    /\ company' = "FREE"
    /\ Goto(s, IF handler[s].event # 0 THEN [handler[s] EXCEPT !.pc = "bill", !.target = {}]
               ELSE IF handler[s].todo > 1
               THEN [handler[s] EXCEPT !.pc = "scan", !.target = {}, !.todo = @ - 1]
               ELSE Idle)
    /\ UNCHANGED <<checkout, billed, sweep, request, stripe, events, ordered>>

\* MUTANT of CommitDowngrade: the company is downgraded without a new row.
CommitDowngradeBare(s) ==
    /\ CommitDowngradeStep(s)
    /\ row' = [r \in RowId |->
         IF r \in handler[s].target THEN [row[r] EXCEPT !.current = FALSE] ELSE row[r]]

\* MUTANT of CommitDowngrade: the loop over what was read does not end.
CommitDowngradeOn(s) ==
    /\ handler[s].pc = "free"
    /\ \E f \in FreeRow : ~Exists(f) /\ row' = [row EXCEPT ![f] = FreePlan]
    /\ company' = "FREE"
    /\ Goto(s, [handler[s] EXCEPT !.pc = "scan", !.target = {}, !.todo = @ - 1])
    /\ UNCHANGED <<checkout, billed, sweep, request, stripe, events, ordered>>

CommitDowngrade(s) ==
    /\ CommitDowngradeStep(s)
    /\ \E f \in FreeRow : ~Exists(f)
    /\ LET f == CHOOSE f \in FreeRow : ~Exists(f)
       IN  row' = [r \in RowId |->
              IF r = f THEN FreePlan
              ELSE IF r \in handler[s].target THEN [row[r] EXCEPT !.current = FALSE]
              ELSE row[r]]

-----------------------------------------------------------------------------
(* The end of a handler.                                                   *)

\* persistBillingEvent: after the change, but before it for a checkout.
PersistBillingEvent(s) ==
    /\ handler[s].pc = "bill"
    /\ billed' = billed \cup {handler[s].event}
    /\ Goto(s, IF MyEvent(s).type = "checkout" THEN [handler[s] EXCEPT !.pc = "mark"] ELSE Idle)
    /\ UNCHANGED <<row, company, checkout, sweep, request, stripe, events, ordered>>

MarkCheckoutCompleted(s) ==
    /\ handler[s].pc = "mark"
    /\ checkout' = [checkout EXCEPT ![MyEvent(s).sub] = "COMPLETED"]
    /\ Goto(s, Idle)
    /\ UNCHANGED <<row, company, billed, sweep, request, stripe, events, ordered>>

\* An error or a dead process: the transaction is rolled back.
FailHandler(s) ==
    /\ handler[s] # Idle
    /\ Goto(s, Idle)
    /\ UNCHANGED <<row, company, checkout, billed, sweep, request, stripe, events, ordered>>

-----------------------------------------------------------------------------
(* The reconcile job.                                                      *)

ReconcileScan ==
    /\ sweep = {}
    /\ sweep' = {row[r].status : r \in CurrentRows}
    /\ UNCHANGED <<row, company, checkout, billed, handler, request, stripe, events, ordered>>

\* MUTANT of ReconcileWrite: rows of the FREE plan are left out.
ReconcileWritePaid(st) ==
    /\ st \in sweep
    /\ sweep' = sweep \ {st}
    /\ company' = IF st = "FREE" THEN company ELSE st
    /\ UNCHANGED <<row, checkout, billed, handler, request, stripe, events, ordered>>

\* One updateMany per row that was read; a company that agrees is left alone.
ReconcileWrite(st) ==
    /\ st \in sweep
    /\ sweep' = sweep \ {st}
    /\ company' = st
    /\ UNCHANGED <<row, checkout, billed, handler, request, stripe, events, ordered>>

-----------------------------------------------------------------------------
(* POST /subscriptions/cancel-at-period-end and /cancel-revert.            *)

RequestOnly == UNCHANGED <<company, checkout, billed, handler, sweep, ordered>>

BeginCancel(q, cancel) ==
    /\ request[q] = NoRequest
    /\ \E c \in CurrentRows :
         request' = [request EXCEPT ![q] =
             [NoRequest EXCEPT !.pc = IF c \in Sub THEN "stripe" ELSE "write",
                               !.row = c, !.cancel = cancel]]
    /\ UNCHANGED <<row, stripe, events>> /\ RequestOnly

\* Stripe refuses to update a subscription that has ended.
UpdateAtStripe(q) ==
    /\ request[q].pc = "stripe"
    /\ LET b == request[q].row
           v == request[q].cancel
       IN  /\ stripe[b].status \in {"ACTIVE", "UNPAID"}
           /\ IF stripe[b].cancel = v THEN UNCHANGED <<stripe, events>>
              ELSE /\ stripe' = [stripe EXCEPT ![b].cancel = v]
                   /\ Emit(EventOf(b, "updated", stripe[b].status, v))
           /\ request' = [p \in Request |->
                IF p = q THEN [request[p] EXCEPT !.pc = "write"]
                ELSE [request[p] EXCEPT !.overtaken = @ \/ (/\ request[p].pc = "write"
                                                          /\ request[p].row = b
                                                          /\ request[p].cancel # v)]]
    /\ UNCHANGED row /\ RequestOnly

\* The current row is looked up again, and need not be the one of before.
WriteRow(q, value) ==
    /\ request[q].pc = "write"
    /\ \E c \in CurrentRows \ HeldByAny :
         row' = [row EXCEPT ![c].cancel = value,
                            ![c].astray = request[q].row # c \/ request[q].overtaken]
    /\ request' = [request EXCEPT ![q].pc = "done"]
    /\ UNCHANGED <<stripe, events>> /\ RequestOnly

\* MUTANT of WriteCancel: the flag is set whatever was asked.
WriteCancelTrue(q) == WriteRow(q, TRUE)

WriteCancel(q) == WriteRow(q, request[q].cancel)

DropRequest(q) ==
    /\ request[q].pc \notin {"idle", "done"}
    /\ request' = [request EXCEPT ![q].pc = "done"]
    /\ UNCHANGED <<row, stripe, events>> /\ RequestOnly

-----------------------------------------------------------------------------

Handle(s) ==
    \/ \E n \in DOMAIN events : StartEvent(s, n)
    \/ ReadCurrent(s) \/ LockRows(s) \/ FindOthers(s) \/ CommitUpsert(s)
    \/ ScanExpired(s) \/ FindCurrent(s) \/ CommitDowngrade(s)
    \/ PersistBillingEvent(s) \/ MarkCheckoutCompleted(s) \/ FailHandler(s)

Reconcile == ReconcileScan \/ \E st \in sweep : ReconcileWrite(st)

CancelRequest(q) ==
    \/ \E v \in BOOLEAN : BeginCancel(q, v)
    \/ UpdateAtStripe(q) \/ WriteCancel(q) \/ DropRequest(q)

SubscriptionNext ==
    \/ \E b \in Sub : Subscribe(b) \/ CompleteCheckout(b) \/ Change(b) \/ End(b)
    \/ \E b \in Sub : CreateCheckoutSession(b)
    \/ \E due \in SUBSET Sub : ExpireStaleCheckouts(due)
    \/ \E s \in Slot : Handle(s)
    \/ Reconcile
    \/ \E q \in Request : CancelRequest(q)

SubscriptionSpec == SubscriptionInit /\ [][SubscriptionNext]_subscriptionVars

\* node-cron runs the reconcile job every half hour.
FairSubscriptionSpec == SubscriptionSpec /\ WF_subscriptionVars(Reconcile)

-----------------------------------------------------------------------------
(* Properties.                                                             *)

\* A company is never without a current subscription, so cancel, revert and
\* GET /subscriptions/me always find one.
AlwaysSubscribed == CurrentRows # {}

\* A company has one current subscription ("keeps a single current
\* subscription").
SingleCurrent == Cardinality(CurrentRows) <= 1

Settled == DOMAIN events \subseteq billed /\ \A s \in Slot : handler[s] = Idle

Lifecycle == {n \in DOMAIN events : events[n].type \in {"updated", "deleted"}}

\* If Stripe's events were handled in order, then once all are handled the current
\* subscription is what the newest one says; an unpaid one may have been
\* replaced by the FREE plan meanwhile.
CurrentFollowsStripe ==
    ordered /\ Settled /\ Lifecycle # {} =>
        LET e == events[CHOOSE n \in Lifecycle : \A m \in Lifecycle : m <= n]
            Free == \E f \in FreeRow : CurrentRows = {f}
        IN  IF e.type = "deleted" THEN Free
            ELSE \/ CurrentRows = {e.sub} /\ row[e.sub].status = e.status
                 \/ e.status = "UNPAID" /\ Free

\* However many cancel and revert requests overlap each other, the events and the
\* jobs, and wherever one is dropped: when the events were handled in order and
\* all are handled, the row of every subscription, current or not, says what
\* Stripe says of its cancellation.  The code has two ways to leave another answer,
\* and they are all there are: the request had found another row current than
\* the one it wrote (the plan changed in between), or Stripe was told the opposite
\* between this request's call and its write.  A row written so is astray until
\* the next event about the subscription, or a request that is neither.
CancelAgreesWithStripe ==
    ordered /\ Settled =>
        \A b \in Sub : Exists(b) /\ ~row[b].astray => row[b].cancel = stripe[b].cancel

\* Whatever a stale reconcile run wrote, when handlers no longer fail the
\* company's plan ends up, and stays, that of its current subscription.
PlanIsReconciled ==
    <>[][\A s \in Slot : ~FailHandler(s)]_subscriptionVars
        => <>[](\A r \in CurrentRows : company = row[r].status)

\* The plan the rows amount to.
CurrentPlan ==
    IF CurrentRows \cap Sub = {} THEN [sub |-> NoRow, status |-> "FREE"]
    ELSE LET b == CHOOSE b \in CurrentRows \cap Sub : TRUE
         IN  [sub |-> b, status |-> row[b].status]

\* The whole of it, with failed and repeated handlers and the jobs next to them,
\* implements what a company is promised: CompanyPlan.
Promise == INSTANCE CompanyPlan WITH
    NoSub <- NoRow, plan <- CurrentPlan, announced <- events, acknowledged <- billed

ImplementsPlan == Promise!PlanSpec
=============================================================================
