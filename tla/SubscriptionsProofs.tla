-------------------------- MODULE SubscriptionsProofs --------------------------
(***************************************************************************)
(* Proofs about Subscriptions, for any number of Stripe subscriptions,     *)
(* rows, handlers, requests and events.                                    *)
(*                                                                         *)
(* SubscriptionInv is the type with what a handler relies on when it looks *)
(* its event up: the event is one that Stripe has emitted.  That there is  *)
(* a current subscription holds however handlers interleave; the rest is   *)
(* shown for one handler at a time, where what it found current is all     *)
(* there is when it commits: that there is only one, that the rows follow  *)
(* Stripe's events when these are handled in order (TrackInv), that cancel *)
(* requests leave Stripe's answer (CancelInv), and that the whole          *)
(* implements CompanyPlan (AckInv).                                        *)
(***************************************************************************)
EXTENDS Subscriptions, FiniteSetTheorems, SequenceTheorems, WellFoundedInduction,
        TLAPS

EventRow == [sub : Sub, type : EventType, status : StripeStatus, cancel : BOOLEAN]
Pc == {"idle", "read", "lock", "clear", "commit", "scan", "free", "bill", "mark"}
HandlerRow == [pc : Pc, event : 0 .. MaxEvents, target : SUBSET RowId, held : SUBSET RowId,
               found : BOOLEAN, todo : Nat]
RequestRow == [pc : {"idle", "stripe", "write", "done"}, row : RowId \cup {NoRow},
               cancel : BOOLEAN, overtaken : BOOLEAN]

RowsOK ==
    /\ row \in [RowId -> [status : Status \cup {"NONE"}, cancel : BOOLEAN,
                          current : BOOLEAN, astray : BOOLEAN]]
    /\ \A r \in CurrentRows : Exists(r)

StripeOK ==
    /\ stripe \in [Sub -> [status : StripeStatus \cup {"NONE"}, cancel : BOOLEAN]]
    /\ events \in Seq(EventRow) /\ Len(events) <= MaxEvents

\* What a handler carries; an event it handles has been emitted.
Carries(h) ==
    /\ h \in HandlerRow
    /\ h.event # 0 => h.event \in 1 .. Len(events)
    /\ h.pc \in {"read", "lock", "clear", "commit", "bill", "mark"} => h.event # 0

HandlersOK == DOMAIN handler = Slot /\ handler = [s \in Slot |-> handler[s]]
              /\ \A s \in Slot : Carries(handler[s])

RequestsOK ==
    /\ request \in [Request -> RequestRow]
    /\ \A q \in Request : request[q].pc = "stripe" => request[q].row \in Sub

CopiesOK ==
    /\ company \in Status
    /\ checkout \in [Sub -> {"NONE", "CREATED", "COMPLETED", "EXPIRED"}]
    /\ billed \subseteq 1 .. MaxEvents
    /\ sweep \subseteq Status
    /\ ordered \in BOOLEAN

SubscriptionInv == RowsOK /\ StripeOK /\ HandlersOK /\ RequestsOK /\ CopiesOK

-----------------------------------------------------------------------------

LEMMA InvGivesType == SubscriptionInv => SubscriptionTypeOK
<1> SUFFICES ASSUME SubscriptionInv PROVE SubscriptionTypeOK
  OBVIOUS
<1>1. \A n \in DOMAIN events : events[n] \in EventRow
  BY DEF SubscriptionInv, StripeOK
<1>2. handler \in [Slot -> HandlerRow]
  BY DEF SubscriptionInv, HandlersOK, Carries
<1> QED BY <1>1, <1>2 DEF SubscriptionInv, RowsOK, StripeOK, RequestsOK, CopiesOK,
           SubscriptionTypeOK, EventRow, HandlerRow, RequestRow, Pc

LEMMA SubscriptionInitInv == SubscriptionInit => SubscriptionInv
<1> SUFFICES ASSUME SubscriptionInit PROVE SubscriptionInv
  OBVIOUS
<1>1. RowsOK
  BY DEF SubscriptionInit, RowsOK, CurrentRows, Exists, FreePlan, Absent, Status
<1>2. StripeOK
  BY SubscriptionAssumption, EmptySeq DEF SubscriptionInit, StripeOK
<1>3. Idle \in HandlerRow /\ Idle.event = 0 /\ Idle.pc = "idle"
  BY SubscriptionAssumption DEF Idle, HandlerRow, Pc
<1>4. HandlersOK
  BY <1>3 DEF SubscriptionInit, HandlersOK, Carries
<1>5. RequestsOK /\ CopiesOK
  BY DEF SubscriptionInit, RequestsOK, CopiesOK, RequestRow, NoRequest, Status
<1> QED BY <1>1, <1>2, <1>4, <1>5 DEF SubscriptionInv

\* One more event leaves those that are handled where they are.
LEMMA EmitKeeps ==
    ASSUME SubscriptionInv, NEW e \in EventRow, Emit(e)
    PROVE  /\ events' \in Seq(EventRow) /\ Len(events') <= MaxEvents
           /\ handler' = handler => HandlersOK'
<1>1. events' \in Seq(EventRow) /\ Len(events') = Len(events) + 1
  BY AppendProperties DEF SubscriptionInv, StripeOK, Emit
<1>2. Len(events) \in Nat /\ Len(events) < MaxEvents
  BY LenProperties DEF SubscriptionInv, StripeOK, Emit
<1>3. Len(events') <= MaxEvents
  BY <1>1, <1>2, SubscriptionAssumption
<1>4. handler' = handler => HandlersOK'
  BY <1>1, <1>2 DEF SubscriptionInv, HandlersOK, Carries
<1> QED BY <1>1, <1>3, <1>4

LEMMA GotoKeeps ==
    ASSUME SubscriptionInv, NEW s \in Slot, NEW h, Carries(h), Goto(s, h), UNCHANGED events
    PROVE  HandlersOK'
<1>1. \A t \in Slot : handler'[t] = IF t = s THEN h ELSE handler[t]
  BY DEF SubscriptionInv, HandlersOK, Goto
<1>2. DOMAIN handler' = Slot /\ handler' = [t \in Slot |-> handler'[t]]
  BY DEF SubscriptionInv, HandlersOK, Goto
<1> QED BY <1>1, <1>2 DEF SubscriptionInv, HandlersOK, Carries

\* What Stripe has emitted are events.
LEMMA EventTypes ==
    ASSUME SubscriptionInv, NEW n \in DOMAIN events
    PROVE  events[n].type \in EventType
<1>1. n \in 1 .. Len(events)
  BY LenProperties DEF SubscriptionInv, StripeOK
<1>2. events[n] \in EventRow
  BY <1>1, ElementOfSeq DEF SubscriptionInv, StripeOK
<1> QED BY <1>2 DEF EventRow

\* The event of a handler that has one.
LEMMA EventOfHandler ==
    ASSUME SubscriptionInv, NEW s \in Slot, handler[s].event # 0
    PROVE  /\ MyEvent(s) \in EventRow
           /\ MyEvent(s).sub \in Sub /\ MyEvent(s).sub \in RowId
           /\ MyEvent(s).status \in StripeStatus /\ MyEvent(s).cancel \in BOOLEAN
<1>1. handler[s].event \in 1 .. Len(events)
  BY DEF SubscriptionInv, HandlersOK, Carries
<1>2. events[handler[s].event] \in EventRow
  BY <1>1, ElementOfSeq DEF SubscriptionInv, StripeOK
<1> QED BY <1>2 DEF MyEvent, EventRow, RowId

-----------------------------------------------------------------------------
(* Stripe, checkouts and the reconcile job: they leave the rows alone.     *)

LEMMA StripeSteps ==
    ASSUME SubscriptionInv, NEW b \in Sub,
           Subscribe(b) \/ CompleteCheckout(b) \/ Change(b) \/ End(b)
    PROVE  SubscriptionInv' /\ UNCHANGED <<row, handler, billed, ordered>>
<1>1. StripeOnly
  BY DEF Subscribe, CompleteCheckout, Change, End
<1>2. RowsOK' /\ RequestsOK' /\ CopiesOK'
  BY <1>1 DEF SubscriptionInv, StripeOnly, RowsOK, RequestsOK, CopiesOK, CurrentRows, Exists
<1>3. PICK e \in EventRow : Emit(e)
  <2>1. stripe[b].cancel \in BOOLEAN
    BY DEF SubscriptionInv, StripeOK
  <2>2. CASE Subscribe(b)
    BY <2>2 DEF Subscribe, EventOf, EventRow, EventType, StripeStatus
  <2>3. CASE CompleteCheckout(b)
    BY <2>3 DEF CompleteCheckout, EventOf, EventRow, EventType, StripeStatus
  <2>4. CASE Change(b)
    <3>1. stripe'[b].status \in StripeStatus
      BY <2>4 DEF Change, SubscriptionInv, StripeOK, StripeStatus
    <3> QED BY <2>1, <2>4, <3>1 DEF Change, EventOf, EventRow, EventType
  <2>5. CASE End(b)
    BY <2>1, <2>5 DEF End, EventOf, EventRow, EventType, StripeStatus
  <2> QED BY <2>2, <2>3, <2>4, <2>5
<1>4. stripe' \in [Sub -> [status : StripeStatus \cup {"NONE"}, cancel : BOOLEAN]]
  BY DEF SubscriptionInv, StripeOK, Subscribe, CompleteCheckout, Change, End, StripeStatus
<1>5. StripeOK' /\ HandlersOK'
  BY <1>1, <1>3, <1>4, EmitKeeps DEF StripeOK, StripeOnly
<1> QED BY <1>1, <1>2, <1>5 DEF SubscriptionInv, StripeOnly

LEMMA CheckoutSteps ==
    ASSUME SubscriptionInv,
           \/ \E b \in Sub : CreateCheckoutSession(b)
           \/ \E due \in SUBSET Sub : ExpireStaleCheckouts(due)
    PROVE  SubscriptionInv' /\ UNCHANGED <<row, handler, billed, ordered>>
<1>1. CheckoutOnly
  BY DEF CreateCheckoutSession, ExpireStaleCheckouts
<1>2. checkout' \in [Sub -> {"NONE", "CREATED", "COMPLETED", "EXPIRED"}]
  BY DEF SubscriptionInv, CopiesOK, CreateCheckoutSession, ExpireStaleCheckouts
<1> QED BY <1>1, <1>2 DEF CheckoutOnly, SubscriptionInv, RowsOK, StripeOK, HandlersOK, RequestsOK,
           CopiesOK, CurrentRows, Exists, Carries

LEMMA ReconcileSteps ==
    ASSUME SubscriptionInv, Reconcile
    PROVE  SubscriptionInv' /\ UNCHANGED <<row, handler, billed, ordered>>
<1>1. UNCHANGED <<row, checkout, billed, handler, request, stripe, events, ordered>>
  BY DEF Reconcile, ReconcileScan, ReconcileWrite
<1>2. {row[r].status : r \in CurrentRows} \subseteq Status
  BY DEF SubscriptionInv, RowsOK, CurrentRows, Exists, Status
<1>3. company' \in Status /\ sweep' \subseteq Status
  BY <1>2 DEF Reconcile, ReconcileScan, ReconcileWrite, SubscriptionInv, CopiesOK
<1> QED BY <1>1, <1>3 DEF SubscriptionInv, RowsOK, StripeOK, HandlersOK, RequestsOK,
           CopiesOK, CurrentRows, Exists, Carries

-----------------------------------------------------------------------------
(* Cancel and revert: they write neither isCurrent nor the status.         *)

FlagsKept ==
    /\ CurrentRows' = CurrentRows
    /\ \A r \in RowId : row'[r].status = row[r].status

LEMMA CancelSteps ==
    ASSUME SubscriptionInv, NEW q \in Request, CancelRequest(q)
    PROVE  SubscriptionInv' /\ FlagsKept /\ UNCHANGED <<handler, billed, ordered>>
<1>1. RequestOnly
  BY DEF CancelRequest, BeginCancel, UpdateAtStripe, WriteCancel, WriteRow, DropRequest
<1>2. CopiesOK' /\ UNCHANGED <<handler, billed, ordered>>
  BY <1>1 DEF RequestOnly, SubscriptionInv, CopiesOK
<1>3. ASSUME NEW v \in BOOLEAN, BeginCancel(q, v) PROVE SubscriptionInv' /\ FlagsKept
  <2>1. RequestsOK'
    <3>1. PICK c \in CurrentRows : request' = [request EXCEPT ![q] =
             [NoRequest EXCEPT !.pc = IF c \in Sub THEN "stripe" ELSE "write",
                               !.row = c, !.cancel = v]]
      BY <1>3 DEF BeginCancel
    <3> DEFINE n == [NoRequest EXCEPT !.pc = IF c \in Sub THEN "stripe" ELSE "write",
                                      !.row = c, !.cancel = v]
    <3>2. n \in RequestRow /\ (n.pc = "stripe" => n.row \in Sub)
      BY DEF NoRequest, RequestRow, CurrentRows
    <3> HIDE DEF n
    <3>3. \A p \in Request : request'[p] = IF p = q THEN n ELSE request[p]
      BY <3>1 DEF SubscriptionInv, RequestsOK, n
    <3>4. request' \in [Request -> RequestRow]
      BY <3>1, <3>2 DEF SubscriptionInv, RequestsOK, n
    <3> QED BY <3>2, <3>3, <3>4 DEF SubscriptionInv, RequestsOK
  <2> QED BY <1>2, <1>3, <2>1 DEF BeginCancel, SubscriptionInv, RowsOK, StripeOK, HandlersOK,
             CurrentRows, Exists, Carries, FlagsKept
<1>4. CASE UpdateAtStripe(q)
  <2> DEFINE b == request[q].row
             v == request[q].cancel
             e == EventOf(b, "updated", stripe[b].status, v)
  <2>1. b \in Sub /\ v \in BOOLEAN
    BY <1>4 DEF UpdateAtStripe, SubscriptionInv, RequestsOK, RequestRow
  <2>2. e \in EventRow
    BY <1>4, <2>1 DEF UpdateAtStripe, EventOf, EventRow, EventType, StripeStatus
  <2>3. UNCHANGED events \/ Emit(e)
    BY <1>4 DEF UpdateAtStripe
  <2>4. stripe' \in [Sub -> [status : StripeStatus \cup {"NONE"}, cancel : BOOLEAN]]
    BY <1>4, <2>1 DEF UpdateAtStripe, SubscriptionInv, StripeOK
  <2>5. StripeOK' /\ HandlersOK'
    <3> HIDE DEF e
    <3>1. CASE UNCHANGED events
      BY <1>2, <2>4, <3>1 DEF SubscriptionInv, StripeOK, HandlersOK, Carries
    <3>2. CASE Emit(e)
      BY <1>2, <2>2, <2>4, <3>2, EmitKeeps DEF StripeOK
    <3> QED BY <2>3, <3>1, <3>2
  <2>6. RequestsOK'
    BY <1>4 DEF UpdateAtStripe, SubscriptionInv, RequestsOK, RequestRow
  <2>7. RowsOK' /\ FlagsKept
    BY <1>4 DEF UpdateAtStripe, SubscriptionInv, RowsOK, CurrentRows, Exists, FlagsKept
  <2> QED BY <1>2, <2>5, <2>6, <2>7 DEF SubscriptionInv
<1>5. CASE WriteCancel(q)
  <2>1. RequestsOK' /\ request[q].cancel \in BOOLEAN
    BY <1>5 DEF WriteCancel, WriteRow, SubscriptionInv, RequestsOK, RequestRow
  <2>2. PICK c \in CurrentRows :
          row' = [row EXCEPT ![c].cancel = request[q].cancel,
                             ![c].astray = request[q].row # c \/ request[q].overtaken]
    BY <1>5 DEF WriteCancel, WriteRow
  <2>3. /\ row' \in [RowId -> [status : Status \cup {"NONE"}, cancel : BOOLEAN,
                          current : BOOLEAN, astray : BOOLEAN]]
        /\ \A r \in RowId : row'[r].current = row[r].current /\ row'[r].status = row[r].status
    <3>1. (request[q].row # c \/ request[q].overtaken) \in BOOLEAN
      BY <1>5 DEF WriteCancel, SubscriptionInv, RequestsOK, RequestRow
    <3> QED BY <2>1, <2>2, <3>1 DEF SubscriptionInv, RowsOK
  <2>4. RowsOK' /\ FlagsKept
    BY <2>3 DEF SubscriptionInv, RowsOK, CurrentRows, Exists, FlagsKept
  <2> QED BY <1>2, <1>5, <2>1, <2>4 DEF WriteCancel, WriteRow, SubscriptionInv, StripeOK, HandlersOK, Carries
<1>6. CASE DropRequest(q)
  <2>1. RequestsOK'
    BY <1>6 DEF DropRequest, SubscriptionInv, RequestsOK, RequestRow
  <2> QED BY <1>2, <1>6, <2>1 DEF DropRequest, SubscriptionInv, RowsOK, StripeOK, HandlersOK,
             CurrentRows, Exists, Carries, FlagsKept
<1> QED BY <1>2, <1>3, <1>4, <1>5, <1>6 DEF CancelRequest

-----------------------------------------------------------------------------
(* Handlers.                                                               *)

\* Steps of a handler that write no Subscription row.
QuietStep(s) ==
    \/ \E n \in DOMAIN events : StartEvent(s, n)
    \/ ReadCurrent(s) \/ LockRows(s) \/ FindOthers(s) \/ ScanExpired(s) \/ FindCurrent(s)
    \/ PersistBillingEvent(s) \/ MarkCheckoutCompleted(s) \/ FailHandler(s)

LEMMA QuietSteps ==
    ASSUME SubscriptionInv, NEW s \in Slot, QuietStep(s)
    PROVE  SubscriptionInv' /\ UNCHANGED row
<1> DEFINE h == handler[s]
<1>1. UNCHANGED <<row, company, sweep, request, stripe, events>>
  BY DEF QuietStep, HandlerOnly, StartEvent, ReadCurrent, LockRows, FindOthers, ScanExpired,
         FindCurrent, PersistBillingEvent, MarkCheckoutCompleted, FailHandler
<1>2. Carries(h) /\ h \in HandlerRow
  BY DEF SubscriptionInv, HandlersOK, Carries
<1>3. Carries(Idle) /\ CurrentRows \subseteq RowId
  BY SubscriptionAssumption DEF Carries, Idle, HandlerRow, Pc, CurrentRows
<1>4. checkout' \in [Sub -> {"NONE", "CREATED", "COMPLETED", "EXPIRED"}]
  <2>1. CASE MarkCheckoutCompleted(s)
    BY <2>1 DEF MarkCheckoutCompleted, SubscriptionInv, CopiesOK
  <2>2. CASE ~MarkCheckoutCompleted(s)
    BY <2>2 DEF QuietStep, HandlerOnly, StartEvent, ReadCurrent, LockRows, FindOthers,
       ScanExpired, FindCurrent, PersistBillingEvent, FailHandler, SubscriptionInv, CopiesOK
  <2> QED BY <2>1, <2>2
<1>5. billed' \subseteq 1 .. MaxEvents
  <2>1. CASE PersistBillingEvent(s)
    <3>1. h.event \in 1 .. Len(events) /\ Len(events) \in Nat /\ Len(events) <= MaxEvents
      BY <1>2, <2>1, LenProperties DEF Carries, PersistBillingEvent, SubscriptionInv, StripeOK
    <3> QED BY <2>1, <3>1, SubscriptionAssumption DEF PersistBillingEvent, SubscriptionInv, CopiesOK
  <2>2. CASE ~PersistBillingEvent(s)
    BY <2>2 DEF QuietStep, HandlerOnly, StartEvent, ReadCurrent, LockRows, FindOthers,
       ScanExpired, FindCurrent, MarkCheckoutCompleted, FailHandler, SubscriptionInv, CopiesOK
  <2> QED BY <2>1, <2>2
<1>6. ordered' \in BOOLEAN
  BY DEF QuietStep, HandlerOnly, StartEvent, ReadCurrent, LockRows, FindOthers, ScanExpired,
         FindCurrent, PersistBillingEvent, MarkCheckoutCompleted, FailHandler, SubscriptionInv,
         CopiesOK
<1>7. \E g : Carries(g) /\ Goto(s, g)
  <2> USE <1>2, <1>3 DEF HandlerRow, Pc, Carries
  <2>1. ASSUME NEW n \in DOMAIN events, StartEvent(s, n) PROVE \E g : Carries(g) /\ Goto(s, g)
    <3> DEFINE g == [Idle EXCEPT !.pc = FirstStep(events[n].type), !.event = n, !.todo = 1]
    <3>1. n \in 1 .. Len(events) /\ n # 0 /\ n \in 0 .. MaxEvents
      BY LenProperties, SubscriptionAssumption DEF SubscriptionInv, StripeOK
    <3>2. FirstStep(events[n].type) \in {"read", "scan", "bill"}
      <4>1. events[n].type \in EventType
        BY EventTypes
      <4> QED BY <4>1 DEF FirstStep, EventType
    <3>3. Carries(g)
      BY <3>1, <3>2 DEF Idle
    <3> QED BY <2>1, <3>3 DEF StartEvent
  <2>2. CASE ReadCurrent(s)
    <3>1. PICK T \in SUBSET RowId, f \in BOOLEAN :
            Goto(s, [h EXCEPT !.pc = "lock", !.target = T, !.found = f])
      BY <2>2 DEF ReadCurrent, Exists
    <3>2. h.pc = "read"
      BY <2>2 DEF ReadCurrent
    <3>3. Carries([h EXCEPT !.pc = "lock", !.target = T, !.found = f])
      BY <3>2
    <3> QED BY <3>1, <3>3
  <2>3. CASE LockRows(s)
    <3> DEFINE g == [h EXCEPT !.pc = "clear", !.held = h.target \cup {MyEvent(s).sub}]
    <3>1. MyEvent(s).sub \in RowId
      BY <2>3, EventOfHandler DEF LockRows
    <3>2. Carries(g)
      BY <2>3, <3>1 DEF LockRows
    <3> QED BY <2>3, <3>2 DEF LockRows
  <2>4. CASE FindOthers(s)
    <3> DEFINE g == [h EXCEPT !.pc = "commit", !.target = CurrentRows \ {MyEvent(s).sub}]
    <3>1. Carries(g)
      BY <2>4 DEF FindOthers
    <3> QED BY <2>4, <3>1 DEF FindOthers
  <2>5. CASE ScanExpired(s)
    <3> DEFINE expired == {r \in CurrentRows : row[r].status \in {"CANCELED", "UNPAID"}}
               g == [Idle EXCEPT !.pc = "scan", !.todo = Cardinality(expired)]
    <3>1. Cardinality(expired) \in Nat
      <4>1. IsFiniteSet(RowId)
        BY SubscriptionAssumption, FS_Union DEF RowId
      <4>2. IsFiniteSet(expired)
        BY <4>1, FS_Subset
      <4> QED BY <4>2, FS_CardinalityType
    <3>2. Carries(g)
      BY <3>1 DEF Idle
    <3> QED BY <2>5, <3>2 DEF ScanExpired
  <2>6. CASE FindCurrent(s)
    <3> DEFINE g == [h EXCEPT !.pc = "free", !.target = CurrentRows]
    <3>1. Carries(g)
      BY <2>6 DEF FindCurrent
    <3> QED BY <2>6, <3>1 DEF FindCurrent
  <2>7. CASE PersistBillingEvent(s)
    <3> DEFINE g == [h EXCEPT !.pc = "mark"]
    <3>1. Carries(g)
      BY <2>7 DEF PersistBillingEvent
    <3> QED BY <2>7, <3>1 DEF PersistBillingEvent
  <2>8. CASE MarkCheckoutCompleted(s) \/ FailHandler(s)
    BY <2>8 DEF MarkCheckoutCompleted, FailHandler
  <2> QED BY <2>1, <2>2, <2>3, <2>4, <2>5, <2>6, <2>7, <2>8 DEF QuietStep
<1>8. HandlersOK'
  BY <1>1, <1>7, GotoKeeps
<1> QED BY <1>1, <1>4, <1>5, <1>6, <1>8 DEF SubscriptionInv, RowsOK, StripeOK, RequestsOK, CopiesOK,
           CurrentRows, Exists

\* An event's subscription becomes the current one.
LEMMA UpsertStep ==
    ASSUME SubscriptionInv, NEW s \in Slot, CommitUpsert(s)
    PROVE  /\ SubscriptionInv'
           /\ MyEvent(s).sub \in RowId
           /\ CurrentRows' = (CurrentRows \ (handler[s].held \cup handler[s].target))
                             \cup {MyEvent(s).sub}
           /\ \A r \in RowId : row'[r].status = IF r = MyEvent(s).sub THEN MyEvent(s).status
                                                ELSE row[r].status
           /\ row'[MyEvent(s).sub].cancel = MyEvent(s).cancel
<1> DEFINE e == MyEvent(s)
           h == handler[s]
           cleared == h.held \cup h.target
           g == [h EXCEPT !.pc = "bill", !.target = {}, !.held = {}]
<1>1. h \in HandlerRow /\ Carries(h) /\ h.event # 0
  BY DEF CommitUpsert, CommitUpsertStep, SubscriptionInv, HandlersOK, Carries
<1>2. e.sub \in RowId /\ e.status \in StripeStatus /\ e.cancel \in BOOLEAN
  BY <1>1, EventOfHandler
<1>3. /\ row' = [r \in RowId |->
            IF r = e.sub
            THEN [status |-> e.status, cancel |-> e.cancel, current |-> TRUE, astray |-> FALSE]
            ELSE IF r \in cleared THEN [row[r] EXCEPT !.current = FALSE]
            ELSE row[r]]
      /\ company' = e.status
      /\ Goto(s, g)
      /\ UNCHANGED <<checkout, billed, sweep, request, stripe, events, ordered>>
  BY DEF CommitUpsert, CommitUpsertStep, WriteUpsert
<1>4. Carries(g)
  BY <1>1 DEF Carries, HandlerRow, Pc
<1>5. HandlersOK'
  <2> HIDE DEF g
  <2> QED BY <1>3, <1>4, GotoKeeps
<1> HIDE DEF g, cleared, e
<1>6. row' \in [RowId -> [status : Status \cup {"NONE"}, cancel : BOOLEAN,
                          current : BOOLEAN, astray : BOOLEAN]]
  BY <1>2, <1>3 DEF SubscriptionInv, RowsOK, Status
<1>7. CurrentRows' = (CurrentRows \ cleared) \cup {e.sub}
  <2>1. \A r \in RowId : row'[r].current <=> (r = e.sub \/ (row[r].current /\ r \notin cleared))
    BY <1>2, <1>3 DEF SubscriptionInv, RowsOK
  <2> QED BY <1>2, <2>1 DEF CurrentRows
<1>8. \A r \in RowId : Exists(r) \/ r = e.sub => Exists(r)'
  BY <1>2, <1>3 DEF SubscriptionInv, RowsOK, Exists, StripeStatus
<1>9. RowsOK'
  BY <1>6, <1>7, <1>8, <1>2 DEF SubscriptionInv, RowsOK, CurrentRows
<1>10. StripeOK' /\ RequestsOK' /\ CopiesOK'
  BY <1>2, <1>3 DEF SubscriptionInv, StripeOK, RequestsOK, CopiesOK, Status
<1>11. /\ \A r \in RowId : row'[r].status = IF r = e.sub THEN e.status ELSE row[r].status
       /\ row'[e.sub].cancel = e.cancel
  BY <1>2, <1>3 DEF SubscriptionInv, RowsOK
<1> QED BY <1>2, <1>5, <1>7, <1>9, <1>10, <1>11 DEF SubscriptionInv, cleared, e

\* The FREE plan takes the place of what was found current.
LEMMA DowngradeStep ==
    ASSUME SubscriptionInv, NEW s \in Slot, CommitDowngrade(s)
    PROVE  /\ SubscriptionInv'
           /\ \E f \in FreeRow :
                /\ CurrentRows' = (CurrentRows \ handler[s].target) \cup {f}
                /\ \A r \in RowId : row'[r].status = IF r = f THEN "FREE" ELSE row[r].status
<1> DEFINE h == handler[s]
           free == CHOOSE f \in FreeRow : ~Exists(f)
           g == IF h.event # 0 THEN [h EXCEPT !.pc = "bill", !.target = {}]
                ELSE IF h.todo > 1
                THEN [h EXCEPT !.pc = "scan", !.target = {}, !.todo = @ - 1]
                ELSE Idle
<1>1. h \in HandlerRow /\ Carries(h)
  BY DEF SubscriptionInv, HandlersOK, Carries
<1>2. free \in FreeRow /\ free \in RowId
  BY DEF CommitDowngrade, RowId
<1>3. /\ row' = [r \in RowId |->
              IF r = free THEN FreePlan
              ELSE IF r \in h.target THEN [row[r] EXCEPT !.current = FALSE]
              ELSE row[r]]
      /\ company' = "FREE"
      /\ Goto(s, g)
      /\ UNCHANGED <<checkout, billed, sweep, request, stripe, events, ordered>>
  BY DEF CommitDowngrade, CommitDowngradeStep
<1>4. Carries(g)
  <2> USE <1>1 DEF Carries, HandlerRow, Pc
  <2>1. CASE h.event # 0
    BY <2>1
  <2>2. CASE h.event = 0 /\ h.todo > 1
    <3>1. h.todo - 1 \in Nat
      BY <2>2
    <3> QED BY <2>2, <3>1
  <2>3. CASE h.event = 0 /\ ~(h.todo > 1)
    BY <2>3, SubscriptionAssumption DEF Idle
  <2> QED BY <2>1, <2>2, <2>3
<1>5. HandlersOK'
  <2> HIDE DEF g
  <2> QED BY <1>3, <1>4, GotoKeeps
<1> HIDE DEF g, free
<1>6. row' \in [RowId -> [status : Status \cup {"NONE"}, cancel : BOOLEAN,
                          current : BOOLEAN, astray : BOOLEAN]]
  BY <1>2, <1>3 DEF SubscriptionInv, RowsOK, Status, FreePlan
<1>7. CurrentRows' = (CurrentRows \ h.target) \cup {free}
  <2>1. \A r \in RowId : row'[r].current <=> (r = free \/ (row[r].current /\ r \notin h.target))
    BY <1>2, <1>3 DEF SubscriptionInv, RowsOK, FreePlan
  <2> QED BY <1>2, <2>1 DEF CurrentRows
<1>8. \A r \in RowId : Exists(r) \/ r = free => Exists(r)'
  BY <1>2, <1>3 DEF SubscriptionInv, RowsOK, Exists, FreePlan
<1>9. RowsOK'
  BY <1>6, <1>7, <1>8, <1>2 DEF SubscriptionInv, RowsOK, CurrentRows
<1>10. StripeOK' /\ RequestsOK' /\ CopiesOK'
  BY <1>3 DEF SubscriptionInv, StripeOK, RequestsOK, CopiesOK, Status
<1>11. \A r \in RowId : row'[r].status = IF r = free THEN "FREE" ELSE row[r].status
  BY <1>2, <1>3 DEF SubscriptionInv, RowsOK, FreePlan
<1> QED BY <1>2, <1>5, <1>7, <1>9, <1>10, <1>11 DEF SubscriptionInv

\* Neither of the two writes the cancellation of another subscription.
LEMMA UpsertLeaves ==
    ASSUME SubscriptionInv, NEW s \in Slot, CommitUpsert(s), NEW b \in Sub, b # MyEvent(s).sub
    PROVE  /\ row'[b].status = row[b].status /\ row'[b].cancel = row[b].cancel
           /\ row'[b].astray = row[b].astray
<1>1. b \in RowId
  BY DEF RowId
<1>2. row'[b] = IF b \in handler[s].held \cup handler[s].target
                THEN [row[b] EXCEPT !.current = FALSE] ELSE row[b]
  BY <1>1 DEF CommitUpsert, WriteUpsert
<1> QED BY <1>1, <1>2 DEF SubscriptionInv, RowsOK

LEMMA DowngradeLeaves ==
    ASSUME SubscriptionInv, NEW s \in Slot, CommitDowngrade(s), NEW b \in Sub
    PROVE  /\ row'[b].status = row[b].status /\ row'[b].cancel = row[b].cancel
           /\ row'[b].astray = row[b].astray
<1> DEFINE free == CHOOSE f \in FreeRow : ~Exists(f)
<1>1. b \in RowId /\ b # free
  BY SubscriptionAssumption DEF CommitDowngrade, RowId
<1> HIDE DEF free
<1>2. row'[b] = IF b \in handler[s].target THEN [row[b] EXCEPT !.current = FALSE] ELSE row[b]
  BY <1>1 DEF CommitDowngrade, free
<1> QED BY <1>1, <1>2 DEF SubscriptionInv, RowsOK

-----------------------------------------------------------------------------
(* The shape of a step, which the properties are shown for.                *)

StepShape ==
    \/ FlagsKept /\ UNCHANGED <<handler, billed, ordered>>
    \/ \E s \in Slot :
         \/ QuietStep(s) /\ FlagsKept
         \/ CommitUpsert(s) \/ CommitDowngrade(s)

LEMMA SubscriptionStep ==
    SubscriptionInv /\ [SubscriptionNext]_subscriptionVars => SubscriptionInv' /\ StepShape
<1> SUFFICES ASSUME SubscriptionInv, [SubscriptionNext]_subscriptionVars
             PROVE  SubscriptionInv' /\ StepShape
  OBVIOUS
<1> USE DEF FlagsKept
<1>1. ASSUME NEW b \in Sub, Subscribe(b) \/ CompleteCheckout(b) \/ Change(b) \/ End(b)
      PROVE  SubscriptionInv' /\ StepShape
  BY <1>1, StripeSteps DEF StepShape, CurrentRows
<1>2. CASE \/ \E b \in Sub : CreateCheckoutSession(b)
           \/ \E due \in SUBSET Sub : ExpireStaleCheckouts(due)
  BY <1>2, CheckoutSteps DEF StepShape, CurrentRows
<1>3. ASSUME NEW s \in Slot, Handle(s) PROVE SubscriptionInv' /\ StepShape
  <2>1. CASE QuietStep(s)
    BY <2>1, QuietSteps DEF StepShape, CurrentRows
  <2>2. CASE CommitUpsert(s) \/ CommitDowngrade(s)
    BY <2>2, UpsertStep, DowngradeStep DEF StepShape
  <2> QED BY <1>3, <2>1, <2>2 DEF Handle, QuietStep
<1>4. CASE Reconcile
  BY <1>4, ReconcileSteps DEF StepShape, CurrentRows
<1>5. ASSUME NEW q \in Request, CancelRequest(q) PROVE SubscriptionInv' /\ StepShape
  BY <1>5, CancelSteps DEF StepShape
<1>6. CASE UNCHANGED subscriptionVars
  BY <1>6 DEF subscriptionVars, StepShape, CurrentRows, SubscriptionInv, RowsOK, StripeOK,
              HandlersOK, RequestsOK, CopiesOK, Exists, Carries
<1> QED BY <1>1, <1>2, <1>3, <1>4, <1>5, <1>6 DEF SubscriptionNext

\* What Stripe has emitted stays as it is.
EventsKept == \A n \in 1 .. Len(events) : events'[n] = events[n]

LEMMA EventsEmitted ==
    ASSUME [SubscriptionNext]_subscriptionVars
    PROVE  UNCHANGED events \/ \E e : Emit(e)
<1>1. ASSUME NEW b \in Sub, Subscribe(b) \/ CompleteCheckout(b) \/ Change(b) \/ End(b)
      PROVE  \E e : Emit(e)
  BY <1>1 DEF Subscribe, CompleteCheckout, Change, End
<1>2. ASSUME NEW s \in Slot, Handle(s) PROVE UNCHANGED events
  BY <1>2 DEF Handle, HandlerOnly, StartEvent, ReadCurrent, LockRows, FindOthers, CommitUpsert,
     CommitUpsertStep, ScanExpired, FindCurrent, CommitDowngrade, CommitDowngradeStep,
     PersistBillingEvent, MarkCheckoutCompleted, FailHandler
<1>3. ASSUME NEW q \in Request, CancelRequest(q) PROVE UNCHANGED events \/ \E e : Emit(e)
  BY <1>3 DEF CancelRequest, BeginCancel, UpdateAtStripe, WriteCancel, WriteRow, DropRequest
<1>4. CASE \/ \E b \in Sub : CreateCheckoutSession(b)
           \/ \E due \in SUBSET Sub : ExpireStaleCheckouts(due)
           \/ Reconcile
           \/ UNCHANGED subscriptionVars
  BY <1>4 DEF CreateCheckoutSession, ExpireStaleCheckouts, CheckoutOnly, Reconcile,
     ReconcileScan, ReconcileWrite, subscriptionVars
<1> QED BY <1>1, <1>2, <1>3, <1>4 DEF SubscriptionNext

LEMMA EventsStep == SubscriptionInv /\ [SubscriptionNext]_subscriptionVars => EventsKept
<1> SUFFICES ASSUME SubscriptionInv, [SubscriptionNext]_subscriptionVars PROVE EventsKept
  OBVIOUS
<1>1. ASSUME NEW e, Emit(e) PROVE EventsKept
  <2>1. events \in Seq(EventRow \cup {e}) /\ events \in Seq(EventRow)
    BY SeqMonotonic DEF SubscriptionInv, StripeOK
  <2> QED BY <1>1, <2>1, AppendProperties, LenProperties DEF Emit, EventsKept
<1> QED BY <1>1, EventsEmitted DEF EventsKept

-----------------------------------------------------------------------------

\* Whatever events, jobs and requests do, and in whatever order, the rows, the
\* copy of the plan and what is in progress are well typed.
THEOREM SubscriptionTypeCorrect == SubscriptionSpec => []SubscriptionTypeOK
<1>1. SubscriptionInv /\ [SubscriptionNext]_subscriptionVars => SubscriptionInv'
  BY SubscriptionStep
<1> QED BY SubscriptionInitInv, <1>1, InvGivesType, PTL DEF SubscriptionSpec

\* Each step that clears a current row sets one.
LEMMA AlwaysStep ==
    ASSUME SubscriptionInv, AlwaysSubscribed, [SubscriptionNext]_subscriptionVars
    PROVE  AlwaysSubscribed'
<1>1. StepShape
  BY SubscriptionStep
<1> QED BY <1>1, UpsertStep, DowngradeStep DEF StepShape, FlagsKept, AlwaysSubscribed

\* However many handlers, jobs and requests overlap, a company is never without
\* a current subscription: each step that clears one sets one.
THEOREM NeverUnsubscribed == SubscriptionSpec => []AlwaysSubscribed
<1> DEFINE I == SubscriptionInv /\ AlwaysSubscribed
<1>1. SubscriptionInit => I
  <2> SUFFICES ASSUME SubscriptionInit PROVE I
    OBVIOUS
  <2>1. FirstRow \in CurrentRows
    BY SubscriptionAssumption DEF SubscriptionInit, CurrentRows, RowId, FreePlan
  <2> QED BY <2>1, SubscriptionInitInv DEF AlwaysSubscribed
<1>2. I /\ [SubscriptionNext]_subscriptionVars => I'
  BY SubscriptionStep, AlwaysStep
<1> QED BY <1>1, <1>2, PTL DEF SubscriptionSpec

\* At most one handler or job run at a time.
OneHandler == \A s, t \in Slot : s = t

\* One current row, and one that commits knows it.
SoleInv ==
    /\ \A r, t \in CurrentRows : r = t
    /\ \A s \in Slot :
         /\ handler[s].pc = "commit" => CurrentRows \subseteq handler[s].target \cup {MyEvent(s).sub}
         /\ handler[s].pc = "free" => CurrentRows \subseteq handler[s].target

\* With one current row, what a handler commits replaces it.
LEMMA UpsertAlone ==
    ASSUME SubscriptionInv, SoleInv, NEW s \in Slot, CommitUpsert(s)
    PROVE  CurrentRows' = {MyEvent(s).sub}
<1>1. CurrentRows \subseteq handler[s].target \cup {MyEvent(s).sub}
  BY DEF CommitUpsert, CommitUpsertStep, SoleInv
<1>2. CurrentRows' = (CurrentRows \ (handler[s].held \cup handler[s].target)) \cup {MyEvent(s).sub}
  BY UpsertStep
<1> QED BY <1>1, <1>2

LEMMA DowngradeAlone ==
    ASSUME SubscriptionInv, SoleInv, NEW s \in Slot, CommitDowngrade(s)
    PROVE  \E f \in FreeRow :
             /\ CurrentRows' = {f}
             /\ \A r \in RowId : row'[r].status = IF r = f THEN "FREE" ELSE row[r].status
<1>1. CurrentRows \subseteq handler[s].target
  BY DEF CommitDowngrade, CommitDowngradeStep, SoleInv
<1>2. PICK f \in FreeRow :
        /\ CurrentRows' = (CurrentRows \ handler[s].target) \cup {f}
        /\ \A r \in RowId : row'[r].status = IF r = f THEN "FREE" ELSE row[r].status
  BY DowngradeStep
<1>3. CurrentRows' = {f}
  BY <1>1, <1>2
<1> QED BY <1>2, <1>3

LEMMA SoleInit == SubscriptionInit => SoleInv
<1> SUFFICES ASSUME SubscriptionInit PROVE SoleInv
  OBVIOUS
<1>1. \A r \in CurrentRows : r = FirstRow
  BY DEF SubscriptionInit, CurrentRows, Absent
<1>2. \A s \in Slot : handler[s].pc = "idle"
  BY DEF SubscriptionInit, Idle
<1> QED BY <1>1, <1>2 DEF SoleInv

LEMMA SoleStep ==
    ASSUME OneHandler, SubscriptionInv, SoleInv, [SubscriptionNext]_subscriptionVars
    PROVE  SoleInv'
<1>1. SubscriptionInv' /\ StepShape
  BY SubscriptionStep
<1>2. ASSUME FlagsKept, UNCHANGED handler PROVE SoleInv'
  <2>1. ASSUME NEW s \in Slot, handler[s].pc = "commit" PROVE MyEvent(s)' = MyEvent(s)
    <3>1. handler[s].event \in 1 .. Len(events)
      BY <2>1 DEF SubscriptionInv, HandlersOK, Carries
    <3> QED BY <1>2, <3>1, EventsStep DEF EventsKept, MyEvent
  <2> QED BY <1>2, <2>1 DEF FlagsKept, SoleInv
<1>3. ASSUME NEW s \in Slot, QuietStep(s), FlagsKept PROVE SoleInv'
  <2>1. \A t \in Slot : t = s
    BY DEF OneHandler
  <2>2. handler[s] \in HandlerRow /\ DOMAIN handler = Slot
    BY DEF SubscriptionInv, HandlersOK, Carries
  <2>3. CASE FindOthers(s)
    BY <1>3, <2>1, <2>2, <2>3 DEF FindOthers, Goto, HandlerOnly, SoleInv, FlagsKept, MyEvent,
       HandlerRow
  <2>4. CASE FindCurrent(s)
    BY <1>3, <2>1, <2>2, <2>4 DEF FindCurrent, Goto, HandlerOnly, SoleInv, FlagsKept,
       HandlerRow
  <2>5. CASE ~FindOthers(s) /\ ~FindCurrent(s)
    <3>1. handler'[s].pc \notin {"commit", "free"}
      <4>1. ASSUME NEW n \in DOMAIN events, StartEvent(s, n)
            PROVE  handler'[s].pc \notin {"commit", "free"}
        <5>1. events[n].type \in EventType
          BY EventTypes
        <5> QED BY <2>2, <4>1, <5>1 DEF StartEvent, Goto, Idle, FirstStep, EventType
      <4> USE <2>2 DEF Goto, Idle, HandlerRow
      <4>2. CASE ReadCurrent(s)
        BY <4>2 DEF ReadCurrent
      <4>3. CASE LockRows(s)
        BY <4>3 DEF LockRows
      <4>4. CASE ScanExpired(s)
        BY <4>4 DEF ScanExpired
      <4>5. CASE PersistBillingEvent(s)
        BY <4>5 DEF PersistBillingEvent
      <4>6. CASE MarkCheckoutCompleted(s) \/ FailHandler(s)
        BY <4>6 DEF MarkCheckoutCompleted, FailHandler
      <4> QED BY <1>3, <2>5, <4>1, <4>2, <4>3, <4>4, <4>5, <4>6 DEF QuietStep
    <3> QED BY <1>3, <2>1, <3>1 DEF SoleInv, FlagsKept
  <2> QED BY <2>3, <2>4, <2>5
<1>4. ASSUME NEW s \in Slot, CommitUpsert(s) PROVE SoleInv'
  <2>1. \A t \in Slot : t = s
    BY DEF OneHandler
  <2>2. \A r \in CurrentRows' : r = MyEvent(s).sub
    BY <1>4, UpsertAlone
  <2>3. handler'[s].pc = "bill"
    BY <1>4 DEF CommitUpsert, CommitUpsertStep, Goto, SubscriptionInv, HandlersOK, Carries,
       HandlerRow
  <2> QED BY <2>1, <2>2, <2>3 DEF SoleInv
<1>5. ASSUME NEW s \in Slot, CommitDowngrade(s) PROVE SoleInv'
  <2>1. \A t \in Slot : t = s
    BY DEF OneHandler
  <2>2. \A r, t \in CurrentRows' : r = t
    BY <1>5, DowngradeAlone
  <2>3. handler'[s].pc \in {"bill", "scan", "idle"}
    BY <1>5 DEF CommitDowngrade, CommitDowngradeStep, Goto, SubscriptionInv, HandlersOK, Carries,
       HandlerRow, Idle
  <2> QED BY <2>1, <2>2, <2>3 DEF SoleInv
<1> QED BY <1>1, <1>2, <1>3, <1>4, <1>5 DEF StepShape

\* Where one handler runs at a time, a company has one current subscription,
\* next to any number of requests and runs of the reconcile job.
THEOREM OneCurrentSubscription ==
    ASSUME OneHandler
    PROVE  SubscriptionSpec => []SingleCurrent
<1> DEFINE I == SubscriptionInv /\ SoleInv
<1>1. SubscriptionInit => I
  BY SubscriptionInitInv, SoleInit
<1>2. I /\ [SubscriptionNext]_subscriptionVars => I'
  BY SubscriptionStep, SoleStep
<1>3. I => SingleCurrent
  <2> SUFFICES ASSUME I PROVE SingleCurrent
    OBVIOUS
  <2>1. CASE CurrentRows = {}
    BY <2>1, FS_EmptySet DEF SingleCurrent
  <2>2. CASE CurrentRows # {}
    <3>1. PICK r \in CurrentRows : TRUE
      BY <2>2
    <3>2. CurrentRows = {r}
      BY <3>1 DEF SoleInv
    <3> QED BY <3>2, FS_Singleton DEF SingleCurrent
  <2> QED BY <2>1, <2>2
<1> QED BY <1>1, <1>2, <1>3, PTL DEF SubscriptionSpec

-----------------------------------------------------------------------------
(* What Stripe emits, and what rows and handlers make of it.               *)

Paying == {"ACTIVE", "UNPAID"}

\* A subscription that was never paid for was not cancelled either.
StripeFits == \A b \in Sub : stripe[b].status = "NONE" => stripe[b].cancel = FALSE

\* A step that emits an event: it is about one subscription, and says what
\* Stripe says of it from then on.
Emission ==
    \E e \in EventRow :
      /\ events' = Append(events, e)
      /\ UNCHANGED <<row, handler, billed, ordered>>
      /\ \A c \in Sub \ {e.sub} : stripe'[c] = stripe[c]
      /\ e.type = "checkout" => UNCHANGED stripe
      /\ e.type = "updated" => e.status \in Paying
      /\ e.type = "deleted" => stripe'[e.sub].cancel = stripe[e.sub].cancel
      /\ e.type # "checkout" => /\ stripe'[e.sub].status # "NONE"
                                /\ e.cancel = stripe'[e.sub].cancel

LEMMA EmissionStep ==
    ASSUME SubscriptionInv, StripeFits, [SubscriptionNext]_subscriptionVars
    PROVE  UNCHANGED <<events, stripe>> \/ Emission
<1>1. stripe \in [Sub -> [status : StripeStatus \cup {"NONE"}, cancel : BOOLEAN]]
  BY DEF SubscriptionInv, StripeOK
<1>2. ASSUME NEW b \in Sub, Subscribe(b) PROVE Emission
  <2> DEFINE e == EventOf(b, "updated", "ACTIVE", FALSE)
  <2>1. e \in EventRow /\ e.sub = b /\ e.type = "updated" /\ e.status \in Paying /\ e.cancel = FALSE
    BY DEF EventOf, EventRow, EventType, StripeStatus, Paying
  <2>2. /\ stripe'[b].status = "ACTIVE" /\ stripe'[b].cancel = FALSE
        /\ \A c \in Sub \ {b} : stripe'[c] = stripe[c]
    BY <1>1, <1>2 DEF Subscribe, StripeFits
  <2>3. events' = Append(events, e) /\ UNCHANGED <<row, handler, billed, ordered>>
    BY <1>2 DEF Subscribe, Emit, StripeOnly
  <2> HIDE DEF e
  <2> QED BY <2>1, <2>2, <2>3 DEF Emission
<1>3. ASSUME NEW b \in Sub, CompleteCheckout(b) PROVE Emission
  <2> DEFINE e == EventOf(b, "checkout", "ACTIVE", FALSE)
  <2>1. e \in EventRow /\ e.sub = b /\ e.type = "checkout"
    BY DEF EventOf, EventRow, EventType, StripeStatus
  <2>2. events' = Append(events, e) /\ UNCHANGED <<row, handler, billed, ordered, stripe>>
    BY <1>3 DEF CompleteCheckout, Emit, StripeOnly
  <2> QED BY <2>1, <2>2 DEF Emission
<1>4. ASSUME NEW b \in Sub, Change(b) PROVE Emission
  <2> DEFINE e == EventOf(b, "updated", stripe'[b].status, stripe[b].cancel)
  <2>1. /\ stripe'[b].status \in Paying /\ stripe'[b].cancel = stripe[b].cancel
        /\ \A c \in Sub \ {b} : stripe'[c] = stripe[c]
    BY <1>1, <1>4 DEF Change, Paying
  <2>2. e \in EventRow /\ e.sub = b /\ e.type = "updated" /\ e.status = stripe'[b].status
        /\ e.cancel = stripe[b].cancel
    BY <1>1, <2>1 DEF EventOf, EventRow, EventType, StripeStatus, Paying
  <2>3. events' = Append(events, e) /\ UNCHANGED <<row, handler, billed, ordered>>
    BY <1>4 DEF Change, Emit, StripeOnly
  <2> HIDE DEF e
  <2> QED BY <2>1, <2>2, <2>3 DEF Emission, Paying
<1>5. ASSUME NEW b \in Sub, End(b) PROVE Emission
  <2> DEFINE e == EventOf(b, "deleted", "CANCELED", stripe[b].cancel)
  <2>1. /\ stripe'[b].status = "CANCELED" /\ stripe'[b].cancel = stripe[b].cancel
        /\ \A c \in Sub \ {b} : stripe'[c] = stripe[c]
    BY <1>1, <1>5 DEF End
  <2>2. e \in EventRow /\ e.sub = b /\ e.type = "deleted" /\ e.cancel = stripe[b].cancel
    BY <1>1 DEF EventOf, EventRow, EventType, StripeStatus
  <2>3. events' = Append(events, e) /\ UNCHANGED <<row, handler, billed, ordered>>
    BY <1>5 DEF End, Emit, StripeOnly
  <2> HIDE DEF e
  <2> QED BY <2>1, <2>2, <2>3 DEF Emission
<1>6. ASSUME NEW q \in Request, UpdateAtStripe(q) PROVE UNCHANGED <<events, stripe>> \/ Emission
  <2> DEFINE b == request[q].row
             v == request[q].cancel
             e == EventOf(b, "updated", stripe[b].status, v)
  <2>1. b \in Sub /\ v \in BOOLEAN
    BY <1>6 DEF UpdateAtStripe, SubscriptionInv, RequestsOK, RequestRow
  <2>2. CASE stripe[b].cancel = v
    BY <1>6, <2>2 DEF UpdateAtStripe
  <2>3. CASE stripe[b].cancel # v
    <3>1. /\ stripe'[b].status = stripe[b].status /\ stripe'[b].cancel = v
          /\ \A c \in Sub \ {b} : stripe'[c] = stripe[c]
          /\ stripe[b].status \in Paying
      BY <1>1, <1>6, <2>1, <2>3 DEF UpdateAtStripe, Paying
    <3>2. e \in EventRow /\ e.sub = b /\ e.type = "updated" /\ e.status = stripe[b].status
          /\ e.cancel = v
      BY <2>1, <3>1 DEF EventOf, EventRow, EventType, StripeStatus, Paying
    <3>3. events' = Append(events, e) /\ UNCHANGED <<row, handler, billed, ordered>>
      BY <1>6, <2>3 DEF UpdateAtStripe, Emit, RequestOnly
    <3> HIDE DEF e, b, v
    <3> QED BY <3>1, <3>2, <3>3 DEF Emission, Paying
  <2> QED BY <2>2, <2>3
<1>7. ASSUME NEW s \in Slot, Handle(s) PROVE UNCHANGED <<events, stripe>>
  BY <1>7 DEF Handle, HandlerOnly, StartEvent, ReadCurrent, LockRows, FindOthers, CommitUpsert,
     CommitUpsertStep, ScanExpired, FindCurrent, CommitDowngrade, CommitDowngradeStep,
     PersistBillingEvent, MarkCheckoutCompleted, FailHandler
<1>8. ASSUME NEW q \in Request, CancelRequest(q), ~UpdateAtStripe(q)
      PROVE  UNCHANGED <<events, stripe>>
  BY <1>8 DEF CancelRequest, BeginCancel, WriteCancel, WriteRow, DropRequest
<1>9. CASE \/ \E b \in Sub : CreateCheckoutSession(b)
           \/ \E due \in SUBSET Sub : ExpireStaleCheckouts(due)
           \/ Reconcile
           \/ UNCHANGED subscriptionVars
  BY <1>9 DEF CreateCheckoutSession, ExpireStaleCheckouts, CheckoutOnly, Reconcile,
     ReconcileScan, ReconcileWrite, subscriptionVars
<1> QED BY <1>2, <1>3, <1>4, <1>5, <1>6, <1>7, <1>8, <1>9 DEF SubscriptionNext

LEMMA AppendedEvent ==
    ASSUME SubscriptionInv, NEW e \in EventRow, events' = Append(events, e)
    PROVE  /\ Len(events) \in Nat /\ Len(events') = Len(events) + 1
           /\ \A n \in 1 .. Len(events) : events'[n] = events[n]
           /\ events'[Len(events) + 1] = e
<1>1. events \in Seq(EventRow)
  BY DEF SubscriptionInv, StripeOK
<1> QED BY <1>1, AppendProperties, LenProperties

LEMMA StripeFitsStep ==
    SubscriptionInv /\ StripeFits /\ [SubscriptionNext]_subscriptionVars => StripeFits'
<1> SUFFICES ASSUME SubscriptionInv, StripeFits, [SubscriptionNext]_subscriptionVars
             PROVE  StripeFits'
  OBVIOUS
<1>1. CASE UNCHANGED <<events, stripe>>
  BY <1>1 DEF StripeFits
<1>2. CASE Emission
  BY <1>2 DEF Emission, StripeFits
<1> QED BY <1>1, <1>2, EmissionStep

\* No updated event says CANCELED, no row is CANCELED, and the rows of the
\* FREE plan are FREE.
EventsFit == \A n \in 1 .. Len(events) : events[n].type = "updated" => events[n].status \in Paying
RowsFit ==
    /\ \A r \in RowId : row[r].status # "CANCELED"
    /\ \A f \in FreeRow : row[f].status \in {"NONE", "FREE"}

\* A handler is where its event's type takes it; the job found its row unpaid.
HandlerFits(s) ==
    /\ handler[s].pc \in {"read", "lock", "clear", "commit"} => MyEvent(s).type = "updated"
    /\ handler[s].pc \in {"scan", "free"} /\ handler[s].event # 0 => MyEvent(s).type = "deleted"
    /\ handler[s].pc = "mark" => MyEvent(s).type = "checkout"
    /\ handler[s].pc \in {"scan", "free"} /\ handler[s].event = 0 =>
         handler[s].todo = 1 /\ \A r \in CurrentRows : row[r].status = "UNPAID"

FitInv == StripeFits /\ EventsFit /\ RowsFit /\ \A s \in Slot : HandlerFits(s)

LEMMA FitInit == SubscriptionInit => FitInv
<1> SUFFICES ASSUME SubscriptionInit PROVE FitInv
  OBVIOUS
<1>1. StripeFits /\ EventsFit
  BY EmptySeq DEF SubscriptionInit, StripeFits, EventsFit
<1>2. RowsFit
  BY DEF SubscriptionInit, RowsFit, RowId, FreePlan, Absent
<1>3. \A s \in Slot : HandlerFits(s)
  BY DEF SubscriptionInit, HandlerFits, Idle
<1> QED BY <1>1, <1>2, <1>3 DEF FitInv

\* An event that a handler or a step looks up stays what it is.
LEMMA MyEventKept ==
    ASSUME SubscriptionInv, [SubscriptionNext]_subscriptionVars,
           NEW s \in Slot, handler'[s].event = handler[s].event, handler[s].event # 0
    PROVE  MyEvent(s)' = MyEvent(s)
<1>1. handler[s].event \in 1 .. Len(events)
  BY DEF SubscriptionInv, HandlersOK, Carries
<1> QED BY <1>1, EventsStep DEF EventsKept, MyEvent

\* Handlers at work on an event.
LEMMA AtWork ==
    ASSUME SubscriptionInv, NEW s \in Slot,
           handler[s].pc \in {"read", "lock", "clear", "commit", "bill", "mark"}
    PROVE  handler[s].event # 0
BY DEF SubscriptionInv, HandlersOK, Carries

LEMMA EventsFitStep ==
    ASSUME SubscriptionInv, FitInv, [SubscriptionNext]_subscriptionVars
    PROVE  EventsFit'
<1>1. CASE UNCHANGED <<events, stripe>>
  BY <1>1 DEF EventsFit, FitInv
<1>2. CASE Emission
  <2>1. PICK e \in EventRow : /\ events' = Append(events, e)
                              /\ e.type = "updated" => e.status \in Paying
    BY <1>2 DEF Emission
  <2> QED BY <2>1, AppendedEvent DEF EventsFit, FitInv
<1> QED BY <1>1, <1>2, EmissionStep DEF FitInv

LEMMA RowsFitStep ==
    ASSUME SubscriptionInv, FitInv, [SubscriptionNext]_subscriptionVars
    PROVE  RowsFit'
<1>1. SubscriptionInv' /\ StepShape
  BY SubscriptionStep
<1>2. CASE FlagsKept
  BY <1>2 DEF FlagsKept, RowsFit, FitInv, RowId
<1>3. ASSUME NEW s \in Slot, CommitUpsert(s) PROVE RowsFit'
  <2>1. handler[s].event # 0 /\ MyEvent(s).type = "updated"
    BY <1>3, AtWork DEF CommitUpsert, CommitUpsertStep, FitInv, HandlerFits
  <2>2. MyEvent(s).status \in Paying
    BY <2>1 DEF FitInv, EventsFit, MyEvent, SubscriptionInv, HandlersOK, Carries
  <2>3. MyEvent(s).sub \in Sub
    BY <2>1, EventOfHandler
  <2>4. \A r \in RowId : row'[r].status = IF r = MyEvent(s).sub THEN MyEvent(s).status
                                          ELSE row[r].status
    BY <1>3, UpsertStep
  <2> QED BY <2>2, <2>3, <2>4, SubscriptionAssumption DEF RowsFit, FitInv, RowId, Paying
<1>4. ASSUME NEW s \in Slot, CommitDowngrade(s) PROVE RowsFit'
  <2>1. PICK f \in FreeRow :
          \A r \in RowId : row'[r].status = IF r = f THEN "FREE" ELSE row[r].status
    BY <1>4, DowngradeStep
  <2> QED BY <2>1 DEF RowsFit, FitInv, RowId
<1> QED BY <1>1, <1>2, <1>3, <1>4 DEF StepShape

LEMMA HandlerFitsStep ==
    ASSUME OneHandler, SubscriptionInv, SoleInv, FitInv, [SubscriptionNext]_subscriptionVars,
           NEW s \in Slot
    PROVE  HandlerFits(s)'
<1>1. SubscriptionInv' /\ StepShape
  BY SubscriptionStep
<1>2. handler[s] \in HandlerRow /\ DOMAIN handler = Slot /\ HandlerFits(s) /\ \A t \in Slot : t = s
  BY DEF SubscriptionInv, HandlersOK, Carries, FitInv, OneHandler
<1>3. CASE FlagsKept /\ UNCHANGED <<handler, billed, ordered>>
  <2>1. handler[s].event # 0 => MyEvent(s)' = MyEvent(s)
    BY <1>3, MyEventKept
  <2>2. \A r \in CurrentRows' : row'[r].status = row[r].status /\ r \in CurrentRows
    BY <1>3 DEF FlagsKept, CurrentRows
  <2> QED BY <1>2, <1>3, <2>1, <2>2, AtWork DEF HandlerFits
<1>4. CASE QuietStep(s) /\ FlagsKept
  <2>1. \A r \in CurrentRows' : row'[r].status = row[r].status /\ r \in CurrentRows
    BY <1>4 DEF FlagsKept, CurrentRows
  <2>2. handler'[s].event = handler[s].event /\ handler[s].event # 0 => MyEvent(s)' = MyEvent(s)
    BY MyEventKept
  <2>3. ASSUME NEW n \in DOMAIN events, StartEvent(s, n) PROVE HandlerFits(s)'
    <3>1. events[n].type \in EventType
      BY EventTypes
    <3>2. n # 0
      BY LenProperties DEF SubscriptionInv, StripeOK
    <3>3. /\ handler'[s].pc = FirstStep(events[n].type) /\ handler'[s].event = n
          /\ MyEvent(s)' = events[n]
      BY <1>2, <2>3 DEF StartEvent, Goto, Idle, MyEvent
    <3> QED BY <3>1, <3>2, <3>3 DEF HandlerFits, FirstStep, EventType
  <2>4. CASE ScanExpired(s)
    <3> DEFINE expired == {r \in CurrentRows : row[r].status \in {"CANCELED", "UNPAID"}}
    <3>1. PICK r \in expired : TRUE
      BY <2>4 DEF ScanExpired
    <3>2. expired = {r} /\ CurrentRows = {r}
      BY <3>1 DEF SoleInv
    <3>3. Cardinality(expired) = 1
      BY <3>2, FS_Singleton
    <3>4. row[r].status = "UNPAID"
      BY <3>1 DEF FitInv, RowsFit, CurrentRows
    <3>5. handler'[s].pc = "scan" /\ handler'[s].event = 0 /\ handler'[s].todo = 1
      BY <1>2, <2>4, <3>3 DEF ScanExpired, Goto, Idle
    <3> QED BY <2>1, <3>2, <3>4, <3>5 DEF HandlerFits
  <2> USE <1>2, <2>1, <2>2, AtWork DEF Goto, HandlerRow, HandlerFits
  <2>5. CASE ReadCurrent(s)
    BY <2>5 DEF ReadCurrent
  <2>6. CASE LockRows(s)
    BY <2>6 DEF LockRows
  <2>7. CASE FindOthers(s)
    BY <2>7 DEF FindOthers
  <2>8. CASE FindCurrent(s)
    BY <2>8 DEF FindCurrent
  <2>9. CASE PersistBillingEvent(s)
    BY <2>9 DEF PersistBillingEvent, Idle
  <2>10. CASE MarkCheckoutCompleted(s) \/ FailHandler(s)
    BY <2>10 DEF MarkCheckoutCompleted, FailHandler, Idle
  <2> QED BY <1>4, <2>3, <2>4, <2>5, <2>6, <2>7, <2>8, <2>9, <2>10 DEF QuietStep
<1>5. CASE CommitUpsert(s)
  <2>1. handler'[s].pc = "bill"
    BY <1>2, <1>5 DEF CommitUpsert, CommitUpsertStep, Goto, HandlerRow
  <2> QED BY <2>1 DEF HandlerFits
<1>6. CASE CommitDowngrade(s)
  <2>1. handler'[s].pc \in {"bill", "idle"}
    BY <1>2, <1>6 DEF CommitDowngrade, CommitDowngradeStep, Goto, HandlerRow, Idle, HandlerFits
  <2> QED BY <2>1 DEF HandlerFits
<1> QED BY <1>1, <1>2, <1>3, <1>4, <1>5, <1>6 DEF StepShape

LEMMA FitStep ==
    ASSUME OneHandler, SubscriptionInv, SoleInv, FitInv, [SubscriptionNext]_subscriptionVars
    PROVE  FitInv'
BY StripeFitsStep, EventsFitStep, RowsFitStep, HandlerFitsStep DEF FitInv

-----------------------------------------------------------------------------
(* Events handled in order: those that are billed are a prefix, and what a *)
(* handler works on is the next one.                                       *)

InOrder(k) ==
    /\ billed = 1 .. k
    /\ \A s \in Slot : handler[s].event # 0 /\ handler[s].pc # "mark" => handler[s].event = k + 1

\* Events are only added.
LEMMA EventsGrow ==
    ASSUME SubscriptionInv, [SubscriptionNext]_subscriptionVars
    PROVE  /\ Len(events) \in Nat /\ Len(events') \in Nat /\ Len(events) <= Len(events')
           /\ \A n \in 1 .. Len(events) : events'[n] = events[n]
<1>1. SubscriptionInv' /\ EventsKept
  BY SubscriptionStep, EventsStep
<1>2. events \in Seq(EventRow) /\ events' \in Seq(EventRow)
  BY <1>1 DEF SubscriptionInv, StripeOK
<1>3. ASSUME NEW e, Emit(e) PROVE Len(events') = Len(events) + 1
  <2>1. events \in Seq(EventRow \cup {e})
    BY <1>2, SeqMonotonic
  <2> QED BY <1>3, <2>1, AppendProperties DEF Emit
<1> QED BY <1>1, <1>2, <1>3, EventsEmitted, LenProperties DEF EventsKept

\* Once out of order, always so.
LEMMA OrderedBefore ==
    ASSUME [SubscriptionNext]_subscriptionVars, ordered' PROVE ordered
<1>1. ASSUME NEW b \in Sub, Subscribe(b) \/ CompleteCheckout(b) \/ Change(b) \/ End(b)
      PROVE  ordered
  BY <1>1 DEF Subscribe, CompleteCheckout, Change, End, StripeOnly
<1>2. ASSUME NEW s \in Slot, Handle(s) PROVE ordered
  BY <1>2 DEF Handle, HandlerOnly, StartEvent, ReadCurrent, LockRows, FindOthers, CommitUpsert,
     CommitUpsertStep, ScanExpired, FindCurrent, CommitDowngrade, CommitDowngradeStep,
     PersistBillingEvent, MarkCheckoutCompleted, FailHandler
<1>3. ASSUME NEW q \in Request, CancelRequest(q) PROVE ordered
  BY <1>3 DEF CancelRequest, BeginCancel, UpdateAtStripe, WriteCancel, WriteRow, DropRequest, RequestOnly
<1>4. CASE \/ \E b \in Sub : CreateCheckoutSession(b)
           \/ \E due \in SUBSET Sub : ExpireStaleCheckouts(due)
           \/ Reconcile
           \/ UNCHANGED subscriptionVars
  BY <1>4 DEF CreateCheckoutSession, ExpireStaleCheckouts, CheckoutOnly, Reconcile,
     ReconcileScan, ReconcileWrite, subscriptionVars
<1> QED BY <1>1, <1>2, <1>3, <1>4 DEF SubscriptionNext

\* What a step does to the prefix: nothing, or it bills the next event.
LEMMA OrderMove ==
    ASSUME OneHandler, SubscriptionInv, [SubscriptionNext]_subscriptionVars, ordered',
           NEW k \in 0 .. Len(events), InOrder(k)
    PROVE  /\ ordered
           /\ \/ InOrder(k)' /\ UNCHANGED billed
              \/ /\ InOrder(k + 1)' /\ k + 1 <= Len(events)
                 /\ \E s \in Slot : PersistBillingEvent(s) /\ handler[s].event = k + 1
<1>1. SubscriptionInv' /\ StepShape
  BY SubscriptionStep
<1>2. k \in Nat /\ Len(events) \in Nat /\ k <= Len(events)
  BY EventsGrow
<1>3. CASE UNCHANGED <<handler, billed, ordered>>
  BY <1>3 DEF InOrder
<1>4. ASSUME NEW s \in Slot, Handle(s)
      PROVE  /\ ordered
             /\ \/ InOrder(k)' /\ UNCHANGED billed
                \/ /\ InOrder(k + 1)' /\ k + 1 <= Len(events)
                   /\ PersistBillingEvent(s) /\ handler[s].event = k + 1
  <2>1. handler[s] \in HandlerRow /\ DOMAIN handler = Slot /\ \A t \in Slot : t = s
    BY DEF SubscriptionInv, HandlersOK, Carries, OneHandler
  <2>2. handler[s].event # 0 /\ handler[s].pc # "mark" => handler[s].event = k + 1
    BY DEF InOrder
  <2>3. ASSUME NEW n \in DOMAIN events, StartEvent(s, n)
        PROVE  ordered /\ InOrder(k)' /\ UNCHANGED billed
    <3>1. n \in 1 .. Len(events) /\ n \notin 1 .. k /\ 1 .. n - 1 \subseteq 1 .. k /\ ordered
      BY <2>3, LenProperties DEF StartEvent, InOrder, SubscriptionInv, StripeOK
    <3>2. n = k + 1
      <4>1. CASE n > k + 1
        <5>1. k + 1 \in 1 .. n - 1 /\ k + 1 \notin 1 .. k
          BY <1>2, <3>1, <4>1
        <5> QED BY <3>1, <5>1
      <4> QED BY <1>2, <3>1, <4>1
    <3>3. handler'[s].event = n
      BY <2>1, <2>3 DEF StartEvent, Goto, Idle
    <3> QED BY <2>1, <2>3, <3>1, <3>2, <3>3 DEF InOrder, StartEvent
  <2>4. CASE PersistBillingEvent(s)
    <3>1. handler[s].event # 0 /\ handler[s].event <= Len(events)
      BY <2>4, AtWork DEF PersistBillingEvent, SubscriptionInv, HandlersOK, Carries
    <3>2. handler[s].event = k + 1 /\ ordered /\ billed' = (1 .. k) \cup {k + 1}
      BY <2>2, <2>4, <3>1 DEF PersistBillingEvent, InOrder
    <3>3. billed' = 1 .. (k + 1)
      BY <1>2, <3>2
    <3>4. handler'[s].pc = "mark" \/ handler'[s].event = 0
      BY <2>1, <2>4 DEF PersistBillingEvent, Goto, Idle, HandlerRow
    <3> QED BY <2>1, <2>4, <3>1, <3>2, <3>3, <3>4 DEF InOrder
  <2>5. CASE ScanExpired(s) \/ MarkCheckoutCompleted(s) \/ FailHandler(s)
    <3>1. ordered /\ UNCHANGED billed
      BY <2>5 DEF ScanExpired, MarkCheckoutCompleted, FailHandler, HandlerOnly
    <3>2. CASE ScanExpired(s)
      BY <2>1, <3>1, <3>2 DEF ScanExpired, Goto, Idle, InOrder
    <3>3. CASE MarkCheckoutCompleted(s) \/ FailHandler(s)
      BY <2>1, <3>1, <3>3 DEF MarkCheckoutCompleted, FailHandler, Goto, Idle, InOrder
    <3> QED BY <2>5, <3>2, <3>3
  <2>6. CASE \/ ReadCurrent(s) \/ LockRows(s) \/ FindOthers(s) \/ CommitUpsert(s)
             \/ FindCurrent(s) \/ CommitDowngrade(s)
    <3> USE <2>1 DEF Goto, Idle, HandlerRow
    <3>1. ordered /\ UNCHANGED billed
      BY <2>6 DEF ReadCurrent, LockRows, FindOthers, CommitUpsert, CommitUpsertStep, FindCurrent,
         CommitDowngrade, CommitDowngradeStep, HandlerOnly
    <3>2. handler[s].pc # "mark" /\ handler'[s].event \in {0, handler[s].event}
      <4>1. CASE ReadCurrent(s)
        BY <4>1 DEF ReadCurrent
      <4>2. CASE LockRows(s)
        BY <4>2 DEF LockRows
      <4>3. CASE FindOthers(s)
        BY <4>3 DEF FindOthers
      <4>4. CASE CommitUpsert(s)
        BY <4>4 DEF CommitUpsert, CommitUpsertStep
      <4>5. CASE FindCurrent(s)
        BY <4>5 DEF FindCurrent
      <4>6. CASE CommitDowngrade(s)
        BY <4>6 DEF CommitDowngrade, CommitDowngradeStep
      <4> QED BY <2>6, <4>1, <4>2, <4>3, <4>4, <4>5, <4>6
    <3> QED BY <2>1, <2>2, <3>1, <3>2 DEF InOrder
  <2> QED BY <1>4, <2>3, <2>4, <2>5, <2>6 DEF Handle
<1> QED BY <1>1, <1>3, <1>4 DEF StepShape, QuietStep, Handle

-----------------------------------------------------------------------------
(* What the current row shows of the events.                               *)

OnFree == \E f \in FreeRow : CurrentRows = {f}

\* The current row is what event n says.
Shows(n) ==
    IF events[n].type = "deleted" THEN OnFree
    ELSE \/ CurrentRows = {events[n].sub} /\ row[events[n].sub].status = events[n].status
         \/ events[n].status = "UNPAID" /\ OnFree

\* Event n is the last of the first m that is about a subscription's life.
Latest(n, m) == n \in Lifecycle /\ \A j \in n + 1 .. m : j \notin Lifecycle

UpTo(m) == \A n \in 1 .. m : Latest(n, m) => Shows(n)

\* With k events billed the rows show those, or the next as well; a handler
\* that is about to bill its event has made them show it.
Tracked(k) ==
    /\ UpTo(k) \/ (k + 1 <= Len(events) /\ UpTo(k + 1))
    /\ \A s \in Slot : handler[s].pc = "bill" => k + 1 <= Len(events) /\ UpTo(k + 1)

TrackInv == ordered => \E k \in 0 .. Len(events) : InOrder(k) /\ Tracked(k)

LEMMA LifecycleKept ==
    ASSUME SubscriptionInv, [SubscriptionNext]_subscriptionVars
    PROVE  /\ DOMAIN events = 1 .. Len(events) /\ DOMAIN events' = 1 .. Len(events')
           /\ \A n \in 1 .. Len(events) : n \in Lifecycle' <=> n \in Lifecycle
<1>1. SubscriptionInv'
  BY SubscriptionStep
<1>2. DOMAIN events = 1 .. Len(events) /\ DOMAIN events' = 1 .. Len(events')
  BY <1>1, LenProperties DEF SubscriptionInv, StripeOK
<1> QED BY <1>2, EventsGrow DEF Lifecycle

LEMMA UpToKept ==
    ASSUME SubscriptionInv, [SubscriptionNext]_subscriptionVars, FlagsKept,
           NEW m \in 0 .. Len(events), UpTo(m)
    PROVE  UpTo(m)'
<1>1. m \in Nat /\ Len(events) \in Nat /\ m <= Len(events)
  BY EventsGrow
<1> SUFFICES ASSUME NEW n \in 1 .. m, Latest(n, m)' PROVE Shows(n)'
  BY DEF UpTo
<1>2. n \in 1 .. Len(events) /\ \A j \in n + 1 .. m : j \in 1 .. Len(events)
  BY <1>1
<1>3. Latest(n, m)
  BY <1>2, LifecycleKept DEF Latest
<1>4. Shows(n) /\ events'[n] = events[n]
  BY <1>2, <1>3, EventsGrow DEF UpTo
<1>5. CurrentRows' = CurrentRows /\ \A r \in CurrentRows : row'[r].status = row[r].status
  BY DEF FlagsKept, CurrentRows
<1>6. OnFree' <=> OnFree
  BY <1>5 DEF OnFree
<1> QED BY <1>4, <1>5, <1>6 DEF Shows

\* An event of another kind changes nothing that is to be shown.
LEMMA UpToNext ==
    ASSUME NEW k \in Nat, k + 1 \notin Lifecycle, UpTo(k)
    PROVE  UpTo(k + 1)
<1> SUFFICES ASSUME NEW n \in 1 .. k + 1, Latest(n, k + 1) PROVE Shows(n)
  BY DEF UpTo
<1>1. n # k + 1
  BY DEF Latest
<1>2. n \in 1 .. k /\ \A j \in n + 1 .. k : j \in n + 1 .. k + 1
  BY <1>1
<1>3. Latest(n, k)
  BY <1>2 DEF Latest
<1> QED BY <1>2, <1>3 DEF UpTo

\* What was just applied is what is to be shown.
LEMMA UpToApplied ==
    ASSUME NEW k \in Nat, k + 1 \in Lifecycle', Shows(k + 1)'
    PROVE  UpTo(k + 1)'
<1> SUFFICES ASSUME NEW n \in 1 .. k + 1, Latest(n, k + 1)' PROVE Shows(n)'
  BY DEF UpTo
<1>1. CASE n < k + 1
  <2>1. k + 1 \in n + 1 .. k + 1
    BY <1>1
  <2> QED BY <2>1 DEF Latest
<1> QED BY <1>1

LEMMA TrackedKept ==
    ASSUME SubscriptionInv, [SubscriptionNext]_subscriptionVars, FlagsKept,
           NEW k \in 0 .. Len(events), Tracked(k),
           \A s \in Slot : handler'[s].pc = "bill" => handler[s].pc = "bill"
    PROVE  Tracked(k)'
<1>1. Len(events) \in Nat /\ Len(events') \in Nat /\ Len(events) <= Len(events')
  BY EventsGrow
<1>2. UpTo(k) => UpTo(k)'
  BY UpToKept
<1>3. k + 1 <= Len(events) /\ UpTo(k + 1) => UpTo(k + 1)' /\ k + 1 <= Len(events')
  <2> SUFFICES ASSUME k + 1 <= Len(events), UpTo(k + 1) PROVE UpTo(k + 1)' /\ k + 1 <= Len(events')
    OBVIOUS
  <2>1. k + 1 \in 0 .. Len(events)
    BY <1>1
  <2> QED BY <1>1, <2>1, UpToKept
<1> QED BY <1>2, <1>3 DEF Tracked

LEMMA TrackInit == SubscriptionInit => TrackInv
<1> SUFFICES ASSUME SubscriptionInit PROVE TrackInv
  OBVIOUS
<1>1. events = <<>> /\ Len(events) = 0 /\ billed = {}
  BY EmptySeq DEF SubscriptionInit
<1>2. \A s \in Slot : handler[s].event = 0 /\ handler[s].pc = "idle"
  BY DEF SubscriptionInit, Idle
<1>3. InOrder(0) /\ Tracked(0)
  BY <1>1, <1>2 DEF InOrder, Tracked, UpTo
<1> QED BY <1>1, <1>3 DEF TrackInv

\* A handler that bills its event at once has one that is not about a
\* subscription's life.
LEMMA BillsAnother ==
    ASSUME SubscriptionInv, NEW s \in Slot, QuietStep(s), handler'[s].pc = "bill"
    PROVE  handler'[s].event \in 1 .. Len(events) /\ handler'[s].event \notin Lifecycle
<1>0. /\ handler[s] \in HandlerRow /\ DOMAIN handler = Slot
      /\ handler'[s].pc = "bill"
  BY DEF SubscriptionInv, HandlersOK, Carries
<1>1. PICK n \in DOMAIN events : StartEvent(s, n)
  <2> USE <1>0 DEF Goto, Idle, HandlerRow
  <2>1. ~ReadCurrent(s)
    BY DEF ReadCurrent
  <2>2. ~LockRows(s) /\ ~FindOthers(s)
    BY DEF LockRows, FindOthers
  <2>5. ~FindCurrent(s)
    BY DEF FindCurrent
  <2>6. ~ScanExpired(s)
    <3> DEFINE expired == {r \in CurrentRows : row[r].status \in {"CANCELED", "UNPAID"}}
               h == [Idle EXCEPT !.pc = "scan", !.todo = Cardinality(expired)]
    <3>1. h.pc = "scan"
      OBVIOUS
    <3> HIDE DEF h
    <3>2. ASSUME ScanExpired(s) PROVE handler'[s] = h
      BY <3>2 DEF ScanExpired, h
    <3> QED BY <3>1, <3>2
  <2>3. ~PersistBillingEvent(s)
    BY DEF PersistBillingEvent
  <2>4. ~(MarkCheckoutCompleted(s) \/ FailHandler(s))
    <3> SUFFICES ASSUME MarkCheckoutCompleted(s) \/ FailHandler(s) PROVE FALSE
      OBVIOUS
    <3>1. handler'[s] = Idle
      BY DEF MarkCheckoutCompleted, FailHandler
    <3> QED BY <3>1
  <2> QED BY <2>1, <2>2, <2>3, <2>4, <2>5, <2>6 DEF QuietStep
<1>2. n \in 1 .. Len(events) /\ n # 0 /\ events[n].type \in EventType
  BY EventTypes, LenProperties DEF SubscriptionInv, StripeOK
<1>3. handler'[s].event = n /\ events[n].type = "checkout"
  BY <1>0, <1>1, <1>2 DEF StartEvent, Goto, Idle, FirstStep, EventType
<1> QED BY <1>2, <1>3 DEF Lifecycle

LEMMA BillsAtOnce ==
    ASSUME SubscriptionInv, NEW s \in Slot, QuietStep(s), handler'[s].pc = "bill",
           NEW k \in Nat, InOrder(k)'
    PROVE  k + 1 \notin Lifecycle /\ k + 1 <= Len(events)
<1>1. handler'[s].event \in 1 .. Len(events) /\ handler'[s].event \notin Lifecycle
  BY BillsAnother
<1>2. Len(events) \in Nat
  BY LenProperties DEF SubscriptionInv, StripeOK
<1>3. handler'[s].event = k + 1
  BY <1>1, <1>2 DEF InOrder
<1> QED BY <1>1, <1>2, <1>3

\* A commit for an event makes the rows show it.
LEMMA UpsertShows ==
    ASSUME SubscriptionInv, SoleInv, FitInv, [SubscriptionNext]_subscriptionVars,
           NEW s \in Slot, CommitUpsert(s), NEW k \in Nat, handler[s].event = k + 1
    PROVE  k + 1 \in Lifecycle /\ k + 1 <= Len(events) /\ UpTo(k + 1)'
<1>1. handler[s].event # 0 /\ k + 1 \in 1 .. Len(events)
  BY DEF SubscriptionInv, HandlersOK, Carries
<1>2. events[k + 1].type = "updated" /\ MyEvent(s) = events[k + 1]
  BY DEF CommitUpsert, CommitUpsertStep, FitInv, HandlerFits, MyEvent
<1>3. k + 1 \in Lifecycle /\ k + 1 \in Lifecycle'
  BY <1>1, <1>2, LifecycleKept DEF Lifecycle
<1>4. events'[k + 1] = events[k + 1]
  BY <1>1, EventsGrow
<1>5. MyEvent(s).sub \in RowId
  BY <1>1, EventOfHandler
<1>6. row'[MyEvent(s).sub].status = MyEvent(s).status
  BY <1>5, UpsertStep
<1>7. Shows(k + 1)'
  BY <1>2, <1>4, <1>6, UpsertAlone DEF Shows
<1> QED BY <1>1, <1>3, <1>7, UpToApplied

LEMMA DowngradeShows ==
    ASSUME SubscriptionInv, SoleInv, FitInv, [SubscriptionNext]_subscriptionVars,
           NEW s \in Slot, CommitDowngrade(s), NEW k \in Nat, handler[s].event = k + 1
    PROVE  k + 1 \in Lifecycle /\ k + 1 <= Len(events) /\ UpTo(k + 1)'
<1>1. handler[s].event # 0 /\ k + 1 \in 1 .. Len(events)
  BY DEF SubscriptionInv, HandlersOK, Carries
<1>2. events[k + 1].type = "deleted"
  BY <1>1 DEF CommitDowngrade, CommitDowngradeStep, FitInv, HandlerFits, MyEvent
<1>3. k + 1 \in Lifecycle /\ k + 1 \in Lifecycle'
  BY <1>1, <1>2, LifecycleKept DEF Lifecycle
<1>4. events'[k + 1] = events[k + 1]
  BY <1>1, EventsGrow
<1>5. OnFree'
  BY DowngradeAlone DEF OnFree
<1>6. Shows(k + 1)'
  BY <1>2, <1>4, <1>5 DEF Shows
<1> QED BY <1>1, <1>3, <1>6, UpToApplied

\* The job takes away only what is unpaid, which the events allow.
LEMMA LapseShows ==
    ASSUME SubscriptionInv, SoleInv, FitInv, [SubscriptionNext]_subscriptionVars,
           NEW s \in Slot, CommitDowngrade(s), handler[s].event = 0,
           NEW m \in 0 .. Len(events), UpTo(m)
    PROVE  UpTo(m)'
<1>1. m \in Nat /\ Len(events) \in Nat /\ m <= Len(events)
  BY EventsGrow
<1> SUFFICES ASSUME NEW n \in 1 .. m, Latest(n, m)' PROVE Shows(n)'
  BY DEF UpTo
<1>2. n \in 1 .. Len(events) /\ \A j \in n + 1 .. m : j \in 1 .. Len(events)
  BY <1>1
<1>3. Latest(n, m)
  BY <1>2, LifecycleKept DEF Latest
<1>4. Shows(n) /\ events'[n] = events[n]
  BY <1>2, <1>3, EventsGrow DEF UpTo
<1>5. OnFree'
  BY DowngradeAlone DEF OnFree
<1>6. \A r \in CurrentRows : row[r].status = "UNPAID"
  BY DEF CommitDowngrade, CommitDowngradeStep, FitInv, HandlerFits
<1>7. events[n].type = "deleted" \/ events[n].status = "UNPAID"
  BY <1>4, <1>6 DEF Shows
<1> QED BY <1>4, <1>5, <1>7 DEF Shows

LEMMA TrackStep ==
    ASSUME OneHandler, SubscriptionInv, SoleInv, FitInv, TrackInv,
           [SubscriptionNext]_subscriptionVars
    PROVE  TrackInv'
<1> SUFFICES ASSUME ordered' PROVE \E k \in 0 .. Len(events') : InOrder(k)' /\ Tracked(k)'
  BY DEF TrackInv
<1>1. PICK k \in 0 .. Len(events) : InOrder(k) /\ Tracked(k)
  BY OrderedBefore DEF TrackInv
<1>2. /\ Len(events) \in Nat /\ Len(events') \in Nat /\ Len(events) <= Len(events')
      /\ k \in Nat /\ k <= Len(events) /\ k \in 0 .. Len(events')
  BY EventsGrow
<1>3. SubscriptionInv' /\ StepShape
  BY SubscriptionStep
<1>4. CASE /\ InOrder(k + 1)' /\ k + 1 <= Len(events)
           /\ \E s \in Slot : PersistBillingEvent(s) /\ handler[s].event = k + 1
  <2>1. PICK s \in Slot : PersistBillingEvent(s)
    BY <1>4
  <2>2. UpTo(k + 1) /\ FlagsKept
    BY <1>1, <2>1, QuietSteps DEF Tracked, PersistBillingEvent, QuietStep, FlagsKept, CurrentRows
  <2>3. UpTo(k + 1)'
    BY <1>2, <1>4, <2>2, UpToKept
  <2>4. \A t \in Slot : handler'[t].pc # "bill"
    <3>1. handler[s] \in HandlerRow /\ DOMAIN handler = Slot /\ \A t \in Slot : t = s
      BY DEF SubscriptionInv, HandlersOK, Carries, OneHandler
    <3> QED BY <2>1, <3>1 DEF PersistBillingEvent, Goto, Idle, HandlerRow
  <2>5. k + 1 \in 0 .. Len(events')
    BY <1>2, <1>4
  <2> QED BY <1>4, <2>3, <2>4, <2>5 DEF Tracked
<1>5. CASE InOrder(k)'
  <2>1. CASE FlagsKept /\ UNCHANGED <<handler, billed, ordered>>
    BY <1>1, <1>2, <1>5, <2>1, TrackedKept
  <2>2. ASSUME NEW s \in Slot, QuietStep(s), FlagsKept PROVE Tracked(k)'
    <3>1. handler[s] \in HandlerRow /\ DOMAIN handler = Slot /\ \A t \in Slot : t = s
      BY DEF SubscriptionInv, HandlersOK, Carries, OneHandler
    <3>2. CASE handler'[s].pc = "bill" => handler[s].pc = "bill"
      BY <1>1, <2>2, <3>1, <3>2, TrackedKept
    <3>3. CASE handler'[s].pc = "bill" /\ handler[s].pc # "bill"
      <4>1. k + 1 \notin Lifecycle /\ k + 1 <= Len(events)
        BY <1>2, <1>5, <2>2, <3>3, BillsAtOnce
      <4>2. UpTo(k + 1)
        BY <1>1, <1>2, <4>1, UpToNext DEF Tracked
      <4>3. UpTo(k + 1)'
        BY <1>2, <2>2, <4>1, <4>2, UpToKept
      <4> QED BY <1>2, <4>1, <4>3 DEF Tracked
    <3> QED BY <3>2, <3>3
  <2>3. ASSUME NEW s \in Slot, CommitUpsert(s) PROVE Tracked(k)'
    <3>1. handler[s].event = k + 1
      BY <1>1, <2>3, AtWork DEF CommitUpsert, CommitUpsertStep, InOrder
    <3> QED BY <1>2, <2>3, <3>1, UpsertShows DEF Tracked
  <2>4. ASSUME NEW s \in Slot, CommitDowngrade(s) PROVE Tracked(k)'
    <3>1. CASE handler[s].event # 0
      <4>1. handler[s].event = k + 1
        BY <1>1, <2>4, <3>1 DEF CommitDowngrade, CommitDowngradeStep, InOrder
      <4> QED BY <1>2, <2>4, <4>1, DowngradeShows DEF Tracked
    <3>2. CASE handler[s].event = 0
      <4>1. UpTo(k) => UpTo(k)'
        BY <1>2, <2>4, <3>2, LapseShows
      <4>2. k + 1 <= Len(events) /\ UpTo(k + 1) => UpTo(k + 1)'
        BY <1>2, <2>4, <3>2, LapseShows
      <4>3. handler'[s].pc = "idle" /\ \A t \in Slot : t = s
        BY <2>4, <3>2 DEF CommitDowngrade, CommitDowngradeStep, FitInv, HandlerFits, Goto, Idle,
           SubscriptionInv, HandlersOK, Carries, HandlerRow, OneHandler
      <4> QED BY <1>1, <1>2, <4>1, <4>2, <4>3 DEF Tracked
    <3> QED BY <3>1, <3>2
  <2> QED BY <1>2, <1>3, <1>5, <2>1, <2>2, <2>3, <2>4 DEF StepShape
<1> QED BY <1>1, <1>4, <1>5, OrderMove

\* A finite set of numbers that is not empty has a largest one.
LEMMA LargestOf ==
    ASSUME NEW N \in Nat, NEW S \in SUBSET (1 .. N), S # {}
    PROVE  \E n \in S : \A m \in S : m <= n
<1> DEFINE Below == {N - n : n \in S}
<1>1. Below \subseteq Nat /\ Below # {}
  <2>1. \A n \in S : N - n \in Nat
    OBVIOUS
  <2>2. PICK n \in S : TRUE
    OBVIOUS
  <2>3. N - n \in Below
    BY <2>2
  <2> QED BY <2>1, <2>3
<1> DEFINE R == {ss \in Nat \X Nat : ss[1] < ss[2]}
<1>2. PICK d \in Below : \A c \in Below : d <= c
  <2> HIDE DEF Below, R
  <2>1. IsWellFoundedOn(R, Nat)
    BY NatLessThanWellFounded DEF R, OpToRel
  <2>2. PICK d \in Below : \A c \in Below : <<c, d>> \notin R
    BY <1>1, <2>1, WFMin
  <2>3. \A c \in Below : d <= c
    <3> SUFFICES ASSUME NEW c \in Below, c < d PROVE FALSE
      BY <1>1, <2>2
    <3>1. <<c, d>> \in R
      BY <1>1, <2>2 DEF R
    <3> QED BY <2>2, <3>1
  <2> QED BY <2>3
<1>3. PICK n \in S : d = N - n
  OBVIOUS
<1>4. \A m \in S : N - m \in Below
  OBVIOUS
<1> HIDE DEF Below
<1>5. \A m \in S : N - n <= N - m
  BY <1>2, <1>3, <1>4
<1> QED BY <1>3, <1>5

\* In order and with every event handled, the current row shows the last one.
LEMMA TrackGives ==
    ASSUME SubscriptionInv, TrackInv
    PROVE  CurrentFollowsStripe
<1> SUFFICES ASSUME ordered, Settled, Lifecycle # {}
             PROVE  LET e == events[CHOOSE n \in Lifecycle : \A m \in Lifecycle : m <= n]
                        Free == \E f \in FreeRow : CurrentRows = {f}
                    IN  IF e.type = "deleted" THEN Free
                        ELSE \/ CurrentRows = {e.sub} /\ row[e.sub].status = e.status
                             \/ e.status = "UNPAID" /\ Free
  BY DEF CurrentFollowsStripe
<1> DEFINE L == CHOOSE n \in Lifecycle : \A m \in Lifecycle : m <= n
<1>1. DOMAIN events = 1 .. Len(events) /\ Len(events) \in Nat
  BY LenProperties DEF SubscriptionInv, StripeOK
<1>2. PICK k \in 0 .. Len(events) : InOrder(k) /\ Tracked(k)
  BY DEF TrackInv
<1>3. k = Len(events)
  <2>1. 1 .. Len(events) \subseteq 1 .. k
    BY <1>1, <1>2 DEF Settled, InOrder
  <2>2. CASE k < Len(events)
    <3>1. Len(events) \in 1 .. Len(events) /\ Len(events) \notin 1 .. k
      BY <1>1, <2>2
    <3> QED BY <2>1, <3>1
  <2>3. Len(events) \in Nat /\ k \in Nat /\ k <= Len(events)
    BY <1>1
  <2> QED BY <2>2, <2>3
<1>4. UpTo(Len(events))
  BY <1>1, <1>2, <1>3 DEF Tracked
<1>5. L \in Lifecycle /\ \A m \in Lifecycle : m <= L
  <2>1. Lifecycle \subseteq 1 .. Len(events)
    BY <1>1 DEF Lifecycle
  <2>2. \E n \in Lifecycle : \A m \in Lifecycle : m <= n
    BY <1>1, <2>1, LargestOf
  <2> QED BY <2>2
<1>6. L \in 1 .. Len(events) /\ Latest(L, Len(events))
  BY <1>1, <1>5 DEF Latest, Lifecycle
<1>7. Shows(L)
  BY <1>4, <1>6 DEF UpTo
<1> QED BY <1>7 DEF Shows, OnFree

\* Where one handler runs at a time and Stripe's events are handled in the order
\* Stripe emitted them, however late, however often one is repeated or fails, and
\* whatever jobs and requests do in between: once all are handled, the current
\* subscription is what the last of them says.  Of events handled out of order
\* it says nothing; that is AcknowledgedIsShown.
THEOREM FollowsStripe ==
    ASSUME OneHandler
    PROVE  SubscriptionSpec => []CurrentFollowsStripe
<1> DEFINE I == SubscriptionInv /\ SoleInv /\ FitInv /\ TrackInv
<1>1. SubscriptionInit => I
  BY SubscriptionInitInv, SoleInit, FitInit, TrackInit
<1>2. I /\ [SubscriptionNext]_subscriptionVars => I'
  BY SubscriptionStep, SoleStep, FitStep, TrackStep
<1>3. I => CurrentFollowsStripe
  BY TrackGives
<1> QED BY <1>1, <1>2, <1>3, PTL DEF SubscriptionSpec

-----------------------------------------------------------------------------
(* Handled in any order: the event that is acknowledged is the one shown.  *)

AcknowledgedShown ==
    \A s \in Slot :
      handler[s].pc = "bill" /\ handler[s].event \in Lifecycle => Shows(handler[s].event)

LEMMA ShowsKept ==
    ASSUME SubscriptionInv, [SubscriptionNext]_subscriptionVars, FlagsKept,
           NEW n \in 1 .. Len(events), Shows(n)
    PROVE  Shows(n)'
<1>1. events'[n] = events[n]
  BY EventsGrow
<1>2. events[n] \in EventRow
  BY ElementOfSeq DEF SubscriptionInv, StripeOK
<1>3. events[n].sub \in RowId
  BY <1>2 DEF EventRow, RowId
<1>4. OnFree' <=> OnFree
  BY DEF FlagsKept, OnFree
<1> QED BY <1>1, <1>3, <1>4 DEF FlagsKept, Shows

LEMMA AcknowledgedStep ==
    ASSUME OneHandler, SubscriptionInv, SoleInv, FitInv, AcknowledgedShown,
           [SubscriptionNext]_subscriptionVars
    PROVE  AcknowledgedShown'
<1> SUFFICES ASSUME NEW s \in Slot, NEW n \in Lifecycle',
                    handler'[s].pc = "bill", handler'[s].event = n
             PROVE  Shows(n)'
  BY DEF AcknowledgedShown, Shows, OnFree
<1>1. StepShape
  BY SubscriptionStep
<1>2. /\ handler[s] \in HandlerRow /\ DOMAIN handler = Slot /\ Carries(handler[s])
      /\ \A t \in Slot : t = s
  BY DEF SubscriptionInv, HandlersOK, Carries, OneHandler
<1>3. Len(events) \in Nat /\ \A m \in 1 .. Len(events) : m \in Lifecycle' <=> m \in Lifecycle
  BY LifecycleKept, EventsGrow
<1>4. CASE FlagsKept /\ UNCHANGED handler
  <2>1. handler[s].event \in 1 .. Len(events)
    BY <1>2, <1>4 DEF Carries
  <2>2. Shows(handler[s].event)
    BY <1>3, <1>4, <2>1 DEF AcknowledgedShown
  <2> QED BY <1>4, <2>1, <2>2, ShowsKept
<1>5. CASE QuietStep(s)
  BY <1>3, <1>5, BillsAnother
<1>6. CASE CommitUpsert(s) \/ CommitDowngrade(s)
  <2>1. handler'[s].event = handler[s].event /\ handler[s].event # 0
    <3>1. CASE CommitUpsert(s)
      BY <1>2, <3>1, AtWork DEF CommitUpsert, CommitUpsertStep, Goto, HandlerRow
    <3>2. CASE CommitDowngrade(s)
      <4>1. handler[s] \in HandlerRow /\ DOMAIN handler = Slot
        BY <1>2
      <4>2. handler'[s] = IF handler[s].event # 0
                          THEN [handler[s] EXCEPT !.pc = "bill", !.target = {}]
                          ELSE IF handler[s].todo > 1
                          THEN [handler[s] EXCEPT !.pc = "scan", !.target = {}, !.todo = @ - 1]
                          ELSE Idle
        BY <3>2, <4>1 DEF CommitDowngrade, CommitDowngradeStep, Goto
      <4>3. CASE handler[s].event # 0
        BY <4>1, <4>2, <4>3 DEF HandlerRow
      <4>4. CASE handler[s].event = 0
        <5>1. handler'[s].pc \in {"scan", "idle"}
          BY <4>1, <4>2, <4>4 DEF HandlerRow, Idle
        <5> QED BY <5>1
      <4> QED BY <4>3, <4>4
    <3> QED BY <1>6, <3>1, <3>2
  <2>2. PICK k \in Nat : handler[s].event = k + 1
    <3>1. handler[s].event \in 1 .. Len(events) /\ handler[s].event - 1 \in Nat
      BY <1>2, <1>3, <2>1 DEF Carries
    <3>2. handler[s].event = (handler[s].event - 1) + 1
      BY <1>3, <3>1
    <3> QED BY <3>1, <3>2
  <2>3. UpTo(k + 1)' /\ k + 1 \in Lifecycle /\ k + 1 <= Len(events)
    BY <1>6, <2>2, UpsertShows, DowngradeShows
  <2>4. Latest(k + 1, k + 1)' /\ k + 1 \in 1 .. k + 1
    BY <2>1, <2>2 DEF Latest
  <2>5. Shows(k + 1)'
    BY <2>3, <2>4 DEF UpTo
  <2> QED BY <2>1, <2>2, <2>5
<1> QED BY <1>1, <1>2, <1>4, <1>5, <1>6 DEF StepShape

\* Where one handler runs at a time, but in whatever order Stripe's events are
\* handled: when an event about a subscription's life is acknowledged, the current
\* subscription is what that event says.  So after events out of order it is
\* the one handled last that counts, were it the older.
THEOREM AcknowledgedIsShown ==
    ASSUME OneHandler
    PROVE  SubscriptionSpec => []AcknowledgedShown
<1> DEFINE I == SubscriptionInv /\ SoleInv /\ FitInv /\ AcknowledgedShown
<1>1. SubscriptionInit => I
  <2>1. SubscriptionInit => AcknowledgedShown
    BY DEF SubscriptionInit, AcknowledgedShown, Idle
  <2> QED BY <2>1, SubscriptionInitInv, SoleInit, FitInit
<1>2. I /\ [SubscriptionNext]_subscriptionVars => I'
  BY SubscriptionStep, SoleStep, FitStep, AcknowledgedStep
<1>3. I => AcknowledgedShown
  OBVIOUS
<1> QED BY <1>1, <1>2, <1>3, PTL DEF SubscriptionSpec

-----------------------------------------------------------------------------
(* Cancel and revert requests.                                             *)

\* None of the events after the first m changes what Stripe says about b.
Told(b, m) ==
    \A n \in 1 .. Len(events) : events[n].type = "updated" /\ events[n].sub = b => n <= m

\* The last updated event about a subscription says what Stripe says of it now.
UpdateLast ==
    \A n \in 1 .. Len(events) :
      events[n].type = "updated" /\ Told(events[n].sub, n)
        => events[n].cancel = stripe[events[n].sub].cancel

\* What a request is about to write is what Stripe says, unless another request
\* told it otherwise.
RequestFits(q) ==
    request[q].pc = "write" /\ request[q].row \in Sub /\ ~request[q].overtaken
      => stripe[request[q].row].cancel = request[q].cancel

RequestsFit == \A q \in Request : RequestFits(q)

LEMMA ToldBefore ==
    ASSUME SubscriptionInv, [SubscriptionNext]_subscriptionVars, NEW b, NEW m, Told(b, m)'
    PROVE  Told(b, m)
<1>1. /\ Len(events) \in Nat /\ Len(events') \in Nat /\ Len(events) <= Len(events')
      /\ \A n \in 1 .. Len(events) : events'[n] = events[n]
  BY EventsGrow
<1>2. \A n \in 1 .. Len(events) : n \in 1 .. Len(events')
  BY <1>1
<1> QED BY <1>1, <1>2 DEF Told

\* As long as the updated events about b are among the first m, nobody tells
\* Stripe about b.
LEMMA StripeKept ==
    ASSUME SubscriptionInv, StripeFits, [SubscriptionNext]_subscriptionVars,
           NEW b \in Sub, NEW m \in 0 .. Len(events), Told(b, m)'
    PROVE  stripe'[b].cancel = stripe[b].cancel
<1>1. CASE UNCHANGED <<events, stripe>>
  BY <1>1
<1>2. CASE Emission
  <2>1. PICK e \in EventRow :
          /\ events' = Append(events, e)
          /\ \A c \in Sub \ {e.sub} : stripe'[c] = stripe[c]
          /\ e.type = "checkout" => UNCHANGED stripe
          /\ e.type = "deleted" => stripe'[e.sub].cancel = stripe[e.sub].cancel
    BY <1>2 DEF Emission
  <2>2. /\ Len(events) \in Nat /\ Len(events') = Len(events) + 1
        /\ events'[Len(events) + 1] = e /\ e.type \in EventType
    BY <2>1, AppendedEvent DEF EventRow
  <2>3. ASSUME e.type = "updated", e.sub = b PROVE FALSE
    <3>1. Len(events) + 1 \in 1 .. Len(events')
      BY <2>2
    <3>2. Len(events) + 1 <= m
      BY <2>2, <2>3, <3>1 DEF Told
    <3> QED BY <2>2, <3>2
  <2> QED BY <2>1, <2>2, <2>3 DEF EventType
<1> QED BY <1>1, <1>2, EmissionStep

LEMMA UpdateLastStep ==
    ASSUME SubscriptionInv, StripeFits, UpdateLast, [SubscriptionNext]_subscriptionVars
    PROVE  UpdateLast'
<1> SUFFICES ASSUME NEW n \in 1 .. Len(events'), NEW b, events'[n].type = "updated",
                    events'[n].sub = b, Told(b, n)'
             PROVE  events'[n].cancel = stripe'[b].cancel
  BY DEF UpdateLast, Told
<1>1. /\ Len(events) \in Nat /\ Len(events') \in Nat /\ Len(events) <= Len(events')
      /\ \A j \in 1 .. Len(events) : events'[j] = events[j]
  BY EventsGrow
<1>2. CASE n \in 1 .. Len(events)
  <2>1. events'[n] = events[n] /\ b \in Sub
    <3>1. events'[n] = events[n] /\ events[n] \in EventRow
      BY <1>1, <1>2, ElementOfSeq DEF SubscriptionInv, StripeOK
    <3> QED BY <3>1 DEF EventRow
  <2>2. Told(b, n) /\ n \in 0 .. Len(events)
    BY <1>2, ToldBefore
  <2>3. stripe'[b].cancel = stripe[b].cancel
    BY <2>1, <2>2, StripeKept
  <2> QED BY <1>2, <2>1, <2>2, <2>3 DEF UpdateLast
<1>3. CASE n \notin 1 .. Len(events)
  <2>1. Emission
    BY <1>1, <1>3, EmissionStep
  <2>2. PICK e \in EventRow : /\ events' = Append(events, e)
                              /\ e.type # "checkout" => e.cancel = stripe'[e.sub].cancel
    BY <2>1 DEF Emission
  <2>3. Len(events') = Len(events) + 1 /\ events'[Len(events) + 1] = e
    BY <2>2, AppendedEvent
  <2>4. n = Len(events) + 1
    BY <1>1, <1>3, <2>3
  <2> QED BY <2>2, <2>3, <2>4
<1> QED BY <1>2, <1>3

\* Who writes a request, and what of it.
LEMMA RequestsMove ==
    ASSUME SubscriptionInv, [SubscriptionNext]_subscriptionVars, NEW q \in Request
    PROVE  \/ request'[q] = request[q] /\ \A p \in Request : ~UpdateAtStripe(p)
           \/ request'[q].pc # "write"
           \/ request'[q].row \notin Sub
           \/ \E p \in Request : UpdateAtStripe(p)
<1>1. request \in [Request -> RequestRow]
  BY DEF SubscriptionInv, RequestsOK
<1> SUFFICES ASSUME \A p \in Request : ~UpdateAtStripe(p)
             PROVE  request'[q] = request[q] \/ request'[q].pc # "write" \/ request'[q].row \notin Sub
  OBVIOUS
<1>2. ASSUME NEW p \in Request, CancelRequest(p)
      PROVE  request'[q] = request[q] \/ request'[q].pc # "write" \/ request'[q].row \notin Sub
  <2>1. ASSUME NEW v \in BOOLEAN, BeginCancel(p, v)
        PROVE  request'[q] = request[q] \/ request'[q].pc # "write" \/ request'[q].row \notin Sub
    <3>1. PICK c \in CurrentRows : request' = [request EXCEPT ![p] =
             [NoRequest EXCEPT !.pc = IF c \in Sub THEN "stripe" ELSE "write",
                               !.row = c, !.cancel = v]]
      BY <2>1 DEF BeginCancel
    <3> QED BY <1>1, <3>1 DEF NoRequest
  <2>2. CASE WriteCancel(p) \/ DropRequest(p)
    <3>1. request' = [request EXCEPT ![p].pc = "done"]
      BY <2>2 DEF WriteCancel, WriteRow, DropRequest
    <3> QED BY <1>1, <3>1 DEF RequestRow
  <2> QED BY <1>2, <2>1, <2>2 DEF CancelRequest
<1>3. ASSUME NEW b \in Sub, Subscribe(b) \/ CompleteCheckout(b) \/ Change(b) \/ End(b)
      PROVE  UNCHANGED request
  BY <1>3 DEF Subscribe, CompleteCheckout, Change, End, StripeOnly
<1>4. ASSUME NEW s \in Slot, Handle(s) PROVE UNCHANGED request
  BY <1>4 DEF Handle, HandlerOnly, StartEvent, ReadCurrent, LockRows, FindOthers, CommitUpsert,
     CommitUpsertStep, ScanExpired, FindCurrent, CommitDowngrade, CommitDowngradeStep,
     PersistBillingEvent, MarkCheckoutCompleted, FailHandler
<1>5. CASE \/ \E b \in Sub : CreateCheckoutSession(b)
           \/ \E due \in SUBSET Sub : ExpireStaleCheckouts(due)
           \/ Reconcile
           \/ UNCHANGED subscriptionVars
  BY <1>5 DEF CreateCheckoutSession, ExpireStaleCheckouts, CheckoutOnly, Reconcile,
     ReconcileScan, ReconcileWrite, subscriptionVars
<1> QED BY <1>2, <1>3, <1>4, <1>5 DEF SubscriptionNext

\* Only a request changes what Stripe has been told.
LEMMA AnswerKept ==
    ASSUME SubscriptionInv, [SubscriptionNext]_subscriptionVars,
           \A q \in Request : ~UpdateAtStripe(q),
           NEW b \in Sub
    PROVE  stripe'[b].cancel = stripe[b].cancel
<1>1. stripe \in [Sub -> [status : StripeStatus \cup {"NONE"}, cancel : BOOLEAN]]
  BY DEF SubscriptionInv, StripeOK
<1>2. ASSUME NEW c \in Sub, Subscribe(c) \/ CompleteCheckout(c) \/ Change(c) \/ End(c)
      PROVE  stripe'[b].cancel = stripe[b].cancel
  <2>1. CASE Subscribe(c)
    BY <1>1, <2>1 DEF Subscribe
  <2>2. CASE CompleteCheckout(c)
    BY <2>2 DEF CompleteCheckout
  <2>3. CASE Change(c)
    BY <1>1, <2>3 DEF Change
  <2>4. CASE End(c)
    BY <1>1, <2>4 DEF End
  <2> QED BY <1>2, <2>1, <2>2, <2>3, <2>4
<1>3. ASSUME NEW s \in Slot, Handle(s) PROVE UNCHANGED stripe
  BY <1>3 DEF Handle, HandlerOnly, StartEvent, ReadCurrent, LockRows, FindOthers, CommitUpsert,
     CommitUpsertStep, ScanExpired, FindCurrent, CommitDowngrade, CommitDowngradeStep,
     PersistBillingEvent, MarkCheckoutCompleted, FailHandler
<1>4. ASSUME NEW q \in Request, CancelRequest(q) PROVE UNCHANGED stripe
  BY <1>4 DEF CancelRequest, BeginCancel, WriteCancel, WriteRow, DropRequest
<1>5. CASE \/ \E c \in Sub : CreateCheckoutSession(c)
           \/ \E due \in SUBSET Sub : ExpireStaleCheckouts(due)
           \/ Reconcile
           \/ UNCHANGED subscriptionVars
  BY <1>5 DEF CreateCheckoutSession, ExpireStaleCheckouts, CheckoutOnly, Reconcile,
     ReconcileScan, ReconcileWrite, subscriptionVars
<1> QED BY <1>2, <1>3, <1>4, <1>5 DEF SubscriptionNext

LEMMA RequestsFitStep ==
    ASSUME SubscriptionInv, RequestsFit, [SubscriptionNext]_subscriptionVars
    PROVE  RequestsFit'
<1> SUFFICES ASSUME NEW q \in Request, request'[q].pc = "write", request'[q].row \in Sub,
                    ~request'[q].overtaken
             PROVE  stripe'[request'[q].row].cancel = request'[q].cancel
  BY DEF RequestsFit, RequestFits
<1>1. /\ request \in [Request -> RequestRow] /\ RequestFits(q)
      /\ stripe \in [Sub -> [status : StripeStatus \cup {"NONE"}, cancel : BOOLEAN]]
  BY DEF SubscriptionInv, RequestsOK, StripeOK, RequestsFit
<1>2. CASE request'[q] = request[q] /\ \A p \in Request : ~UpdateAtStripe(p)
  <2>1. stripe'[request[q].row].cancel = stripe[request[q].row].cancel
    BY <1>2, AnswerKept
  <2> QED BY <1>1, <1>2, <2>1 DEF RequestFits
<1>3. ASSUME NEW p \in Request, UpdateAtStripe(p)
      PROVE  stripe'[request'[q].row].cancel = request'[q].cancel
  <2> DEFINE b == request[p].row
             v == request[p].cancel
             late == request[q].pc = "write" /\ request[q].row = b /\ request[q].cancel # v
  <2>1. b \in Sub
    BY <1>3 DEF UpdateAtStripe, SubscriptionInv, RequestsOK
  <2>2. stripe'[b].cancel = v /\ \A c \in Sub \ {b} : stripe'[c] = stripe[c]
    BY <1>1, <1>3, <2>1 DEF UpdateAtStripe
  <2>3. request'[q] = IF q = p THEN [request[q] EXCEPT !.pc = "write"]
                      ELSE [request[q] EXCEPT !.overtaken = @ \/ late]
    BY <1>3 DEF UpdateAtStripe
  <2>4. request'[q].row = request[q].row /\ request'[q].cancel = request[q].cancel
    BY <1>1, <2>3 DEF RequestRow
  <2>5. CASE q = p
    BY <2>2, <2>4, <2>5
  <2>6. CASE q # p
    <3>1. request[q] \in RequestRow
      BY <1>1
    <3>2. request'[q].pc = request[q].pc /\ request'[q].overtaken = (request[q].overtaken \/ late)
      BY <2>3, <2>6, <3>1 DEF RequestRow
    <3>3. request[q].pc = "write" /\ ~request[q].overtaken /\ ~late
      BY <3>2
    <3>4. stripe[request[q].row].cancel = request[q].cancel
      BY <1>1, <2>4, <3>3 DEF RequestFits
    <3> QED BY <2>2, <2>4, <3>3, <3>4
  <2> QED BY <2>5, <2>6
<1> QED BY <1>2, <1>3, RequestsMove

\* The row says what Stripe says, if it was not written astray.
SameAnswer(b) == Exists(b) /\ ~row[b].astray => row[b].cancel = stripe[b].cancel

\* With k events billed: so do the rows of the subscriptions whose updates are
\* among them, and once a handler is about to bill the next, among one more.
Answered(k) ==
    \A b \in Sub :
      /\ Told(b, k) => SameAnswer(b)
      /\ (\E s \in Slot : handler[s].pc = "bill") /\ Told(b, k + 1) => SameAnswer(b)

CancelInv == ordered => \E k \in 0 .. Len(events) : InOrder(k) /\ Answered(k)

LEMMA CancelInit == SubscriptionInit => UpdateLast /\ RequestsFit /\ CancelInv
<1> SUFFICES ASSUME SubscriptionInit PROVE UpdateLast /\ RequestsFit /\ CancelInv
  OBVIOUS
<1>1. events = <<>> /\ Len(events) = 0 /\ billed = {}
  BY EmptySeq DEF SubscriptionInit
<1>2. UpdateLast
  BY <1>1 DEF UpdateLast
<1>3. RequestsFit
  BY DEF SubscriptionInit, RequestsFit, RequestFits, NoRequest
<1>4. \A b \in Sub : ~Exists(b)
  BY SubscriptionAssumption DEF SubscriptionInit, Exists, Absent, RowId
<1>5. \A s \in Slot : handler[s].event = 0 /\ handler[s].pc = "idle"
  BY DEF SubscriptionInit, Idle
<1>6. InOrder(0) /\ Answered(0)
  BY <1>1, <1>4, <1>5 DEF InOrder, Answered, SameAnswer
<1> QED BY <1>1, <1>2, <1>3, <1>6 DEF CancelInv

\* Who writes a row.
LEMMA RowMoves ==
    ASSUME [SubscriptionNext]_subscriptionVars
    PROVE  \/ UNCHANGED row
           \/ \E q \in Request : WriteCancel(q)
           \/ \E s \in Slot : CommitUpsert(s) \/ CommitDowngrade(s)
<1>1. ASSUME NEW b \in Sub, Subscribe(b) \/ CompleteCheckout(b) \/ Change(b) \/ End(b)
      PROVE  UNCHANGED row
  BY <1>1 DEF Subscribe, CompleteCheckout, Change, End, StripeOnly
<1>2. ASSUME NEW s \in Slot, Handle(s), ~CommitUpsert(s), ~CommitDowngrade(s) PROVE UNCHANGED row
  BY <1>2 DEF Handle, HandlerOnly, StartEvent, ReadCurrent, LockRows, FindOthers, ScanExpired,
     FindCurrent, PersistBillingEvent, MarkCheckoutCompleted, FailHandler
<1>3. ASSUME NEW q \in Request, CancelRequest(q), ~WriteCancel(q) PROVE UNCHANGED row
  BY <1>3 DEF CancelRequest, BeginCancel, UpdateAtStripe, DropRequest
<1>4. CASE \/ \E b \in Sub : CreateCheckoutSession(b)
           \/ \E due \in SUBSET Sub : ExpireStaleCheckouts(due)
           \/ Reconcile
           \/ UNCHANGED subscriptionVars
  BY <1>4 DEF CreateCheckoutSession, ExpireStaleCheckouts, CheckoutOnly, Reconcile,
     ReconcileScan, ReconcileWrite, subscriptionVars
<1> QED BY <1>1, <1>2, <1>3, <1>4 DEF SubscriptionNext

\* A request writes what Stripe says, or astray.
LEMMA WriteAnswers ==
    ASSUME SubscriptionInv, RequestsFit, NEW q \in Request, WriteCancel(q),
           NEW b \in Sub, SameAnswer(b)
    PROVE  SameAnswer(b)'
<1>1. PICK c \in CurrentRows :
        row' = [row EXCEPT ![c].cancel = request[q].cancel,
                           ![c].astray = request[q].row # c \/ request[q].overtaken]
  BY DEF WriteCancel, WriteRow
<1>2. request[q].pc = "write" /\ UNCHANGED stripe
  BY DEF WriteCancel, WriteRow
<1>3. /\ b \in RowId /\ c \in RowId
      /\ row \in [RowId -> [status : Status \cup {"NONE"}, cancel : BOOLEAN,
                            current : BOOLEAN, astray : BOOLEAN]]
  BY DEF SubscriptionInv, RowsOK, CurrentRows, RowId
<1>4. CASE c = b
  <2>1. /\ row'[b].cancel = request[q].cancel
        /\ row'[b].astray = (request[q].row # b \/ request[q].overtaken)
    BY <1>1, <1>3, <1>4
  <2>2. ~row'[b].astray => stripe[b].cancel = request[q].cancel
    BY <1>2, <2>1 DEF RequestsFit, RequestFits
  <2> QED BY <1>2, <2>1, <2>2 DEF SameAnswer
<1>5. CASE c # b
  <2>1. row'[b] = row[b]
    BY <1>1, <1>3, <1>5
  <2> QED BY <1>2, <2>1 DEF SameAnswer, Exists
<1> QED BY <1>4, <1>5

\* Apart from a handler's upsert, a step leaves a row's answer as it is while
\* the updates about it are among the first m.
LEMMA SameAnswerStep ==
    ASSUME SubscriptionInv, StripeFits, RequestsFit, [SubscriptionNext]_subscriptionVars,
           \A s \in Slot : ~CommitUpsert(s),
           NEW b \in Sub, NEW m \in 0 .. Len(events), Told(b, m) => SameAnswer(b), Told(b, m)'
    PROVE  SameAnswer(b)'
<1>1. SameAnswer(b)
  BY ToldBefore
<1>2. stripe'[b].cancel = stripe[b].cancel
  BY StripeKept
<1>3. CASE UNCHANGED row
  BY <1>1, <1>2, <1>3 DEF SameAnswer, Exists
<1>4. ASSUME NEW q \in Request, WriteCancel(q) PROVE SameAnswer(b)'
  BY <1>1, <1>4, WriteAnswers
<1>5. ASSUME NEW s \in Slot, CommitDowngrade(s) PROVE SameAnswer(b)'
  <2>1. /\ row'[b].status = row[b].status /\ row'[b].cancel = row[b].cancel
        /\ row'[b].astray = row[b].astray
    BY <1>5, DowngradeLeaves
  <2> QED BY <1>1, <1>2, <2>1 DEF SameAnswer, Exists
<1> QED BY <1>3, <1>4, <1>5, RowMoves

\* An upsert writes what Stripe says, if no later event is about the subscription.
LEMMA UpsertAnswers ==
    ASSUME SubscriptionInv, SoleInv, FitInv, UpdateLast, [SubscriptionNext]_subscriptionVars,
           NEW s \in Slot, CommitUpsert(s), NEW k \in Nat, handler[s].event = k + 1,
           Answered(k), NEW b \in Sub, Told(b, k + 1)
    PROVE  SameAnswer(b)'
<1>1. /\ k + 1 \in 1 .. Len(events) /\ handler[s].event # 0 /\ UNCHANGED <<stripe, events>>
      /\ MyEvent(s) = events[k + 1] /\ events[k + 1].type = "updated"
  BY DEF SubscriptionInv, HandlersOK, Carries, CommitUpsert, CommitUpsertStep, FitInv,
     HandlerFits, MyEvent
<1>2. CASE b = MyEvent(s).sub
  <2>1. MyEvent(s).cancel = stripe[b].cancel
    BY <1>1, <1>2 DEF UpdateLast
  <2>2. row'[b].cancel = MyEvent(s).cancel
    BY <1>2, UpsertStep
  <2> QED BY <1>1, <2>1, <2>2 DEF SameAnswer
<1>3. CASE b # MyEvent(s).sub
  <2>1. /\ row'[b].status = row[b].status /\ row'[b].cancel = row[b].cancel
        /\ row'[b].astray = row[b].astray
    BY <1>3, UpsertLeaves
  <2>2. Told(b, k)
    <3> SUFFICES ASSUME NEW n \in 1 .. Len(events), events[n].type = "updated", events[n].sub = b
                 PROVE  n <= k
      BY DEF Told
    <3>1. n <= k + 1 /\ n # k + 1
      BY <1>1, <1>3 DEF Told
    <3> QED BY <3>1
  <2>3. SameAnswer(b)
    BY <2>2 DEF Answered
  <2> QED BY <1>1, <2>1, <2>3 DEF SameAnswer, Exists
<1> QED BY <1>2, <1>3

\* A handler that bills its event without an upsert has one that updates nothing.
LEMMA BillsNoUpdate ==
    ASSUME SubscriptionInv, SubscriptionInv', StepShape, FitInv, NEW s \in Slot,
           ~CommitUpsert(s), QuietStep(s) \/ CommitDowngrade(s),
           handler'[s].pc = "bill", handler[s].pc # "bill", NEW k \in Nat, InOrder(k)'
    PROVE  k + 1 \in 1 .. Len(events) /\ events[k + 1].type # "updated"
<1>1. CASE QuietStep(s)
  <2>1. k + 1 \notin Lifecycle /\ k + 1 <= Len(events)
    BY <1>1, BillsAtOnce
  <2>2. k + 1 \in DOMAIN events
    BY <2>1, LenProperties DEF SubscriptionInv, StripeOK
  <2> QED BY <2>1, <2>2 DEF Lifecycle
<1>2. CASE CommitDowngrade(s)
  <2>1. handler[s] \in HandlerRow /\ DOMAIN handler = Slot
    BY DEF SubscriptionInv, HandlersOK, Carries
  <2>2. handler[s].event # 0 /\ handler[s].pc = "free" /\ handler'[s].event = handler[s].event
    BY <1>2, <2>1 DEF CommitDowngrade, CommitDowngradeStep, Goto, HandlerRow, Idle
  <2>3. handler[s].event = k + 1
    BY <2>2 DEF InOrder
  <2>4. MyEvent(s).type = "deleted" /\ handler[s].event \in 1 .. Len(events)
    BY <2>2 DEF FitInv, HandlerFits, SubscriptionInv, HandlersOK, Carries
  <2> QED BY <2>3, <2>4 DEF MyEvent
<1> QED BY <1>1, <1>2

LEMMA CancelStep ==
    ASSUME OneHandler, SubscriptionInv, SoleInv, FitInv, UpdateLast, RequestsFit, CancelInv,
           [SubscriptionNext]_subscriptionVars
    PROVE  CancelInv'
<1> SUFFICES ASSUME ordered' PROVE \E k \in 0 .. Len(events') : InOrder(k)' /\ Answered(k)'
  BY DEF CancelInv
<1>1. PICK k \in 0 .. Len(events) : InOrder(k) /\ Answered(k)
  BY OrderedBefore DEF CancelInv
<1>2. /\ Len(events) \in Nat /\ Len(events') \in Nat /\ Len(events) <= Len(events')
      /\ k \in Nat /\ k <= Len(events) /\ k \in 0 .. Len(events')
      /\ \A n \in 1 .. Len(events) : events'[n] = events[n]
  BY EventsGrow
<1>3. SubscriptionInv' /\ StepShape /\ StripeFits
  BY SubscriptionStep DEF FitInv
<1>4. \A s \in Slot : handler[s] \in HandlerRow /\ DOMAIN handler = Slot /\ \A t \in Slot : t = s
  BY DEF SubscriptionInv, HandlersOK, Carries, OneHandler
<1>5. CASE /\ InOrder(k + 1)' /\ k + 1 <= Len(events)
           /\ \E s \in Slot : PersistBillingEvent(s) /\ handler[s].event = k + 1
  <2>1. PICK s \in Slot : PersistBillingEvent(s)
    BY <1>5
  <2>2. \A b \in Sub : Told(b, k + 1) => SameAnswer(b)
    BY <1>1, <2>1 DEF Answered, PersistBillingEvent
  <2>3. \A t \in Slot : handler'[t].pc # "bill"
    BY <1>4, <2>1 DEF PersistBillingEvent, Goto, Idle, HandlerRow
  <2>4. \A t \in Slot : ~CommitUpsert(t)
    BY <1>4, <2>1 DEF PersistBillingEvent, CommitUpsert, CommitUpsertStep
  <2>5. k + 1 \in 0 .. Len(events) /\ k + 1 \in 0 .. Len(events')
    BY <1>2, <1>5
  <2>6. \A b \in Sub : Told(b, k + 1)' => SameAnswer(b)'
    BY <1>3, <2>2, <2>4, <2>5, SameAnswerStep
  <2> QED BY <1>5, <2>3, <2>5, <2>6 DEF Answered
<1>6. ASSUME InOrder(k)', NEW s \in Slot, CommitUpsert(s)
      PROVE  InOrder(k)' /\ Answered(k)'
  <2>1. handler[s].event = k + 1
    BY <1>1, <1>6, AtWork DEF CommitUpsert, CommitUpsertStep, InOrder
  <2>2. \A b \in Sub : Told(b, k + 1)' => SameAnswer(b)'
    BY <1>1, <1>2, <1>6, <2>1, ToldBefore, UpsertAnswers
  <2>3. \A b \in Sub : Told(b, k)' => Told(b, k + 1)'
    BY <1>2 DEF Told
  <2> QED BY <1>6, <2>2, <2>3 DEF Answered
<1>7. ASSUME InOrder(k)', \A s \in Slot : ~CommitUpsert(s)
      PROVE  InOrder(k)' /\ Answered(k)'
  <2>1. \A b \in Sub : Told(b, k)' => SameAnswer(b)'
    BY <1>1, <1>2, <1>3, <1>7, SameAnswerStep DEF Answered
  <2>2. ASSUME NEW s \in Slot, handler'[s].pc = "bill", NEW b \in Sub, Told(b, k + 1)'
        PROVE  SameAnswer(b)'
    <3>1. CASE handler[s].pc = "bill"
      <4>1. handler[s].event = k + 1 /\ k + 1 <= Len(events)
        BY <1>1, <3>1, AtWork DEF InOrder, SubscriptionInv, HandlersOK, Carries
      <4>2. k + 1 \in 0 .. Len(events) /\ (Told(b, k + 1) => SameAnswer(b))
        BY <1>1, <1>2, <3>1, <4>1 DEF Answered
      <4> QED BY <1>3, <1>7, <2>2, <4>2, SameAnswerStep
    <3>2. CASE handler[s].pc # "bill"
      <4>1. QuietStep(s) \/ CommitDowngrade(s)
        BY <1>3, <1>4, <1>7, <2>2, <3>2 DEF StepShape
      <4>2. k + 1 \in 1 .. Len(events) /\ events[k + 1].type # "updated"
        BY <1>2, <1>3, <1>7, <2>2, <3>2, <4>1, BillsNoUpdate
      <4>3. Told(b, k)'
        <5> SUFFICES ASSUME NEW n \in 1 .. Len(events'), events'[n].type = "updated",
                            events'[n].sub = b
                     PROVE  n <= k
          BY DEF Told
        <5>1. n <= k + 1
          BY <2>2 DEF Told
        <5>2. n # k + 1
          BY <1>2, <4>2
        <5> QED BY <1>2, <5>1, <5>2
      <4> QED BY <2>1, <4>3
    <3> QED BY <3>1, <3>2
  <2> QED BY <1>7, <2>1, <2>2 DEF Answered
<1> QED BY <1>1, <1>2, <1>5, <1>6, <1>7, OrderMove

LEMMA CancelGives ==
    ASSUME SubscriptionInv, CancelInv
    PROVE  CancelAgreesWithStripe
<1> SUFFICES ASSUME ordered, Settled, NEW b \in Sub PROVE SameAnswer(b)
  BY DEF CancelAgreesWithStripe, SameAnswer
<1>1. PICK k \in 0 .. Len(events) : InOrder(k) /\ Answered(k)
  BY DEF CancelInv
<1>2. Told(b, k)
  <2>1. DOMAIN events = 1 .. Len(events)
    BY LenProperties DEF SubscriptionInv, StripeOK
  <2> QED BY <1>1, <2>1 DEF Settled, InOrder, Told
<1> QED BY <1>1, <1>2 DEF Answered

\* Where one handler runs at a time and the events are handled in order: however
\* many cancel and revert requests overlap, and wherever they are dropped, every
\* subscription's row says what Stripe says of its cancellation once all events
\* are handled, unless a request wrote it that had found another row, or had been
\* overtaken at Stripe.
THEOREM CancelAgrees ==
    ASSUME OneHandler
    PROVE  SubscriptionSpec => []CancelAgreesWithStripe
<1> DEFINE I == SubscriptionInv /\ SoleInv /\ FitInv /\ UpdateLast /\ RequestsFit /\ CancelInv
<1>1. SubscriptionInit => I
  BY SubscriptionInitInv, SoleInit, FitInit, CancelInit
<1>2. I /\ [SubscriptionNext]_subscriptionVars => I'
  <2> SUFFICES ASSUME I, [SubscriptionNext]_subscriptionVars PROVE I'
    OBVIOUS
  <2>1. SubscriptionInv' /\ SoleInv' /\ FitInv'
    BY SubscriptionStep, SoleStep, FitStep
  <2>2. UpdateLast' /\ RequestsFit' /\ CancelInv'
    BY UpdateLastStep, RequestsFitStep, CancelStep DEF FitInv
  <2> QED BY <2>1, <2>2
<1>3. I => CancelAgreesWithStripe
  BY CancelGives
<1> QED BY <1>1, <1>2, <1>3, PTL DEF SubscriptionSpec

-----------------------------------------------------------------------------
(* The rows implement CompanyPlan: a commit applies the event a handler    *)
(* has, or lets an unpaid plan lapse, and a BillingEvent row acknowledges  *)
(* an event that the rows show.                                            *)

\* What a handler has is not acknowledged yet, and applied before it will be.
AckInv ==
    \A s \in Slot :
      /\ handler[s].event # 0 /\ handler[s].pc # "mark" => handler[s].event \notin billed
      /\ handler[s].pc = "bill" /\ MyEvent(s).type # "checkout" =>
           CurrentPlan = Promise!PlanOf(MyEvent(s))

LEMMA PlanOnFree ==
    ASSUME NEW f \in FreeRow, CurrentRows' = {f}
    PROVE  CurrentPlan' = Promise!Free
<1>1. CurrentRows' \cap Sub = {}
  BY SubscriptionAssumption
<1> QED BY <1>1 DEF CurrentPlan, Promise!Free

LEMMA PlanOnSub ==
    ASSUME NEW b \in Sub, CurrentRows' = {b}
    PROVE  CurrentPlan' = [sub |-> b, status |-> row'[b].status]
<1>1. CurrentRows' \cap Sub = {b}
  OBVIOUS
<1>2. (CHOOSE c \in {b} : TRUE) = b
  OBVIOUS
<1> QED BY <1>1, <1>2 DEF CurrentPlan

LEMMA PlanKept ==
    ASSUME FlagsKept PROVE CurrentPlan' = CurrentPlan
<1> DEFINE B == CurrentRows \cap Sub
           b == CHOOSE c \in B : TRUE
<1>1. CASE B = {}
  BY <1>1 DEF FlagsKept, CurrentPlan
<1>2. CASE B # {}
  <2>1. b \in B
    BY <1>2
  <2>2. row'[b].status = row[b].status
    BY <2>1 DEF FlagsKept, RowId
  <2> QED BY <1>2, <2>2 DEF FlagsKept, CurrentPlan
<1> QED BY <1>1, <1>2

\* A commit of a handler that has an event applies it.
LEMMA UpsertApplies ==
    ASSUME SubscriptionInv, SoleInv, FitInv, NEW s \in Slot, CommitUpsert(s)
    PROVE  /\ handler[s].event # 0 /\ MyEvent(s).type = "updated"
           /\ CurrentPlan' = Promise!PlanOf(MyEvent(s))
<1>1. handler[s].event # 0 /\ MyEvent(s).type = "updated"
  BY AtWork DEF CommitUpsert, CommitUpsertStep, FitInv, HandlerFits
<1>2. PICK b \in Sub : b = MyEvent(s).sub
  BY <1>1, EventOfHandler
<1>3. CurrentRows' = {b} /\ row'[b].status = MyEvent(s).status
  BY <1>2, UpsertAlone, UpsertStep
<1>4. CurrentPlan' = [sub |-> b, status |-> MyEvent(s).status]
  BY <1>3, PlanOnSub
<1> QED BY <1>1, <1>2, <1>4 DEF Promise!PlanOf

LEMMA DowngradeApplies ==
    ASSUME SubscriptionInv, SoleInv, FitInv, NEW s \in Slot, CommitDowngrade(s)
    PROVE  /\ CurrentPlan' = Promise!Free
           /\ handler[s].event # 0 => MyEvent(s).type = "deleted"
<1>1. CurrentPlan' = Promise!Free
  BY DowngradeAlone, PlanOnFree
<1> QED BY <1>1 DEF CommitDowngrade, CommitDowngradeStep, FitInv, HandlerFits

LEMMA AckStep ==
    ASSUME OneHandler, SubscriptionInv, SoleInv, FitInv, AckInv, [SubscriptionNext]_subscriptionVars
    PROVE  AckInv'
<1>1. SubscriptionInv' /\ StepShape
  BY SubscriptionStep
<1> SUFFICES ASSUME NEW s \in Slot
             PROVE  /\ handler'[s].event # 0 /\ handler'[s].pc # "mark"
                         => handler'[s].event \notin billed'
                    /\ handler'[s].pc = "bill" /\ MyEvent(s)'.type # "checkout"
                         => CurrentPlan' = Promise!PlanOf(MyEvent(s))'
  BY DEF AckInv
<1>2. /\ handler[s] \in HandlerRow /\ DOMAIN handler = Slot /\ \A t \in Slot : t = s
      /\ handler[s].pc = "bill" => handler[s].event # 0
  BY DEF SubscriptionInv, HandlersOK, Carries, OneHandler
<1>3. handler'[s].event = handler[s].event /\ handler[s].event # 0 => MyEvent(s)' = MyEvent(s)
  BY MyEventKept
<1>4. CASE FlagsKept /\ UNCHANGED <<handler, billed, ordered>>
  BY <1>2, <1>3, <1>4, PlanKept DEF AckInv
<1>5. CASE QuietStep(s) /\ FlagsKept
  <2>1. CurrentPlan' = CurrentPlan
    BY <1>5, PlanKept
  <2> USE <1>2, <1>3, <2>1 DEF Goto, HandlerRow
  <2>2. ASSUME NEW n \in DOMAIN events, StartEvent(s, n)
        PROVE  /\ handler'[s].event \notin billed'
               /\ handler'[s].pc = "bill" => MyEvent(s)'.type = "checkout"
    <3>1. events[n].type \in EventType
      BY EventTypes
    <3>2. handler'[s].event = n /\ handler'[s].pc = FirstStep(events[n].type) /\ MyEvent(s)' = events[n]
      BY <2>2 DEF StartEvent, Idle, MyEvent
    <3> QED BY <2>2, <3>1, <3>2 DEF StartEvent, FirstStep, EventType
  <2>3. CASE ReadCurrent(s)
    BY <2>3 DEF ReadCurrent, HandlerOnly, AckInv
  <2>4. CASE LockRows(s)
    BY <2>4 DEF LockRows, HandlerOnly, AckInv
  <2>5. CASE FindOthers(s)
    BY <2>5 DEF FindOthers, HandlerOnly, AckInv
  <2>6. CASE ScanExpired(s)
    BY <2>6 DEF ScanExpired, Idle
  <2>7. CASE FindCurrent(s)
    BY <2>7 DEF FindCurrent, HandlerOnly, AckInv
  <2>8. CASE PersistBillingEvent(s)
    BY <2>8 DEF PersistBillingEvent, Idle
  <2>9. CASE MarkCheckoutCompleted(s) \/ FailHandler(s)
    <3>1. handler'[s] = Idle
      BY <2>9 DEF MarkCheckoutCompleted, FailHandler
    <3> QED BY <3>1 DEF Idle
  <2> QED BY <1>5, <2>2, <2>3, <2>4, <2>5, <2>6, <2>7, <2>8, <2>9 DEF QuietStep
<1>6. CASE CommitUpsert(s)
  <2>1. handler'[s].event = handler[s].event /\ UNCHANGED billed /\ handler[s].pc = "commit"
    BY <1>2, <1>6 DEF CommitUpsert, CommitUpsertStep, Goto, HandlerRow
  <2>2. handler[s].event # 0 /\ CurrentPlan' = Promise!PlanOf(MyEvent(s))
    BY <1>6, UpsertApplies
  <2> QED BY <1>3, <2>1, <2>2 DEF AckInv, Promise!PlanOf
<1>7. CASE CommitDowngrade(s)
  <2>1. /\ UNCHANGED billed /\ handler[s].pc = "free"
        /\ IF handler[s].event = 0 THEN handler'[s] = Idle
           ELSE handler'[s].event = handler[s].event
    BY <1>2, <1>7 DEF CommitDowngrade, CommitDowngradeStep, Goto, HandlerRow, FitInv, HandlerFits
  <2>2. CASE handler[s].event = 0
    BY <2>1, <2>2 DEF Idle
  <2>3. CASE handler[s].event # 0
    <3>1. MyEvent(s).type = "deleted" /\ CurrentPlan' = Promise!Free
      BY <1>7, <2>3, DowngradeApplies
    <3> QED BY <1>3, <2>1, <2>3, <3>1 DEF AckInv, Promise!PlanOf
  <2> QED BY <2>2, <2>3
<1> QED BY <1>1, <1>2, <1>4, <1>5, <1>6, <1>7 DEF StepShape

LEMMA PlanStep ==
    ASSUME OneHandler, SubscriptionInv, SoleInv, FitInv, AckInv, AlwaysSubscribed,
           [SubscriptionNext]_subscriptionVars
    PROVE  [Promise!PlanNext]_(Promise!planVars)
<1>1. SubscriptionInv' /\ StepShape /\ StripeFits
  BY SubscriptionStep DEF FitInv
<1>2. CASE FlagsKept /\ UNCHANGED <<handler, billed, ordered>>
  <2>1. CurrentPlan' = CurrentPlan /\ UNCHANGED billed
    BY <1>2, PlanKept
  <2>2. CASE UNCHANGED events
    BY <2>1, <2>2 DEF Promise!planVars
  <2>3. CASE Emission
    <3>1. PICK e \in EventRow : events' = Append(events, e)
      BY <2>3 DEF Emission
    <3>2. e \in Promise!Event
      BY DEF EventRow, EventType, StripeStatus, Promise!Event
    <3>3. Promise!Announce
      BY <2>1, <3>1, <3>2 DEF Promise!Announce
    <3> QED BY <3>3 DEF Promise!PlanNext
  <2> QED BY <1>1, <2>2, <2>3, EmissionStep
<1>3. ASSUME NEW s \in Slot, QuietStep(s), FlagsKept PROVE [Promise!PlanNext]_(Promise!planVars)
  <2>1. CurrentPlan' = CurrentPlan /\ UNCHANGED events
    BY <1>3, PlanKept DEF QuietStep, HandlerOnly, StartEvent, ReadCurrent, LockRows, FindOthers,
       ScanExpired, FindCurrent, PersistBillingEvent, MarkCheckoutCompleted, FailHandler
  <2>2. CASE PersistBillingEvent(s)
    <3> DEFINE n == handler[s].event
    <3>1. handler[s].pc = "bill" /\ n # 0 /\ billed' = billed \cup {n}
      BY <2>2, AtWork DEF PersistBillingEvent
    <3>2. n \in DOMAIN events \ billed
      BY <3>1, LenProperties DEF AckInv, SubscriptionInv, HandlersOK, Carries, StripeOK
    <3>3. events[n].type # "checkout" => CurrentPlan = Promise!PlanOf(events[n])
      BY <3>1 DEF AckInv, MyEvent
    <3>4. Promise!Acknowledge(n)
      BY <2>1, <3>1, <3>2, <3>3 DEF Promise!Acknowledge
    <3> QED BY <3>2, <3>4 DEF Promise!PlanNext
  <2>3. CASE ~PersistBillingEvent(s)
    <3>1. UNCHANGED billed
      BY <1>3, <2>3 DEF QuietStep, HandlerOnly, StartEvent, ReadCurrent, LockRows, FindOthers,
         ScanExpired, FindCurrent, MarkCheckoutCompleted, FailHandler
    <3> QED BY <2>1, <3>1 DEF Promise!planVars
  <2> QED BY <2>2, <2>3
<1>4. ASSUME NEW s \in Slot, handler[s].event # 0, handler[s].pc # "mark"
      PROVE  handler[s].event \in DOMAIN events \ billed
  BY <1>4, LenProperties DEF AckInv, SubscriptionInv, HandlersOK, Carries, StripeOK
<1>5. ASSUME NEW s \in Slot, CommitUpsert(s) PROVE Promise!PlanNext
  <2> DEFINE n == handler[s].event
  <2>1. n # 0 /\ events[n].type = "updated" /\ CurrentPlan' = Promise!PlanOf(events[n])
    BY <1>5, UpsertApplies DEF MyEvent
  <2>2. handler[s].pc = "commit" /\ UNCHANGED <<billed, events>>
    BY <1>5 DEF CommitUpsert, CommitUpsertStep
  <2>3. n \in DOMAIN events \ billed
    BY <1>4, <2>1, <2>2
  <2>4. Promise!Apply(n)
    BY <2>1, <2>2, <2>3 DEF Promise!Apply
  <2> QED BY <2>3, <2>4 DEF Promise!PlanNext
<1>6. ASSUME NEW s \in Slot, CommitDowngrade(s) PROVE Promise!PlanNext
  <2> DEFINE n == handler[s].event
  <2>1. CurrentPlan' = Promise!Free /\ handler[s].pc = "free" /\ UNCHANGED <<billed, events>>
    BY <1>6, DowngradeApplies DEF CommitDowngrade, CommitDowngradeStep
  <2>2. CASE n # 0
    <3>1. events[n].type = "deleted"
      BY <1>6, <2>2, DowngradeApplies DEF MyEvent
    <3>2. n \in DOMAIN events \ billed
      BY <1>4, <2>1, <2>2
    <3>3. Promise!Apply(n)
      BY <2>1, <3>1, <3>2 DEF Promise!Apply, Promise!PlanOf
    <3> QED BY <3>2, <3>3 DEF Promise!PlanNext
  <2>3. CASE n = 0
    <3>1. \A r \in CurrentRows : row[r].status = "UNPAID"
      BY <2>1, <2>3 DEF FitInv, HandlerFits
    <3>2. \A r \in CurrentRows : r \in Sub
      BY <3>1 DEF FitInv, RowsFit, CurrentRows, RowId
    <3>3. PICK r \in CurrentRows : TRUE
      BY DEF AlwaysSubscribed
    <3>4. (CHOOSE b \in CurrentRows \cap Sub : TRUE) \in CurrentRows /\ CurrentRows \cap Sub # {}
      BY <3>2, <3>3
    <3>5. CurrentPlan.status = "UNPAID"
      BY <3>1, <3>4 DEF CurrentPlan
    <3>6. Promise!Lapse
      BY <2>1, <3>5 DEF Promise!Lapse
    <3> QED BY <3>6 DEF Promise!PlanNext
  <2> QED BY <2>2, <2>3
<1> QED BY <1>1, <1>2, <1>3, <1>5, <1>6 DEF StepShape

\* Where one handler runs at a time the subscriptions keep the promise of
\* CompanyPlan, with handlers that fail and are repeated, the downgrade job and
\* requests next to them: no event is acknowledged that the rows do not show,
\* none is applied after it was acknowledged, and nothing else changes the plan
\* but the lapse of an unpaid one.
THEOREM SubscriptionsImplementPlan ==
    ASSUME OneHandler
    PROVE  SubscriptionSpec => ImplementsPlan
<1> DEFINE I == SubscriptionInv /\ SoleInv /\ FitInv /\ AckInv /\ AlwaysSubscribed
<1>1. SubscriptionInit => I /\ Promise!PlanInit
  <2> SUFFICES ASSUME SubscriptionInit PROVE I /\ Promise!PlanInit
    OBVIOUS
  <2>1. \A s \in Slot : handler[s].event = 0 /\ handler[s].pc = "idle"
    BY DEF SubscriptionInit, Idle
  <2>2. CurrentRows = {FirstRow} /\ CurrentRows \cap Sub = {}
    BY SubscriptionAssumption DEF SubscriptionInit, CurrentRows, RowId, FreePlan, Absent
  <2>3. AckInv /\ AlwaysSubscribed
    BY <2>1, <2>2 DEF AckInv, AlwaysSubscribed
  <2>4. Promise!PlanInit
    BY <2>2 DEF SubscriptionInit, CurrentPlan, Promise!PlanInit, Promise!Free
  <2> QED BY <2>3, <2>4, SubscriptionInitInv, SoleInit, FitInit
<1>2. I /\ [SubscriptionNext]_subscriptionVars => I'
  BY SubscriptionStep, SoleStep, FitStep, AckStep, AlwaysStep
<1>3. I /\ [SubscriptionNext]_subscriptionVars => [Promise!PlanNext]_(Promise!planVars)
  BY PlanStep
<1> QED BY <1>1, <1>2, <1>3, PTL DEF SubscriptionSpec, ImplementsPlan, Promise!PlanSpec
=============================================================================
