---------------------------- MODULE PurchaseProofs ----------------------------
(***************************************************************************)
(* Proofs about CreditPurchase: a purchase end to end, for any number of   *)
(* sessions, workers, clients, errors and dead workers.                    *)
(*                                                                         *)
(* Every step is a step of CreditWallet or leaves the wallets alone, so    *)
(* what is proved there holds here.  With the queue an event has one job,  *)
(* a job one handler, and a transaction that grants belongs to the handler *)
(* of its event: that is why nothing is granted twice.                     *)
(***************************************************************************)
EXTENDS CreditPurchase, CreditWalletProofs

-----------------------------------------------------------------------------
(* The delivery.                                                           *)

\* An event that has a job or a handler came from Stripe; a job that may run has
\* attempts left.  With the queue, a handler has its event's job for itself.
JobFits(e) ==
    /\ job[e] # "none" => stripe[e] # "none"
    /\ job[e] \in {"waiting", "active"} => attempts[e] < MaxAttempts

HandlerFits(w) ==
    handler[w] # NoEvent =>
        /\ stripe[handler[w]] # "none"
        /\ QueueEnabled => job[handler[w]] = "active"

OneHandlerEach ==
    QueueEnabled =>
        \A v, w \in Worker : handler[v] = handler[w] /\ handler[w] # NoEvent => v = w

DeliveryInv ==
    /\ QueueTypeOK
    /\ \A e \in Event : JobFits(e)
    /\ \A w \in Worker : HandlerFits(w)
    /\ OneHandlerEach

LEMMA DeliveryStays == DeliveryInv /\ [PurchaseNext]_purchaseVars => DeliveryInv'
<1> SUFFICES ASSUME DeliveryInv, [PurchaseNext]_purchaseVars PROVE DeliveryInv'
  OBVIOUS
<1> USE QueueAssumption, PurchaseAssumption
<1>0. /\ stripe \in [Event -> {"none", "due", "acked"}]
      /\ job \in [Event -> {"none", "waiting", "active", "failed"}]
      /\ attempts \in [Event -> 0 .. MaxAttempts]
      /\ stalls \in [Event -> 0 .. 1]
      /\ handler \in [Worker -> Event \cup {NoEvent}]
      /\ faults \in 0 .. MaxFaults
      /\ crashes \in 0 .. MaxCrashes
      /\ \A e \in Event : JobFits(e)
      /\ \A w \in Worker : HandlerFits(w)
      /\ OneHandlerEach
  BY DEF DeliveryInv, QueueTypeOK
<1>1. ASSUME UNCHANGED queueVars PROVE DeliveryInv'
  BY <1>1 DEF queueVars, DeliveryInv, QueueTypeOK, JobFits, HandlerFits, OneHandlerEach
<1>2. ASSUME NEW k \in Checkout, Pay(k) PROVE DeliveryInv'
  <2>1. /\ stripe' \in [Event -> {"none", "due", "acked"}]
        /\ faults' \in 0 .. MaxFaults
        /\ crashes' \in 0 .. MaxCrashes
    BY <1>0, <1>2 DEF Pay, Emit
  <2>2. /\ job' \in [Event -> {"none", "waiting", "active", "failed"}]
        /\ stalls' \in [Event -> 0 .. 1]
        /\ handler' \in [Worker -> Event \cup {NoEvent}]
    BY <1>0, <1>2 DEF Pay, Emit
  <2>3. attempts' \in [Event -> 0 .. MaxAttempts]
    BY <1>0, <1>2 DEF Pay, Emit, JobFits, HandlerFits
  <2>4. ASSUME NEW d \in Event PROVE JobFits(d)'
    BY <1>0, <1>2 DEF Pay, Emit, JobFits, HandlerFits
  <2>5. ASSUME NEW v \in Worker PROVE HandlerFits(v)'
    BY <1>0, <1>2, <2>2 DEF Pay, Emit, HandlerFits, OneHandlerEach
  <2>6. OneHandlerEach'
    BY <1>0, <1>2, <2>2 DEF Pay, Emit, HandlerFits, OneHandlerEach
  <2> QED BY <2>1, <2>2, <2>3, <2>4, <2>5, <2>6 DEF DeliveryInv, QueueTypeOK
<1>3. ASSUME NEW e \in Event, Enqueue(e) PROVE DeliveryInv'
  <2>1. /\ stripe' \in [Event -> {"none", "due", "acked"}]
        /\ faults' \in 0 .. MaxFaults
        /\ crashes' \in 0 .. MaxCrashes
    BY <1>0, <1>3 DEF Enqueue, Answer
  <2>2. /\ job' \in [Event -> {"none", "waiting", "active", "failed"}]
        /\ stalls' \in [Event -> 0 .. 1]
        /\ handler' \in [Worker -> Event \cup {NoEvent}]
    BY <1>0, <1>3 DEF Enqueue, Answer
  <2>3. attempts' \in [Event -> 0 .. MaxAttempts]
    BY <1>0, <1>3 DEF Enqueue, Answer, JobFits, HandlerFits
  <2>4. ASSUME NEW d \in Event PROVE JobFits(d)'
    BY <1>0, <1>3 DEF Enqueue, Answer, JobFits, HandlerFits
  <2>5. ASSUME NEW v \in Worker PROVE HandlerFits(v)'
    BY <1>0, <1>3, <2>2 DEF Enqueue, Answer, HandlerFits, OneHandlerEach
  <2>6. OneHandlerEach'
    BY <1>0, <1>3, <2>2 DEF Enqueue, Answer, HandlerFits, OneHandlerEach
  <2> QED BY <2>1, <2>2, <2>3, <2>4, <2>5, <2>6 DEF DeliveryInv, QueueTypeOK
<1>4. ASSUME NEW w \in Worker, NEW e \in Event, HandleInline(w, e) PROVE DeliveryInv'
  <2>1. /\ stripe' \in [Event -> {"none", "due", "acked"}]
        /\ faults' \in 0 .. MaxFaults
        /\ crashes' \in 0 .. MaxCrashes
    BY <1>0, <1>4 DEF HandleInline
  <2>2. /\ job' \in [Event -> {"none", "waiting", "active", "failed"}]
        /\ stalls' \in [Event -> 0 .. 1]
        /\ handler' \in [Worker -> Event \cup {NoEvent}]
    BY <1>0, <1>4 DEF HandleInline
  <2>3. attempts' \in [Event -> 0 .. MaxAttempts]
    BY <1>0, <1>4 DEF HandleInline, JobFits, HandlerFits
  <2>4. ASSUME NEW d \in Event PROVE JobFits(d)'
    BY <1>0, <1>4 DEF HandleInline, JobFits, HandlerFits
  <2>5. ASSUME NEW v \in Worker PROVE HandlerFits(v)'
    BY <1>0, <1>4, <2>2 DEF HandleInline, HandlerFits, OneHandlerEach
  <2>6. OneHandlerEach'
    BY <1>0, <1>4, <2>2 DEF HandleInline, HandlerFits, OneHandlerEach
  <2> QED BY <2>1, <2>2, <2>3, <2>4, <2>5, <2>6 DEF DeliveryInv, QueueTypeOK
<1>5. ASSUME NEW w \in Worker, NEW e \in Event, Take(w, e) PROVE DeliveryInv'
  <2>1. /\ stripe' \in [Event -> {"none", "due", "acked"}]
        /\ faults' \in 0 .. MaxFaults
        /\ crashes' \in 0 .. MaxCrashes
    BY <1>0, <1>5 DEF Take
  <2>2. /\ job' \in [Event -> {"none", "waiting", "active", "failed"}]
        /\ stalls' \in [Event -> 0 .. 1]
        /\ handler' \in [Worker -> Event \cup {NoEvent}]
    BY <1>0, <1>5 DEF Take
  <2>3. attempts' \in [Event -> 0 .. MaxAttempts]
    BY <1>0, <1>5 DEF Take, JobFits, HandlerFits
  <2>4. ASSUME NEW d \in Event PROVE JobFits(d)'
    BY <1>0, <1>5 DEF Take, JobFits, HandlerFits
  <2>5. ASSUME NEW v \in Worker PROVE HandlerFits(v)'
    BY <1>0, <1>5, <2>2 DEF Take, JobFits, HandlerFits
  <2>6. OneHandlerEach'
    BY <1>0, <1>5, <2>2 DEF Take, HandlerFits, OneHandlerEach
  <2> QED BY <2>1, <2>2, <2>3, <2>4, <2>5, <2>6 DEF DeliveryInv, QueueTypeOK
<1>6. ASSUME NEW w \in Worker, Finish(w) PROVE DeliveryInv'
  <2>0. handler[w] \in Event /\ handler[w] # NoEvent
    BY <1>0, <1>6 DEF Finish
  <2>1. /\ stripe' \in [Event -> {"none", "due", "acked"}]
        /\ faults' \in 0 .. MaxFaults
        /\ crashes' \in 0 .. MaxCrashes
    BY <1>0, <1>6, <2>0 DEF Finish, Answer
  <2>2. /\ job' \in [Event -> {"none", "waiting", "active", "failed"}]
        /\ stalls' \in [Event -> 0 .. 1]
        /\ handler' \in [Worker -> Event \cup {NoEvent}]
    BY <1>0, <1>6, <2>0 DEF Finish, Answer
  <2>3. attempts' \in [Event -> 0 .. MaxAttempts]
    BY <1>0, <1>6, <2>0 DEF Finish, Answer, JobFits, HandlerFits
  <2>4. ASSUME NEW d \in Event PROVE JobFits(d)'
    BY <1>0, <1>6, <2>0 DEF Finish, Answer, JobFits, HandlerFits
  <2>5. ASSUME NEW v \in Worker PROVE HandlerFits(v)'
    BY <1>0, <1>6, <2>2, <2>0 DEF Finish, Answer, HandlerFits, OneHandlerEach
  <2>6. OneHandlerEach'
    BY <1>0, <1>6, <2>2, <2>0 DEF Finish, Answer, HandlerFits, OneHandlerEach
  <2> QED BY <2>1, <2>2, <2>3, <2>4, <2>5, <2>6 DEF DeliveryInv, QueueTypeOK
<1>7. ASSUME NEW w \in Worker, FailEvent(w) PROVE DeliveryInv'
  <2>0. handler[w] \in Event /\ handler[w] # NoEvent
    BY <1>0, <1>7 DEF FailEvent, EndAttempt
  <2>1. /\ stripe' \in [Event -> {"none", "due", "acked"}]
        /\ faults' \in 0 .. MaxFaults
        /\ crashes' \in 0 .. MaxCrashes
    BY <1>0, <1>7, <2>0 DEF FailEvent, EndAttempt
  <2>2. /\ job' \in [Event -> {"none", "waiting", "active", "failed"}]
        /\ stalls' \in [Event -> 0 .. 1]
        /\ handler' \in [Worker -> Event \cup {NoEvent}]
    BY <1>0, <1>7, <2>0 DEF FailEvent, EndAttempt
  <2>3. attempts' \in [Event -> 0 .. MaxAttempts]
    BY <1>0, <1>7, <2>0 DEF FailEvent, EndAttempt, JobFits, HandlerFits
  <2>4. ASSUME NEW d \in Event PROVE JobFits(d)'
    BY <1>0, <1>7, <2>0 DEF FailEvent, EndAttempt, JobFits, HandlerFits
  <2>5. ASSUME NEW v \in Worker PROVE HandlerFits(v)'
    BY <1>0, <1>7, <2>2, <2>0 DEF FailEvent, EndAttempt, HandlerFits, OneHandlerEach
  <2>6. OneHandlerEach'
    BY <1>0, <1>7, <2>2, <2>0 DEF FailEvent, EndAttempt, HandlerFits, OneHandlerEach
  <2> QED BY <2>1, <2>2, <2>3, <2>4, <2>5, <2>6 DEF DeliveryInv, QueueTypeOK
<1>8. ASSUME Crash PROVE DeliveryInv'
  <2>1. /\ stripe' \in [Event -> {"none", "due", "acked"}]
        /\ faults' \in 0 .. MaxFaults
        /\ crashes' \in 0 .. MaxCrashes
    BY <1>0, <1>8 DEF Crash
  <2>2. /\ job' \in [Event -> {"none", "waiting", "active", "failed"}]
        /\ stalls' \in [Event -> 0 .. 1]
        /\ handler' \in [Worker -> Event \cup {NoEvent}]
    BY <1>0, <1>8 DEF Crash
  <2>3. attempts' \in [Event -> 0 .. MaxAttempts]
    BY <1>0, <1>8 DEF Crash, JobFits, HandlerFits
  <2>4. ASSUME NEW d \in Event PROVE JobFits(d)'
    BY <1>0, <1>8 DEF Crash, JobFits, HandlerFits
  <2>5. ASSUME NEW v \in Worker PROVE HandlerFits(v)'
    BY <1>0, <1>8, <2>2 DEF Crash, HandlerFits, OneHandlerEach
  <2>6. OneHandlerEach'
    BY <1>0, <1>8, <2>2 DEF Crash, HandlerFits, OneHandlerEach
  <2> QED BY <2>1, <2>2, <2>3, <2>4, <2>5, <2>6 DEF DeliveryInv, QueueTypeOK
<1>9. PurchaseNext \/ UNCHANGED purchaseVars
  OBVIOUS
<1>10. ASSUME NEW k \in Checkout,
              OpenStripeSession(k) \/ InsertCheckout(k) \/ ReturnUrl(k) \/ Pay(k)
       PROVE  DeliveryInv'
  BY <1>1, <1>2, <1>10 DEF OpenStripeSession, InsertCheckout, ReturnUrl
<1>11. CASE Deliver
  BY <1>3, <1>4, <1>5, <1>11 DEF Deliver
<1>12. ASSUME NEW w \in Worker, HandleEvent(w) \/ FinishEvent(w) \/ FailEvent(w)
       PROVE  DeliveryInv'
  BY <1>1, <1>6, <1>7, <1>12 DEF HandleEvent, FinishEvent
<1>13. CASE HandlersDie
  BY <1>8, <1>13 DEF HandlersDie
<1>14. CASE ClientStep \/ UNCHANGED purchaseVars
  BY <1>1, <1>14 DEF ClientStep, purchaseVars
<1> QED BY <1>9, <1>10, <1>11, <1>12, <1>13, <1>14 DEF PurchaseNext

-----------------------------------------------------------------------------
(* The wallets.                                                            *)

\* The whole system moves the wallets as CreditWallet does: a failed attempt
\* and a dead process abort the transactions of their handlers.
LEMMA PurchaseMovesWallets ==
    WalletTypeOK /\ QueueTypeOK /\ [PurchaseNext]_purchaseVars => [WalletNext]_walletVars
<1> SUFFICES ASSUME WalletTypeOK, QueueTypeOK, PurchaseNext
             PROVE  WalletNext \/ UNCHANGED walletVars
  BY DEF purchaseVars
<1> USE PurchaseAssumption
<1>1. ASSUME NEW k \in Checkout,
             OpenStripeSession(k) \/ InsertCheckout(k) \/ ReturnUrl(k) \/ Pay(k)
      PROVE  WalletNext \/ UNCHANGED walletVars
  BY <1>1 DEF OpenStripeSession, InsertCheckout, ReturnUrl, Pay, WalletNext
<1>2. CASE Deliver
  BY <1>2 DEF Deliver
<1>3. ASSUME NEW w \in Worker, HandleEvent(w) PROVE WalletNext
  <2>1. handler[w] \in Checkout /\ w \in Slot
    BY <1>3 DEF HandleEvent, QueueTypeOK
  <2>2. Grant(w)
    BY <1>3, <2>1 DEF HandleEvent, Grant
  <2> QED BY <2>1, <2>2 DEF WalletNext
<1>4. ASSUME NEW w \in Worker, FinishEvent(w) PROVE UNCHANGED walletVars
  BY <1>4 DEF FinishEvent
<1>5. ASSUME NEW w \in Worker, FailEvent(w) PROVE WalletNext \/ UNCHANGED walletVars
  <2>1. /\ txn' = [txn EXCEPT ![w] = Idle]
        /\ UNCHANGED <<hasWallet, balance, ledger, session>>
    BY <1>5 DEF FailEvent
  <2>2. CASE txn[w] = Idle
    BY <2>1, <2>2 DEF WalletTypeOK, walletVars
  <2>3. CASE txn[w] # Idle
    <3>1. txn' = [s \in Slot |-> IF s \in {w} THEN Idle ELSE txn[s]]
      BY <2>1 DEF WalletTypeOK
    <3>2. Abort({w}) /\ {w} \in SUBSET Slot
      BY <2>1, <2>3, <3>1 DEF Abort
    <3> QED BY <3>2 DEF WalletNext
  <2> QED BY <2>2, <2>3
<1>6. CASE HandlersDie
  <2>1. /\ txn' = [s \in Slot |-> IF s \in Worker THEN Idle ELSE txn[s]]
        /\ UNCHANGED <<hasWallet, balance, ledger, session>>
    BY <1>6 DEF HandlersDie
  <2>2. CASE \E s \in Worker : txn[s] # Idle
    <3>1. Abort(Worker) /\ Worker \in SUBSET Slot
      BY <2>1, <2>2 DEF Abort
    <3> QED BY <3>1 DEF WalletNext
  <2>3. CASE \A s \in Worker : txn[s] = Idle
    BY <2>1, <2>3 DEF WalletTypeOK, walletVars
  <2> QED BY <2>2, <2>3
<1>7. CASE ClientStep
  <2>1. ASSUME NEW s \in Client, Abort({s}) PROVE WalletNext
    <3>1. {s} \in SUBSET Slot
      BY DEF Client
    <3> QED BY <2>1, <3>1 DEF WalletNext
  <2> QED BY <1>7, <2>1 DEF ClientStep, Client, WalletNext
<1> QED BY <1>1, <1>2, <1>3, <1>4, <1>5, <1>6, <1>7 DEF PurchaseNext

PurchaseShape == PurchaseTypeOK /\ DeliveryInv /\ AdjustmentsAllowed

LEMMA PurchaseShapeHolds == PurchaseSpec => []PurchaseShape
<1>1. PurchaseInit => PurchaseShape
  <2> SUFFICES ASSUME PurchaseInit PROVE PurchaseShape
    OBVIOUS
  <2>1. QueueTypeOK
    BY QueueAssumption DEF PurchaseInit, QueueInit, QueueTypeOK
  <2>2. DeliveryInv
    BY <2>1, QueueAssumption
       DEF PurchaseInit, QueueInit, DeliveryInv, JobFits, HandlerFits, OneHandlerEach
  <2>3. WalletTypeOK /\ AdjustmentsAllowed
    BY DEF PurchaseInit, WalletInit, WalletTypeOK, Txn, AdjustmentsAllowed, Idle
  <2>4. checkout \in [Checkout -> {"none", "opened", "returned"}]
    BY DEF PurchaseInit
  <2> QED BY <2>1, <2>2, <2>3, <2>4 DEF PurchaseShape, PurchaseTypeOK
<1>2. PurchaseShape /\ [PurchaseNext]_purchaseVars => PurchaseShape'
  <2> SUFFICES ASSUME PurchaseShape, [PurchaseNext]_purchaseVars PROVE PurchaseShape'
    OBVIOUS
  <2>1. [WalletNext]_walletVars
    BY PurchaseMovesWallets DEF PurchaseShape, PurchaseTypeOK
  <2>2. WalletTypeOK' /\ AdjustmentsAllowed'
    BY <2>1, WalletTypeStays, AdjustmentsStayAllowed DEF PurchaseShape, PurchaseTypeOK
  <2>3. DeliveryInv'
    BY DeliveryStays DEF PurchaseShape
  <2>4. checkout' \in [Checkout -> {"none", "opened", "returned"}]
    <3>1. checkout \in [Checkout -> {"none", "opened", "returned"}]
      BY DEF PurchaseShape, PurchaseTypeOK
    <3> QED
      BY <3>1 DEF PurchaseNext, purchaseVars, OpenStripeSession, InsertCheckout, ReturnUrl,
         Pay, Deliver, HandleEvent, FinishEvent, FailEvent, HandlersDie, ClientStep
  <2> QED BY <2>2, <2>3, <2>4 DEF PurchaseShape, PurchaseTypeOK, DeliveryInv
<1> QED BY <1>1, <1>2, PTL DEF PurchaseSpec

\* Type correctness of the whole system.
THEOREM PurchaseTypeCorrect == PurchaseSpec => []PurchaseTypeOK
<1>1. PurchaseShape => PurchaseTypeOK
  BY DEF PurchaseShape
<1> QED BY <1>1, PurchaseShapeHolds, PTL

\* The purchase system uses the wallets as CreditWallet describes, so each of
\* the wallets' theorems holds of it.
THEOREM PurchaseUsesWallets == PurchaseSpec => WalletSpec
<1>1. PurchaseInit => WalletInit
  BY DEF PurchaseInit
<1>2. PurchaseShape /\ [PurchaseNext]_purchaseVars => [WalletNext]_walletVars
  BY PurchaseMovesWallets DEF PurchaseShape, PurchaseTypeOK
<1> QED BY <1>1, <1>2, PurchaseShapeHolds, PTL DEF PurchaseSpec, WalletSpec

\* The statement adds up and a session is COMPLETED exactly when its credits
\* were granted, also with retries, lost answers and dead workers.
THEOREM PurchaseStatements ==
    PurchaseSpec => [](LedgerExplainsBalance /\ CompletedIffGranted)
BY PurchaseUsesWallets, StatementAddsUp, CompletionIsGrant, PTL

\* Where manual adjustments are off nobody's wallet is below zero.
THEOREM PurchaseNeverBelowZero ==
    ASSUME ~AdminAdjustmentsEnabled
    PROVE  PurchaseSpec => []BalanceNeverNegative
BY PurchaseUsesWallets, NeverBelowZero, PTL

-----------------------------------------------------------------------------
(* Grants.                                                                 *)

\* What one more row does to the purchase rows of a session.
LEMMA PostRows ==
    ASSUME WalletTypeOK, NEW o \in Owner, NEW ty, NEW a \in Int, NEW r,
           Posted(o, ty, a, r), NEW k \in Checkout
    PROVE  IF ty = "PURCHASE" /\ r = k /\ o = PackOwner[k]
           THEN PurchaseRows(k)' = PurchaseRows(k) \cup {Len(ledger[o]) + 1}
           ELSE PurchaseRows(k)' = PurchaseRows(k)
<1> DEFINE p == PackOwner[k]
           n == Len(ledger[o])
           IsGrant(row) == row.type = "PURCHASE" /\ row.ref = k
<1>1. p \in Owner
  BY WalletAssumption
<1>2. ledger[o] \in Seq(Row) /\ n \in Nat /\ DOMAIN ledger[o] = 1 .. n
  BY DEF WalletTypeOK
<1>3. CASE p # o
  BY <1>1, <1>3 DEF Posted, PurchaseRows
<1>4. CASE p = o
  <2>1. DOMAIN ledger'[o] = (1 .. n) \cup {n + 1}
    BY <1>2 DEF Posted
  <2>2. \A i \in 1 .. n : ledger'[o][i] = ledger[o][i]
    BY DEF Posted
  <2>3. ledger'[o][n + 1].type = ty /\ ledger'[o][n + 1].ref = r
    BY DEF Posted
  <2>4. PurchaseRows(k)' = {i \in (1 .. n) \cup {n + 1} : IsGrant(ledger'[o][i])}
    BY <1>4, <2>1 DEF PurchaseRows
  <2>5. PurchaseRows(k) = {i \in 1 .. n : IsGrant(ledger[o][i])}
    BY <1>4, <1>2 DEF PurchaseRows
  <2> HIDE DEF n
  <2> QED BY <1>4, <2>2, <2>3, <2>4, <2>5 DEF n
<1> QED BY <1>3, <1>4

RowsStay == \A k \in Checkout : PurchaseRows(k)' = PurchaseRows(k)

LEMMA OtherRowsStay ==
    ASSUME WalletTypeOK, NEW s \in Slot, CommitSpend(s) \/ CommitAdjust(s)
    PROVE  RowsStay
<1> USE WalletAssumption
<1>1. CASE CommitSpend(s)
  <2>1. txn[s] \in SpendTxn
    BY <1>1, TxnKinds DEF CommitSpend, WalletTypeOK
  <2>2. txn[s].owner \in Owner /\ txn[s].amount \in Cost
    BY <2>1 DEF SpendTxn
  <2>3. \A c \in Cost : -c \in Int
    OBVIOUS
  <2>4. PICK o \in Owner, a \in Int : Posted(o, "SPEND", a, NoRef)
    BY <1>1, <2>2, <2>3, PostShape DEF CommitSpend
  <2>5. ASSUME NEW k \in Checkout PROVE PurchaseRows(k)' = PurchaseRows(k)
    BY <2>4, PostRows
  <2> QED BY <2>5 DEF RowsStay
<1>2. CASE CommitAdjust(s)
  <2>1. txn[s] \in AdjustTxn
    BY <1>2, TxnKinds DEF CommitAdjust, WalletTypeOK
  <2>2. txn[s].owner \in Owner /\ txn[s].amount \in Int
    BY <2>1 DEF AdjustTxn
  <2>3. PICK o \in Owner, a \in Int : Posted(o, "ADJUSTMENT", a, NoRef)
    BY <1>2, <2>2, PostShape DEF CommitAdjust
  <2>4. ASSUME NEW k \in Checkout PROVE PurchaseRows(k)' = PurchaseRows(k)
    BY <2>3, PostRows
  <2> QED BY <2>4 DEF RowsStay
<1> QED BY <1>1, <1>2

\* A transaction that grants is the handler of the session's event; with the
\* queue the session is not granted yet.
GrantFits(s) ==
    txn[s].kind = "grant" =>
        /\ s \in Worker
        /\ handler[s] \in Event
        /\ txn[s].ref = handler[s]
        /\ QueueEnabled => ~Granted(handler[s])

GrantInv ==
    /\ PurchaseShape
    /\ \A s \in Slot : GrantFits(s)
    /\ OnlyPaidIsGranted
    /\ QueueEnabled => GrantedAtMostOnce

\* A step that grants nothing.
GrantsWait ==
    /\ RowsStay
    /\ \A e \in Event : stripe[e] # "none" => stripe'[e] # "none"
    /\ \A s \in Slot : txn'[s].kind = "grant" =>
         /\ s \in Worker
         /\ handler[s] \in Event
         /\ handler'[s] = handler[s]
         /\ txn'[s].ref = handler[s]
         /\ QueueEnabled => ~Granted(handler[s])

LEMMA WaitingKeepsGrants == GrantInv /\ PurchaseShape' /\ GrantsWait => GrantInv'
<1> SUFFICES ASSUME GrantInv, PurchaseShape', GrantsWait PROVE GrantInv'
  OBVIOUS
<1> USE PurchaseAssumption
<1>1. \A k \in Checkout : Granted(k)' <=> Granted(k)
  BY DEF GrantsWait, RowsStay, Granted
<1>2. ASSUME NEW s \in Slot PROVE GrantFits(s)'
  BY <1>1 DEF GrantsWait, GrantFits
<1>3. OnlyPaidIsGranted'
  BY <1>1 DEF GrantInv, OnlyPaidIsGranted, GrantsWait
<1>4. QueueEnabled => GrantedAtMostOnce'
  BY DEF GrantInv, GrantedAtMostOnce, GrantsWait, RowsStay
<1> QED BY <1>2, <1>3, <1>4 DEF GrantInv

LEMMA CommitKeepsGrants ==
    ASSUME GrantInv, PurchaseShape', NEW w \in Worker, CommitGrant(w),
           UNCHANGED queueVars
    PROVE  GrantInv'
<1> USE PurchaseAssumption
<1>0. /\ WalletTypeOK /\ QueueTypeOK /\ OneHandlerEach
      /\ \A v \in Worker : HandlerFits(v)
      /\ \A s \in Slot : GrantFits(s)
      /\ w \in Slot
  BY DEF GrantInv, PurchaseShape, PurchaseTypeOK, DeliveryInv
<1>1. /\ txn[w] \in GrantTxn
      /\ handler[w] \in Event
      /\ txn[w].ref = handler[w]
      /\ QueueEnabled => ~Granted(handler[w])
  <2>1. txn[w].kind = "grant"
    BY DEF CommitGrant
  <2>2. txn[w] \in GrantTxn
    BY <1>0, <2>1, TxnKinds DEF WalletTypeOK
  <2> QED BY <1>0, <2>1, <2>2 DEF GrantFits
<1>2. PICK k \in Checkout : k = handler[w]
  BY <1>1
<1>3. PackOwner[k] \in Owner /\ PackCredits[k] \in Int
  BY WalletAssumption
<1>4. Posted(PackOwner[k], "PURCHASE", PackCredits[k], k)
  <2>1. Post(PackOwner[k], txn[w].found, "PURCHASE", PackCredits[k], k)
    BY <1>1, <1>2 DEF CommitGrant
  <2> QED BY <1>0, <1>3, <2>1, PostShape
<1> DEFINE n == Len(ledger[PackOwner[k]])
<1>5. ASSUME NEW h \in Checkout
      PROVE  IF h = k THEN PurchaseRows(h)' = PurchaseRows(h) \cup {n + 1}
             ELSE PurchaseRows(h)' = PurchaseRows(h)
  BY <1>0, <1>3, <1>4, PostRows
<1> HIDE DEF n
<1>6. \A h \in Checkout : Granted(h)' <=> Granted(h) \/ h = k
  BY <1>5 DEF Granted
<1>7. OnlyPaidIsGranted'
  <2>1. stripe[k] # "none" /\ stripe' = stripe
    BY <1>0, <1>1, <1>2, QueueAssumption DEF HandlerFits, queueVars
  <2> QED BY <1>6, <2>1 DEF GrantInv, OnlyPaidIsGranted
<1>8. QueueEnabled => GrantedAtMostOnce'
  <2> SUFFICES ASSUME QueueEnabled, NEW h \in Checkout,
                      NEW i \in PurchaseRows(h)', NEW j \in PurchaseRows(h)'
               PROVE  i = j
    BY DEF GrantedAtMostOnce
  <2>1. CASE h = k
    BY <1>1, <1>2, <1>5, <2>1 DEF Granted
  <2>2. CASE h # k
    BY <1>5, <2>2 DEF GrantInv, GrantedAtMostOnce
  <2> QED BY <2>1, <2>2
<1>9. ASSUME NEW s \in Slot PROVE GrantFits(s)'
  <2>1. txn'[w] = Idle /\ handler' = handler
    BY <1>0 DEF CommitGrant, WalletTypeOK, queueVars
  <2>2. CASE s = w
    BY <2>1, <2>2 DEF GrantFits, Idle
  <2>3. CASE s # w
    <3>1. txn'[s] = txn[s]
      BY <1>0, <2>3 DEF CommitGrant, WalletTypeOK
    <3>2. ASSUME txn[s].kind = "grant", QueueEnabled PROVE handler[s] # k
      BY <1>0, <1>1, <1>2, <2>3, <3>2, QueueAssumption DEF GrantFits, OneHandlerEach
    <3> QED BY <1>0, <1>6, <2>1, <3>1, <3>2 DEF GrantFits
  <2> QED BY <2>2, <2>3
<1> QED BY <1>7, <1>8, <1>9 DEF GrantInv

LEMMA GrantsStay == GrantInv /\ [PurchaseNext]_purchaseVars /\ PurchaseShape' => GrantInv'
<1> SUFFICES ASSUME GrantInv, [PurchaseNext]_purchaseVars, PurchaseShape' PROVE GrantInv'
  OBVIOUS
<1> USE PurchaseAssumption, QueueAssumption
<1>0. /\ txn \in [Slot -> Txn]
      /\ handler \in [Worker -> Event \cup {NoEvent}]
      /\ stripe \in [Event -> {"none", "due", "acked"}]
      /\ WalletTypeOK
      /\ \A s \in Slot : GrantFits(s)
  BY DEF GrantInv, PurchaseShape, PurchaseTypeOK, WalletTypeOK, QueueTypeOK
<1>r. UNCHANGED ledger => RowsStay
  BY DEF RowsStay, PurchaseRows
\* The deliveries and the requests leave the transactions alone.
<1>1. ASSUME UNCHANGED <<ledger, txn, handler>>,
             \A e \in Event : stripe[e] # "none" => stripe'[e] # "none"
      PROVE  GrantsWait
  BY <1>0, <1>1, <1>r DEF GrantsWait, GrantFits
<1>2. ASSUME NEW k \in Checkout,
             OpenStripeSession(k) \/ InsertCheckout(k) \/ ReturnUrl(k)
      PROVE  GrantsWait
  BY <1>1, <1>2 DEF OpenStripeSession, InsertCheckout, RecordCheckout, ReturnUrl, walletVars,
     queueVars
<1>3. ASSUME NEW k \in Checkout, Pay(k) PROVE GrantsWait
  <2>1. \A e \in Event : stripe[e] # "none" => stripe'[e] # "none"
    BY <1>0, <1>3 DEF Pay, Emit
  <2> QED BY <1>1, <1>3, <2>1 DEF Pay, Emit, walletVars
<1>4. ASSUME Deliver PROVE GrantsWait
  <2>1. ASSUME NEW e \in Event, Enqueue(e) PROVE GrantsWait
    <3>1. \A d \in Event : stripe[d] # "none" => stripe'[d] # "none"
      BY <1>0, <2>1 DEF Enqueue, Answer
    <3> QED BY <1>1, <1>4, <2>1, <3>1 DEF Deliver, Enqueue, walletVars
  <2>2. ASSUME NEW w \in Worker, NEW e \in Event, HandleInline(w, e) \/ Take(w, e)
        PROVE  GrantsWait
    <3>1. UNCHANGED <<ledger, txn, stripe>> /\ handler[w] = NoEvent
      BY <1>4, <2>2 DEF Deliver, HandleInline, Take, walletVars
    <3>2. \A v \in Worker \ {w} : handler'[v] = handler[v]
      BY <1>0, <2>2 DEF HandleInline, Take
    <3> QED BY <1>0, <1>r, <3>1, <3>2 DEF GrantsWait, GrantFits
  <2> QED BY <1>4, <2>1, <2>2 DEF Deliver
<1>5. ASSUME NEW w \in Worker, HandleEvent(w) PROVE GrantInv'
  <2>0. UNCHANGED <<stripe, handler>> /\ w \in Slot /\ handler[w] \in Event
    BY <1>0, <1>5 DEF HandleEvent, queueVars
  <2>1. CASE BeginGrant(w, handler[w])
    <3>1. /\ txn'[w].kind = "grant" /\ txn'[w].ref = handler[w] /\ ~Granted(handler[w])
          /\ \A s \in Slot \ {w} : txn'[s] = txn[s]
          /\ UNCHANGED ledger
      BY <1>0, <2>0, <2>1 DEF BeginGrant
    <3>2. GrantsWait
      BY <1>0, <1>r, <2>0, <3>1 DEF GrantsWait, GrantFits
    <3> QED BY <3>2, WaitingKeepsGrants
  <2>2. CASE ReadGrantWallet(w)
    <3>1. txn[w] \in GrantTxn
      BY <1>0, <2>0, <2>2, TxnKinds DEF ReadGrantWallet
    <3>2. /\ txn'[w].kind = txn[w].kind /\ txn'[w].ref = txn[w].ref
          /\ \A s \in Slot \ {w} : txn'[s] = txn[s]
          /\ UNCHANGED ledger
      BY <1>0, <2>0, <2>2, <3>1 DEF ReadGrantWallet, GrantTxn
    <3>3. GrantsWait
      BY <1>0, <1>r, <2>0, <3>2 DEF GrantsWait, GrantFits
    <3> QED BY <3>3, WaitingKeepsGrants
  <2>3. CASE CommitGrant(w)
    BY <1>5, <2>3, CommitKeepsGrants DEF HandleEvent
  <2> QED BY <1>5, <2>1, <2>2, <2>3 DEF HandleEvent
<1>6. ASSUME NEW w \in Worker, FinishEvent(w) PROVE GrantsWait
  <2>1. /\ UNCHANGED <<ledger, txn>>
        /\ txn[w].kind # "grant"
        /\ \A v \in Worker \ {w} : handler'[v] = handler[v]
    BY <1>0, <1>6 DEF FinishEvent, Finish, walletVars, Idle
  <2>2. handler[w] \in Event
    BY <1>0, <1>6 DEF FinishEvent
  <2>3. \A e \in Event : stripe[e] # "none" => stripe'[e] # "none"
    BY <1>0, <1>6, <2>2 DEF FinishEvent, Finish, Answer
  <2> QED BY <1>0, <1>r, <2>1, <2>3 DEF GrantsWait, GrantFits
<1>7. ASSUME NEW w \in Worker, FailEvent(w) PROVE GrantsWait
  <2>1. /\ UNCHANGED <<ledger, stripe>>
        /\ txn'[w].kind # "grant"
        /\ \A s \in Slot \ {w} : txn'[s] = txn[s]
        /\ \A v \in Worker \ {w} : handler'[v] = handler[v]
    BY <1>0, <1>7 DEF FailEvent, EndAttempt, Idle
  <2> QED BY <1>0, <1>r, <2>1 DEF GrantsWait, GrantFits
<1>8. ASSUME HandlersDie PROVE GrantsWait
  <2>1. /\ UNCHANGED <<ledger, stripe>>
        /\ \A s \in Slot : txn'[s] = IF s \in Worker THEN Idle ELSE txn[s]
    BY <1>8 DEF HandlersDie, Crash
  <2> QED BY <1>0, <1>r, <2>1 DEF GrantsWait, GrantFits, Idle
<1>9. ASSUME ClientStep PROVE GrantsWait
  <2>0. UNCHANGED <<stripe, handler>>
    BY <1>9 DEF ClientStep, queueVars
  <2>1. ASSUME NEW s \in Slot \ Worker, RowsStay, txn'[s].kind # "grant",
               \A t \in Slot \ {s} : txn'[t] = txn[t]
        PROVE  GrantsWait
    BY <1>0, <2>0, <2>1 DEF GrantsWait, GrantFits
  <2>2. ASSUME NEW s \in Client, Spend(s) PROVE GrantsWait
    <3>1. CASE CommitSpend(s)
      <4>1. RowsStay
        BY <1>0, <3>1, OtherRowsStay DEF Client
      <4>2. txn'[s].kind # "grant" /\ \A t \in Slot \ {s} : txn'[t] = txn[t]
        BY <1>0, <3>1 DEF CommitSpend, Client, Idle
      <4> QED BY <2>1, <4>1, <4>2 DEF Client
    <3>2. CASE RejectSpend(s)
      <4>1. txn'[s].kind # "grant" /\ \A t \in Slot \ {s} : txn'[t] = txn[t]
        BY <1>0, <3>2 DEF RejectSpend, Client, Idle
      <4> QED BY <1>r, <2>1, <3>2, <4>1 DEF RejectSpend, Client
    <3>3. ASSUME NEW o \in Owner, NEW c \in Cost, BeginSpend(s, o, c) PROVE GrantsWait
      <4>1. txn'[s].kind # "grant" /\ \A t \in Slot \ {s} : txn'[t] = txn[t]
        BY <1>0, <3>3 DEF BeginSpend, Client
      <4> QED BY <1>r, <2>1, <3>3, <4>1 DEF BeginSpend, Client
    <3> QED BY <2>2, <3>1, <3>2, <3>3 DEF Spend
  <2>3. ASSUME NEW s \in Client, Adjust(s) PROVE GrantsWait
    <3>1. CASE CommitAdjust(s)
      <4>1. RowsStay
        BY <1>0, <3>1, OtherRowsStay DEF Client
      <4>2. txn'[s].kind # "grant" /\ \A t \in Slot \ {s} : txn'[t] = txn[t]
        BY <1>0, <3>1 DEF CommitAdjust, Client, Idle
      <4> QED BY <2>1, <4>1, <4>2 DEF Client
    <3>2. ASSUME NEW o \in Owner, NEW a \in Adjustment, BeginAdjust(s, o, a) PROVE GrantsWait
      <4>1. txn'[s].kind # "grant" /\ \A t \in Slot \ {s} : txn'[t] = txn[t]
        BY <1>0, <3>2 DEF BeginAdjust, Client
      <4> QED BY <1>r, <2>1, <3>2, <4>1 DEF BeginAdjust, Client
    <3> QED BY <2>3, <3>1, <3>2 DEF Adjust
  <2>4. ASSUME NEW s \in Client, Abort({s}) PROVE GrantsWait
    <3>1. txn'[s].kind # "grant" /\ \A t \in Slot \ {s} : txn'[t] = txn[t]
      BY <1>0, <2>4 DEF Abort, Client, Idle
    <3> QED BY <1>r, <2>1, <2>4, <3>1 DEF Abort, Client
  <2>5. ASSUME NEW o \in Owner, EnsureWallet(o) PROVE GrantsWait
    BY <1>1, <2>0, <2>5 DEF EnsureWallet
  <2>6. ASSUME NEW due \in SUBSET Checkout, ExpireCheckouts(due) PROVE GrantsWait
    BY <1>1, <2>0, <2>6 DEF ExpireCheckouts
  <2> QED BY <1>9, <2>2, <2>3, <2>4, <2>5, <2>6 DEF ClientStep
<1>10. ASSUME UNCHANGED purchaseVars PROVE GrantsWait
  BY <1>1, <1>10 DEF purchaseVars, walletVars, queueVars
<1> QED
  BY <1>2, <1>3, <1>4, <1>5, <1>6, <1>7, <1>8, <1>9, <1>10, WaitingKeepsGrants
     DEF PurchaseNext

LEMMA GrantInvHolds == PurchaseSpec => []GrantInv
<1>1. PurchaseInit /\ PurchaseShape => GrantInv
  <2> SUFFICES ASSUME PurchaseInit, PurchaseShape PROVE GrantInv
    OBVIOUS
  <2>1. \A k \in Checkout : PurchaseRows(k) = {}
    BY WalletAssumption DEF PurchaseInit, WalletInit, PurchaseRows
  <2>2. \A s \in Slot : GrantFits(s)
    BY DEF PurchaseInit, WalletInit, Idle, GrantFits
  <2> QED BY <2>1, <2>2 DEF GrantInv, OnlyPaidIsGranted, GrantedAtMostOnce, Granted
<1>2. GrantInv /\ [PurchaseNext]_purchaseVars /\ PurchaseShape' => GrantInv'
  BY GrantsStay
<1> QED BY <1>1, <1>2, PurchaseShapeHolds, PTL DEF PurchaseSpec

\* Credits are granted for paid sessions only.
THEOREM GrantsArePaid == PurchaseSpec => []OnlyPaidIsGranted
<1>1. GrantInv => OnlyPaidIsGranted
  BY DEF GrantInv
<1> QED BY <1>1, GrantInvHolds, PTL

\* With the queue a payment is credited at most once, however often its event
\* is posted, retried or recovered from a dead worker.
THEOREM GrantsAreSingle ==
    ASSUME QueueEnabled
    PROVE  PurchaseSpec => []GrantedAtMostOnce
<1>1. GrantInv => GrantedAtMostOnce
  BY DEF GrantInv
<1> QED BY <1>1, GrantInvHolds, PTL

-----------------------------------------------------------------------------
(* No payment is lost.                                                     *)

\* A payment has its session; until the credits are there Stripe still posts
\* the event or its job exists, and a job that runs has a handler at work.
Kept(k) ==
    /\ checkout[k] = "returned" \/ stripe[k] # "none" => session[k] # "NONE"
    /\ stripe[k] # "none" /\ ~Granted(k) => stripe[k] = "due" \/ job[k] # "none"
    /\ job[k] # "none" => QueueEnabled
    /\ job[k] = "active" => \E w \in Worker : handler[w] = k

KeptInv == \A k \in Checkout : Kept(k)

\* What was granted stays granted, and a session that was recorded has a status.
LEMMA GrantsAndSessionsLast ==
    ASSUME WalletTypeOK, AdjustmentsAllowed, [WalletNext]_walletVars, NEW k \in Checkout
    PROVE  /\ Granted(k) => Granted(k)'
           /\ session[k] # "NONE" => session'[k] # "NONE"
<1>1. Granted(k) => Granted(k)'
  <2>1. CASE Quiet
    BY <2>1 DEF Quiet, Granted, PurchaseRows
  <2>2. ASSUME NEW o \in Owner, NEW c \in Cost, Debit(o, c) PROVE Granted(k) => Granted(k)'
    <3>1. -c \in Int /\ Posted(o, "SPEND", -c, NoRef)
      BY <2>2, WalletAssumption DEF Debit
    <3> QED BY <3>1, PostGrants
  <2>3. ASSUME NEW o \in Owner, NEW a \in Adjustment, Correction(o, a)
        PROVE  Granted(k) => Granted(k)'
    <3>1. a \in Int /\ Posted(o, "ADJUSTMENT", a, NoRef)
      BY <2>3, WalletAssumption DEF Correction
    <3> QED BY <3>1, PostGrants
  <2>4. ASSUME NEW h \in Checkout, Credit(h) PROVE Granted(k) => Granted(k)'
    <3>1. /\ PackOwner[h] \in Owner /\ PackCredits[h] \in Int
          /\ Posted(PackOwner[h], "PURCHASE", PackCredits[h], h)
      BY <2>4, WalletAssumption DEF Credit
    <3> QED BY <3>1, PostGrants
  <2> QED BY <2>1, <2>2, <2>3, <2>4, StepShape
<1>2. session[k] # "NONE" => session'[k] # "NONE"
  <2>1. session \in [Checkout -> {"NONE", "CREATED", "COMPLETED", "EXPIRED"}]
    BY DEF WalletTypeOK
  <2>2. ASSUME NEW s \in Slot, CommitGrant(s) PROVE session[k] # "NONE" => session'[k] # "NONE"
    BY <2>1, <2>2 DEF CommitGrant
  <2>3. ASSUME NEW h \in Checkout, RecordCheckout(h)
        PROVE  session[k] # "NONE" => session'[k] # "NONE"
    BY <2>1, <2>3 DEF RecordCheckout
  <2>4. ASSUME NEW due \in SUBSET Checkout, ExpireCheckouts(due)
        PROVE  session[k] # "NONE" => session'[k] # "NONE"
    BY <2>1, <2>4 DEF ExpireCheckouts
  <2>5. CASE UNCHANGED session
    BY <2>5
  <2>6. ASSUME NEW s \in Slot, Spend(s) \/ Adjust(s) PROVE UNCHANGED session
    BY <2>6 DEF Spend, BeginSpend, CommitSpend, RejectSpend, Adjust, BeginAdjust, CommitAdjust
  <2>7. ASSUME NEW s \in Slot, Grant(s) PROVE UNCHANGED session \/ CommitGrant(s)
    BY <2>7 DEF Grant, ReadGrantWallet, BeginGrant
  <2>8. \/ UNCHANGED session
        \/ \E s \in Slot : CommitGrant(s)
        \/ \E h \in Checkout : RecordCheckout(h)
        \/ \E due \in SUBSET Checkout : ExpireCheckouts(due)
    BY <2>6, <2>7 DEF WalletNext, walletVars, Abort, EnsureWallet
  <2> QED BY <2>2, <2>3, <2>4, <2>5, <2>8
<1> QED BY <1>1, <1>2

LEMMA KeptStays == PurchaseShape /\ KeptInv /\ [PurchaseNext]_purchaseVars => KeptInv'
<1> SUFFICES ASSUME PurchaseShape, KeptInv, [PurchaseNext]_purchaseVars, NEW k \in Checkout
             PROVE  Kept(k)'
  BY DEF KeptInv
<1> USE PurchaseAssumption, QueueAssumption
<1>0. /\ stripe \in [Event -> {"none", "due", "acked"}]
      /\ job \in [Event -> {"none", "waiting", "active", "failed"}]
      /\ handler \in [Worker -> Event \cup {NoEvent}]
      /\ checkout \in [Checkout -> {"none", "opened", "returned"}]
      /\ \A w \in Worker : HandlerFits(w)
      /\ OneHandlerEach
  BY DEF PurchaseShape, PurchaseTypeOK, DeliveryInv, QueueTypeOK
<1>l. /\ Granted(k) => Granted(k)'
      /\ session[k] # "NONE" => session'[k] # "NONE"
  BY PurchaseMovesWallets, GrantsAndSessionsLast DEF PurchaseShape, PurchaseTypeOK
<1>k. \A h \in Checkout : Kept(h)
  BY DEF KeptInv
\* Neither the delivery nor the answer to the customer moves.
<1>1. ASSUME UNCHANGED queueVars, checkout'[k] = "returned" => checkout[k] = "returned"
      PROVE  Kept(k)'
  BY <1>1, <1>l, <1>k DEF Kept, queueVars
<1>2. ASSUME NEW h \in Checkout, OpenStripeSession(h) \/ InsertCheckout(h) PROVE Kept(k)'
  BY <1>0, <1>1, <1>2 DEF OpenStripeSession, InsertCheckout
<1>3. ASSUME NEW h \in Checkout, ReturnUrl(h) PROVE Kept(k)'
  <2>1. UNCHANGED queueVars /\ UNCHANGED walletVars
    BY <1>3 DEF ReturnUrl
  <2>2. checkout'[k] = "returned" => checkout[k] = "returned" \/ session[k] # "NONE"
    BY <1>0, <1>3 DEF ReturnUrl
  <2> QED BY <1>l, <1>k, <2>1, <2>2 DEF Kept, queueVars
<1>4. ASSUME NEW h \in Checkout, Pay(h) PROVE Kept(k)'
  <2>1. /\ UNCHANGED <<walletVars, checkout, job, handler>>
        /\ stripe'[k] = stripe[k] \/ (stripe'[k] = "due" /\ checkout[k] = "returned")
    BY <1>0, <1>4 DEF Pay, Emit
  <2> QED BY <1>l, <1>k, <2>1 DEF Kept
<1>5. ASSUME NEW e \in Event, Enqueue(e), UNCHANGED checkout PROVE Kept(k)'
  <2>1. /\ QueueEnabled /\ UNCHANGED handler
        /\ job'[k] = job[k] \/ (job[k] = "none" /\ job'[k] = "waiting")
        /\ stripe'[k] = stripe[k] \/ (stripe[k] = "due" /\ job'[k] # "none")
    BY <1>0, <1>5 DEF Enqueue, Answer
  <2>2. stripe'[k] # "none" => stripe[k] # "none"
    BY <2>1
  <2> QED BY <1>5, <1>l, <1>k, <2>1, <2>2 DEF Kept
<1>6. ASSUME NEW w \in Worker, NEW e \in Event, HandleInline(w, e), UNCHANGED checkout
      PROVE  Kept(k)'
  <2>1. UNCHANGED <<stripe, job>> /\ ~QueueEnabled
    BY <1>6 DEF HandleInline
  <2> QED BY <1>6, <1>l, <1>k, <2>1 DEF Kept
<1>7. ASSUME NEW w \in Worker, NEW e \in Event, Take(w, e), UNCHANGED checkout
      PROVE  Kept(k)'
  <2>1. /\ UNCHANGED stripe /\ handler[w] = NoEvent
        /\ handler'[w] = e /\ \A v \in Worker \ {w} : handler'[v] = handler[v]
        /\ job[e] = "waiting" /\ job'[e] = "active"
        /\ \A d \in Event \ {e} : job'[d] = job[d]
    BY <1>0, <1>7 DEF Take
  <2>2. CASE k = e
    BY <1>7, <1>l, <1>k, <2>1, <2>2 DEF Kept
  <2>3. CASE k # e
    <3>1. job'[k] = job[k]
      BY <2>1, <2>3
    <3>2. ASSUME NEW v \in Worker, handler[v] = k PROVE handler'[v] = k
      BY <2>1, <3>2
    <3> QED BY <1>7, <1>l, <1>k, <2>1, <3>1, <3>2 DEF Kept
  <2> QED BY <2>2, <2>3
\* Only a job whose handler saw the grant is removed, and only then is the
\* event answered without a job.
<1>8. ASSUME NEW w \in Worker, FinishEvent(w) PROVE Kept(k)'
  <2>1. /\ handler[w] \in Checkout /\ stripe[handler[w]] # "none"
        /\ UNCHANGED <<walletVars, checkout>>
        /\ \A v \in Worker \ {w} : handler'[v] = handler[v]
    BY <1>0, <1>8 DEF FinishEvent, Finish, HandlerFits
  <2>2. Granted(handler[w])
    BY <1>8, <1>k, <2>1 DEF FinishEvent, Kept
  <2>3. CASE k = handler[w]
    <3>1. /\ job'[k] = "none" \/ (~QueueEnabled /\ job'[k] = job[k])
          /\ stripe'[k] # "none" => stripe[k] # "none"
      BY <1>0, <1>8, <2>1, <2>3 DEF FinishEvent, Finish, Answer
    <3> QED BY <1>l, <1>k, <2>1, <2>2, <2>3, <3>1 DEF Kept
  <2>4. CASE k # handler[w]
    <3>1. job'[k] = job[k] /\ stripe'[k] = stripe[k]
      BY <1>0, <1>8, <2>1, <2>4 DEF FinishEvent, Finish, Answer
    <3>2. ASSUME NEW v \in Worker, handler[v] = k PROVE handler'[v] = k
      BY <2>1, <2>4, <3>2
    <3> QED BY <1>l, <1>k, <2>1, <3>1, <3>2 DEF Kept
  <2> QED BY <2>3, <2>4
<1>9. ASSUME NEW w \in Worker, FailEvent(w) PROVE Kept(k)'
  <2>1. /\ handler[w] \in Event
        /\ UNCHANGED <<stripe, checkout>>
        /\ \A v \in Worker \ {w} : handler'[v] = handler[v]
    BY <1>0, <1>9 DEF FailEvent, EndAttempt
  <2>2. CASE k = handler[w]
    <3>1. \/ QueueEnabled /\ job'[k] \in {"waiting", "failed"}
          \/ ~QueueEnabled /\ job'[k] = job[k]
      BY <1>0, <1>9, <2>2 DEF FailEvent, EndAttempt
    <3> QED BY <1>l, <1>k, <2>1, <3>1 DEF Kept
  <2>3. CASE k # handler[w]
    <3>1. job'[k] = job[k]
      BY <1>0, <1>9, <2>1, <2>3 DEF FailEvent, EndAttempt
    <3>2. ASSUME NEW v \in Worker, handler[v] = k PROVE handler'[v] = k
      BY <2>1, <2>3, <3>2
    <3> QED BY <1>l, <1>k, <2>1, <3>1, <3>2 DEF Kept
  <2> QED BY <2>2, <2>3
<1>10. CASE HandlersDie
  <2>1. /\ UNCHANGED <<stripe, checkout>>
        /\ job'[k] = "none" <=> job[k] = "none"
        /\ job'[k] # "active"
    BY <1>0, <1>10 DEF HandlersDie, Crash
  <2> QED BY <1>l, <1>k, <2>1 DEF Kept
<1>11. ASSUME NEW w \in Worker, HandleEvent(w) PROVE Kept(k)'
  BY <1>1, <1>11 DEF HandleEvent
<1>12. CASE ClientStep \/ UNCHANGED purchaseVars
  BY <1>1, <1>12 DEF ClientStep, purchaseVars
<1>13. CASE Deliver
  BY <1>5, <1>6, <1>7, <1>13 DEF Deliver
<1> QED
  BY <1>2, <1>3, <1>4, <1>8, <1>9, <1>10, <1>11, <1>12, <1>13 DEF PurchaseNext

\* No error, lost answer or dead worker loses a payment: until its credits are
\* granted Stripe posts the event again, the queue holds or keeps its job, or a
\* handler is at work on it.  With and without the queue.
THEOREM NoPaymentLost == PurchaseSpec => []NoPaymentIsLost
<1>1. PurchaseInit => KeptInv
  BY PurchaseAssumption DEF PurchaseInit, WalletInit, QueueInit, KeptInv, Kept
<1>2. PurchaseShape /\ KeptInv /\ [PurchaseNext]_purchaseVars => KeptInv'
  BY KeptStays
<1>3. PurchaseShape /\ KeptInv => NoPaymentIsLost
  BY PurchaseAssumption
     DEF KeptInv, Kept, NoPaymentIsLost, PurchaseShape, PurchaseTypeOK, QueueTypeOK
<1> QED BY <1>1, <1>2, <1>3, PurchaseShapeHolds, PTL DEF PurchaseSpec

-----------------------------------------------------------------------------
(* The promise.                                                            *)

LEMMA StepKeepsPromise ==
    ASSUME QueueEnabled, GrantInv, GrantInv', [PurchaseNext]_purchaseVars
    PROVE  [Promise!LedgerNext]_(Promise!ledgerVars)
<1> USE WalletAssumption
<1> DEFINE Credited == {k \in Checkout : Granted(k)}
<1>0. /\ WalletTypeOK /\ WalletTypeOK' /\ AdjustmentsAllowed
      /\ QueueTypeOK
      /\ GrantedAtMostOnce /\ GrantedAtMostOnce'
  BY DEF GrantInv, PurchaseShape, PurchaseTypeOK
<1>1. [WalletNext]_walletVars
  BY <1>0, PurchaseMovesWallets
<1>2. balance \in [Owner -> Int] /\ balance' \in [Owner -> Int]
  BY <1>0 DEF WalletTypeOK
<1>3. ASSUME NEW o \in Owner, NEW ty, NEW a \in Int, NEW r, Posted(o, ty, a, r)
      PROVE  balance' = [balance EXCEPT ![o] = @ + a]
  BY <1>2, <1>3 DEF Posted
<1>4. CASE Quiet
  <2>1. UNCHANGED balance /\ Credited' = Credited
    BY <1>4 DEF Quiet, Granted, PurchaseRows
  <2> QED BY <2>1 DEF Promise!ledgerVars
<1>5. ASSUME NEW o \in Owner, NEW c \in Cost, Debit(o, c)
      PROVE  Promise!Withdraw(o, c)
  <2>1. -c \in Int /\ c \in Int /\ Posted(o, "SPEND", -c, NoRef) /\ balance[o] >= c
    BY <1>5 DEF Debit
  <2>2. balance' = [balance EXCEPT ![o] = @ - c]
    BY <1>2, <1>3, <2>1
  <2>3. \A k \in Checkout : Granted(k)' <=> Granted(k)
    BY <1>0, <2>1, PostGrants
  <2> QED BY <2>1, <2>2, <2>3 DEF Promise!Withdraw
<1>6. ASSUME NEW o \in Owner, NEW a \in Adjustment, Correction(o, a)
      PROVE  Promise!Correct(o, a)
  <2>1. a \in Int /\ Posted(o, "ADJUSTMENT", a, NoRef) /\ AdminAdjustmentsEnabled
    BY <1>6 DEF Correction
  <2>2. balance' = [balance EXCEPT ![o] = @ + a]
    BY <1>3, <2>1
  <2>3. \A k \in Checkout : Granted(k)' <=> Granted(k)
    BY <1>0, <2>1, PostGrants
  <2> QED BY <2>1, <2>2, <2>3 DEF Promise!Correct
<1>7. ASSUME NEW k \in Checkout, Credit(k)
      PROVE  Promise!CreditOnce(k)
  <2>1. /\ PackOwner[k] \in Owner /\ PackCredits[k] \in Int
        /\ Posted(PackOwner[k], "PURCHASE", PackCredits[k], k)
    BY <1>7 DEF Credit
  <2>2. balance' = [balance EXCEPT ![PackOwner[k]] = @ + PackCredits[k]]
    BY <1>3, <2>1
  <2>3. \A h \in Checkout : Granted(h)' <=> Granted(h) \/ h = k
    BY <1>0, <2>1, PostGrants
  <2>4. ~Granted(k)
    <3> SUFFICES ASSUME NEW i \in PurchaseRows(k) PROVE FALSE
      BY DEF Granted
    <3> DEFINE n == Len(ledger[PackOwner[k]])
    <3>1. i \in 1 .. n /\ n \in Nat
      BY <1>0, <2>1 DEF PurchaseRows, WalletTypeOK
    <3>2. i \in PurchaseRows(k)' /\ n + 1 \in PurchaseRows(k)'
      BY <1>0, <2>1, PostRows
    <3>3. i = n + 1
      BY <1>0, <3>2 DEF GrantedAtMostOnce
    <3> QED BY <3>1, <3>3
  <2> QED BY <2>2, <2>3, <2>4 DEF Promise!CreditOnce
<1> QED
  BY <1>0, <1>1, <1>4, <1>5, <1>6, <1>7, StepShape DEF Promise!LedgerNext

\* With the queue the whole system keeps the promise of CreditLedger: each
\* paid session is credited once, and nobody spends what is not there.
THEOREM PurchaseImplementsLedger ==
    ASSUME QueueEnabled
    PROVE  PurchaseSpec => ImplementsLedger
<1>1. PurchaseInit => Promise!LedgerInit
  <2> SUFFICES ASSUME PurchaseInit PROVE Promise!LedgerInit
    OBVIOUS
  <2>1. \A k \in Checkout : ~Granted(k)
    BY WalletAssumption DEF PurchaseInit, WalletInit, PurchaseRows, Granted
  <2> QED BY <2>1 DEF PurchaseInit, WalletInit, Promise!LedgerInit
<1>2. GrantInv /\ GrantInv' /\ [PurchaseNext]_purchaseVars
        => [Promise!LedgerNext]_(Promise!ledgerVars)
  BY StepKeepsPromise
<1> QED
  BY <1>1, <1>2, GrantInvHolds, PTL DEF PurchaseSpec, ImplementsLedger, Promise!LedgerSpec
=============================================================================
