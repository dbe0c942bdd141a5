--------------------------- MODULE CreditPurchase ---------------------------
(***************************************************************************)
(* Buying credits, end to end: the checkout request, the payment, the      *)
(* checkout.session.completed event on its way through Stripe's delivery   *)
(* and the queue (BillingQueue), and its handler's transaction against     *)
(* the wallet other requests are using (CreditWallet).                     *)
(*                                                                         *)
(* A checkout session completes once, so its event is named like it:       *)
(* Event = Checkout.  The handler slots are database connections of        *)
(* CreditWallet, the other connections serve clients.                      *)
(***************************************************************************)
EXTENDS CreditWallet, BillingQueue

ASSUME PurchaseAssumption == Event = Checkout /\ Worker \subseteq Slot

VARIABLE checkout   \* how far the request that opens the session has got

purchaseVars == <<walletVars, queueVars, checkout>>

Client == Slot \ Worker

PurchaseTypeOK ==
    /\ WalletTypeOK
    /\ QueueTypeOK
    /\ checkout \in [Checkout -> {"none", "opened", "returned"}]

PurchaseInit ==
    /\ WalletInit
    /\ QueueInit
    /\ checkout = [k \in Checkout |-> "none"]

-----------------------------------------------------------------------------
(* The checkout request.  A request repeated with its idempotency key is   *)
(* given the same Stripe session, and the row if it is already there.      *)

OpenStripeSession(k) ==
    /\ checkout[k] = "none"
    /\ checkout' = [checkout EXCEPT ![k] = "opened"]
    /\ UNCHANGED <<walletVars, queueVars>>

InsertCheckout(k) ==
    /\ checkout[k] = "opened"
    /\ RecordCheckout(k)
    /\ UNCHANGED <<queueVars, checkout>>

\* MUTANT of ReturnUrl: the customer gets the URL before the row is written.
ReturnUrlEarly(k) ==
    /\ checkout[k] = "opened"
    /\ checkout' = [checkout EXCEPT ![k] = "returned"]
    /\ UNCHANGED <<walletVars, queueVars>>

\* The answer with the payment URL, after the row was written or found.
ReturnUrl(k) ==
    /\ checkout[k] = "opened"
    /\ session[k] # "NONE"
    /\ checkout' = [checkout EXCEPT ![k] = "returned"]
    /\ UNCHANGED <<walletVars, queueVars>>

\* Stripe refuses payment after expires_at, when cleanup may expire the row.
Pay(k) ==
    /\ checkout[k] = "returned"
    /\ session[k] # "EXPIRED"
    /\ Emit(k)
    /\ UNCHANGED <<walletVars, checkout>>

-----------------------------------------------------------------------------
(* The event's handler.                                                    *)

Deliver ==
    /\ \/ \E e \in Event : Enqueue(e)
       \/ \E w \in Worker, e \in Event : HandleInline(w, e) \/ Take(w, e)
    /\ UNCHANGED <<walletVars, checkout>>

\* MUTANT of HandleEvent: the session is looked up by its owner.
HandleEventOfOwner(w) ==
    /\ handler[w] # NoEvent
    /\ \/ \E k \in Checkout :
            PackOwner[k] = PackOwner[handler[w]] /\ BeginGrant(w, k)
       \/ ReadGrantWallet(w)
       \/ CommitGrant(w)
    /\ UNCHANGED <<queueVars, checkout>>

HandleEvent(w) ==
    /\ handler[w] # NoEvent
    /\ BeginGrant(w, handler[w]) \/ ReadGrantWallet(w) \/ CommitGrant(w)
    /\ UNCHANGED <<queueVars, checkout>>

\* The transaction has committed, or its first read found the earlier grant,
\* or there is no such session: then the event is dropped with a warning.
FinishEvent(w) ==
    /\ handler[w] # NoEvent
    /\ txn[w] = Idle
    /\ Granted(handler[w]) \/ session[handler[w]] = "NONE"
    /\ Finish(w)
    /\ UNCHANGED <<walletVars, checkout>>

\* The UPDATE or INSERT of the wallet cannot succeed.
GrantRefused(w) ==
    /\ txn[w].kind = "grant"
    /\ txn[w].pc = "wallet"
    /\ LET o == PackOwner[txn[w].ref]
       IN  \/ txn[w].found # hasWallet[o]
           \/ balance[o] + PackCredits[txn[w].ref] > MaxCredits

FailEvent(w) ==
    /\ EndAttempt(w)
    /\ \/ GrantRefused(w) /\ UNCHANGED faults
       \/ faults < MaxFaults /\ faults' = faults + 1
    /\ txn' = [txn EXCEPT ![w] = Idle]
    /\ UNCHANGED <<hasWallet, balance, ledger, session, checkout>>

HandlersDie ==
    /\ Crash
    /\ txn' = [s \in Slot |-> IF s \in Worker THEN Idle ELSE txn[s]]
    /\ UNCHANGED <<hasWallet, balance, ledger, session, checkout>>

-----------------------------------------------------------------------------

\* Everything else that uses the wallets.
ClientStep ==
    /\ \/ \E s \in Client : Spend(s) \/ Adjust(s) \/ Abort({s})
       \/ \E o \in Owner : EnsureWallet(o)
       \/ \E due \in SUBSET Checkout : ExpireCheckouts(due)
    /\ UNCHANGED <<queueVars, checkout>>

PurchaseNext ==
    \/ \E k \in Checkout : OpenStripeSession(k) \/ InsertCheckout(k) \/ ReturnUrl(k) \/ Pay(k)
    \/ Deliver
    \/ \E w \in Worker : HandleEvent(w) \/ FinishEvent(w) \/ FailEvent(w)
    \/ HandlersDie
    \/ ClientStep

PurchaseSpec == PurchaseInit /\ [][PurchaseNext]_purchaseVars

\* Stripe keeps posting, the queue keeps handing out jobs and a handler that
\* runs comes to its end; customers and their requests may stop anywhere.
PurchaseFairness ==
    /\ WF_purchaseVars(Deliver)
    /\ \A w \in Worker :
        /\ WF_purchaseVars(HandleEvent(w) \/ FinishEvent(w))
        /\ WF_purchaseVars(GrantRefused(w) /\ FailEvent(w))

FairPurchaseSpec == PurchaseSpec /\ PurchaseFairness

-----------------------------------------------------------------------------
(* Properties.                                                             *)

\* However often the event is delivered, retried or recovered from a dead
\* worker, a checkout session is credited at most once ("The same provider
\* event must not produce duplicate subscription or credit side effects").
GrantedAtMostOnce ==
    \A k \in Checkout : \A i, j \in PurchaseRows(k) : i = j

\* Credits are granted for paid sessions only.
OnlyPaidIsGranted ==
    \A k \in Checkout : Granted(k) => stripe[k] # "none"

\* Until it is granted, somebody has a payment in hand, whatever failed: Stripe
\* posts its event again, the queue holds or keeps its job, or a handler is at
\* work on it.
NoPaymentIsLost ==
    \A k \in Checkout : stripe[k] # "none" /\ ~Granted(k) =>
        \/ stripe[k] = "due"
        \/ job[k] \in {"waiting", "failed"}
        \/ job[k] = "active" /\ \E w \in Worker : handler[w] = k

\* A payment ends up in the wallet, in spite of errors and a dead worker.
PaidIsGranted ==
    \A k \in Checkout : stripe[k] # "none" ~> Granted(k)

\* The whole of it implements the customer's view: CreditLedger.
Promise == INSTANCE CreditLedger WITH
    credited <- {k \in Checkout : Granted(k)}, funds <- balance

ImplementsLedger == Promise!LedgerSpec
=============================================================================
