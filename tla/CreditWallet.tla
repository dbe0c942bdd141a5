---------------------------- MODULE CreditWallet ----------------------------
(***************************************************************************)
(* The credit wallets of companies and job seekers and the database        *)
(* transactions that move them.                                            *)
(*                                                                         *)
(* A wallet owner has at most one wallet row (unique companyId / userId)   *)
(* and a ledger of rows in the order their transactions committed.         *)
(* PostgreSQL runs the transactions under READ COMMITTED: a statement sees *)
(* what was committed when it started, and an UPDATE of the wallet row     *)
(* holds that row until the commit.  A transaction is therefore one action *)
(* per read, and one last action from its UPDATE of the wallet to the      *)
(* commit; anything may commit between two of its reads.                   *)
(*                                                                         *)
(* The company lane and the job-seeker lane are the same code twice; an    *)
(* Owner stands for either.                                                *)
(***************************************************************************)
EXTENDS Integers, Sequences

CONSTANTS
    Owner,          \* companies and job seekers
    Checkout,       \* credit-pack checkout sessions, named by their Stripe id
    Slot,           \* database connections: one transaction at a time each
    Cost,           \* credit costs of spending actions
    Adjustment,     \* amounts of manual adjustments
    PackOwner,      \* the owner a checkout session belongs to
    PackCredits,    \* the credits a checkout session buys
    NoRef,          \* referenceId of a row that is not a purchase
    AdminAdjustmentsEnabled,    \* INTERNAL_ADMIN_ADJUSTMENTS_ENABLED
    MaxCredits,     \* the largest value of the Int column (2^31 - 1)
    MaxRows         \* bound: requests are admitted while a ledger is shorter

ASSUME WalletAssumption ==
    /\ Cost \subseteq Nat \ {0}
    /\ Adjustment \subseteq Int \ {0}
    /\ PackOwner \in [Checkout -> Owner]
    /\ PackCredits \in [Checkout -> Nat \ {0}]
    /\ NoRef \notin Checkout
    /\ AdminAdjustmentsEnabled \in BOOLEAN
    /\ MaxCredits \in Nat
    /\ MaxRows \in Nat

VARIABLES
    hasWallet,      \* is there a wallet row?
    balance,        \* balanceCredits (0 while there is no row)
    ledger,         \* credit transactions, in commit order
    session,        \* status of the checkout session row, "NONE" before it exists
    txn             \* what each connection is in the middle of

walletVars == <<hasWallet, balance, ledger, session, txn>>

-----------------------------------------------------------------------------

Row == [type: {"PURCHASE", "SPEND", "ADJUSTMENT"}, amount: Int,
        ref: Checkout \cup {NoRef}, balanceAfter: Int]

\* "found" is what the transaction's read of the wallet row returned.
Idle == [kind |-> "idle"]
SpendTxn == [kind: {"spend"}, owner: Owner, amount: Cost, found: BOOLEAN]
AdjustTxn == [kind: {"adjust"}, owner: Owner, amount: Adjustment, found: BOOLEAN]
GrantTxn == [kind: {"grant"}, ref: Checkout, pc: {"ledger", "wallet"}, found: BOOLEAN]
Txn == {Idle} \cup SpendTxn \cup AdjustTxn \cup GrantTxn

WalletTypeOK ==
    /\ hasWallet \in [Owner -> BOOLEAN]
    /\ balance \in [Owner -> Int]
    /\ ledger \in [Owner -> Seq(Row)]
    /\ session \in [Checkout -> {"NONE", "CREATED", "COMPLETED", "EXPIRED"}]
    /\ txn \in [Slot -> Txn]

WalletInit ==
    /\ hasWallet = [o \in Owner |-> FALSE]
    /\ balance = [o \in Owner |-> 0]
    /\ ledger = [o \in Owner |-> <<>>]
    /\ session = [k \in Checkout |-> "NONE"]
    /\ txn = [s \in Slot |-> Idle]

\* The purchase rows of checkout k in its owner's ledger.
PurchaseRows(k) ==
    {i \in DOMAIN ledger[PackOwner[k]] :
        /\ ledger[PackOwner[k]][i].type = "PURCHASE"
        /\ ledger[PackOwner[k]][i].ref = k}

Granted(k) == PurchaseRows(k) # {}

\* MUTANT of Post: the ledger row repeats the balance before the UPDATE.
PostStale(o, found, type, amount, ref) ==
    /\ found = hasWallet[o]
    /\ balance[o] + amount <= MaxCredits
    /\ balance' = [balance EXCEPT ![o] = @ + amount]
    /\ ledger' = [ledger EXCEPT ![o] = Append(@,
                    [type |-> type, amount |-> amount, ref |-> ref,
                     balanceAfter |-> balance[o]])]
    /\ hasWallet' = [hasWallet EXCEPT ![o] = TRUE]

\* From the UPDATE of the wallet row to the commit: the row moves and the
\* ledger row carries the balance the UPDATE left.  The INSERT of a wallet
\* that was not found fails on the unique owner when another one committed.
Post(o, found, type, amount, ref) ==
    /\ found = hasWallet[o]
    /\ balance[o] + amount <= MaxCredits
    /\ balance' = [balance EXCEPT ![o] = @ + amount]
    /\ ledger' = [ledger EXCEPT ![o] = Append(@,
                    [type |-> type, amount |-> amount, ref |-> ref,
                     balanceAfter |-> balance[o] + amount])]
    /\ hasWallet' = [hasWallet EXCEPT ![o] = TRUE]

-----------------------------------------------------------------------------
(* Spending: a boost, a publish, a promotion or an application.            *)

\* MUTANT of BeginSpend: the cost is passed with the sign of its ledger row.
BeginSpendSigned(s, o, c) ==
    /\ txn[s] = Idle
    /\ Len(ledger[o]) < MaxRows
    /\ txn' = [txn EXCEPT ![s] =
                [kind |-> "spend", owner |-> o, amount |-> -c, found |-> hasWallet[o]]]
    /\ UNCHANGED <<hasWallet, balance, ledger, session>>

BeginSpend(s, o, c) ==
    /\ txn[s] = Idle
    /\ Len(ledger[o]) < MaxRows
    /\ txn' = [txn EXCEPT ![s] =
                [kind |-> "spend", owner |-> o, amount |-> c, found |-> hasWallet[o]]]
    /\ UNCHANGED <<hasWallet, balance, ledger, session>>

\* MUTANT of CommitSpend: the balance was compared at the read only.
CommitSpendUnguarded(s) ==
    /\ txn[s].kind = "spend"
    /\ Post(txn[s].owner, txn[s].found, "SPEND", -txn[s].amount, NoRef)
    /\ txn' = [txn EXCEPT ![s] = Idle]
    /\ UNCHANGED session

\* updateMany with balanceCredits >= cost re-evaluates its condition on the
\* row it locked, so the guard reads the balance of this very moment.
CommitSpend(s) ==
    /\ txn[s].kind = "spend"
    /\ balance[txn[s].owner] >= txn[s].amount
    /\ Post(txn[s].owner, txn[s].found, "SPEND", -txn[s].amount, NoRef)
    /\ txn' = [txn EXCEPT ![s] = Idle]
    /\ UNCHANGED session

\* INSUFFICIENT_CREDITS: no row matched, the transaction rolls back.
RejectSpend(s) ==
    /\ txn[s].kind = "spend"
    /\ balance[txn[s].owner] < txn[s].amount
    /\ txn' = [txn EXCEPT ![s] = Idle]
    /\ UNCHANGED <<hasWallet, balance, ledger, session>>

-----------------------------------------------------------------------------
(* Granting the credits of a paid checkout session (webhook handler).      *)

\* MUTANT of BeginGrant: no look for an earlier grant.
BeginGrantUnchecked(s, k) ==
    /\ txn[s] = Idle
    /\ session[k] # "NONE"
    /\ txn' = [txn EXCEPT ![s] =
                [kind |-> "grant", ref |-> k, pc |-> "ledger", found |-> FALSE]]
    /\ UNCHANGED <<hasWallet, balance, ledger, session>>

\* findFirst of an earlier PURCHASE row for this checkout: none.
BeginGrant(s, k) ==
    /\ txn[s] = Idle
    /\ session[k] # "NONE"
    /\ ~Granted(k)
    /\ txn' = [txn EXCEPT ![s] =
                [kind |-> "grant", ref |-> k, pc |-> "ledger", found |-> FALSE]]
    /\ UNCHANGED <<hasWallet, balance, ledger, session>>

ReadGrantWallet(s) ==
    /\ txn[s].kind = "grant"
    /\ txn[s].pc = "ledger"
    /\ txn' = [txn EXCEPT ![s].pc = "wallet",
                          ![s].found = hasWallet[PackOwner[txn[s].ref]]]
    /\ UNCHANGED <<hasWallet, balance, ledger, session>>

\* The session is marked COMPLETED whatever its status was.
CommitGrant(s) ==
    /\ txn[s].kind = "grant"
    /\ txn[s].pc = "wallet"
    /\ Post(PackOwner[txn[s].ref], txn[s].found, "PURCHASE",
            PackCredits[txn[s].ref], txn[s].ref)
    /\ session' = [session EXCEPT ![txn[s].ref] = "COMPLETED"]
    /\ txn' = [txn EXCEPT ![s] = Idle]

-----------------------------------------------------------------------------
(* Manual adjustments.  The balance is compared when the wallet is read;   *)
(* the increment that follows is unconditional.                            *)

BeginAdjust(s, o, a) ==
    /\ AdminAdjustmentsEnabled
    /\ txn[s] = Idle
    /\ Len(ledger[o]) < MaxRows
    /\ a < 0 => balance[o] >= -a
    /\ txn' = [txn EXCEPT ![s] =
                [kind |-> "adjust", owner |-> o, amount |-> a, found |-> hasWallet[o]]]
    /\ UNCHANGED <<hasWallet, balance, ledger, session>>

CommitAdjust(s) ==
    /\ txn[s].kind = "adjust"
    /\ Post(txn[s].owner, txn[s].found, "ADJUSTMENT", txn[s].amount, NoRef)
    /\ txn' = [txn EXCEPT ![s] = Idle]
    /\ UNCHANGED session

-----------------------------------------------------------------------------

\* Transactions that fail (unique violation, Int overflow, lost connection,
\* killed process: then all of its connections) leave nothing behind.
Abort(S) ==
    /\ \E s \in S : txn[s] # Idle
    /\ txn' = [s \in Slot |-> IF s \in S THEN Idle ELSE txn[s]]
    /\ UNCHANGED <<hasWallet, balance, ledger, session>>

\* Reading a wallet creates it.
EnsureWallet(o) ==
    /\ ~hasWallet[o]
    /\ hasWallet' = [hasWallet EXCEPT ![o] = TRUE]
    /\ UNCHANGED <<balance, ledger, session, txn>>

RecordCheckout(k) ==
    /\ session[k] = "NONE"
    /\ session' = [session EXCEPT ![k] = "CREATED"]
    /\ UNCHANGED <<hasWallet, balance, ledger, txn>>

\* MUTANT of ExpireCheckouts: the status is not part of the condition.
ExpireCheckoutsAny(due) ==
    /\ \E k \in due : session[k] # "NONE"
    /\ session' = [k \in Checkout |->
                    IF k \in due /\ session[k] # "NONE" THEN "EXPIRED" ELSE session[k]]
    /\ UNCHANGED <<hasWallet, balance, ledger, txn>>

\* The cleanup job: "due" are the sessions whose expiresAt has passed.
ExpireCheckouts(due) ==
    /\ \E k \in due : session[k] = "CREATED"
    /\ session' = [k \in Checkout |->
                    IF k \in due /\ session[k] = "CREATED" THEN "EXPIRED" ELSE session[k]]
    /\ UNCHANGED <<hasWallet, balance, ledger, txn>>

Spend(s) == CommitSpend(s) \/ RejectSpend(s) \/ \E o \in Owner, c \in Cost : BeginSpend(s, o, c)
Adjust(s) == CommitAdjust(s) \/ \E o \in Owner, a \in Adjustment : BeginAdjust(s, o, a)
Grant(s) == ReadGrantWallet(s) \/ CommitGrant(s) \/ \E k \in Checkout : BeginGrant(s, k)

WalletNext ==
    \/ \E s \in Slot : Spend(s) \/ Adjust(s) \/ Grant(s)
    \/ \E S \in SUBSET Slot : Abort(S)
    \/ \E o \in Owner : EnsureWallet(o)
    \/ \E k \in Checkout : RecordCheckout(k)
    \/ \E due \in SUBSET Checkout : ExpireCheckouts(due)

WalletSpec == WalletInit /\ [][WalletNext]_walletVars

-----------------------------------------------------------------------------
(* Properties.                                                             *)

\* Every ledger row carries the balance before it plus its amount, and the
\* wallet shows what its last row says: the statement a customer reads
\* always adds up, however the transactions interleaved.
LedgerExplainsBalance ==
    \A o \in Owner :
        /\ \A i \in DOMAIN ledger[o] :
            ledger[o][i].balanceAfter = ledger[o][i].amount +
                (IF i = 1 THEN 0 ELSE ledger[o][i - 1].balanceAfter)
        /\ balance[o] = IF ledger[o] = <<>> THEN 0
                        ELSE ledger[o][Len(ledger[o])].balanceAfter

\* No spending action, whatever else was in flight when its wallet was read,
\* leaves the wallet below zero.
SpendsAreCovered ==
    \A o \in Owner : \A i \in DOMAIN ledger[o] :
        ledger[o][i].type = "SPEND" => ledger[o][i].balanceAfter >= 0

\* A checkout session is COMPLETED exactly when its credits were granted: the
\* cleanup job neither hides a grant nor does a replay complete one unpaid.
CompletedIffGranted ==
    \A k \in Checkout : session[k] = "COMPLETED" <=> Granted(k)

\* A wallet is never below zero ("Cannot reduce credits below zero").
BalanceNeverNegative == \A o \in Owner : balance[o] >= 0
=============================================================================
