------------------------- MODULE CreditWalletProofs -------------------------
(***************************************************************************)
(* Proofs about CreditWallet, for every set of owners, checkout sessions   *)
(* and connections, whatever the costs and the bounds.                     *)
(*                                                                         *)
(* Every step of the module either leaves the wallets and ledgers alone    *)
(* or appends one row through Post: StepShape says which rows, and the     *)
(* invariants follow from it.                                              *)
(***************************************************************************)
EXTENDS CreditWallet, TLAPS

\* A transaction is what its kind says.
LEMMA TxnKinds ==
    ASSUME NEW t \in Txn
    PROVE  /\ t.kind = "spend" => t \in SpendTxn
           /\ t.kind = "adjust" => t \in AdjustTxn
           /\ t.kind = "grant" => t \in GrantTxn
<1>1. t = Idle => t.kind = "idle"
  BY DEF Idle
<1>2. t \in SpendTxn => t.kind = "spend"
  BY DEF SpendTxn
<1>3. t \in AdjustTxn => t.kind = "adjust"
  BY DEF AdjustTxn
<1>4. t \in GrantTxn => t.kind = "grant"
  BY DEF GrantTxn
<1> QED BY <1>1, <1>2, <1>3, <1>4 DEF Txn

\* No interleaving of reads and commits leaves a transaction, a wallet or a
\* ledger outside the shape the code gives it.
LEMMA WalletTypeStays == WalletTypeOK /\ [WalletNext]_walletVars => WalletTypeOK'
<1> SUFFICES ASSUME WalletTypeOK, [WalletNext]_walletVars PROVE WalletTypeOK'
  OBVIOUS
<1> USE WalletAssumption
<1>0. ASSUME NEW o \in Owner, NEW f, NEW a \in Int,
             NEW ty \in {"PURCHASE", "SPEND", "ADJUSTMENT"},
             NEW r \in Checkout \cup {NoRef}, Post(o, f, ty, a, r)
      PROVE  /\ hasWallet' \in [Owner -> BOOLEAN]
             /\ balance' \in [Owner -> Int]
             /\ ledger' \in [Owner -> Seq(Row)]
  <2> DEFINE row == [type |-> ty, amount |-> a, ref |-> r,
                     balanceAfter |-> balance[o] + a]
  <2>1. balance[o] \in Int
    BY DEF WalletTypeOK
  <2>2. row \in Row
    BY <2>1 DEF Row
  <2>3. ledger[o] \in Seq(Row) /\ ledger \in [Owner -> Seq(Row)]
    BY DEF WalletTypeOK
  <2>4. Append(ledger[o], row) \in Seq(Row)
    <3> HIDE DEF row
    <3> QED BY <2>2, <2>3
  <2>5. ledger' = [ledger EXCEPT ![o] = Append(ledger[o], row)]
    BY <1>0, <2>3 DEF Post
  <2>6. ledger' \in [Owner -> Seq(Row)]
    <3> HIDE DEF row
    <3> QED BY <2>3, <2>4, <2>5
  <2>7. hasWallet' \in [Owner -> BOOLEAN] /\ balance' \in [Owner -> Int]
    BY <1>0, <2>1 DEF Post, WalletTypeOK
  <2> QED BY <2>6, <2>7
<1>1. ASSUME NEW s \in Slot, Spend(s) PROVE WalletTypeOK'
  <2>1. CASE CommitSpend(s)
    <3>1. txn[s] \in SpendTxn
      BY <2>1, TxnKinds DEF CommitSpend, WalletTypeOK
    <3>2. txn[s].owner \in Owner /\ txn[s].amount \in Cost
      BY <3>1 DEF SpendTxn
    <3>3. \A c \in Cost : -c \in Int
      OBVIOUS
    <3> QED BY <2>1, <3>2, <3>3, <1>0 DEF CommitSpend, WalletTypeOK, Txn
  <2>2. CASE RejectSpend(s)
    BY <2>2 DEF RejectSpend, WalletTypeOK, Txn
  <2>3. ASSUME NEW o \in Owner, NEW c \in Cost, BeginSpend(s, o, c) PROVE WalletTypeOK'
    BY <2>3 DEF BeginSpend, WalletTypeOK, Txn, SpendTxn
  <2> QED BY <1>1, <2>1, <2>2, <2>3 DEF Spend
<1>2. ASSUME NEW s \in Slot, Adjust(s) PROVE WalletTypeOK'
  <2>1. CASE CommitAdjust(s)
    <3>1. txn[s] \in AdjustTxn
      BY <2>1, TxnKinds DEF CommitAdjust, WalletTypeOK
    <3>2. txn[s].owner \in Owner /\ txn[s].amount \in Int
      BY <3>1 DEF AdjustTxn
    <3> QED BY <2>1, <3>2, <1>0 DEF CommitAdjust, WalletTypeOK, Txn
  <2>2. ASSUME NEW o \in Owner, NEW a \in Adjustment, BeginAdjust(s, o, a) PROVE WalletTypeOK'
    BY <2>2 DEF BeginAdjust, WalletTypeOK, Txn, AdjustTxn
  <2> QED BY <1>2, <2>1, <2>2 DEF Adjust
<1>3. ASSUME NEW s \in Slot, Grant(s) PROVE WalletTypeOK'
  <2>1. CASE CommitGrant(s)
    <3>1. txn[s] \in GrantTxn
      BY <2>1, TxnKinds DEF CommitGrant, WalletTypeOK
    <3>2. /\ txn[s].ref \in Checkout
          /\ PackOwner[txn[s].ref] \in Owner
          /\ PackCredits[txn[s].ref] \in Int
      BY <3>1 DEF GrantTxn
    <3> QED BY <2>1, <3>2, <1>0 DEF CommitGrant, WalletTypeOK, Txn
  <2>2. CASE ReadGrantWallet(s)
    <3>1. txn[s] \in GrantTxn
      BY <2>2, TxnKinds DEF ReadGrantWallet, WalletTypeOK
    <3>2. hasWallet[PackOwner[txn[s].ref]] \in BOOLEAN
      BY <3>1 DEF GrantTxn, WalletTypeOK
    <3>3. txn'[s] \in GrantTxn
      BY <2>2, <3>1, <3>2 DEF ReadGrantWallet, GrantTxn, WalletTypeOK
    <3> QED BY <2>2, <3>3 DEF ReadGrantWallet, WalletTypeOK, Txn
  <2>3. ASSUME NEW k \in Checkout, BeginGrant(s, k) PROVE WalletTypeOK'
    BY <2>3 DEF BeginGrant, WalletTypeOK, Txn, GrantTxn
  <2> QED BY <1>3, <2>1, <2>2, <2>3 DEF Grant
<1>4. ASSUME NEW S \in SUBSET Slot, Abort(S) PROVE WalletTypeOK'
  BY <1>4 DEF Abort, WalletTypeOK, Txn
<1>5. ASSUME NEW o \in Owner, EnsureWallet(o) PROVE WalletTypeOK'
  BY <1>5 DEF EnsureWallet, WalletTypeOK
<1>6. ASSUME NEW k \in Checkout, RecordCheckout(k) PROVE WalletTypeOK'
  BY <1>6 DEF RecordCheckout, WalletTypeOK
<1>7. ASSUME NEW due \in SUBSET Checkout, ExpireCheckouts(due) PROVE WalletTypeOK'
  BY <1>7 DEF ExpireCheckouts, WalletTypeOK
<1>8. CASE UNCHANGED walletVars
  BY <1>8 DEF walletVars, WalletTypeOK
<1> QED BY <1>1, <1>2, <1>3, <1>4, <1>5, <1>6, <1>7, <1>8 DEF WalletNext

\* Type correctness.
THEOREM WalletTypeCorrect == WalletSpec => []WalletTypeOK
<1>1. WalletInit => WalletTypeOK
  BY DEF WalletInit, WalletTypeOK, Txn
<1> QED BY <1>1, WalletTypeStays, PTL DEF WalletSpec

-----------------------------------------------------------------------------
(* What a step may do to the wallets and their ledgers.                    *)

\* One row more in o's ledger, and o's balance moved by its amount.
Posted(o, ty, a, r) ==
    /\ balance'[o] = balance[o] + a
    /\ DOMAIN ledger'[o] = 1 .. Len(ledger[o]) + 1
    /\ Len(ledger'[o]) = Len(ledger[o]) + 1
    /\ \A i \in 1 .. Len(ledger[o]) : ledger'[o][i] = ledger[o][i]
    /\ ledger'[o][Len(ledger[o]) + 1] =
            [type |-> ty, amount |-> a, ref |-> r, balanceAfter |-> balance[o] + a]
    /\ \A p \in Owner \ {o} : balance'[p] = balance[p] /\ ledger'[p] = ledger[p]

LEMMA PostShape ==
    ASSUME WalletTypeOK, NEW o \in Owner, NEW f, NEW ty, NEW a \in Int, NEW r,
           Post(o, f, ty, a, r)
    PROVE  Posted(o, ty, a, r)
<1> DEFINE row == [type |-> ty, amount |-> a, ref |-> r, balanceAfter |-> balance[o] + a]
<1>1. ledger \in [Owner -> Seq(Row)] /\ balance \in [Owner -> Int]
  BY DEF WalletTypeOK
<1>2. ledger' = [ledger EXCEPT ![o] = Append(ledger[o], row)]
  BY <1>1 DEF Post
<1>3. balance' = [balance EXCEPT ![o] = balance[o] + a]
  BY <1>1 DEF Post
<1>4. ledger'[o] = Append(ledger[o], row) /\ ledger[o] \in Seq(Row)
  BY <1>1, <1>2
<1>5. \A p \in Owner \ {o} : balance'[p] = balance[p] /\ ledger'[p] = ledger[p]
  BY <1>1, <1>2, <1>3
<1>6. balance'[o] = balance[o] + a
  BY <1>1, <1>3
<1> HIDE DEF row
<1>7. /\ Len(ledger'[o]) = Len(ledger[o]) + 1
      /\ DOMAIN ledger'[o] = 1 .. Len(ledger[o]) + 1
      /\ \A i \in 1 .. Len(ledger[o]) : ledger'[o][i] = ledger[o][i]
      /\ ledger'[o][Len(ledger[o]) + 1] = row
  BY <1>4
<1> QED BY <1>5, <1>6, <1>7 DEF row, Posted

\* The four kinds of steps.
Quiet ==
    /\ UNCHANGED <<balance, ledger>>
    /\ \A k \in Checkout : session'[k] = "COMPLETED" <=> session[k] = "COMPLETED"

Debit(o, c) ==
    /\ balance[o] >= c
    /\ Posted(o, "SPEND", -c, NoRef)
    /\ UNCHANGED session

Correction(o, a) ==
    /\ AdminAdjustmentsEnabled
    /\ Posted(o, "ADJUSTMENT", a, NoRef)
    /\ UNCHANGED session

Credit(k) ==
    /\ Posted(PackOwner[k], "PURCHASE", PackCredits[k], k)
    /\ session' = [session EXCEPT ![k] = "COMPLETED"]

\* Adjustments are in flight only where the feature is on.
AdjustmentsAllowed == \A s \in Slot : txn[s].kind = "adjust" => AdminAdjustmentsEnabled

LEMMA StepShape ==
    ASSUME WalletTypeOK, AdjustmentsAllowed, [WalletNext]_walletVars
    PROVE  \/ Quiet
           \/ \E o \in Owner, c \in Cost : Debit(o, c)
           \/ \E o \in Owner, a \in Adjustment : Correction(o, a)
           \/ \E k \in Checkout : Credit(k)
<1>1. ASSUME NEW s \in Slot, CommitSpend(s)
      PROVE  \E o \in Owner, c \in Cost : Debit(o, c)
  <2>1. txn[s] \in SpendTxn
    BY <1>1, TxnKinds DEF CommitSpend, WalletTypeOK
  <2>2. /\ txn[s].owner \in Owner
        /\ txn[s].amount \in Cost
        /\ txn[s].found \in BOOLEAN
    BY <2>1 DEF SpendTxn
  <2>3. \A c \in Cost : -c \in Int
    BY WalletAssumption
  <2>4. Posted(txn[s].owner, "SPEND", -txn[s].amount, NoRef)
    BY <1>1, <2>2, <2>3, PostShape DEF CommitSpend
  <2>5. Debit(txn[s].owner, txn[s].amount)
    BY <1>1, <2>4 DEF CommitSpend, Debit
  <2> QED BY <2>2, <2>5
<1>2. ASSUME NEW s \in Slot, CommitAdjust(s)
      PROVE  \E o \in Owner, a \in Adjustment : Correction(o, a)
  <2>1. txn[s] \in AdjustTxn
    BY <1>2, TxnKinds DEF CommitAdjust, WalletTypeOK
  <2>2. /\ txn[s].owner \in Owner
        /\ txn[s].amount \in Adjustment
        /\ txn[s].found \in BOOLEAN
    BY <2>1 DEF AdjustTxn
  <2>3. Posted(txn[s].owner, "ADJUSTMENT", txn[s].amount, NoRef)
    BY <1>2, <2>2, WalletAssumption, PostShape DEF CommitAdjust
  <2>4. Correction(txn[s].owner, txn[s].amount)
    BY <1>2, <2>3 DEF CommitAdjust, Correction, AdjustmentsAllowed
  <2> QED BY <2>2, <2>4
<1>3. ASSUME NEW s \in Slot, CommitGrant(s)
      PROVE  \E k \in Checkout : Credit(k)
  <2>1. txn[s] \in GrantTxn
    BY <1>3, TxnKinds DEF CommitGrant, WalletTypeOK
  <2>2. txn[s].ref \in Checkout /\ txn[s].found \in BOOLEAN
    BY <2>1 DEF GrantTxn
  <2>3. PackOwner[txn[s].ref] \in Owner /\ PackCredits[txn[s].ref] \in Int
    BY <2>2, WalletAssumption
  <2>4. Posted(PackOwner[txn[s].ref], "PURCHASE", PackCredits[txn[s].ref], txn[s].ref)
    BY <1>3, <2>3, PostShape DEF CommitGrant
  <2>5. Credit(txn[s].ref)
    BY <1>3, <2>4 DEF CommitGrant, Credit
  <2> QED BY <2>2, <2>5
<1>4. ASSUME NEW due \in SUBSET Checkout, ExpireCheckouts(due) PROVE Quiet
  BY <1>4 DEF ExpireCheckouts, Quiet, WalletTypeOK
<1>5. ASSUME NEW k \in Checkout, RecordCheckout(k) PROVE Quiet
  BY <1>5 DEF RecordCheckout, Quiet, WalletTypeOK
<1>6. ASSUME NEW o \in Owner, EnsureWallet(o) PROVE Quiet
  BY <1>6 DEF EnsureWallet, Quiet
<1>7. ASSUME NEW S \in SUBSET Slot, Abort(S) PROVE Quiet
  BY <1>7 DEF Abort, Quiet
<1>8. ASSUME NEW s \in Slot, RejectSpend(s) \/ ReadGrantWallet(s) PROVE Quiet
  BY <1>8 DEF RejectSpend, ReadGrantWallet, Quiet
<1>9. ASSUME NEW s \in Slot, NEW o \in Owner, NEW c,
             BeginSpend(s, o, c) \/ BeginAdjust(s, o, c)
      PROVE  Quiet
  BY <1>9 DEF BeginSpend, BeginAdjust, Quiet
<1>10. ASSUME NEW s \in Slot, NEW k \in Checkout, BeginGrant(s, k) PROVE Quiet
  BY <1>10 DEF BeginGrant, Quiet
<1>11. CASE UNCHANGED walletVars
  BY <1>11 DEF walletVars, Quiet
<1> QED
  BY <1>1, <1>2, <1>3, <1>4, <1>5, <1>6, <1>7, <1>8, <1>9, <1>10, <1>11
     DEF WalletNext, Spend, Adjust, Grant

LEMMA AdjustmentsStayAllowed ==
    ASSUME WalletTypeOK, AdjustmentsAllowed, [WalletNext]_walletVars
    PROVE  AdjustmentsAllowed'
<1>1. ASSUME NEW s \in Slot, Spend(s) PROVE AdjustmentsAllowed'
  <2>1. Idle.kind # "adjust"
    BY DEF Idle
  <2>2. CASE CommitSpend(s) \/ RejectSpend(s)
    BY <2>1, <2>2 DEF CommitSpend, RejectSpend, AdjustmentsAllowed, WalletTypeOK
  <2>3. ASSUME NEW o \in Owner, NEW c \in Cost, BeginSpend(s, o, c) PROVE AdjustmentsAllowed'
    BY <2>3 DEF BeginSpend, AdjustmentsAllowed, WalletTypeOK
  <2> QED BY <1>1, <2>2, <2>3 DEF Spend
<1>2. ASSUME NEW s \in Slot, Adjust(s) PROVE AdjustmentsAllowed'
  BY <1>2 DEF Adjust, CommitAdjust, BeginAdjust, AdjustmentsAllowed, WalletTypeOK, Idle
<1>3. ASSUME NEW s \in Slot, Grant(s) PROVE AdjustmentsAllowed'
  <2>1. CASE ReadGrantWallet(s)
    <3>1. txn[s] \in GrantTxn
      BY <2>1, TxnKinds DEF ReadGrantWallet, WalletTypeOK
    <3>2. txn'[s].kind = "grant"
      BY <2>1, <3>1 DEF ReadGrantWallet, WalletTypeOK, GrantTxn
    <3>3. \A t \in Slot \ {s} : txn'[t] = txn[t]
      BY <2>1 DEF ReadGrantWallet, WalletTypeOK
    <3> QED BY <3>2, <3>3 DEF AdjustmentsAllowed
  <2>2. CASE CommitGrant(s)
    BY <2>2 DEF CommitGrant, AdjustmentsAllowed, WalletTypeOK, Idle
  <2>3. ASSUME NEW k \in Checkout, BeginGrant(s, k) PROVE AdjustmentsAllowed'
    BY <2>3 DEF BeginGrant, AdjustmentsAllowed, WalletTypeOK
  <2> QED BY <1>3, <2>1, <2>2, <2>3 DEF Grant
<1>4. ASSUME NEW S \in SUBSET Slot, Abort(S) PROVE AdjustmentsAllowed'
  <2>1. \A t \in Slot : txn'[t] = Idle \/ txn'[t] = txn[t]
    BY <1>4 DEF Abort
  <2>2. Idle.kind # "adjust"
    BY DEF Idle
  <2> QED BY <2>1, <2>2 DEF AdjustmentsAllowed
<1>5. ASSUME UNCHANGED txn PROVE AdjustmentsAllowed'
  BY <1>5 DEF AdjustmentsAllowed
<1> QED
  BY <1>1, <1>2, <1>3, <1>4, <1>5
     DEF WalletNext, EnsureWallet, RecordCheckout, ExpireCheckouts, walletVars

\* The part of the invariant every other proof starts from.
WalletShape == WalletTypeOK /\ AdjustmentsAllowed

LEMMA WalletShapeHolds == WalletSpec => []WalletShape
<1>1. WalletInit => AdjustmentsAllowed
  BY DEF WalletInit, AdjustmentsAllowed, Idle
<1>2. WalletTypeOK /\ AdjustmentsAllowed /\ [WalletNext]_walletVars => AdjustmentsAllowed'
  BY AdjustmentsStayAllowed
<1> QED BY <1>1, <1>2, WalletTypeCorrect, PTL DEF WalletSpec, WalletShape

-----------------------------------------------------------------------------
(* The ledger explains the balance.                                        *)

LEMMA PostKeepsLedger ==
    ASSUME WalletTypeOK, LedgerExplainsBalance, NEW o \in Owner, NEW ty,
           NEW a \in Int, NEW r, Posted(o, ty, a, r)
    PROVE  LedgerExplainsBalance'
<1> SUFFICES ASSUME NEW p \in Owner
             PROVE  /\ \A i \in DOMAIN ledger'[p] :
                        ledger'[p][i].balanceAfter = ledger'[p][i].amount +
                            (IF i = 1 THEN 0 ELSE ledger'[p][i - 1].balanceAfter)
                    /\ balance'[p] = IF ledger'[p] = <<>> THEN 0
                                     ELSE ledger'[p][Len(ledger'[p])].balanceAfter
  BY DEF LedgerExplainsBalance
<1> USE DEF Posted
<1>1. CASE p # o
  BY <1>1 DEF LedgerExplainsBalance
<1>2. CASE p = o
  <2> DEFINE n == Len(ledger[o])
  <2>1. ledger[o] \in Seq(Row) /\ balance[o] \in Int
    BY DEF WalletTypeOK
  <2>2. n \in Nat /\ DOMAIN ledger[o] = 1 .. n
    BY <2>1
  <2>3. balance[o] = IF n = 0 THEN 0 ELSE ledger[o][n].balanceAfter
    BY <2>1 DEF LedgerExplainsBalance
  <2>4. ledger'[o][n + 1].balanceAfter = balance[o] + a /\ ledger'[o][n + 1].amount = a
    OBVIOUS
  <2>5. n # 0 => ledger'[o][n] = ledger[o][n]
    BY <2>2
  <2>6. ASSUME NEW i \in DOMAIN ledger'[o]
        PROVE  ledger'[o][i].balanceAfter = ledger'[o][i].amount +
                    (IF i = 1 THEN 0 ELSE ledger'[o][i - 1].balanceAfter)
    <3>1. CASE i = n + 1
      BY <3>1, <2>1, <2>2, <2>3, <2>4, <2>5
    <3>2. CASE i # n + 1
      <4>1. i \in 1 .. n /\ (i # 1 => i - 1 \in 1 .. n)
        BY <3>2, <2>2
      <4>2. ledger'[o][i] = ledger[o][i] /\ (i # 1 => ledger'[o][i - 1] = ledger[o][i - 1])
        BY <4>1, <2>2
      <4> QED BY <4>1, <4>2, <2>2 DEF LedgerExplainsBalance
    <3> QED BY <3>1, <3>2
  <2>7. Len(ledger'[o]) = n + 1 /\ ledger'[o] # <<>> /\ balance'[o] = balance[o] + a
    BY <2>2
  <2> QED BY <1>2, <2>4, <2>6, <2>7
<1> QED BY <1>1, <1>2

\* The statement a customer reads adds up, row by row, and ends in the
\* wallet's balance, whatever transactions were in flight together.
THEOREM StatementAddsUp == WalletSpec => []LedgerExplainsBalance
<1>1. WalletInit => LedgerExplainsBalance
  <2>1. WalletInit => \A o \in Owner : balance[o] = 0 /\ ledger[o] = <<>>
    BY DEF WalletInit
  <2>2. DOMAIN <<>> = {}
    OBVIOUS
  <2> QED BY <2>1, <2>2 DEF LedgerExplainsBalance
<1>2. WalletShape /\ LedgerExplainsBalance /\ [WalletNext]_walletVars => LedgerExplainsBalance'
  <2> SUFFICES ASSUME WalletShape, LedgerExplainsBalance, [WalletNext]_walletVars
               PROVE  LedgerExplainsBalance'
    OBVIOUS
  <2> USE WalletAssumption
  <2>1. CASE Quiet
    BY <2>1 DEF Quiet, LedgerExplainsBalance
  <2>2. ASSUME NEW o \in Owner, NEW c \in Cost, Debit(o, c) PROVE LedgerExplainsBalance'
    <3>1. -c \in Int
      OBVIOUS
    <3> QED BY <2>2, <3>1, PostKeepsLedger DEF Debit, WalletShape
  <2>3. ASSUME NEW o \in Owner, NEW a \in Adjustment, Correction(o, a) PROVE LedgerExplainsBalance'
    BY <2>3, PostKeepsLedger DEF Correction, WalletShape
  <2>4. ASSUME NEW k \in Checkout, Credit(k) PROVE LedgerExplainsBalance'
    <3>1. PackOwner[k] \in Owner /\ PackCredits[k] \in Int
      OBVIOUS
    <3> QED BY <2>4, <3>1, PostKeepsLedger DEF Credit, WalletShape
  <2> QED BY <2>1, <2>2, <2>3, <2>4, StepShape DEF WalletShape
<1> QED BY <1>1, <1>2, WalletShapeHolds, PTL DEF WalletSpec

-----------------------------------------------------------------------------
(* Spending never overdraws.                                               *)

\* A row is added to o's ledger only through Post; if it is a SPEND row it
\* must leave at least zero.
LEMMA PostKeepsSpends ==
    ASSUME WalletTypeOK, SpendsAreCovered, NEW o \in Owner, NEW ty,
           NEW a \in Int, NEW r, Posted(o, ty, a, r),
           ty = "SPEND" => balance[o] + a >= 0
    PROVE  SpendsAreCovered'
<1> SUFFICES ASSUME NEW p \in Owner, NEW i \in DOMAIN ledger'[p], ledger'[p][i].type = "SPEND"
             PROVE  ledger'[p][i].balanceAfter >= 0
  BY DEF SpendsAreCovered
<1>1. CASE p # o
  BY <1>1 DEF SpendsAreCovered, Posted
<1>2. CASE p = o /\ i = Len(ledger[o]) + 1
  BY <1>2 DEF Posted, WalletTypeOK
<1>3. CASE p = o /\ i # Len(ledger[o]) + 1
  <2>1. ledger[o] \in Seq(Row)
    BY DEF WalletTypeOK
  <2>2. i \in 1 .. Len(ledger[o]) + 1
    BY <1>3 DEF Posted
  <2>3. i \in 1 .. Len(ledger[o]) /\ i \in DOMAIN ledger[o]
    BY <1>3, <2>1, <2>2
  <2>4. ledger'[o][i] = ledger[o][i]
    BY <2>3 DEF Posted
  <2> QED BY <1>3, <2>3, <2>4 DEF SpendsAreCovered
<1> QED BY <1>1, <1>2, <1>3

\* No spending transaction leaves its wallet below zero, although it read the
\* wallet before others committed: updateMany repeats the comparison.
THEOREM SpendingIsCovered == WalletSpec => []SpendsAreCovered
<1>1. WalletInit => SpendsAreCovered
  BY DEF WalletInit, SpendsAreCovered
<1>2. WalletShape /\ SpendsAreCovered /\ [WalletNext]_walletVars => SpendsAreCovered'
  <2> SUFFICES ASSUME WalletShape, SpendsAreCovered, [WalletNext]_walletVars
               PROVE  SpendsAreCovered'
    OBVIOUS
  <2> USE WalletAssumption
  <2>1. CASE Quiet
    BY <2>1 DEF Quiet, SpendsAreCovered
  <2>2. ASSUME NEW o \in Owner, NEW c \in Cost, Debit(o, c) PROVE SpendsAreCovered'
    <3>1. -c \in Int /\ balance[o] \in Int /\ c \in Int
      BY DEF WalletShape, WalletTypeOK
    <3>2. balance[o] + -c >= 0
      BY <2>2, <3>1 DEF Debit
    <3> QED BY <2>2, <3>1, <3>2, PostKeepsSpends DEF Debit, WalletShape
  <2>3. ASSUME NEW o \in Owner, NEW a \in Adjustment, Correction(o, a) PROVE SpendsAreCovered'
    BY <2>3, PostKeepsSpends DEF Correction, WalletShape
  <2>4. ASSUME NEW k \in Checkout, Credit(k) PROVE SpendsAreCovered'
    <3>1. PackOwner[k] \in Owner /\ PackCredits[k] \in Int
      OBVIOUS
    <3> QED BY <2>4, <3>1, PostKeepsSpends DEF Credit, WalletShape
  <2> QED BY <2>1, <2>2, <2>3, <2>4, StepShape DEF WalletShape
<1> QED BY <1>1, <1>2, WalletShapeHolds, PTL DEF WalletSpec

\* Where manual adjustments are off (the default of
\* INTERNAL_ADMIN_ADJUSTMENTS_ENABLED), no wallet is ever below zero.
THEOREM NeverBelowZero ==
    ASSUME ~AdminAdjustmentsEnabled
    PROVE  WalletSpec => []BalanceNeverNegative
<1>1. WalletInit => BalanceNeverNegative
  <2> SUFFICES ASSUME WalletInit, NEW o \in Owner PROVE balance[o] >= 0
    BY DEF BalanceNeverNegative
  <2>1. balance[o] = 0
    BY DEF WalletInit
  <2> QED BY <2>1
<1>2. WalletShape /\ BalanceNeverNegative /\ [WalletNext]_walletVars => BalanceNeverNegative'
  <2> SUFFICES ASSUME WalletShape, BalanceNeverNegative, [WalletNext]_walletVars,
                      NEW p \in Owner
               PROVE  balance'[p] >= 0
    BY DEF BalanceNeverNegative
  <2> USE WalletAssumption
  <2>0. balance[p] \in Int /\ balance[p] >= 0
    BY DEF WalletShape, WalletTypeOK, BalanceNeverNegative
  <2>1. CASE Quiet
    BY <2>0, <2>1 DEF Quiet
  <2>2. ASSUME NEW o \in Owner, NEW c \in Cost, Debit(o, c) PROVE balance'[p] >= 0
    <3>1. -c \in Int /\ balance[o] \in Int /\ c \in Int
      BY DEF WalletShape, WalletTypeOK
    <3>2. balance'[o] = balance[o] + -c /\ (p # o => balance'[p] = balance[p])
      BY <2>2 DEF Debit, Posted
    <3>3. balance[o] >= c
      BY <2>2 DEF Debit
    <3> QED BY <2>0, <3>1, <3>2, <3>3
  <2>3. ASSUME NEW o \in Owner, NEW a \in Adjustment, Correction(o, a) PROVE balance'[p] >= 0
    BY <2>3 DEF Correction
  <2>4. ASSUME NEW k \in Checkout, Credit(k) PROVE balance'[p] >= 0
    <3>1. PackOwner[k] \in Owner /\ PackCredits[k] \in Nat /\ PackCredits[k] \in Int
      OBVIOUS
    <3>2. /\ balance'[PackOwner[k]] = balance[PackOwner[k]] + PackCredits[k]
          /\ p # PackOwner[k] => balance'[p] = balance[p]
      BY <2>4 DEF Credit, Posted
    <3> QED BY <2>0, <3>1, <3>2
  <2> QED BY <2>1, <2>2, <2>3, <2>4, StepShape DEF WalletShape
<1> QED BY <1>1, <1>2, WalletShapeHolds, PTL DEF WalletSpec

-----------------------------------------------------------------------------
(* A completed session is a granted one.                                   *)

\* A row of another type or another checkout leaves the grants alone; a
\* PURCHASE row for k grants k.
LEMMA PostGrants ==
    ASSUME WalletTypeOK, NEW o \in Owner, NEW ty, NEW a \in Int, NEW r,
           Posted(o, ty, a, r), NEW k \in Checkout
    PROVE  Granted(k)' <=> Granted(k) \/ (ty = "PURCHASE" /\ r = k /\ o = PackOwner[k])
<1> DEFINE p == PackOwner[k]
           n == Len(ledger[o])
           IsGrant(row) == row.type = "PURCHASE" /\ row.ref = k
<1>1. p \in Owner
  BY WalletAssumption
<1>2. ledger[o] \in Seq(Row) /\ n \in Nat /\ DOMAIN ledger[o] = 1 .. n
  BY DEF WalletTypeOK
<1>3. CASE p # o
  BY <1>1, <1>3 DEF Posted, Granted, PurchaseRows
<1>4. CASE p = o
  <2>1. DOMAIN ledger'[o] = 1 .. n + 1
    BY DEF Posted
  <2>2. \A i \in 1 .. n : ledger'[o][i] = ledger[o][i]
    BY DEF Posted
  <2>3. ledger'[o][n + 1].type = ty /\ ledger'[o][n + 1].ref = r
    BY DEF Posted
  <2>4. Granted(k)' <=> \E i \in 1 .. n + 1 : IsGrant(ledger'[o][i])
    BY <1>4, <2>1 DEF Granted, PurchaseRows
  <2>5. Granted(k) <=> \E i \in 1 .. n : IsGrant(ledger[o][i])
    BY <1>4, <1>2 DEF Granted, PurchaseRows
  <2>6. 1 .. n + 1 = (1 .. n) \cup {n + 1}
    BY <1>2
  <2> QED BY <1>4, <2>2, <2>3, <2>4, <2>5, <2>6
<1> QED BY <1>3, <1>4

\* A session is COMPLETED exactly when its credits are in the ledger: the
\* cleanup job never takes a completed session back, and nothing but the
\* granting transaction completes one.
THEOREM CompletionIsGrant == WalletSpec => []CompletedIffGranted
<1>1. WalletInit => CompletedIffGranted
  BY WalletAssumption DEF WalletInit, CompletedIffGranted, Granted, PurchaseRows
<1>2. WalletShape /\ CompletedIffGranted /\ [WalletNext]_walletVars => CompletedIffGranted'
  <2> SUFFICES ASSUME WalletShape, CompletedIffGranted, [WalletNext]_walletVars,
                      NEW k \in Checkout
               PROVE  session'[k] = "COMPLETED" <=> Granted(k)'
    BY DEF CompletedIffGranted
  <2> USE WalletAssumption
  <2>0. session[k] = "COMPLETED" <=> Granted(k)
    BY DEF CompletedIffGranted
  <2>1. CASE Quiet
    BY <2>0, <2>1 DEF Quiet, Granted, PurchaseRows
  <2>2. ASSUME NEW o \in Owner, NEW c \in Cost, Debit(o, c)
        PROVE  session'[k] = "COMPLETED" <=> Granted(k)'
    <3>1. -c \in Int
      OBVIOUS
    <3>2. Granted(k)' <=> Granted(k)
      BY <2>2, <3>1, PostGrants DEF Debit, WalletShape
    <3> QED BY <2>0, <2>2, <3>2 DEF Debit
  <2>3. ASSUME NEW o \in Owner, NEW a \in Adjustment, Correction(o, a)
        PROVE  session'[k] = "COMPLETED" <=> Granted(k)'
    <3>1. Granted(k)' <=> Granted(k)
      BY <2>3, PostGrants DEF Correction, WalletShape
    <3> QED BY <2>0, <2>3, <3>1 DEF Correction
  <2>4. ASSUME NEW h \in Checkout, Credit(h)
        PROVE  session'[k] = "COMPLETED" <=> Granted(k)'
    <3>1. PackOwner[h] \in Owner /\ PackCredits[h] \in Int
      OBVIOUS
    <3>2. Granted(k)' <=> Granted(k) \/ h = k
      BY <2>4, <3>1, PostGrants DEF Credit, WalletShape
    <3>3. session'[k] = IF h = k THEN "COMPLETED" ELSE session[k]
      BY <2>4 DEF Credit, WalletShape, WalletTypeOK
    <3> QED BY <2>0, <3>2, <3>3
  <2> QED BY <2>1, <2>2, <2>3, <2>4, StepShape DEF WalletShape
<1> QED BY <1>1, <1>2, WalletShapeHolds, PTL DEF WalletSpec
=============================================================================
