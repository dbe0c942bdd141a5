---------------------------- MODULE CreditLedger ----------------------------
(***************************************************************************)
(* What the credit system promises its customers, without transactions,    *)
(* queues or retries: a paid checkout session is credited once, and a      *)
(* spending action takes credits that are there.                           *)
(***************************************************************************)
EXTENDS Integers

CONSTANTS Owner, Checkout, Cost, Adjustment, PackOwner, PackCredits,
          AdminAdjustmentsEnabled

VARIABLES
    credited,   \* the checkout sessions whose credits were granted
    funds       \* the credits of each owner

ledgerVars == <<credited, funds>>

LedgerInit ==
    /\ credited = {}
    /\ funds = [o \in Owner |-> 0]

CreditOnce(k) ==
    /\ k \notin credited
    /\ credited' = credited \cup {k}
    /\ funds' = [funds EXCEPT ![PackOwner[k]] = @ + PackCredits[k]]

Withdraw(o, c) ==
    /\ funds[o] >= c
    /\ funds' = [funds EXCEPT ![o] = @ - c]
    /\ UNCHANGED credited

Correct(o, a) ==
    /\ AdminAdjustmentsEnabled
    /\ funds' = [funds EXCEPT ![o] = @ + a]
    /\ UNCHANGED credited

LedgerNext ==
    \/ \E k \in Checkout : CreditOnce(k)
    \/ \E o \in Owner, c \in Cost : Withdraw(o, c)
    \/ \E o \in Owner, a \in Adjustment : Correct(o, a)

LedgerSpec == LedgerInit /\ [][LedgerNext]_ledgerVars
=============================================================================
