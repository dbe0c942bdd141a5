-------------------------- MODULE MCCreditPurchase --------------------------
(* Two checkout sessions of one owner, two handler slots, and one or two   *)
(* client connections.  Without the queue the wallet's own transactions,   *)
(* manual reductions among them, meet each other and the grants.           *)
EXTENDS CreditPurchase

CONSTANTS o1, k1, k2

MCPackOwner == [k \in Checkout |-> o1]
MCPackCredits == [k \in Checkout |-> IF k = k1 THEN 1 ELSE 2]
MCAdjustment == {-1, 1}
MCReduction == {-1}
=============================================================================
