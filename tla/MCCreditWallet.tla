--------------------------- MODULE MCCreditWallet ---------------------------
(* Two connections on one wallet with two checkout sessions; adjustments  *)
(* are on, so every kind of transaction meets every other.                *)
EXTENDS CreditWallet

CONSTANTS o1, k1, k2

MCPackOwner == [k \in Checkout |-> o1]
MCPackCredits == [k \in Checkout |-> IF k = k1 THEN 1 ELSE 2]
MCAdjustment == {-1, 1}
=============================================================================
