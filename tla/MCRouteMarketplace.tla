------------------------- MODULE MCRouteMarketplace -------------------------
(* Two bids on one post; one of the carriers may also bid on a second one. *)
EXTENDS RouteMarketplace

CONSTANTS p1, p2, c1, c2, b1, b2, b3, s1, s2

MCPostOf == [b \in Bid |-> IF b = b3 THEN p2 ELSE p1]
MCCarrierOf == [b \in Bid |-> IF b = b2 THEN c2 ELSE c1]
=============================================================================
