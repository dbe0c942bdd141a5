------------------------ MODULE MCMarketplaceOverlap ------------------------
(* Overlapping requests: two carriers on one post, a third one on two.     *)
EXTENDS RouteMarketplace, TLC

CONSTANTS
    p1, p2, c1, c2, c3, b1, b2, b3, b4, s1, s2,
    MaxDeleted      \* bound: rows that are deleted at the same time, and
                    \* requests that delete or restore one

VARIABLE part

mcVars == <<marketVars, part>>

MCPostOf == [b \in Bid |-> IF b = b4 THEN p2 ELSE p1]
MCCarrierOf == [b \in Bid |-> IF b = b1 THEN c1 ELSE IF b = b2 THEN c2 ELSE c3]

\* Two questions in one run, told apart by the initial state: what overlapping
\* requests make of one post and the bids of two carriers ("award"), and
\* whether a carrier who bids on two posts at the same time stays within the
\* plan ("limit", where only the third carrier asks for anything).
MCMarketInit == MarketInit /\ part \in {"award", "limit"}

BidsOf == [award |-> {b1, b2}, limit |-> {b3, b4}]

Deletions == {"postDelete", "postRestore", "bidDelete", "bidRestore",
              "contractDelete", "contractRestore"}

MCMarketNext ==
    /\ MarketNext
    /\ part = "award" => post'[p2] = "NONE"
    /\ \A b \in Bid \ BidsOf[part] : bid'[b] = "NONE"
    /\ \A s \in Slot : request'[s] # request[s] /\ request'[s] # Idle =>
         /\ part = "limit" => request'[s].op \in {"postStatus", "postDelete", "postRestore",
                                                  "bidCreate", "bidDelete", "bidRestore"}
         /\ request'[s].op = "bidCreate" => request'[s].on \in BidsOf[part]
    /\ Cardinality(deleted'.post) + Cardinality(deleted'.bid) + Cardinality(deleted'.contract)
         <= MaxDeleted
    /\ Cardinality({s \in Slot : request'[s].op \in Deletions}) <= MaxDeleted
    /\ UNCHANGED part

MCMarketSpec == MCMarketInit /\ [][MCMarketNext]_mcVars

\* Slots are alike, and so are the first two carriers, each with its bid.
SwapCarriers == (b1 :> b2) @@ (b2 :> b1) @@ (c1 :> c2) @@ (c2 :> c1)
SwapSlots == (s1 :> s2) @@ (s2 :> s1)
MCSymmetry == {SwapCarriers, SwapSlots, SwapCarriers @@ SwapSlots}
=============================================================================
