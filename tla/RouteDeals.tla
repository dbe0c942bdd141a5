----------------------------- MODULE RouteDeals -----------------------------
(***************************************************************************)
(* What the marketplace promises a shipper and a carrier whose requests do *)
(* not overlap others: an award is one step, at the price that stands, and *)
(* a deal then only advances.  No requests, reads or deleted rows here.    *)
(***************************************************************************)
CONSTANTS Post, Bid, PostOf, Price, NoPrice

VARIABLES
    offer,      \* what each bid offers
    deal,       \* price and status of each bid's contract
    accepted,   \* bids
    assigned    \* posts that are given away, by an award or by hand

dealVars == <<offer, deal, accepted, assigned>>

Moves ==
    [CONFIRMED |-> {"IN_PROGRESS", "CANCELLED", "DISPUTED"},
     IN_PROGRESS |-> {"COMPLETED", "CANCELLED", "DISPUTED"},
     COMPLETED |-> {}, CANCELLED |-> {}, DISPUTED |-> {}]

DealInit ==
    /\ offer = [b \in Bid |-> NoPrice]
    /\ deal = [b \in Bid |-> [price |-> NoPrice, status |-> "NONE"]]
    /\ accepted = {}
    /\ assigned = {}

Struck(b) == deal[b].status # "NONE"

\* An offer is made, changed or cleared; an accepted one is binding.
Offer(b, price) ==
    /\ b \notin accepted
    /\ offer' = [offer EXCEPT ![b] = price]
    /\ UNCHANGED <<deal, accepted, assigned>>

Award(b) ==
    /\ offer[b] # NoPrice
    /\ \A d \in Bid : PostOf[d] = PostOf[b] => ~Struck(d)
    /\ deal' = [deal EXCEPT ![b] = [price |-> offer[b], status |-> "CONFIRMED"]]
    /\ accepted' = accepted \cup {b}
    /\ assigned' = assigned \cup {PostOf[b]}
    /\ UNCHANGED offer

\* The shipper marks a post as assigned without a deal.
AssignByHand(p) ==
    /\ assigned' = assigned \cup {p}
    /\ UNCHANGED <<offer, deal, accepted>>

Advance(b, to) ==
    /\ Struck(b)
    /\ to \in Moves[deal[b].status]
    /\ deal' = [deal EXCEPT ![b].status = to]
    /\ UNCHANGED <<offer, accepted, assigned>>

DealNext ==
    \/ \E p \in Post : AssignByHand(p)
    \/ \E b \in Bid :
        \/ Award(b)
        \/ \E price \in Price \cup {NoPrice} : Offer(b, price)
        \/ \E to \in DOMAIN Moves : Advance(b, to)

DealSpec == DealInit /\ [][DealNext]_dealVars
=============================================================================
