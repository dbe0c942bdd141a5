-------------------------- MODULE RouteMarketplace --------------------------
(***************************************************************************)
(* Transport posts, the bids on them and the contracts that come of them.  *)
(*                                                                         *)
(* Every endpoint reads the row, decides, and writes it later with an      *)
(* UPDATE by id that does not repeat the decision.  A request is therefore *)
(* two actions: Begin... reads and decides, Commit... writes what was      *)
(* decided into whatever the rows have become.  Accepting a bid writes all *)
(* its rows in one database transaction; its UPDATEs hold the bids and the *)
(* post, so it is one Commit.  The cleanup job is two statements, each     *)
(* with its condition in the WHERE clause.                                 *)
(*                                                                         *)
(* Activities, audit rows, notifications and replies are left out: nothing *)
(* here reads them.  Boosts and publishing fees belong to the wallets.     *)
(***************************************************************************)
EXTENDS Integers, FiniteSets

CONSTANTS
    Post,
    Carrier,        \* companies that bid
    Bid,            \* (post, carrier) pairs: a carrier has one row per post
    PostOf,
    CarrierOf,
    Price,
    NoPrice,
    Slot,           \* requests the API handles at the same time
    BidLimit        \* BIDS_PER_MONTH of the carriers' plan

ASSUME MarketAssumption ==
    /\ PostOf \in [Bid -> Post]
    /\ CarrierOf \in [Bid -> Carrier]
    /\ \A b, d \in Bid : PostOf[b] = PostOf[d] /\ CarrierOf[b] = CarrierOf[d] => b = d
    /\ NoPrice \notin Price
    /\ BidLimit \in Nat

VARIABLES
    post, bid, contract,    \* status of each row, "NONE" before it exists
    deleted,                \* rows with deletedAt set, by table
    offer,                  \* offeredPriceAmount of each bid
    agreed,                 \* agreedPriceAmount of each bid's contract
    used,                   \* the carriers' counter of this month
    request                 \* what each API slot has decided to write

rows == <<post, bid, contract, deleted, offer, agreed, used>>
marketVars == <<post, bid, contract, deleted, offer, agreed, used, request>>

-----------------------------------------------------------------------------

PostStatus == {"DRAFT", "OPEN", "ASSIGNED", "ARCHIVED", "EXPIRED"}
BidStatus == {"PENDING", "ACCEPTED", "REJECTED", "WITHDRAWN"}
ContractStatus == {"CONFIRMED", "IN_PROGRESS", "COMPLETED", "CANCELLED", "DISPUTED"}

PostMoves ==
    [DRAFT |-> {"OPEN", "ARCHIVED"},
     OPEN |-> {"ASSIGNED", "ARCHIVED", "EXPIRED"},
     ASSIGNED |-> {},
     ARCHIVED |-> {"DRAFT", "OPEN"},
     EXPIRED |-> {}]

ContractMoves ==
    [CONFIRMED |-> {"IN_PROGRESS", "CANCELLED", "DISPUTED"},
     IN_PROGRESS |-> {"COMPLETED", "CANCELLED", "DISPUTED"},
     COMPLETED |-> {}, CANCELLED |-> {}, DISPUTED |-> {}]

Idle == [op |-> "idle"]
Request ==
    {Idle}
    \cup [op: {"postStatus"}, on: Post, to: PostStatus]
    \cup [op: {"postDelete", "postRestore"}, on: Post]
    \cup [op: {"bidCreate", "accept", "contractCreate"}, on: Bid, price: Price]
    \cup [op: {"bidEdit"}, on: Bid, price: Price \cup {NoPrice}]
    \cup [op: {"bidClose"}, on: Bid, to: {"REJECTED", "WITHDRAWN"}]
    \cup [op: {"bidDelete", "bidRestore", "contractDelete", "contractRestore"}, on: Bid]
    \cup [op: {"contractStatus"}, on: Bid, to: ContractStatus]

MarketTypeOK ==
    /\ post \in [Post -> PostStatus \cup {"NONE"}]
    /\ bid \in [Bid -> BidStatus \cup {"NONE"}]
    /\ contract \in [Bid -> ContractStatus \cup {"NONE"}]
    /\ deleted \in [post: SUBSET Post, bid: SUBSET Bid, contract: SUBSET Bid]
    /\ offer \in [Bid -> Price \cup {NoPrice}]
    /\ agreed \in [Bid -> Price \cup {NoPrice}]
    /\ used \in [Carrier -> Nat]
    /\ request \in [Slot -> Request]

MarketInit ==
    /\ post = [p \in Post |-> "NONE"]
    /\ bid = [b \in Bid |-> "NONE"]
    /\ contract = [b \in Bid |-> "NONE"]
    /\ deleted = [post |-> {}, bid |-> {}, contract |-> {}]
    /\ offer = [b \in Bid |-> NoPrice]
    /\ agreed = [b \in Bid |-> NoPrice]
    /\ used = [c \in Carrier |-> 0]
    /\ request = [s \in Slot |-> Idle]

\* findActive...: the row is there and not soft-deleted.
LivePost(p) == post[p] # "NONE" /\ p \notin deleted.post
LiveBid(b) == bid[b] # "NONE" /\ b \notin deleted.bid
LiveContract(b) == contract[b] # "NONE" /\ b \notin deleted.contract

\* The unique postId and acceptedBidId of contracts.
ContractRoom(b) == \A d \in Bid : PostOf[d] = PostOf[b] => contract[d] = "NONE"

Begin(s, r) ==
    /\ request[s] = Idle
    /\ request' = [request EXCEPT ![s] = r]
    /\ UNCHANGED rows

Commit(s, ops) ==
    /\ request[s].op \in ops
    /\ request' = [request EXCEPT ![s] = Idle]

\* A refused, failed or interrupted request writes nothing.
Drop(s) ==
    /\ request[s] # Idle
    /\ request' = [request EXCEPT ![s] = Idle]
    /\ UNCHANGED rows

-----------------------------------------------------------------------------
(* Posts.                                                                  *)

CreatePost(p, status) ==
    /\ post[p] = "NONE"
    /\ post' = [post EXCEPT ![p] = status]
    /\ UNCHANGED <<bid, contract, deleted, offer, agreed, used, request>>

BeginPostStatus(s, p, to) ==
    /\ LivePost(p)
    /\ to \in PostMoves[post[p]]
    /\ Begin(s, [op |-> "postStatus", on |-> p, to |-> to])

CommitPostStatus(s) ==
    /\ Commit(s, {"postStatus"})
    /\ post' = [post EXCEPT ![request[s].on] = request[s].to]
    /\ UNCHANGED <<bid, contract, deleted, offer, agreed, used>>

BeginPostDelete(s, p) == LivePost(p) /\ Begin(s, [op |-> "postDelete", on |-> p])
BeginPostRestore(s, p) == p \in deleted.post /\ Begin(s, [op |-> "postRestore", on |-> p])

CommitPostDelete(s) ==
    /\ Commit(s, {"postDelete", "postRestore"})
    /\ deleted' = [deleted EXCEPT !.post =
            IF request[s].op = "postDelete" THEN @ \cup {request[s].on} ELSE @ \ {request[s].on}]
    /\ UNCHANGED <<post, bid, contract, offer, agreed, used>>

-----------------------------------------------------------------------------
(* Bids.                                                                   *)

BeginBidCreate(s, b, price) ==
    /\ LivePost(PostOf[b])
    /\ post[PostOf[b]] = "OPEN"
    /\ Begin(s, [op |-> "bidCreate", on |-> b, price |-> price])

\* MUTANT of CommitBidCreate: the counter is incremented where the request
\* found room when it read the usage, and compared no more.
CommitBidCreateCounted(s) ==
    LET b == request[s].on
        c == CarrierOf[b]
    IN  /\ Commit(s, {"bidCreate"})
        /\ bid[b] = "NONE"
        /\ bid' = [bid EXCEPT ![b] = "PENDING"]
        /\ offer' = [offer EXCEPT ![b] = request[s].price]
        /\ used' = [used EXCEPT ![c] = @ + 1]
        /\ UNCHANGED <<post, contract, deleted, agreed>>

\* One transaction: reserve one bid of the month (updateMany with used < limit),
\* insert the row (unique per post and carrier).
CommitBidCreate(s) ==
    LET b == request[s].on
        c == CarrierOf[b]
    IN  /\ Commit(s, {"bidCreate"})
        /\ bid[b] = "NONE"
        /\ used[c] < BidLimit
        /\ bid' = [bid EXCEPT ![b] = "PENDING"]
        /\ offer' = [offer EXCEPT ![b] = request[s].price]
        /\ used' = [used EXCEPT ![c] = @ + 1]
        /\ UNCHANGED <<post, contract, deleted, agreed>>

\* MUTANT of BeginBidEdit: any live bid may be edited.
BeginBidEditAny(s, b, price) ==
    /\ LiveBid(b)
    /\ Begin(s, [op |-> "bidEdit", on |-> b, price |-> price])

\* An edit changes the price, or clears it.
BeginBidEdit(s, b, price) ==
    /\ LiveBid(b)
    /\ bid[b] = "PENDING"
    /\ Begin(s, [op |-> "bidEdit", on |-> b, price |-> price])

CommitBidEdit(s) ==
    /\ Commit(s, {"bidEdit"})
    /\ offer' = [offer EXCEPT ![request[s].on] = request[s].price]
    /\ UNCHANGED <<post, bid, contract, deleted, agreed, used>>

\* MUTANT of BeginBidClose: an accepted bid may be withdrawn.
BeginBidCloseAny(s, b, to) ==
    /\ LiveBid(b)
    /\ bid[b] \in {"PENDING", "ACCEPTED"}
    /\ Begin(s, [op |-> "bidClose", on |-> b, to |-> to])

\* Rejected by the post's owner or withdrawn by the carrier.
BeginBidClose(s, b, to) ==
    /\ LiveBid(b)
    /\ bid[b] = "PENDING"
    /\ Begin(s, [op |-> "bidClose", on |-> b, to |-> to])

CommitBidClose(s) ==
    /\ Commit(s, {"bidClose"})
    /\ bid' = [bid EXCEPT ![request[s].on] = request[s].to]
    /\ UNCHANGED <<post, contract, deleted, offer, agreed, used>>

\* MUTANT of BeginAccept: a bid whose price was cleared is accepted too.
BeginAcceptUnpriced(s, b) ==
    /\ LiveBid(b)
    /\ bid[b] = "PENDING"
    /\ Begin(s, [op |-> "accept", on |-> b, price |-> offer[b]])

\* INVALID_BID_PRICE without a price.  The price of the contract is the one
\* read here; the post is not looked at.
BeginAccept(s, b) ==
    /\ LiveBid(b)
    /\ bid[b] = "PENDING"
    /\ offer[b] # NoPrice
    /\ Begin(s, [op |-> "accept", on |-> b, price |-> offer[b]])

\* MUTANT of CommitAccept: the bid is accepted and the post closed, no more.
CommitAcceptAndClose(s) ==
    LET b == request[s].on
        p == PostOf[b]
        Loses(d) == d # b /\ PostOf[d] = p /\ LiveBid(d) /\ bid[d] = "PENDING"
    IN  /\ Commit(s, {"accept"})
        /\ bid' = [d \in Bid |-> IF d = b THEN "ACCEPTED"
                                 ELSE IF Loses(d) THEN "REJECTED" ELSE bid[d]]
        /\ post' = [post EXCEPT ![p] = "ASSIGNED"]
        /\ UNCHANGED <<contract, agreed>>
        /\ UNCHANGED <<deleted, offer, used>>

\* MUTANT of CommitAccept: nothing keeps a second contract off the post.
CommitAcceptAgain(s) ==
    LET b == request[s].on
        p == PostOf[b]
        Loses(d) == d # b /\ PostOf[d] = p /\ LiveBid(d) /\ bid[d] = "PENDING"
    IN  /\ Commit(s, {"accept"})
        /\ bid' = [d \in Bid |-> IF d = b THEN "ACCEPTED"
                                 ELSE IF Loses(d) THEN "REJECTED" ELSE bid[d]]
        /\ post' = [post EXCEPT ![p] = "ASSIGNED"]
        /\ IF contract[b] = "NONE"
           THEN /\ contract' = [contract EXCEPT ![b] = "CONFIRMED"]
                /\ agreed' = [agreed EXCEPT ![b] = request[s].price]
           ELSE UNCHANGED <<contract, agreed>>
        /\ UNCHANGED <<deleted, offer, used>>

\* MUTANT of CommitAccept: the upsert writes what it would have inserted.
CommitAcceptOver(s) ==
    LET b == request[s].on
        p == PostOf[b]
        Loses(d) == d # b /\ PostOf[d] = p /\ LiveBid(d) /\ bid[d] = "PENDING"
    IN  /\ Commit(s, {"accept"})
        /\ contract[b] # "NONE" \/ ContractRoom(b)
        /\ bid' = [d \in Bid |-> IF d = b THEN "ACCEPTED"
                                 ELSE IF Loses(d) THEN "REJECTED" ELSE bid[d]]
        /\ post' = [post EXCEPT ![p] = "ASSIGNED"]
        /\ contract' = [contract EXCEPT ![b] = "CONFIRMED"]
        /\ agreed' = [agreed EXCEPT ![b] = request[s].price]
        /\ UNCHANGED <<deleted, offer, used>>

\* The transaction looks at no status again.  Its upsert leaves a contract of
\* this bid as it is, and its insert fails, and with it the whole
\* transaction, if the post has a contract with another bid.
CommitAccept(s) ==
    LET b == request[s].on
        p == PostOf[b]
        Loses(d) == d # b /\ PostOf[d] = p /\ LiveBid(d) /\ bid[d] = "PENDING"
    IN  /\ Commit(s, {"accept"})
        /\ contract[b] # "NONE" \/ ContractRoom(b)
        /\ bid' = [d \in Bid |-> IF d = b THEN "ACCEPTED"
                                 ELSE IF Loses(d) THEN "REJECTED" ELSE bid[d]]
        /\ post' = [post EXCEPT ![p] = "ASSIGNED"]
        /\ IF contract[b] = "NONE"
           THEN /\ contract' = [contract EXCEPT ![b] = "CONFIRMED"]
                /\ agreed' = [agreed EXCEPT ![b] = request[s].price]
           ELSE UNCHANGED <<contract, agreed>>
        /\ UNCHANGED <<deleted, offer, used>>

BeginBidDelete(s, b) == LiveBid(b) /\ Begin(s, [op |-> "bidDelete", on |-> b])

BeginBidRestore(s, b) ==
    /\ b \in deleted.bid
    /\ post[PostOf[b]] = "OPEN"
    /\ Begin(s, [op |-> "bidRestore", on |-> b])

CommitBidDelete(s) ==
    /\ Commit(s, {"bidDelete", "bidRestore"})
    /\ deleted' = [deleted EXCEPT !.bid =
            IF request[s].op = "bidDelete" THEN @ \cup {request[s].on} ELSE @ \ {request[s].on}]
    /\ UNCHANGED <<post, bid, contract, offer, agreed, used>>

-----------------------------------------------------------------------------
(* Contracts.                                                              *)

BeginContractCreate(s, b) ==
    /\ LivePost(PostOf[b]) /\ post[PostOf[b]] = "ASSIGNED"
    /\ LiveBid(b) /\ bid[b] = "ACCEPTED"
    /\ offer[b] # NoPrice
    /\ Begin(s, [op |-> "contractCreate", on |-> b, price |-> offer[b]])

\* CONTRACT_ALREADY_EXISTS if the post or the bid has one.
CommitContractCreate(s) ==
    LET b == request[s].on
    IN  /\ Commit(s, {"contractCreate"})
        /\ IF ContractRoom(b)
           THEN /\ contract' = [contract EXCEPT ![b] = "CONFIRMED"]
                /\ agreed' = [agreed EXCEPT ![b] = request[s].price]
           ELSE UNCHANGED <<contract, agreed>>
        /\ UNCHANGED <<post, bid, deleted, offer, used>>

BeginContractStatus(s, b, to) ==
    /\ LiveContract(b)
    /\ to \in ContractMoves[contract[b]]
    /\ Begin(s, [op |-> "contractStatus", on |-> b, to |-> to])

CommitContractStatus(s) ==
    /\ Commit(s, {"contractStatus"})
    /\ contract' = [contract EXCEPT ![request[s].on] = request[s].to]
    /\ UNCHANGED <<post, bid, deleted, offer, agreed, used>>

BeginContractDelete(s, b) == LiveContract(b) /\ Begin(s, [op |-> "contractDelete", on |-> b])
BeginContractRestore(s, b) ==
    b \in deleted.contract /\ Begin(s, [op |-> "contractRestore", on |-> b])

CommitContractDelete(s) ==
    /\ Commit(s, {"contractDelete", "contractRestore"})
    /\ deleted' = [deleted EXCEPT !.contract =
            IF request[s].op = "contractDelete" THEN @ \cup {request[s].on} ELSE @ \ {request[s].on}]
    /\ UNCHANGED <<post, bid, contract, offer, agreed, used>>

-----------------------------------------------------------------------------
(* The cleanup job.                                                        *)

\* MUTANT of ExpirePosts: overdue posts are cancelled.
ExpirePostsCancelled(due) ==
    LET Expires(p) == p \in due /\ LivePost(p) /\ post[p] = "OPEN"
    IN  /\ \E p \in Post : Expires(p)
        /\ post' = [p \in Post |-> IF Expires(p) THEN "CANCELLED" ELSE post[p]]
        /\ UNCHANGED <<bid, contract, deleted, offer, agreed, used, request>>

\* "due" are the posts whose expiresAt has passed.
ExpirePosts(due) ==
    LET Expires(p) == p \in due /\ LivePost(p) /\ post[p] = "OPEN"
    IN  /\ \E p \in Post : Expires(p)
        /\ post' = [p \in Post |-> IF Expires(p) THEN "EXPIRED" ELSE post[p]]
        /\ UNCHANGED <<bid, contract, deleted, offer, agreed, used, request>>

\* Pending bids of expired posts.
Stranded(b) ==
    /\ LiveBid(b) /\ bid[b] = "PENDING"
    /\ LivePost(PostOf[b]) /\ post[PostOf[b]] = "EXPIRED"

\* MUTANT of CloseBids: only the bids of cancelled posts.
CloseBidsOfCancelled ==
    /\ \E b \in Bid : Stranded(b) /\ post[PostOf[b]] = "CANCELLED"
    /\ bid' = [b \in Bid |-> IF Stranded(b) THEN "REJECTED" ELSE bid[b]]
    /\ UNCHANGED <<post, contract, deleted, offer, agreed, used, request>>

CloseBids ==
    /\ \E b \in Bid : Stranded(b)
    /\ bid' = [b \in Bid |-> IF Stranded(b) THEN "REJECTED" ELSE bid[b]]
    /\ UNCHANGED <<post, contract, deleted, offer, agreed, used, request>>

-----------------------------------------------------------------------------

PostRequest(s) ==
    \/ \E p \in Post :
        \/ \E to \in PostStatus : BeginPostStatus(s, p, to)
        \/ BeginPostDelete(s, p)
        \/ BeginPostRestore(s, p)
    \/ CommitPostStatus(s)
    \/ CommitPostDelete(s)

BidRequest(s) ==
    \/ \E b \in Bid :
        \/ \E price \in Price : BeginBidCreate(s, b, price)
        \/ \E price \in Price \cup {NoPrice} : BeginBidEdit(s, b, price)
        \/ \E to \in {"REJECTED", "WITHDRAWN"} : BeginBidClose(s, b, to)
        \/ BeginAccept(s, b)
        \/ BeginBidDelete(s, b)
        \/ BeginBidRestore(s, b)
    \/ CommitBidCreate(s)
    \/ CommitBidEdit(s)
    \/ CommitBidClose(s)
    \/ CommitAccept(s)
    \/ CommitBidDelete(s)

ContractRequest(s) ==
    \/ \E b \in Bid :
        \/ BeginContractCreate(s, b)
        \/ \E to \in ContractStatus : BeginContractStatus(s, b, to)
        \/ BeginContractDelete(s, b)
        \/ BeginContractRestore(s, b)
    \/ CommitContractCreate(s)
    \/ CommitContractStatus(s)
    \/ CommitContractDelete(s)

MarketNext ==
    \/ \E p \in Post, status \in {"DRAFT", "OPEN"} : CreatePost(p, status)
    \/ \E s \in Slot : PostRequest(s) \/ BidRequest(s) \/ ContractRequest(s) \/ Drop(s)
    \/ \E due \in SUBSET Post : ExpirePosts(due)
    \/ CloseBids

MarketSpec == MarketInit /\ [][MarketNext]_marketVars

\* The cleanup job runs every few minutes; customers and requests may stop.
FairMarketSpec == MarketSpec /\ WF_marketVars(CloseBids)

-----------------------------------------------------------------------------
(* Properties of every interleaving of requests.                           *)

\* A carrier whose bid is ACCEPTED has a contract for it, at a price, whatever
\* else was written to the bid, the post or the other bids in the meantime.
AcceptedBidHasContract ==
    \A b \in Bid : bid[b] = "ACCEPTED" => contract[b] # "NONE" /\ agreed[b] # NoPrice

\* Two accepts of the same post cannot both win.
OneWinner ==
    \A b, d \in Bid :
        /\ PostOf[b] = PostOf[d]
        /\ bid[b] = "ACCEPTED" \/ contract[b] # "NONE"
        /\ bid[d] = "ACCEPTED" \/ contract[d] # "NONE"
        => b = d

\* A second accept of the same bid, or a fallback contract request, leaves a
\* contract under way as it is: it keeps its price and does not start again
\* ("Repeated/fallback contract creation remains idempotent").
ContractNeverRestarts ==
    [][\A b \in Bid : contract[b] # "NONE" =>
        /\ agreed'[b] = agreed[b]
        /\ contract'[b] # "NONE"
        /\ contract'[b] = "CONFIRMED" => contract[b] = "CONFIRMED"]_marketVars

\* Carriers do not get past the bids of their plan by bidding concurrently.
BidLimitKept ==
    \A c \in Carrier :
        Cardinality({b \in Bid : CarrierOf[b] = c /\ bid[b] # "NONE"}) <= BidLimit

\* No carrier waits for ever for the answer of an expired post.
StrandedBidsAreClosed == \A b \in Bid : Stranded(b) ~> ~Stranded(b)

-----------------------------------------------------------------------------
(* Properties of requests that do not overlap (one Slot).                  *)

\* "Route/post/bid/contract transitions must preserve workflow integrity
\* (post -> bid -> accepted bid -> contract)": a contract stands on an
\* assigned post and an accepted bid, at the price that was offered.
WorkflowIntegrity ==
    \A b \in Bid : contract[b] # "NONE" =>
        /\ bid[b] = "ACCEPTED"
        /\ post[PostOf[b]] = "ASSIGNED"
        /\ agreed[b] = offer[b]

\* What is settled stays so: accepted bids, assigned posts, ended contracts.
SettledStays ==
    [][/\ \A p \in Post : post[p] = "ASSIGNED" => post'[p] = "ASSIGNED"
       /\ \A b \in Bid : bid[b] = "ACCEPTED" => bid'[b] = "ACCEPTED"
       /\ \A b \in Bid : contract[b] \in {"COMPLETED", "CANCELLED", "DISPUTED"} =>
            contract'[b] = contract[b]]_marketVars

DealOf == [b \in Bid |-> [price |-> agreed[b], status |-> contract[b]]]
Accepted == {b \in Bid : bid[b] = "ACCEPTED"}
Assigned == {p \in Post : post[p] = "ASSIGNED"}

\* The whole of it, the cleanup job next to it included, implements what the
\* two sides of a deal are promised: RouteDeals.
Deals == INSTANCE RouteDeals WITH
    deal <- DealOf, accepted <- Accepted, assigned <- Assigned

ImplementsDeals == Deals!DealSpec
=============================================================================
