----------------------- MODULE RouteMarketplaceProofs -----------------------
(***************************************************************************)
(* Proofs about RouteMarketplace, for every set of posts, bids and slots.  *)
(*                                                                         *)
(* The requests in flight are where the difficulty is: what they write was *)
(* decided earlier.  BaseInv says what is still true of them when they     *)
(* write: the row they were decided on exists.                             *)
(***************************************************************************)
EXTENDS RouteMarketplace, FiniteSetTheorems, TLAPS

\* What a decided request still finds when it writes.
Fits(r) ==
    /\ r.op \in {"bidClose", "accept", "contractCreate"} => bid[r.on] # "NONE"
    /\ r.op = "contractStatus" => contract[r.on] # "NONE" /\ r.to # "CONFIRMED"

RequestsFit == \A s \in Slot : Fits(request[s])
ContractsArePriced == \A b \in Bid : contract[b] # "NONE" => agreed[b] \in Price
BaseInv == MarketTypeOK /\ RequestsFit /\ ContractsArePriced

\* Rows are never removed from the tables.
Grows ==
    \A b \in Bid : /\ bid[b] # "NONE" => bid'[b] # "NONE"
                   /\ contract[b] # "NONE" => contract'[b] # "NONE"

-----------------------------------------------------------------------------
(* Requests.                                                               *)

\* A request carries what its operation needs.
LEMMA RequestFields ==
    ASSUME NEW r \in Request
    PROVE  /\ r.op = "postStatus" => r.on \in Post /\ r.to \in PostStatus
           /\ r.op \in {"postDelete", "postRestore"} => r.on \in Post
           /\ r.op \in {"bidCreate", "accept", "contractCreate"} =>
                r.on \in Bid /\ r.price \in Price
           /\ r.op = "bidEdit" => r.on \in Bid /\ r.price \in Price \cup {NoPrice}
           /\ r.op = "bidClose" => r.on \in Bid /\ r.to \in {"REJECTED", "WITHDRAWN"}
           /\ r.op \in {"bidDelete", "bidRestore", "contractDelete", "contractRestore"} =>
                r.on \in Bid
           /\ r.op = "contractStatus" => r.on \in Bid /\ r.to \in ContractStatus
<1>1. CASE r = Idle
  BY <1>1 DEF Idle
<1>2. CASE r \in [op: {"postStatus"}, on: Post, to: PostStatus]
  BY <1>2
<1>3. CASE r \in [op: {"postDelete", "postRestore"}, on: Post]
  BY <1>3
<1>4. CASE r \in [op: {"bidCreate", "accept", "contractCreate"}, on: Bid, price: Price]
  BY <1>4
<1>5. CASE r \in [op: {"bidClose"}, on: Bid, to: {"REJECTED", "WITHDRAWN"}]
  BY <1>5
<1>6. CASE r \in [op: {"bidDelete", "bidRestore", "contractDelete", "contractRestore"}, on: Bid]
  BY <1>6
<1>7. CASE r \in [op: {"bidEdit"}, on: Bid, price: Price \cup {NoPrice}]
  BY <1>7
<1>8. CASE r \in [op: {"contractStatus"}, on: Bid, to: ContractStatus]
  BY <1>8
<1> QED BY <1>1, <1>2, <1>3, <1>4, <1>5, <1>6, <1>7, <1>8 DEF Request

\* Deciding a request leaves every row alone.
LEMMA BeginKeeps ==
    ASSUME BaseInv, NEW s \in Slot, NEW r \in Request, Fits(r), Begin(s, r)
    PROVE  BaseInv'
<1>1. request' \in [Slot -> Request] /\ \A t \in Slot : request'[t] = r \/ request'[t] = request[t]
  BY DEF Begin, BaseInv, MarketTypeOK
<1>2. UNCHANGED <<post, bid, contract, deleted, offer, agreed, used>>
  BY DEF Begin, rows
<1>3. MarketTypeOK'
  BY <1>1, <1>2 DEF BaseInv, MarketTypeOK
<1>4. RequestsFit'
  BY <1>1, <1>2 DEF BaseInv, RequestsFit, Fits
<1> QED BY <1>2, <1>3, <1>4 DEF BaseInv, ContractsArePriced

\* The other requests in flight outlive a write, and the one that wrote is done.
LEMMA OthersFit ==
    ASSUME BaseInv, Grows, NEW s \in Slot,
           request' = [request EXCEPT ![s] = Idle] \/ UNCHANGED request
    PROVE  request' \in [Slot -> Request] /\ RequestsFit'
<1>1. Idle \in Request /\ Idle.op = "idle"
  BY DEF Request, Idle
<1>2. request' \in [Slot -> Request] /\ \A t \in Slot : request'[t] = Idle \/ request'[t] = request[t]
  BY <1>1 DEF BaseInv, MarketTypeOK
<1>3. ASSUME NEW t \in Slot PROVE Fits(request[t])'
  <2>1. CASE request'[t] = Idle
    BY <1>1, <2>1 DEF Fits
  <2>2. CASE request'[t] = request[t]
    <3>1. request[t] \in Request /\ Fits(request[t])
      BY DEF BaseInv, MarketTypeOK, RequestsFit
    <3>2. request[t].op \in {"bidClose", "accept", "contractCreate", "contractStatus"} =>
            request[t].on \in Bid
      BY <3>1, RequestFields
    <3> QED BY <2>2, <3>1, <3>2 DEF Fits, Grows
  <2> QED BY <1>2, <2>1, <2>2
<1>4. RequestsFit'
  BY <1>3 DEF RequestsFit, Fits
<1> QED BY <1>2, <1>4

\* Every step that decides a request, writes nothing but requests.
LEMMA BeginsKeep ==
    ASSUME BaseInv, NEW s \in Slot,
           \/ \E p \in Post : \/ \E to \in PostStatus : BeginPostStatus(s, p, to)
                              \/ BeginPostDelete(s, p)
                              \/ BeginPostRestore(s, p)
           \/ \E b \in Bid :
                \/ \E price \in Price : BeginBidCreate(s, b, price)
                \/ \E price \in Price \cup {NoPrice} : BeginBidEdit(s, b, price)
                \/ \E to \in {"REJECTED", "WITHDRAWN"} : BeginBidClose(s, b, to)
                \/ BeginAccept(s, b) \/ BeginBidDelete(s, b) \/ BeginBidRestore(s, b)
                \/ BeginContractCreate(s, b)
                \/ \E to \in ContractStatus : BeginContractStatus(s, b, to)
                \/ BeginContractDelete(s, b) \/ BeginContractRestore(s, b)
    PROVE  BaseInv'
<1>1. ASSUME NEW p \in Post, NEW to \in PostStatus, BeginPostStatus(s, p, to) PROVE BaseInv'
  <2> DEFINE r == [op |-> "postStatus", on |-> p, to |-> to]
  <2>1. r \in Request /\ Fits(r)
    BY DEF Request, Fits
  <2> QED BY <1>1, <2>1, BeginKeeps DEF BeginPostStatus
<1>2. ASSUME NEW p \in Post, NEW op \in {"postDelete", "postRestore"},
             Begin(s, [op |-> op, on |-> p])
      PROVE  BaseInv'
  <2> DEFINE r == [op |-> op, on |-> p]
  <2>1. r \in Request /\ Fits(r)
    BY DEF Request, Fits
  <2> QED BY <1>2, <2>1, BeginKeeps
<1>3. ASSUME NEW b \in Bid, NEW price \in Price, BeginBidCreate(s, b, price) PROVE BaseInv'
  <2> DEFINE r == [op |-> "bidCreate", on |-> b, price |-> price]
  <2>1. r \in Request /\ Fits(r)
    BY DEF Request, Fits
  <2> QED BY <1>3, <2>1, BeginKeeps DEF BeginBidCreate
<1>9. ASSUME NEW b \in Bid, NEW price \in Price \cup {NoPrice}, BeginBidEdit(s, b, price)
      PROVE  BaseInv'
  <2> DEFINE r == [op |-> "bidEdit", on |-> b, price |-> price]
  <2>1. r \in Request /\ Fits(r)
    BY DEF Request, Fits
  <2> QED BY <1>9, <2>1, BeginKeeps DEF BeginBidEdit
<1>4. ASSUME NEW b \in Bid, NEW to \in {"REJECTED", "WITHDRAWN"}, BeginBidClose(s, b, to)
      PROVE  BaseInv'
  <2> DEFINE r == [op |-> "bidClose", on |-> b, to |-> to]
  <2>1. r \in Request /\ Fits(r)
    BY <1>4 DEF Request, Fits, BeginBidClose, LiveBid
  <2> QED BY <1>4, <2>1, BeginKeeps DEF BeginBidClose
<1>5. ASSUME NEW b \in Bid, BeginAccept(s, b) PROVE BaseInv'
  <2> DEFINE r == [op |-> "accept", on |-> b, price |-> offer[b]]
  <2>1. bid[b] # "NONE" /\ offer[b] \in Price
    BY <1>5 DEF BeginAccept, LiveBid, BaseInv, MarketTypeOK
  <2>2. r \in Request /\ Fits(r)
    BY <2>1 DEF Request, Fits
  <2> QED BY <1>5, <2>2, BeginKeeps DEF BeginAccept
<1>6. ASSUME NEW b \in Bid,
             NEW op \in {"bidDelete", "bidRestore", "contractDelete", "contractRestore"},
             Begin(s, [op |-> op, on |-> b])
      PROVE  BaseInv'
  <2> DEFINE r == [op |-> op, on |-> b]
  <2>1. r \in Request /\ Fits(r)
    BY DEF Request, Fits
  <2> QED BY <1>6, <2>1, BeginKeeps
<1>7. ASSUME NEW b \in Bid, BeginContractCreate(s, b) PROVE BaseInv'
  <2> DEFINE r == [op |-> "contractCreate", on |-> b, price |-> offer[b]]
  <2>1. bid[b] # "NONE" /\ offer[b] \in Price
    BY <1>7 DEF BeginContractCreate, LiveBid, BaseInv, MarketTypeOK
  <2>2. r \in Request /\ Fits(r)
    BY <2>1 DEF Request, Fits
  <2> QED BY <1>7, <2>2, BeginKeeps DEF BeginContractCreate
<1>8. ASSUME NEW b \in Bid, NEW to \in ContractStatus, BeginContractStatus(s, b, to)
      PROVE  BaseInv'
  <2> DEFINE r == [op |-> "contractStatus", on |-> b, to |-> to]
  <2>1. contract[b] # "NONE" /\ contract[b] \in ContractStatus
    BY <1>8 DEF BeginContractStatus, LiveContract, BaseInv, MarketTypeOK
  <2>2. to # "CONFIRMED"
    BY <1>8, <2>1 DEF BeginContractStatus, ContractMoves, ContractStatus
  <2>3. r \in Request /\ Fits(r)
    BY <2>1, <2>2 DEF Request, Fits
  <2> QED BY <1>8, <2>3, BeginKeeps DEF BeginContractStatus
<1> QED
  BY <1>1, <1>2, <1>3, <1>4, <1>5, <1>6, <1>7, <1>8, <1>9
     DEF BeginPostDelete, BeginPostRestore, BeginBidDelete, BeginBidRestore,
         BeginContractDelete, BeginContractRestore

-----------------------------------------------------------------------------
(* The base invariant.                                                     *)

\* Each write keeps its table's type, and removes no row.
LEMMA CommitsKeep ==
    ASSUME BaseInv, NEW s \in Slot,
           \/ CommitPostStatus(s) \/ CommitPostDelete(s)
           \/ CommitBidCreate(s) \/ CommitBidEdit(s) \/ CommitBidClose(s)
           \/ CommitAccept(s) \/ CommitBidDelete(s)
           \/ CommitContractCreate(s) \/ CommitContractStatus(s) \/ CommitContractDelete(s)
           \/ Drop(s)
    PROVE  BaseInv' /\ Grows
<1> USE MarketAssumption DEF BaseInv
<1>0. request[s] \in Request /\ Fits(request[s])
  BY DEF MarketTypeOK, RequestsFit
<1>1. CASE CommitPostStatus(s)
  <2>1. request[s].on \in Post /\ request[s].to \in PostStatus
    BY <1>0, <1>1, RequestFields DEF CommitPostStatus, Commit
  <2>2. post' \in [Post -> PostStatus \cup {"NONE"}]
    BY <1>1, <2>1 DEF CommitPostStatus, MarketTypeOK
  <2>3. Grows
    BY <1>1 DEF CommitPostStatus, Grows
  <2>4. request' \in [Slot -> Request] /\ RequestsFit'
    BY <1>1, <2>3, OthersFit DEF CommitPostStatus, Commit
  <2> QED BY <1>1, <2>2, <2>3, <2>4 DEF CommitPostStatus, MarketTypeOK, ContractsArePriced
<1>2. CASE CommitPostDelete(s)
  <2>1. request[s].on \in Post
    BY <1>0, <1>2, RequestFields DEF CommitPostDelete, Commit
  <2>2. deleted' \in [post: SUBSET Post, bid: SUBSET Bid, contract: SUBSET Bid]
    BY <1>2, <2>1 DEF CommitPostDelete, MarketTypeOK
  <2>3. Grows
    BY <1>2 DEF CommitPostDelete, Grows
  <2>4. request' \in [Slot -> Request] /\ RequestsFit'
    BY <1>2, <2>3, OthersFit DEF CommitPostDelete, Commit
  <2> QED BY <1>2, <2>2, <2>3, <2>4 DEF CommitPostDelete, MarketTypeOK, ContractsArePriced
<1>3. CASE CommitBidCreate(s)
  <2>1. request[s].on \in Bid /\ request[s].price \in Price /\ CarrierOf[request[s].on] \in Carrier
    BY <1>0, <1>3, RequestFields DEF CommitBidCreate, Commit
  <2>2. /\ bid' \in [Bid -> BidStatus \cup {"NONE"}]
        /\ offer' \in [Bid -> Price \cup {NoPrice}]
    BY <1>3, <2>1 DEF CommitBidCreate, MarketTypeOK, BidStatus
  <2>3. used' \in [Carrier -> Nat]
    BY <1>3, <2>1 DEF CommitBidCreate, MarketTypeOK
  <2>4. Grows
    BY <1>3, <2>1 DEF CommitBidCreate, MarketTypeOK, Grows
  <2>5. ContractsArePriced'
    BY <1>3, <2>1 DEF CommitBidCreate, MarketTypeOK, ContractsArePriced
  <2>6. request' \in [Slot -> Request] /\ RequestsFit'
    BY <1>3, <2>4, OthersFit DEF CommitBidCreate, Commit
  <2> QED BY <1>3, <2>2, <2>3, <2>4, <2>5, <2>6 DEF CommitBidCreate, MarketTypeOK
<1>4. CASE CommitBidEdit(s)
  <2>1. request[s].on \in Bid /\ request[s].price \in Price \cup {NoPrice}
    BY <1>0, <1>4, RequestFields DEF CommitBidEdit, Commit
  <2>2. offer' \in [Bid -> Price \cup {NoPrice}] /\ ContractsArePriced'
    BY <1>4, <2>1 DEF CommitBidEdit, MarketTypeOK, ContractsArePriced
  <2>3. Grows
    BY <1>4 DEF CommitBidEdit, Grows
  <2>4. request' \in [Slot -> Request] /\ RequestsFit'
    BY <1>4, <2>3, OthersFit DEF CommitBidEdit, Commit
  <2> QED BY <1>4, <2>2, <2>3, <2>4 DEF CommitBidEdit, MarketTypeOK
<1>5. CASE CommitBidClose(s)
  <2>1. request[s].on \in Bid /\ request[s].to \in BidStatus /\ bid[request[s].on] # "NONE"
    BY <1>0, <1>5, RequestFields DEF CommitBidClose, Commit, BidStatus, Fits
  <2>2. bid' \in [Bid -> BidStatus \cup {"NONE"}]
    BY <1>5, <2>1 DEF CommitBidClose, MarketTypeOK
  <2>3. Grows /\ ContractsArePriced'
    BY <1>5, <2>1 DEF CommitBidClose, MarketTypeOK, Grows, ContractsArePriced, BidStatus
  <2>4. request' \in [Slot -> Request] /\ RequestsFit'
    BY <1>5, <2>3, OthersFit DEF CommitBidClose, Commit
  <2> QED BY <1>5, <2>2, <2>3, <2>4 DEF CommitBidClose, MarketTypeOK
<1>6. CASE CommitAccept(s)
  <2> DEFINE b == request[s].on
  <2>1. b \in Bid /\ request[s].price \in Price /\ bid[b] # "NONE"
    BY <1>0, <1>6, RequestFields DEF CommitAccept, Commit, Fits
  <2>2. /\ bid' \in [Bid -> BidStatus \cup {"NONE"}]
        /\ \A d \in Bid : bid[d] # "NONE" => bid'[d] # "NONE"
        /\ \A d \in Bid : bid'[d] # "NONE" => bid[d] # "NONE"
    BY <1>6, <2>1 DEF CommitAccept, MarketTypeOK, BidStatus
  <2>3. post' \in [Post -> PostStatus \cup {"NONE"}]
    BY <1>6 DEF CommitAccept, MarketTypeOK, PostStatus
  <2>4. /\ contract' \in [Bid -> ContractStatus \cup {"NONE"}]
        /\ agreed' \in [Bid -> Price \cup {NoPrice}]
        /\ \A d \in Bid : contract[d] # "NONE" => contract'[d] # "NONE"
    BY <1>6, <2>1 DEF CommitAccept, MarketTypeOK, ContractStatus
  <2>8. ContractsArePriced'
    BY <1>6, <2>1 DEF CommitAccept, MarketTypeOK, ContractsArePriced
  <2>5. UNCHANGED <<deleted, offer, used>>
    BY <1>6 DEF CommitAccept
  <2>6. Grows
    BY <2>2, <2>4 DEF Grows
  <2>7. request' \in [Slot -> Request] /\ RequestsFit'
    BY <1>6, <2>6, OthersFit DEF CommitAccept, Commit
  <2> QED BY <2>2, <2>3, <2>4, <2>5, <2>8, <2>6, <2>7 DEF MarketTypeOK
<1>7. CASE CommitBidDelete(s)
  <2>1. request[s].on \in Bid
    BY <1>0, <1>7, RequestFields DEF CommitBidDelete, Commit
  <2>2. deleted' \in [post: SUBSET Post, bid: SUBSET Bid, contract: SUBSET Bid]
    BY <1>7, <2>1 DEF CommitBidDelete, MarketTypeOK
  <2>3. Grows
    BY <1>7 DEF CommitBidDelete, Grows
  <2>4. request' \in [Slot -> Request] /\ RequestsFit'
    BY <1>7, <2>3, OthersFit DEF CommitBidDelete, Commit
  <2> QED BY <1>7, <2>2, <2>3, <2>4 DEF CommitBidDelete, MarketTypeOK, ContractsArePriced
<1>8. CASE CommitContractCreate(s)
  <2> DEFINE b == request[s].on
  <2>1. b \in Bid /\ request[s].price \in Price
    BY <1>0, <1>8, RequestFields DEF CommitContractCreate, Commit
  <2>2. /\ contract' \in [Bid -> ContractStatus \cup {"NONE"}]
        /\ agreed' \in [Bid -> Price \cup {NoPrice}]
        /\ Grows
    BY <1>8, <2>1 DEF CommitContractCreate, MarketTypeOK, ContractStatus, Grows
  <2>4. ContractsArePriced'
    BY <1>8, <2>1 DEF CommitContractCreate, MarketTypeOK, ContractsArePriced
  <2>3. request' \in [Slot -> Request] /\ RequestsFit'
    BY <1>8, <2>2, OthersFit DEF CommitContractCreate, Commit
  <2> QED BY <1>8, <2>2, <2>3, <2>4 DEF CommitContractCreate, MarketTypeOK
<1>9. CASE CommitContractStatus(s)
  <2>1. /\ request[s].on \in Bid /\ request[s].to \in ContractStatus
        /\ contract[request[s].on] # "NONE"
    BY <1>0, <1>9, RequestFields DEF CommitContractStatus, Commit, Fits
  <2>4. ContractsArePriced'
    BY <1>9, <2>1 DEF CommitContractStatus, MarketTypeOK, ContractsArePriced
  <2>2. contract' \in [Bid -> ContractStatus \cup {"NONE"}] /\ Grows
    BY <1>9, <2>1 DEF CommitContractStatus, MarketTypeOK, ContractStatus, Grows
  <2>3. request' \in [Slot -> Request] /\ RequestsFit'
    BY <1>9, <2>2, OthersFit DEF CommitContractStatus, Commit
  <2> QED BY <1>9, <2>2, <2>3, <2>4 DEF CommitContractStatus, MarketTypeOK
<1>10. CASE CommitContractDelete(s)
  <2>1. request[s].on \in Bid
    BY <1>0, <1>10, RequestFields DEF CommitContractDelete, Commit
  <2>2. deleted' \in [post: SUBSET Post, bid: SUBSET Bid, contract: SUBSET Bid]
    BY <1>10, <2>1 DEF CommitContractDelete, MarketTypeOK
  <2>3. Grows
    BY <1>10 DEF CommitContractDelete, Grows
  <2>4. request' \in [Slot -> Request] /\ RequestsFit'
    BY <1>10, <2>3, OthersFit DEF CommitContractDelete, Commit
  <2> QED BY <1>10, <2>2, <2>3, <2>4 DEF CommitContractDelete, MarketTypeOK, ContractsArePriced
<1>11. CASE Drop(s)
  <2>1. Grows
    BY <1>11 DEF Drop, rows, Grows
  <2>2. request' \in [Slot -> Request] /\ RequestsFit'
    BY <1>11, <2>1, OthersFit DEF Drop
  <2> QED BY <1>11, <2>1, <2>2 DEF Drop, rows, MarketTypeOK, ContractsArePriced
<1> QED BY <1>1, <1>2, <1>3, <1>4, <1>5, <1>6, <1>7, <1>8, <1>9, <1>10, <1>11

\* New posts and the cleanup job.
LEMMA OthersKeep ==
    ASSUME BaseInv,
           \/ \E p \in Post, status \in {"DRAFT", "OPEN"} : CreatePost(p, status)
           \/ \E due \in SUBSET Post : ExpirePosts(due)
           \/ CloseBids
    PROVE  BaseInv' /\ Grows
<1> USE DEF BaseInv
<1>1. ASSUME NEW p \in Post, NEW status \in {"DRAFT", "OPEN"}, CreatePost(p, status)
      PROVE  BaseInv' /\ Grows
  <2>1. post' \in [Post -> PostStatus \cup {"NONE"}]
    BY <1>1 DEF CreatePost, MarketTypeOK, PostStatus
  <2> QED BY <1>1, <2>1 DEF CreatePost, MarketTypeOK, RequestsFit, Fits, ContractsArePriced, Grows
<1>2. ASSUME NEW due \in SUBSET Post, ExpirePosts(due) PROVE BaseInv' /\ Grows
  <2>1. post' \in [Post -> PostStatus \cup {"NONE"}]
    BY <1>2 DEF ExpirePosts, MarketTypeOK, PostStatus
  <2> QED BY <1>2, <2>1 DEF ExpirePosts, MarketTypeOK, RequestsFit, Fits, ContractsArePriced, Grows
<1>3. ASSUME CloseBids PROVE BaseInv' /\ Grows
  <2>1. /\ bid' \in [Bid -> BidStatus \cup {"NONE"}]
        /\ \A d \in Bid : bid[d] # "NONE" <=> bid'[d] # "NONE"
    BY <1>3 DEF CloseBids, Stranded, LiveBid, MarketTypeOK, BidStatus
  <2>2. UNCHANGED <<post, contract, deleted, offer, agreed, used, request>>
    BY <1>3 DEF CloseBids
  <2>3. Grows /\ ContractsArePriced'
    BY <2>1, <2>2 DEF Grows, ContractsArePriced
  <2>4. RequestsFit'
    <3> SUFFICES ASSUME NEW t \in Slot PROVE Fits(request[t])'
      BY DEF RequestsFit
    <3>1. request[t] \in Request /\ Fits(request[t])
      BY DEF MarketTypeOK, RequestsFit
    <3>2. request[t].op \in {"bidClose", "accept", "contractCreate"} => request[t].on \in Bid
      BY <3>1, RequestFields
    <3> QED BY <2>1, <2>2, <3>1, <3>2 DEF Fits
  <2> QED BY <2>1, <2>2, <2>3, <2>4 DEF MarketTypeOK
<1> QED BY <1>1, <1>2, <1>3

LEMMA BaseInvStep ==
    ASSUME BaseInv, [MarketNext]_marketVars PROVE BaseInv'
<1>1. ASSUME NEW s \in Slot, PostRequest(s) \/ BidRequest(s) \/ ContractRequest(s) \/ Drop(s)
      PROVE  BaseInv'
  BY <1>1, BeginsKeep, CommitsKeep DEF PostRequest, BidRequest, ContractRequest
<1>2. CASE UNCHANGED marketVars
  BY <1>2 DEF marketVars, BaseInv, MarketTypeOK, RequestsFit, Fits, ContractsArePriced
<1> QED BY <1>1, <1>2, OthersKeep DEF MarketNext

LEMMA BaseInvHolds == MarketSpec => []BaseInv
<1>1. MarketInit => BaseInv
  <2> SUFFICES ASSUME MarketInit PROVE BaseInv
    OBVIOUS
  <2>1. Idle \in Request /\ Idle.op = "idle"
    BY DEF Request, Idle
  <2> QED BY <2>1 DEF MarketInit, BaseInv, MarketTypeOK, RequestsFit, Fits, ContractsArePriced
<1> QED BY <1>1, BaseInvStep, PTL DEF MarketSpec

\* Type correctness: in particular every request in flight carries what its
\* operation needs, and an accept or a contract in flight carries a price.
THEOREM MarketTypeCorrect == MarketSpec => []MarketTypeOK
BY BaseInvHolds, PTL DEF BaseInv

-----------------------------------------------------------------------------
(* One winner per post.                                                    *)

NoNewWin ==
    /\ \A d \in Bid : bid'[d] = "ACCEPTED" => bid[d] = "ACCEPTED"
    /\ \A d \in Bid : contract'[d] # "NONE" <=> contract[d] # "NONE"

\* The step gives b, and nothing but b, a contract or an acceptance.
Wins(b) ==
    /\ contract[b] # "NONE" \/ ContractRoom(b)
    /\ contract'[b] # "NONE"
    /\ \A d \in Bid \ {b} : contract'[d] = contract[d]
    /\ \A d \in Bid \ {b} : bid'[d] = "ACCEPTED" => bid[d] = "ACCEPTED"

LEMMA WinShape ==
    ASSUME BaseInv, [MarketNext]_marketVars
    PROVE  NoNewWin \/ \E b \in Bid : Wins(b)
<1> USE DEF BaseInv
<1>1. ASSUME UNCHANGED <<bid, contract>> PROVE NoNewWin
  BY <1>1 DEF NoNewWin
<1>2. ASSUME NEW s \in Slot, CommitBidCreate(s) \/ CommitBidClose(s) PROVE NoNewWin
  <2>1. request[s] \in Request
    BY DEF MarketTypeOK
  <2>2. request[s].op = "bidClose" => request[s].to \in {"REJECTED", "WITHDRAWN"}
    BY <2>1, RequestFields
  <2> QED BY <1>2, <2>2 DEF CommitBidCreate, CommitBidClose, Commit, MarketTypeOK, NoNewWin
<1>3. ASSUME NEW s \in Slot, CommitAccept(s) PROVE \E b \in Bid : Wins(b)
  <2> DEFINE b == request[s].on
  <2>1. b \in Bid
    BY <1>3, RequestFields DEF CommitAccept, Commit, MarketTypeOK
  <2>2. /\ contract[b] # "NONE" \/ ContractRoom(b)
        /\ \A d \in Bid \ {b} : bid'[d] = "ACCEPTED" => bid[d] = "ACCEPTED"
    BY <1>3, <2>1 DEF CommitAccept
  <2>3. contract'[b] # "NONE" /\ \A d \in Bid \ {b} : contract'[d] = contract[d]
    BY <1>3, <2>1 DEF CommitAccept, MarketTypeOK
  <2> QED BY <2>1, <2>2, <2>3 DEF Wins
<1>4. ASSUME NEW s \in Slot, CommitContractCreate(s) PROVE NoNewWin \/ \E b \in Bid : Wins(b)
  <2> DEFINE b == request[s].on
  <2>1. b \in Bid
    BY <1>4, RequestFields DEF CommitContractCreate, Commit, MarketTypeOK
  <2>2. CASE ContractRoom(b)
    <3>1. /\ contract'[b] # "NONE"
          /\ \A d \in Bid \ {b} : contract'[d] = contract[d]
          /\ bid' = bid
      BY <1>4, <2>1, <2>2 DEF CommitContractCreate, MarketTypeOK
    <3> QED BY <2>1, <2>2, <3>1 DEF Wins
  <2>3. CASE ~ContractRoom(b)
    BY <1>4, <2>3 DEF CommitContractCreate, NoNewWin
  <2> QED BY <2>2, <2>3
<1>5. ASSUME NEW s \in Slot, CommitContractStatus(s) PROVE NoNewWin
  <2>1. /\ request[s].op = "contractStatus" /\ request[s].on \in Bid
        /\ request[s].to \in ContractStatus /\ contract[request[s].on] # "NONE"
    BY <1>5, RequestFields DEF CommitContractStatus, Commit, MarketTypeOK, RequestsFit, Fits
  <2> QED BY <1>5, <2>1 DEF CommitContractStatus, MarketTypeOK, ContractStatus, NoNewWin
<1>6. ASSUME CloseBids PROVE NoNewWin
  BY <1>6 DEF CloseBids, NoNewWin
<1>7. ASSUME NEW s \in Slot, PostRequest(s) PROVE UNCHANGED <<bid, contract>>
  BY <1>7 DEF PostRequest, BeginPostStatus, BeginPostDelete, BeginPostRestore, Begin, rows,
              CommitPostStatus, CommitPostDelete
<1>8. ASSUME NEW s \in Slot, BidRequest(s)
      PROVE  \/ UNCHANGED <<bid, contract>> \/ CommitBidCreate(s) \/ CommitBidClose(s)
             \/ CommitAccept(s)
  BY <1>8 DEF BidRequest, BeginBidCreate, BeginBidEdit, BeginBidClose, BeginAccept,
              BeginBidDelete, BeginBidRestore, Begin, rows, CommitBidEdit, CommitBidDelete
<1>9. ASSUME NEW s \in Slot, ContractRequest(s)
      PROVE  \/ UNCHANGED <<bid, contract>> \/ CommitContractCreate(s) \/ CommitContractStatus(s)
  BY <1>9 DEF ContractRequest, BeginContractCreate, BeginContractStatus, BeginContractDelete,
              BeginContractRestore, Begin, rows, CommitContractDelete
<1> QED
  BY <1>1, <1>2, <1>3, <1>4, <1>5, <1>6, <1>7, <1>8, <1>9
     DEF MarketNext, Drop, rows, CreatePost, ExpirePosts, marketVars

OneContract ==
    \A b, d \in Bid :
        PostOf[b] = PostOf[d] /\ contract[b] # "NONE" /\ contract[d] # "NONE" => b = d

WinInv == BaseInv /\ AcceptedBidHasContract /\ OneContract

LEMMA WinInvHolds == MarketSpec => []WinInv
<1>1. MarketInit => AcceptedBidHasContract /\ OneContract
  BY DEF MarketInit, AcceptedBidHasContract, OneContract
<1>2. BaseInv /\ AcceptedBidHasContract /\ OneContract /\ [MarketNext]_marketVars
        => AcceptedBidHasContract' /\ OneContract'
  <2> SUFFICES ASSUME BaseInv, AcceptedBidHasContract, OneContract, [MarketNext]_marketVars
               PROVE  AcceptedBidHasContract' /\ OneContract'
    OBVIOUS
  <2>0. \A b \in Bid : contract'[b] # "NONE" => agreed'[b] # NoPrice
    BY BaseInvStep, MarketAssumption DEF BaseInv, ContractsArePriced
  <2>1. CASE NoNewWin
    BY <2>0, <2>1 DEF NoNewWin, AcceptedBidHasContract, OneContract
  <2>2. ASSUME NEW b \in Bid, Wins(b) PROVE AcceptedBidHasContract' /\ OneContract'
    <3>1. AcceptedBidHasContract'
      BY <2>2, <2>0 DEF Wins, AcceptedBidHasContract
    <3>2. ASSUME NEW d \in Bid \ {b}, PostOf[d] = PostOf[b] PROVE contract'[d] = "NONE"
      BY <2>2, <3>2 DEF Wins, ContractRoom, OneContract
    <3>3. \A d \in Bid \ {b} : contract'[d] = contract[d]
      BY <2>2 DEF Wins
    <3>4. OneContract'
      <4> SUFFICES ASSUME NEW c \in Bid, NEW d \in Bid, PostOf[c] = PostOf[d],
                          contract'[c] # "NONE", contract'[d] # "NONE"
                   PROVE  c = d
        BY DEF OneContract
      <4>1. CASE c = b \/ d = b
        BY <4>1, <3>2
      <4>2. CASE c # b /\ d # b
        BY <4>2, <3>3 DEF OneContract
      <4> QED BY <4>1, <4>2
    <3> QED BY <3>1, <3>4
  <2> QED BY <2>1, <2>2, WinShape
<1> QED BY <1>1, <1>2, BaseInvHolds, PTL DEF MarketSpec, WinInv

\* A bid is never left ACCEPTED without a contract, whatever requests were in
\* flight together.
THEOREM AcceptanceBinds == MarketSpec => []AcceptedBidHasContract
BY WinInvHolds, PTL DEF WinInv

\* Of all the accepts of a post, at most one wins.
THEOREM OnlyOneWins == MarketSpec => []OneWinner
<1>1. WinInv => OneWinner
  BY DEF WinInv, AcceptedBidHasContract, OneContract, OneWinner
<1> QED BY <1>1, WinInvHolds, PTL

-----------------------------------------------------------------------------
(* Contracts under way.                                                    *)

\* No step, a second accept or a fallback creation included, takes a contract
\* away, changes its price or starts it again.
THEOREM ContractsOnlyAdvance == MarketSpec => ContractNeverRestarts
<1>1. BaseInv /\ [MarketNext]_marketVars =>
        [\A b \in Bid : contract[b] # "NONE" =>
            /\ agreed'[b] = agreed[b]
            /\ contract'[b] # "NONE"
            /\ contract'[b] = "CONFIRMED" => contract[b] = "CONFIRMED"]_marketVars
  <2> SUFFICES ASSUME BaseInv, [MarketNext]_marketVars, NEW b \in Bid, contract[b] # "NONE"
               PROVE  /\ agreed'[b] = agreed[b]
                      /\ contract'[b] # "NONE"
                      /\ contract'[b] = "CONFIRMED" => contract[b] = "CONFIRMED"
    OBVIOUS
  <2> DEFINE Stays == agreed'[b] = agreed[b] /\ contract'[b] = contract[b]
  <2>1. ASSUME NEW s \in Slot, CommitAccept(s) PROVE Stays
    <3>1. request[s].on \in Bid
      BY <2>1, RequestFields DEF CommitAccept, Commit, BaseInv, MarketTypeOK
    <3> QED BY <2>1, <3>1 DEF CommitAccept, BaseInv, MarketTypeOK
  <2>2. ASSUME NEW s \in Slot, CommitContractCreate(s) PROVE Stays
    <3>1. request[s].on \in Bid
      BY <2>2, RequestFields DEF CommitContractCreate, Commit, BaseInv, MarketTypeOK
    <3> QED BY <2>2, <3>1 DEF CommitContractCreate, ContractRoom, BaseInv, MarketTypeOK
  <2>3. ASSUME NEW s \in Slot, CommitContractStatus(s)
        PROVE  /\ agreed'[b] = agreed[b]
               /\ contract'[b] = contract[b] \/ contract'[b] \in ContractStatus \ {"CONFIRMED"}
    <3>1. request[s].to \in ContractStatus \ {"CONFIRMED"} /\ request[s].on \in Bid
      BY <2>3, RequestFields
         DEF CommitContractStatus, Commit, BaseInv, MarketTypeOK, RequestsFit, Fits
    <3> QED BY <2>3, <3>1 DEF CommitContractStatus, BaseInv, MarketTypeOK
  <2>4. ASSUME NEW s \in Slot, PostRequest(s) PROVE Stays
    BY <2>4 DEF PostRequest, BeginPostStatus, BeginPostDelete, BeginPostRestore, Begin, rows,
                CommitPostStatus, CommitPostDelete
  <2>5. ASSUME NEW s \in Slot, BidRequest(s) PROVE Stays
    BY <2>1, <2>5
       DEF BidRequest, BeginBidCreate, BeginBidEdit, BeginBidClose, BeginAccept, BeginBidDelete,
           BeginBidRestore, Begin, rows, CommitBidCreate, CommitBidEdit, CommitBidClose,
           CommitBidDelete
  <2>6. ASSUME NEW s \in Slot, ContractRequest(s)
        PROVE  Stays \/ CommitContractStatus(s)
    BY <2>2, <2>6
       DEF ContractRequest, BeginContractCreate, BeginContractStatus, BeginContractDelete,
           BeginContractRestore, Begin, rows, CommitContractDelete
  <2>7. ASSUME \/ UNCHANGED marketVars \/ CloseBids \/ \E s \in Slot : Drop(s)
               \/ \E due \in SUBSET Post : ExpirePosts(due)
               \/ \E p \in Post, status \in {"DRAFT", "OPEN"} : CreatePost(p, status)
        PROVE  Stays
    BY <2>7 DEF marketVars, CloseBids, Drop, rows, ExpirePosts, CreatePost
  <2>8. Stays \/ \E s \in Slot : CommitContractStatus(s)
    BY <2>4, <2>5, <2>6, <2>7 DEF MarketNext
  <2>9. "NONE" \notin ContractStatus
    BY DEF ContractStatus
  <2> QED BY <2>3, <2>8, <2>9
<1> QED BY <1>1, BaseInvHolds, PTL DEF MarketSpec, ContractNeverRestarts

-----------------------------------------------------------------------------
(* The monthly bids.                                                       *)

BidsOf(c) == {b \in Bid : CarrierOf[b] = c /\ bid[b] # "NONE"}

\* The counter has counted every bid row.
UsageInv ==
    \A c \in Carrier : used[c] <= BidLimit /\ Cardinality(BidsOf(c)) = used[c]

LEMMA UsageShape ==
    ASSUME BaseInv, [MarketNext]_marketVars
    PROVE  \/ \E s \in Slot : CommitBidCreate(s)
           \/ UNCHANGED used /\ \A b \in Bid : bid'[b] # "NONE" <=> bid[b] # "NONE"
<1> USE DEF BaseInv
<1> DEFINE Same == UNCHANGED used /\ \A b \in Bid : bid'[b] # "NONE" <=> bid[b] # "NONE"
<1>1. ASSUME NEW s \in Slot, CommitBidClose(s) PROVE Same
  <2>1. /\ request[s].op = "bidClose" /\ request[s].on \in Bid
        /\ request[s].to \in {"REJECTED", "WITHDRAWN"} /\ bid[request[s].on] # "NONE"
    BY <1>1, RequestFields DEF CommitBidClose, Commit, MarketTypeOK, RequestsFit, Fits
  <2> QED BY <1>1, <2>1 DEF CommitBidClose, MarketTypeOK
<1>2. ASSUME NEW s \in Slot, CommitAccept(s) PROVE Same
  <2>1. request[s].on \in Bid /\ bid[request[s].on] # "NONE"
    BY <1>2, RequestFields DEF CommitAccept, Commit, MarketTypeOK, RequestsFit, Fits
  <2>2. \A d \in Bid : bid'[d] # "NONE" <=> bid[d] # "NONE"
    BY <1>2, <2>1 DEF CommitAccept
  <2> QED BY <1>2, <2>2 DEF CommitAccept
<1>3. ASSUME CloseBids PROVE Same
  BY <1>3 DEF CloseBids, Stranded, LiveBid
<1>4. ASSUME NEW s \in Slot, PostRequest(s) PROVE Same
  BY <1>4 DEF PostRequest, BeginPostStatus, BeginPostDelete, BeginPostRestore, Begin, rows,
              CommitPostStatus, CommitPostDelete
<1>5. ASSUME NEW s \in Slot, BidRequest(s) PROVE Same \/ CommitBidCreate(s)
  BY <1>1, <1>2, <1>5
     DEF BidRequest, BeginBidCreate, BeginBidEdit, BeginBidClose, BeginAccept, BeginBidDelete,
         BeginBidRestore, Begin, rows, CommitBidEdit, CommitBidDelete
<1>6. ASSUME NEW s \in Slot, ContractRequest(s) PROVE Same
  BY <1>6
     DEF ContractRequest, BeginContractCreate, BeginContractStatus, BeginContractDelete,
         BeginContractRestore, Begin, rows, CommitContractCreate, CommitContractStatus,
         CommitContractDelete
<1> QED
  BY <1>3, <1>4, <1>5, <1>6 DEF MarketNext, Drop, rows, CreatePost, ExpirePosts, marketVars

\* Concurrent bids never take a carrier past its plan: the counter is compared
\* and incremented in one UPDATE, in the transaction that inserts the bid.
THEOREM BidLimitHolds ==
    ASSUME IsFiniteSet(Bid)
    PROVE  MarketSpec => []BidLimitKept
<1> USE MarketAssumption
<1>0. ASSUME NEW c \in Carrier PROVE IsFiniteSet(BidsOf(c))
  <2>1. BidsOf(c) \subseteq Bid
    BY DEF BidsOf
  <2> QED BY <2>1, FS_Subset
<1>1. MarketInit => UsageInv
  <2> SUFFICES ASSUME MarketInit, NEW c \in Carrier
               PROVE  used[c] <= BidLimit /\ Cardinality(BidsOf(c)) = used[c]
    BY DEF UsageInv
  <2>1. used[c] = 0 /\ BidsOf(c) = {}
    BY DEF MarketInit, BidsOf
  <2>2. Cardinality(BidsOf(c)) = 0
    BY <2>1, FS_EmptySet
  <2> QED BY <2>1, <2>2
<1>2. BaseInv /\ UsageInv /\ [MarketNext]_marketVars => UsageInv'
  <2> SUFFICES ASSUME BaseInv, UsageInv, [MarketNext]_marketVars, NEW c \in Carrier
               PROVE  used'[c] <= BidLimit /\ Cardinality(BidsOf(c)') = used'[c]
    BY DEF UsageInv
  <2>0. used[c] <= BidLimit /\ Cardinality(BidsOf(c)) = used[c] /\ used[c] \in Nat
    BY DEF UsageInv, BaseInv, MarketTypeOK
  <2>1. CASE UNCHANGED used /\ \A b \in Bid : bid'[b] # "NONE" <=> bid[b] # "NONE"
    <3>1. BidsOf(c)' = BidsOf(c)
      BY <2>1 DEF BidsOf
    <3> QED BY <2>0, <2>1, <3>1
  <2>2. ASSUME NEW s \in Slot, CommitBidCreate(s)
        PROVE  used'[c] <= BidLimit /\ Cardinality(BidsOf(c)') = used'[c]
    <3> DEFINE b == request[s].on
    <3>1. b \in Bid /\ CarrierOf[b] \in Carrier /\ bid[b] = "NONE"
      BY <2>2, RequestFields DEF CommitBidCreate, Commit, BaseInv, MarketTypeOK
    <3>2. CASE CarrierOf[b] = c
      <4>1. BidsOf(c)' = BidsOf(c) \cup {b} /\ b \notin BidsOf(c)
        BY <2>2, <3>1, <3>2 DEF CommitBidCreate, BidsOf, BaseInv, MarketTypeOK
      <4>2. Cardinality(BidsOf(c)') = Cardinality(BidsOf(c)) + 1
        BY <1>0, <4>1, FS_AddElement
      <4>3. used'[c] = used[c] + 1 /\ used[c] < BidLimit
        BY <2>2, <3>1, <3>2 DEF CommitBidCreate, BaseInv, MarketTypeOK
      <4> QED BY <2>0, <4>2, <4>3
    <3>3. CASE CarrierOf[b] # c
      <4>1. BidsOf(c)' = BidsOf(c)
        BY <2>2, <3>1, <3>3 DEF CommitBidCreate, BidsOf, BaseInv, MarketTypeOK
      <4>2. used'[c] = used[c]
        BY <2>2, <3>1, <3>3 DEF CommitBidCreate, BaseInv, MarketTypeOK
      <4> QED BY <2>0, <4>1, <4>2
    <3> QED BY <3>2, <3>3
  <2> QED BY <2>1, <2>2, UsageShape
<1>3. UsageInv => BidLimitKept
  BY DEF UsageInv, BidLimitKept, BidsOf
<1> QED BY <1>1, <1>2, <1>3, BaseInvHolds, PTL DEF MarketSpec

-----------------------------------------------------------------------------
(* Requests that do not overlap.                                           *)

OneAtATime == \A s, t \in Slot : s = t

Ended == {"COMPLETED", "CANCELLED", "DISPUTED"}

\* With nobody else writing, what a request decided on is still so; only the
\* cleanup job interferes, and it touches neither assigned posts nor accepted
\* bids.
StillDecided(r) ==
    /\ r.op = "postStatus" => post[r.on] # "ASSIGNED"
    /\ r.op \in {"bidEdit", "bidClose", "accept"} => bid[r.on] # "ACCEPTED"
    /\ r.op = "accept" => r.price = offer[r.on]
    /\ r.op = "contractCreate" => contract[r.on] # "NONE"
    /\ r.op = "contractStatus" =>
         contract[r.on] \notin Ended /\ r.to \in ContractMoves[contract[r.on]]

SerialInv ==
    /\ WinInv
    /\ WorkflowIntegrity
    /\ \A s \in Slot : StillDecided(request[s])

\* Settled rows stay so in this step.
Settled ==
    /\ \A p \in Post : post[p] = "ASSIGNED" => post'[p] = "ASSIGNED"
    /\ \A b \in Bid : bid[b] = "ACCEPTED" => bid'[b] = "ACCEPTED"
    /\ \A b \in Bid : contract[b] \in Ended => contract'[b] = contract[b]

LEMMA SerialBegins ==
    ASSUME OneAtATime, SerialInv, NEW s \in Slot,
           UNCHANGED rows, [MarketNext]_marketVars,
           \A t \in Slot : StillDecided(request'[t])
    PROVE  WorkflowIntegrity' /\ Settled /\ \A t \in Slot : StillDecided(request[t])'
BY DEF rows, WorkflowIntegrity, Settled, StillDecided, SerialInv

\* A decision, at the moment it is made.
LEMMA BeginDecides ==
    ASSUME OneAtATime, SerialInv, NEW s \in Slot, NEW r, Begin(s, r), StillDecided(r)
    PROVE  UNCHANGED rows /\ \A t \in Slot : StillDecided(request'[t])
<1>1. request' = [request EXCEPT ![s] = r] /\ request \in [Slot -> Request]
  BY DEF Begin, SerialInv, WinInv, BaseInv, MarketTypeOK
<1>2. \A t \in Slot : request'[t] = r
  BY <1>1 DEF OneAtATime
<1> QED BY <1>2 DEF Begin

LEMMA DecisionsHold ==
    ASSUME OneAtATime, SerialInv, NEW s \in Slot,
           \/ \E p \in Post : \/ \E to \in PostStatus : BeginPostStatus(s, p, to)
                              \/ BeginPostDelete(s, p)
                              \/ BeginPostRestore(s, p)
           \/ \E b \in Bid :
                \/ \E price \in Price : BeginBidCreate(s, b, price)
                \/ \E price \in Price \cup {NoPrice} : BeginBidEdit(s, b, price)
                \/ \E to \in {"REJECTED", "WITHDRAWN"} : BeginBidClose(s, b, to)
                \/ BeginAccept(s, b) \/ BeginBidDelete(s, b) \/ BeginBidRestore(s, b)
                \/ BeginContractCreate(s, b)
                \/ \E to \in ContractStatus : BeginContractStatus(s, b, to)
                \/ BeginContractDelete(s, b) \/ BeginContractRestore(s, b)
    PROVE  UNCHANGED rows /\ \A t \in Slot : StillDecided(request'[t])
<1>1. ASSUME NEW p \in Post, NEW to \in PostStatus, BeginPostStatus(s, p, to)
      PROVE  StillDecided([op |-> "postStatus", on |-> p, to |-> to])
  BY <1>1 DEF BeginPostStatus, PostMoves, StillDecided
<1>2. ASSUME NEW p, NEW op \in {"postDelete", "postRestore", "bidDelete", "bidRestore",
                                "contractDelete", "contractRestore"}
      PROVE  StillDecided([op |-> op, on |-> p])
  BY DEF StillDecided
<1>3. ASSUME NEW b \in Bid, NEW price \in Price
      PROVE  StillDecided([op |-> "bidCreate", on |-> b, price |-> price])
  BY DEF StillDecided
<1>4. ASSUME NEW b \in Bid, NEW price \in Price \cup {NoPrice}, BeginBidEdit(s, b, price)
      PROVE  StillDecided([op |-> "bidEdit", on |-> b, price |-> price])
  BY <1>4 DEF BeginBidEdit, StillDecided
<1>5. ASSUME NEW b \in Bid, NEW to, BeginBidClose(s, b, to)
      PROVE  StillDecided([op |-> "bidClose", on |-> b, to |-> to])
  BY <1>5 DEF BeginBidClose, StillDecided
<1>6. ASSUME NEW b \in Bid, BeginAccept(s, b)
      PROVE  StillDecided([op |-> "accept", on |-> b, price |-> offer[b]])
  BY <1>6 DEF BeginAccept, StillDecided
<1>7. ASSUME NEW b \in Bid, BeginContractCreate(s, b)
      PROVE  StillDecided([op |-> "contractCreate", on |-> b, price |-> offer[b]])
  BY <1>7 DEF BeginContractCreate, StillDecided, SerialInv, WinInv, AcceptedBidHasContract
<1>8. ASSUME NEW b \in Bid, NEW to \in ContractStatus, BeginContractStatus(s, b, to)
      PROVE  StillDecided([op |-> "contractStatus", on |-> b, to |-> to])
  BY <1>8 DEF BeginContractStatus, ContractMoves, Ended, StillDecided
<1>9. \A r : Begin(s, r) /\ StillDecided(r) =>
        UNCHANGED rows /\ \A t \in Slot : StillDecided(request'[t])
  BY BeginDecides
<1> QED
  BY <1>1, <1>2, <1>3, <1>4, <1>5, <1>6, <1>7, <1>8, <1>9
     DEF BeginPostStatus, BeginPostDelete, BeginPostRestore, BeginBidCreate, BeginBidEdit,
         BeginBidClose, BeginAccept, BeginBidDelete, BeginBidRestore, BeginContractCreate,
         BeginContractStatus, BeginContractDelete, BeginContractRestore

\* A write leaves no request behind.
LEMMA NoneInFlight ==
    ASSUME OneAtATime, SerialInv, NEW s \in Slot, request' = [request EXCEPT ![s] = Idle]
    PROVE  \A t \in Slot : StillDecided(request[t])'
<1>1. \A t \in Slot : request'[t] = Idle
  BY DEF OneAtATime, SerialInv, WinInv, BaseInv, MarketTypeOK
<1>2. Idle.op = "idle"
  BY DEF Idle
<1> QED BY <1>1, <1>2 DEF StillDecided

\* Every write that was decided on what still holds keeps the workflow whole.
LEMMA WritesKeepWorkflow ==
    ASSUME OneAtATime, SerialInv, NEW s \in Slot,
           \/ CommitPostStatus(s) \/ CommitPostDelete(s)
           \/ CommitBidCreate(s) \/ CommitBidEdit(s) \/ CommitBidClose(s)
           \/ CommitAccept(s) \/ CommitBidDelete(s)
           \/ CommitContractCreate(s) \/ CommitContractStatus(s) \/ CommitContractDelete(s)
           \/ Drop(s)
    PROVE  WorkflowIntegrity' /\ Settled /\ \A t \in Slot : StillDecided(request[t])'
<1> USE DEF BaseInv, WinInv
<1>0. /\ BaseInv /\ MarketTypeOK /\ WorkflowIntegrity
      /\ request[s] \in Request /\ StillDecided(request[s]) /\ Fits(request[s])
  BY DEF SerialInv, MarketTypeOK, RequestsFit
<1>1. \A t \in Slot : StillDecided(request[t])'
  BY NoneInFlight
     DEF CommitPostStatus, CommitPostDelete, CommitBidCreate, CommitBidEdit, CommitBidClose,
         CommitAccept, CommitBidDelete, CommitContractCreate, CommitContractStatus,
         CommitContractDelete, Drop, Commit
<1>2. CASE CommitPostStatus(s)
  <2>1. request[s].on \in Post /\ post[request[s].on] # "ASSIGNED"
    BY <1>0, <1>2, RequestFields DEF CommitPostStatus, Commit, StillDecided
  <2>2. \A p \in Post : post[p] = "ASSIGNED" => post'[p] = "ASSIGNED"
    BY <1>0, <1>2, <2>1 DEF CommitPostStatus, MarketTypeOK
  <2>3. UNCHANGED <<bid, contract, offer, agreed>>
    BY <1>2 DEF CommitPostStatus
  <2> QED BY <1>0, <1>1, <2>2, <2>3, MarketAssumption DEF WorkflowIntegrity, Settled
<1>3. CASE CommitPostDelete(s) \/ CommitBidDelete(s) \/ CommitContractDelete(s) \/ Drop(s)
  BY <1>0, <1>1, <1>3
     DEF CommitPostDelete, CommitBidDelete, CommitContractDelete, Drop, rows,
         WorkflowIntegrity, Settled
<1>4. CASE CommitBidCreate(s)
  <2>1. request[s].on \in Bid /\ bid[request[s].on] = "NONE"
    BY <1>0, <1>4, RequestFields DEF CommitBidCreate, Commit
  <2>2. contract[request[s].on] = "NONE"
    BY <1>0, <2>1 DEF WorkflowIntegrity
  <2>3. /\ \A d \in Bid \ {request[s].on} : bid'[d] = bid[d] /\ offer'[d] = offer[d]
        /\ UNCHANGED <<post, contract, agreed>>
    BY <1>0, <1>4, <2>1 DEF CommitBidCreate, MarketTypeOK
  <2> QED BY <1>0, <1>1, <2>1, <2>2, <2>3 DEF WorkflowIntegrity, Settled
<1>5. CASE CommitBidEdit(s)
  <2>1. request[s].on \in Bid /\ bid[request[s].on] # "ACCEPTED"
    BY <1>0, <1>5, RequestFields DEF CommitBidEdit, Commit, StillDecided
  <2>2. contract[request[s].on] = "NONE"
    BY <1>0, <2>1 DEF WorkflowIntegrity
  <2>3. /\ \A d \in Bid \ {request[s].on} : offer'[d] = offer[d]
        /\ UNCHANGED <<post, bid, contract, agreed>>
    BY <1>0, <1>5, <2>1 DEF CommitBidEdit, MarketTypeOK
  <2> QED BY <1>0, <1>1, <2>2, <2>3 DEF WorkflowIntegrity, Settled
<1>6. CASE CommitBidClose(s)
  <2>1. request[s].on \in Bid /\ bid[request[s].on] # "ACCEPTED"
    BY <1>0, <1>6, RequestFields DEF CommitBidClose, Commit, StillDecided
  <2>2. contract[request[s].on] = "NONE"
    BY <1>0, <2>1 DEF WorkflowIntegrity
  <2>3. /\ \A d \in Bid \ {request[s].on} : bid'[d] = bid[d]
        /\ UNCHANGED <<post, contract, offer, agreed>>
    BY <1>0, <1>6, <2>1 DEF CommitBidClose, MarketTypeOK
  <2> QED BY <1>0, <1>1, <2>1, <2>2, <2>3 DEF WorkflowIntegrity, Settled
<1>7. CASE CommitAccept(s)
  <2> DEFINE b == request[s].on
  <2>1. b \in Bid /\ bid[b] # "ACCEPTED" /\ request[s].price = offer[b]
    BY <1>0, <1>7, RequestFields DEF CommitAccept, Commit, StillDecided
  <2>2. contract[b] = "NONE" /\ ContractRoom(b)
    BY <1>0, <1>7, <2>1 DEF WorkflowIntegrity, CommitAccept
  <2>3. /\ bid'[b] = "ACCEPTED" /\ contract'[b] = "CONFIRMED" /\ agreed'[b] = offer[b]
        /\ \A d \in Bid \ {b} : contract'[d] = contract[d] /\ agreed'[d] = agreed[d]
        /\ UNCHANGED offer
    BY <1>0, <1>7, <2>1, <2>2 DEF CommitAccept, MarketTypeOK
  <2>4. \A d \in Bid : bid[d] = "ACCEPTED" => bid'[d] = "ACCEPTED"
    BY <1>7 DEF CommitAccept
  <2>5. PostOf[b] \in Post
    BY <2>1, MarketAssumption
  <2>6. /\ post'[PostOf[b]] = "ASSIGNED"
        /\ \A p \in Post : post[p] = "ASSIGNED" => post'[p] = "ASSIGNED"
    BY <1>0, <1>7, <2>5 DEF CommitAccept, MarketTypeOK
  <2>7. WorkflowIntegrity'
    <3> SUFFICES ASSUME NEW d \in Bid, contract'[d] # "NONE"
                 PROVE  /\ bid'[d] = "ACCEPTED" /\ post'[PostOf[d]] = "ASSIGNED"
                        /\ agreed'[d] = offer'[d]
      BY DEF WorkflowIntegrity
    <3>1. CASE d = b
      BY <2>3, <2>6, <3>1
    <3>2. CASE d # b
      <4>1. contract[d] # "NONE" /\ agreed'[d] = agreed[d]
        BY <2>3, <3>2
      <4>2. bid[d] = "ACCEPTED" /\ post[PostOf[d]] = "ASSIGNED" /\ agreed[d] = offer[d]
        BY <1>0, <4>1 DEF WorkflowIntegrity
      <4> QED BY <2>3, <2>4, <2>6, <4>1, <4>2, MarketAssumption
    <3> QED BY <3>1, <3>2
  <2>8. \A d \in Bid : contract[d] \in Ended => contract'[d] = contract[d]
    BY <2>2, <2>3 DEF Ended
  <2> QED BY <1>1, <2>4, <2>6, <2>7, <2>8 DEF Settled
<1>8. CASE CommitContractCreate(s)
  <2>1. request[s].on \in Bid /\ contract[request[s].on] # "NONE"
    BY <1>0, <1>8, RequestFields DEF CommitContractCreate, Commit, StillDecided
  <2>2. UNCHANGED <<post, bid, contract, offer, agreed>>
    BY <1>8, <2>1 DEF CommitContractCreate, ContractRoom
  <2> QED BY <1>0, <1>1, <2>2 DEF WorkflowIntegrity, Settled
<1>9. CASE CommitContractStatus(s)
  <2>1. /\ request[s].on \in Bid /\ contract[request[s].on] # "NONE"
        /\ contract[request[s].on] \notin Ended
    BY <1>0, <1>9, RequestFields DEF CommitContractStatus, Commit, StillDecided, Fits
  <2>2. /\ \A d \in Bid \ {request[s].on} : contract'[d] = contract[d]
        /\ UNCHANGED <<post, bid, offer, agreed>>
    BY <1>0, <1>9, <2>1 DEF CommitContractStatus, MarketTypeOK
  <2> QED BY <1>0, <1>1, <2>1, <2>2 DEF WorkflowIntegrity, Settled
<1> QED BY <1>2, <1>3, <1>4, <1>5, <1>6, <1>7, <1>8, <1>9

\* The cleanup job may run in the middle of a request.
LEMMA CleanupKeepsWorkflow ==
    ASSUME SerialInv,
           \/ \E p \in Post, status \in {"DRAFT", "OPEN"} : CreatePost(p, status)
           \/ \E due \in SUBSET Post : ExpirePosts(due)
           \/ CloseBids
    PROVE  WorkflowIntegrity' /\ Settled /\ \A t \in Slot : StillDecided(request[t])'
<1>0. MarketTypeOK /\ WorkflowIntegrity /\ \A t \in Slot : request[t] \in Request /\ StillDecided(request[t])
  BY DEF SerialInv, WinInv, BaseInv, MarketTypeOK
<1>1. CASE (\E p \in Post, status \in {"DRAFT", "OPEN"} : CreatePost(p, status))
           \/ \E due \in SUBSET Post : ExpirePosts(due)
  <2>1. /\ \A p \in Post : post'[p] = "ASSIGNED" <=> post[p] = "ASSIGNED"
        /\ UNCHANGED <<bid, contract, offer, agreed, request>>
    BY <1>0, <1>1 DEF CreatePost, ExpirePosts, MarketTypeOK
  <2>2. \A t \in Slot : request[t].op = "postStatus" => request[t].on \in Post
    BY <1>0, RequestFields
  <2>3. \A t \in Slot : StillDecided(request[t])'
    BY <1>0, <2>1, <2>2 DEF StillDecided
  <2> QED BY <1>0, <2>1, <2>3, MarketAssumption DEF WorkflowIntegrity, Settled
<1>2. CASE CloseBids
  <2>1. /\ \A b \in Bid : bid'[b] = "ACCEPTED" <=> bid[b] = "ACCEPTED"
        /\ UNCHANGED <<post, contract, offer, agreed, request>>
    BY <1>0, <1>2 DEF CloseBids, Stranded, MarketTypeOK
  <2>2. \A t \in Slot : request[t].op \in {"bidEdit", "bidClose", "accept"} => request[t].on \in Bid
    <3> SUFFICES ASSUME NEW t \in Slot, request[t].op \in {"bidEdit", "bidClose", "accept"}
                 PROVE  request[t].on \in Bid
      OBVIOUS
    <3> QED BY <1>0, RequestFields
  <2>3. \A t \in Slot : StillDecided(request[t])'
    BY <1>0, <2>1, <2>2 DEF StillDecided
  <2> QED BY <1>0, <2>1, <2>3 DEF WorkflowIntegrity, Settled
<1> QED BY <1>1, <1>2

LEMMA SerialStep ==
    ASSUME OneAtATime, SerialInv, [MarketNext]_marketVars
    PROVE  WorkflowIntegrity' /\ Settled /\ \A t \in Slot : StillDecided(request[t])'
<1>1. ASSUME NEW s \in Slot, PostRequest(s) \/ BidRequest(s) \/ ContractRequest(s) \/ Drop(s)
      PROVE  WorkflowIntegrity' /\ Settled /\ \A t \in Slot : StillDecided(request[t])'
  <2>1. \/ UNCHANGED rows /\ \A t \in Slot : StillDecided(request'[t])
        \/ WorkflowIntegrity' /\ Settled /\ \A t \in Slot : StillDecided(request[t])'
    BY <1>1, DecisionsHold, WritesKeepWorkflow DEF PostRequest, BidRequest, ContractRequest
  <2> QED BY <2>1, SerialBegins
<1>2. CASE UNCHANGED marketVars
  BY <1>2 DEF marketVars, SerialInv, WorkflowIntegrity, Settled, StillDecided
<1> QED BY <1>1, <1>2, CleanupKeepsWorkflow DEF MarketNext

LEMMA SerialInvHolds ==
    ASSUME OneAtATime PROVE MarketSpec => []SerialInv
<1>1. MarketInit => WorkflowIntegrity /\ \A s \in Slot : StillDecided(request[s])
  <2> SUFFICES ASSUME MarketInit
               PROVE  WorkflowIntegrity /\ \A s \in Slot : StillDecided(request[s])
    OBVIOUS
  <2>1. Idle.op = "idle"
    BY DEF Idle
  <2> QED BY <2>1 DEF MarketInit, WorkflowIntegrity, StillDecided
<1>2. SerialInv /\ [MarketNext]_marketVars =>
        WorkflowIntegrity' /\ (\A s \in Slot : StillDecided(request[s]))'
  BY SerialStep
<1>3. SerialInv <=> WinInv /\ WorkflowIntegrity /\ \A s \in Slot : StillDecided(request[s])
  BY DEF SerialInv
<1> QED BY <1>1, <1>2, <1>3, WinInvHolds, PTL DEF MarketSpec

\* As long as requests do not overlap, contracts, accepted bids, assigned posts
\* and prices agree, whenever the cleanup job runs: the workflow breaks only by
\* writing what was decided on rows that have changed since.
THEOREM SerialWorkflow ==
    ASSUME OneAtATime PROVE MarketSpec => []WorkflowIntegrity
<1>1. SerialInv => WorkflowIntegrity
  BY DEF SerialInv
<1> QED BY <1>1, SerialInvHolds, PTL

\* Nor is anything settled ever unsettled.
THEOREM SerialSettled ==
    ASSUME OneAtATime PROVE MarketSpec => SettledStays
<1>1. SerialInv /\ [MarketNext]_marketVars =>
        [/\ \A p \in Post : post[p] = "ASSIGNED" => post'[p] = "ASSIGNED"
         /\ \A b \in Bid : bid[b] = "ACCEPTED" => bid'[b] = "ACCEPTED"
         /\ \A b \in Bid : contract[b] \in {"COMPLETED", "CANCELLED", "DISPUTED"} =>
                contract'[b] = contract[b]]_marketVars
  BY SerialStep DEF Settled, Ended
<1> QED BY <1>1, SerialInvHolds, PTL DEF MarketSpec, SettledStays

-----------------------------------------------------------------------------
(* Deals.                                                                  *)

\* The step changes nothing that RouteDeals speaks of.
NoDealing == UNCHANGED <<offer, DealOf, Accepted, Assigned>>

LEMMA DealsStutter ==
    ASSUME SerialInv, UNCHANGED <<bid, contract, offer, agreed>>,
           \A p \in Post : post'[p] = "ASSIGNED" <=> post[p] = "ASSIGNED"
    PROVE  NoDealing
BY DEF NoDealing, DealOf, Accepted, Assigned

\* A write that is decided on what still holds is a step of RouteDeals.
LEMMA DealsOfPosts ==
    ASSUME OneAtATime, SerialInv, NEW s \in Slot, CommitPostStatus(s)
    PROVE  Deals!DealNext \/ NoDealing
<1> DEFINE p == request[s].on
<1>1. /\ MarketTypeOK /\ request[s] \in Request /\ request[s].op = "postStatus"
  BY DEF SerialInv, WinInv, BaseInv, MarketTypeOK, CommitPostStatus, Commit
<1>2. p \in Post
  BY <1>1, RequestFields
<1>3. post' = [post EXCEPT ![p] = request[s].to] /\ UNCHANGED <<bid, contract, offer, agreed>>
  BY DEF CommitPostStatus
<1>4. UNCHANGED <<offer, DealOf, Accepted>>
  BY <1>3 DEF DealOf, Accepted
<1>5. post[p] # "ASSIGNED"
  BY <1>1 DEF SerialInv, StillDecided
<1>6. CASE request[s].to = "ASSIGNED"
  <2>1. Assigned' = Assigned \cup {p}
    BY <1>1, <1>2, <1>3, <1>6 DEF Assigned, MarketTypeOK
  <2> QED BY <1>2, <1>4, <2>1 DEF Deals!DealNext, Deals!AssignByHand
<1>7. CASE request[s].to # "ASSIGNED"
  <2>1. Assigned' = Assigned
    BY <1>1, <1>2, <1>3, <1>5, <1>7 DEF Assigned, MarketTypeOK
  <2> QED BY <1>4, <2>1 DEF NoDealing
<1> QED BY <1>6, <1>7

LEMMA DealsOfOffers ==
    ASSUME OneAtATime, SerialInv, NEW s \in Slot, CommitBidCreate(s) \/ CommitBidEdit(s)
    PROVE  Deals!DealNext
<1> DEFINE b == request[s].on
           price == request[s].price
<1>1. MarketTypeOK /\ request[s] \in Request /\ request[s].op \in {"bidCreate", "bidEdit"}
  BY DEF SerialInv, WinInv, BaseInv, MarketTypeOK, CommitBidCreate, CommitBidEdit, Commit
<1>2. b \in Bid /\ price \in Price \cup {NoPrice}
  BY <1>1, RequestFields
<1>3. /\ offer' = [offer EXCEPT ![b] = price]
      /\ UNCHANGED <<post, contract, agreed>>
      /\ bid[b] # "ACCEPTED"
      /\ \A d \in Bid : bid'[d] = "ACCEPTED" <=> bid[d] = "ACCEPTED"
  <2>1. CASE CommitBidCreate(s)
    BY <1>1, <1>2, <2>1 DEF CommitBidCreate, MarketTypeOK
  <2>2. CASE CommitBidEdit(s)
    <3>1. bid[b] # "ACCEPTED"
      BY <2>2 DEF CommitBidEdit, Commit, SerialInv, StillDecided
    <3> QED BY <2>2, <3>1 DEF CommitBidEdit
  <2> QED BY <2>1, <2>2
<1>4. b \notin Accepted /\ UNCHANGED <<DealOf, Accepted, Assigned>>
  BY <1>3 DEF DealOf, Accepted, Assigned
<1>5. Deals!Offer(b, price)
  BY <1>3, <1>4 DEF Deals!Offer
<1> QED BY <1>2, <1>5 DEF Deals!DealNext

LEMMA DealsOfCloses ==
    ASSUME OneAtATime, SerialInv, NEW s \in Slot, CommitBidClose(s)
    PROVE  NoDealing
<1> DEFINE b == request[s].on
<1>1. MarketTypeOK /\ request[s] \in Request /\ request[s].op = "bidClose"
  BY DEF SerialInv, WinInv, BaseInv, MarketTypeOK, CommitBidClose, Commit
<1>2. b \in Bid /\ request[s].to # "ACCEPTED" /\ bid[b] # "ACCEPTED"
  BY <1>1, RequestFields DEF SerialInv, StillDecided
<1>3. Accepted' = Accepted
  BY <1>1, <1>2 DEF CommitBidClose, Accepted, MarketTypeOK
<1> QED BY <1>3 DEF CommitBidClose, NoDealing, DealOf, Assigned

\* An accept awards the post: the contract, the acceptance and the assignment
\* come together, and the price is the one the bid still offers.
LEMMA DealsOfAccepts ==
    ASSUME OneAtATime, SerialInv, NEW s \in Slot, CommitAccept(s)
    PROVE  Deals!DealNext
<1> DEFINE b == request[s].on
<1>1. /\ MarketTypeOK /\ WorkflowIntegrity
      /\ request[s] \in Request /\ request[s].op = "accept"
      /\ StillDecided(request[s]) /\ Fits(request[s])
  BY DEF SerialInv, WinInv, BaseInv, MarketTypeOK, RequestsFit, CommitAccept, Commit
<1>2. b \in Bid /\ bid[b] # "ACCEPTED" /\ request[s].price = offer[b]
      /\ request[s].price \in Price
  BY <1>1, RequestFields DEF StillDecided, Fits
<1>3. offer[b] # NoPrice
  BY <1>2, MarketAssumption
<1>4. contract[b] = "NONE" /\ ContractRoom(b)
  BY <1>1, <1>2 DEF WorkflowIntegrity, CommitAccept
<1>5. \A d \in Bid : PostOf[d] = PostOf[b] => ~Deals!Struck(d)
  BY <1>4 DEF ContractRoom, Deals!Struck, DealOf
<1>6. /\ contract' = [contract EXCEPT ![b] = "CONFIRMED"]
      /\ agreed' = [agreed EXCEPT ![b] = offer[b]]
  BY <1>2, <1>4 DEF CommitAccept
<1>7. DealOf' = [DealOf EXCEPT ![b] = [price |-> offer[b], status |-> "CONFIRMED"]]
  BY <1>1, <1>2, <1>6 DEF DealOf, MarketTypeOK
<1>8. \A d \in Bid : bid'[d] = "ACCEPTED" <=> d = b \/ bid[d] = "ACCEPTED"
  BY <1>2 DEF CommitAccept
<1>9. Accepted' = Accepted \cup {b}
  BY <1>2, <1>8 DEF Accepted
<1>10. PostOf[b] \in Post
  BY <1>2, MarketAssumption
<1>11. Assigned' = Assigned \cup {PostOf[b]}
  BY <1>1, <1>10 DEF CommitAccept, Assigned, MarketTypeOK
<1>12. offer' = offer
  BY DEF CommitAccept
<1>13. Deals!Award(b)
  BY <1>3, <1>5, <1>7, <1>9, <1>11, <1>12 DEF Deals!Award
<1> QED BY <1>2, <1>13 DEF Deals!DealNext

\* The fallback finds the contract the accept has made.
LEMMA DealsOfContracts ==
    ASSUME OneAtATime, SerialInv, NEW s \in Slot, CommitContractCreate(s) \/ CommitContractStatus(s)
    PROVE  Deals!DealNext \/ NoDealing
<1> DEFINE b == request[s].on
           to == request[s].to
<1>1. /\ MarketTypeOK /\ request[s] \in Request
      /\ StillDecided(request[s]) /\ Fits(request[s])
  BY DEF SerialInv, WinInv, BaseInv, MarketTypeOK, RequestsFit
<1>2. CASE CommitContractCreate(s)
  <2>1. b \in Bid /\ contract[b] # "NONE"
    BY <1>1, <1>2, RequestFields DEF CommitContractCreate, Commit, StillDecided
  <2>2. UNCHANGED <<post, bid, contract, offer, agreed>>
    BY <1>2, <2>1 DEF CommitContractCreate, ContractRoom
  <2> QED BY <2>2 DEF NoDealing, DealOf, Accepted, Assigned
<1>3. CASE CommitContractStatus(s)
  <2>1. request[s].op = "contractStatus"
    BY <1>3 DEF CommitContractStatus, Commit
  <2>2. /\ b \in Bid /\ contract[b] # "NONE" /\ to \in ContractStatus
        /\ to \in ContractMoves[contract[b]]
    BY <1>1, <2>1, RequestFields DEF StillDecided, Fits
  <2>3. contract' = [contract EXCEPT ![b] = to] /\ UNCHANGED <<post, bid, offer, agreed>>
    BY <1>3 DEF CommitContractStatus
  <2>4. DealOf' = [DealOf EXCEPT ![b].status = to]
    BY <1>1, <2>2, <2>3 DEF DealOf, MarketTypeOK
  <2>5. UNCHANGED <<offer, Accepted, Assigned>>
    BY <2>3 DEF Accepted, Assigned
  <2>6. DealOf[b].status = contract[b]
    BY <2>2 DEF DealOf
  <2>7. to \in Deals!Moves[DealOf[b].status] /\ to \in DOMAIN Deals!Moves
    BY <2>2, <2>6 DEF Deals!Moves, ContractMoves, ContractStatus
  <2>8. Deals!Advance(b, to)
    BY <2>2, <2>4, <2>5, <2>6, <2>7 DEF Deals!Advance, Deals!Struck
  <2> QED BY <2>2, <2>7, <2>8 DEF Deals!DealNext
<1>4. CommitContractCreate(s) \/ CommitContractStatus(s)
  OBVIOUS
<1> QED BY <1>2, <1>3, <1>4

LEMMA DealsStep ==
    ASSUME OneAtATime, SerialInv, [MarketNext]_marketVars
    PROVE  Deals!DealNext \/ NoDealing
<1>0. MarketTypeOK
  BY DEF SerialInv, WinInv, BaseInv
<1>1. ASSUME UNCHANGED rows PROVE NoDealing
  BY <1>1 DEF rows, NoDealing, DealOf, Accepted, Assigned
<1>2. ASSUME NEW s \in Slot, PostRequest(s) PROVE Deals!DealNext \/ NoDealing
  <2>1. UNCHANGED rows \/ CommitPostStatus(s) \/ CommitPostDelete(s)
    BY <1>2 DEF PostRequest, BeginPostStatus, BeginPostDelete, BeginPostRestore, Begin
  <2>2. CommitPostDelete(s) => NoDealing
    BY DEF CommitPostDelete, NoDealing, DealOf, Accepted, Assigned
  <2> QED BY <1>1, <2>1, <2>2, DealsOfPosts
<1>3. ASSUME NEW s \in Slot, BidRequest(s) PROVE Deals!DealNext \/ NoDealing
  <2>1. \/ UNCHANGED rows \/ CommitBidCreate(s) \/ CommitBidEdit(s) \/ CommitBidClose(s)
        \/ CommitAccept(s) \/ CommitBidDelete(s)
    BY <1>3 DEF BidRequest, BeginBidCreate, BeginBidEdit, BeginBidClose, BeginAccept,
                BeginBidDelete, BeginBidRestore, Begin
  <2>2. CommitBidDelete(s) => NoDealing
    BY DEF CommitBidDelete, NoDealing, DealOf, Accepted, Assigned
  <2> QED BY <1>1, <2>1, <2>2, DealsOfOffers, DealsOfCloses, DealsOfAccepts
<1>4. ASSUME NEW s \in Slot, ContractRequest(s) PROVE Deals!DealNext \/ NoDealing
  <2>1. \/ UNCHANGED rows \/ CommitContractCreate(s) \/ CommitContractStatus(s)
        \/ CommitContractDelete(s)
    BY <1>4 DEF ContractRequest, BeginContractCreate, BeginContractStatus, BeginContractDelete,
                BeginContractRestore, Begin
  <2>2. CommitContractDelete(s) => NoDealing
    BY DEF CommitContractDelete, NoDealing, DealOf, Accepted, Assigned
  <2> QED BY <1>1, <2>1, <2>2, DealsOfContracts
<1>5. ASSUME NEW p \in Post, NEW status \in {"DRAFT", "OPEN"}, CreatePost(p, status)
      PROVE  NoDealing
  BY <1>0, <1>5, DealsStutter DEF CreatePost, MarketTypeOK
<1>6. ASSUME NEW due \in SUBSET Post, ExpirePosts(due) PROVE NoDealing
  BY <1>0, <1>6, DealsStutter DEF ExpirePosts, MarketTypeOK
<1>7. CloseBids => NoDealing
  BY <1>0 DEF CloseBids, Stranded, NoDealing, DealOf, Accepted, Assigned
<1>8. UNCHANGED marketVars => NoDealing
  BY <1>1 DEF marketVars, rows
<1> QED BY <1>1, <1>2, <1>3, <1>4, <1>5, <1>6, <1>7, <1>8 DEF MarketNext, Drop

\* With one request at a time the marketplace implements RouteDeals, whenever
\* the cleanup job runs: an award is one step and binds its price, and a deal
\* then only takes the moves of a contract.
THEOREM SerialMarketImplementsDeals ==
    ASSUME OneAtATime PROVE MarketSpec => ImplementsDeals
<1>1. MarketInit => Deals!DealInit
  BY DEF MarketInit, Deals!DealInit, DealOf, Accepted, Assigned
<1>2. SerialInv /\ [MarketNext]_marketVars => [Deals!DealNext]_(Deals!dealVars)
  BY DealsStep DEF NoDealing, Deals!dealVars
<1> QED BY <1>1, <1>2, SerialInvHolds, PTL DEF MarketSpec, ImplementsDeals, Deals!DealSpec
=============================================================================
