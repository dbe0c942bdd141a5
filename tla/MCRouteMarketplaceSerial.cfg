SPECIFICATION FairMarketSpec
CONSTANTS
    p1 = p1
    p2 = p2
    c1 = c1
    c2 = c2
    b1 = b1
    b2 = b2
    b3 = b3
    s1 = s1
    s2 = s2
    NoPrice = NoPrice
    Post = {p1, p2}
    Carrier = {c1, c2}
    Bid = {b1, b2, b3}
    PostOf <- MCPostOf
    CarrierOf <- MCCarrierOf
    Price = {1, 2}
    Slot = {s1}
    BidLimit = 1
INVARIANTS
    WorkflowIntegrity
PROPERTIES
    SettledStays
    StrandedBidsAreClosed
    ImplementsDeals
