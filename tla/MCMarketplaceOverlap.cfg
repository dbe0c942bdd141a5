SPECIFICATION MCMarketSpec
CONSTANTS
    p1 = p1
    p2 = p2
    c1 = c1
    c2 = c2
    c3 = c3
    b1 = b1
    b2 = b2
    b3 = b3
    b4 = b4
    s1 = s1
    s2 = s2
    NoPrice = NoPrice
    Post = {p1, p2}
    Carrier = {c1, c2, c3}
    Bid = {b1, b2, b3, b4}
    PostOf <- MCPostOf
    CarrierOf <- MCCarrierOf
    Price = {1}
    Slot = {s1, s2}
    BidLimit = 1
    MaxDeleted = 1
INVARIANTS
    MarketTypeOK
    AcceptedBidHasContract
    OneWinner
    BidLimitKept
PROPERTIES
    ContractNeverRestarts
SYMMETRY MCSymmetry
