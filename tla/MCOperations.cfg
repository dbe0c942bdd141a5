SPECIFICATION MCSpec
CONSTANTS
    v1 = v1
    j1 = j1
    p1 = p1
    p2 = p2
    person1 = person1
    person2 = person2
    firm1 = firm1
    firm2 = firm2
    d1 = d1
    VehicleAd = {v1}
    JobAd = {j1}
    Post = {p1, p2}
    Clerk = {k1, k2}
    FreeAds = 1
    ActivePosts = 1
    Price = 1
    Funds = 2
    MaxEntries = 2
    Opening = {o1, o2, o3}
    OwnListing = {o4}
    Applicant = {a1, a2}
    FreeApplications = 1
    ApplicationCost = 1
    PromotionCost = 1
    SeekerFunds = 2
    Person = {person1, person2}
    NoPerson = NoPerson
    Firm = {firm1, firm2}
    NoFirm = NoFirm
    Thread = {t1}
    Reply = {r1}
    MaxAttempts = 2
    Usable = {good}
    Unusable = {bad}
    Caller = {c1, c2}
    Job = Job
    MaxTries = 2
    Vehicle = {truck}
    Driver = {d1, d2}
    NoChange = NoChange
    Assignment = {x1, x2}
    Dispatcher = {y1, y2}
    LastInstant = 1
INVARIANTS
    OperationsTypeOK
    PublishedIsCharged
    SubmissionsAreMetered
    ReplyReachesTheOtherSide
    VerdictMatchesIdentity
    AssignmentsAreSound
PROPERTY
    EventIsNotified
CHECK_DEADLOCK FALSE
