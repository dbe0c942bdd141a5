SPECIFICATION MCSpec
CONSTANTS
    u1 = u1
    u2 = u2
    c1 = c1
    c2 = c2
    co2 = co2
    User = {u1, u2}
    Challenge = {c1, c2}
    Draft = {d1, d2}
    NoDraft = NoDraft
    Caller = {k1, k2}
    MaxTries = 1
    MaxResends = 1
    Session = {s1, s2}
    MfaUser = {u2}
    MaxVersion = 2
    Company = {co1, co2}
    NoCompany = NoCompany
    Invite = {i1, i2}
    SeatLimit = 1
INVARIANTS
    AccountTypeOK
    EachUseIsVerified
    OldPasswordsAreDead
    InviteUsedOnce
    RegisteredOnce
PROPERTY
    EndedStaysEnded
SYMMETRY Alike
CHECK_DEADLOCK FALSE
