SPECIFICATION MCSpec
CONSTANTS
    b1 = b1
    b2 = b2
    q1 = q1
    q2 = q2
    Sub = {b1, b2}
    FreeRow = {f1, f2, f3}
    FirstRow = f1
    NoRow = NoRow
    Slot = {s1, s2}
    Request = {q1, q2}
    MaxEvents = 3
INVARIANTS
    SingleCurrent
CHECK_DEADLOCK FALSE
