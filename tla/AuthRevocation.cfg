SPECIFICATION Spec
CONSTANTS
    r1 = r1
    r2 = r2
    u1 = u1
    p1 = p1
    p0 = p0
    Req = {r1, r2}
    User = {u1}
    Password = {p1, p0}
    Blank = p0
    NoCred = NoCred
    TTL = 1
    Delay = 1
    Horizon = 8
    Faults = TRUE
SYMMETRY Symmetry
INVARIANTS TypeOK Revocation AdminOnly BlankRefused
