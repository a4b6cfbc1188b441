SPECIFICATION PageSpec
CONSTANTS
    Caller = {c1}
    Ops = {"up"}
    Faults = FALSE
    Poll = {p1}
PROPERTY LockedInFlight
