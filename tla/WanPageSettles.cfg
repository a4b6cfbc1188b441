SPECIFICATION FairPage
CONSTANTS
    Caller = {c1}
    Ops = {"up", "down", "reload"}
    Faults = TRUE
    Poll = {p1, p2}
INVARIANTS PageTypeOK OneWay PendingHasCause
PROPERTY ButtonsSettle
