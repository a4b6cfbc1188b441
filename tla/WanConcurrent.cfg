SPECIFICATION FairSolo
CONSTANTS
    Caller = {c1, c2}
    Ops = {"up", "down", "reload", "ctl_up", "ctl_down"}
    Faults = TRUE
INVARIANTS TypeOK OkMeansReached LateJobAfterFailure
PROPERTIES WanOpAnswered EveryOpEnds
