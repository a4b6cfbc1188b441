SPECIFICATION SoloSpec
CONSTANTS
    Caller = {c1, c2}
    Ops = {"up", "down"}
    Faults = FALSE
INVARIANT OkRepliesAgree
