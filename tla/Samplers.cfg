SPECIFICATION Spec
CONSTANTS
    Kinds = {"netstats", "system"}
    If = {w}
    Req = {r1}
    Word = 4
    Line = 1
    Interval = 1
    Delay = 1
    Wait = 1
    Hot = 80
    Temps = {79, 80}
    Horizon <- MCHorizon
    Faults = TRUE
INVARIANTS TypeOK NotOverstated Exact LineSpeed
PROPERTIES AnswerIsCurrent HeatReported
