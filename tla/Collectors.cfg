SPECIFICATION FairSpec
CONSTANTS
    Req = {r1, r2}
    Kinds = {"hotspot", "wan", "admin"}
    TTL = 1
    Exec = 2
    Horizon = 3
    End = 7
    Faults = TRUE
INVARIANTS TypeOK FreshWhenAsked OldOnlyUnderError LastGood
PROPERTIES RefreshesPaced EveryPollAnswered
