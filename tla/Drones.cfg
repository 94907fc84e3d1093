\* two jobs and one parser at a time; the dispatcher dies once
SPECIFICATION FairSpec
CONSTANTS
    j1 = j1
    j2 = j2
    None = None
    Jobs = {j1, j2}
    Abortable = {j2}
    Slow <- SlowAutoserv
    MaxParse = 1
    MaxPidfileRefreshes = 0
    MaxStarts = 2
    Loads <- SomeLoads
INVARIANTS
    TypeOK
    WatchedIsRegistered
    CompletedIsEarned
    ParsedWhenOver
    ParseLimit
    DroneInv
PROPERTIES
    FailedIsEarned
    ParseEnds
    AbortKills
