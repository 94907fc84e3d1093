\* liveness without aborts and crashes
SPECIFICATION FairSpec
CONSTANTS
    h1 = h1
    h2 = h2
    e1 = e1
    e2 = e2
    None = None
    Hosts = {h1}
    Entries = {e1}
    MetaHost = {}
    HostOf <- AllOnH1
    PreJob <- AllPreJobs
    RunReset = {}
    RebootAfter <- RebootIfPassed
    MaxRepairLimit = 1
    MaxProvisionRetries = 1
    Abortable = {}
    Reverifies = {}
    RecoverHosts = FALSE
    MaxCrashes = 0
PROPERTIES
    EntryEnds
    HostFreed
    RepairStarts
