\* one process crashes; every kind of pre-job task
SPECIFICATION Spec
CONSTANTS
    h1 = h1
    h2 = h2
    e1 = e1
    e2 = e2
    None = None
    Hosts = {h1}
    Entries = {e1}
    MetaHost = {}
    HostOf <- AllOnH1
    PreJob <- AllPreJobs
    RunReset = {}
    RebootAfter <- RebootNever
    MaxRepairLimit = 1
    MaxProvisionRetries = 1
    Abortable = {}
    Reverifies = {h1}
    RecoverHosts = TRUE
    MaxCrashes = 1
INVARIANTS
    RunningIsWatched
PROPERTIES
    StatusForward
