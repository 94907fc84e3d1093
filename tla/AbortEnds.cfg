\* liveness of an abort, whatever it meets, with one crash
SPECIFICATION FairSpec
CONSTANTS
    h1 = h1
    h2 = h2
    e1 = e1
    e2 = e2
    None = None
    Hosts = {h1}
    Entries = {e1}
    MetaHost = {}
    HostOf <- AllOnH1
    PreJob <- ResetOrNone
    RunReset = {e1}
    RebootAfter <- RebootNever
    MaxRepairLimit = 1
    MaxProvisionRetries = 1
    Abortable = {e1}
    Reverifies = {}
    RecoverHosts = FALSE
    MaxCrashes = 1
PROPERTIES
    AbortEnds
