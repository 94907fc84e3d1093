\* the host of a failed job is Ready before its reset is queued
SPECIFICATION Spec
CONSTANTS
    h1 = h1
    h2 = h2
    e1 = e1
    e2 = e2
    None = None
    Hosts = {h1}
    Entries = {e1, e2}
    MetaHost = {}
    HostOf <- AllOnH1
    PreJob <- ResetOrNone
    RunReset = {}
    RebootAfter <- RebootNever
    MaxRepairLimit = 1
    MaxProvisionRetries = 1
    Abortable = {}
    Reverifies = {}
    RecoverHosts = FALSE
    MaxCrashes = 0
INVARIANTS
    NoOverlap
