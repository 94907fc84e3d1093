\* two entries compete for one host, which the frontend reverifies
SPECIFICATION Spec
CONSTANTS
    h1 = h1
    h2 = h2
    e1 = e1
    e2 = e2
    None = None
    Hosts = {h1}
    Entries = {e1, e2}
    MetaHost = {}
    HostOf <- AllOnH1
    PreJob <- ResetThenNone
    RunReset = {}
    RebootAfter <- RebootIfPassed
    MaxRepairLimit = 1
    MaxProvisionRetries = 1
    Abortable = {}
    Reverifies = {h1}
    RecoverHosts = FALSE
    MaxCrashes = 0
INVARIANTS
    OneAgentPerHost
    OneJobPerHost
    ActiveHostLeased
