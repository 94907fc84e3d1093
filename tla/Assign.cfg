\* a metahost entry moves between two hosts and may be aborted
SPECIFICATION Spec
CONSTANTS
    h1 = h1
    h2 = h2
    e1 = e1
    e2 = e2
    None = None
    Hosts = {h1, h2}
    Entries = {e1}
    MetaHost = {e1}
    HostOf <- AnyHost
    PreJob <- ProvisionOrReset
    RunReset = {e1}
    RebootAfter <- RebootNever
    MaxRepairLimit = 1
    MaxProvisionRetries = 1
    Abortable = {e1}
    Reverifies = {}
    RecoverHosts = FALSE
    MaxCrashes = 0
INVARIANTS
    TypeOK
    QueuedEntryIsFree
    OnePreJobTask
    HostlessIsIdle
    IInv
