\* a crash between a failed provision and its consequences
SPECIFICATION Spec
CONSTANTS
    h1 = h1
    h2 = h2
    e1 = e1
    e2 = e2
    None = None
    Hosts = {h1}
    Entries = {e1}
    MetaHost = {}
    HostOf <- AllOnH1
    PreJob <- ProvisionOrReset
    RunReset = {}
    RebootAfter <- RebootNever
    MaxRepairLimit = 1
    MaxProvisionRetries = 1
    Abortable = {}
    Reverifies = {}
    RecoverHosts = FALSE
    MaxCrashes = 1
INVARIANTS
    LostEntryRequeued
