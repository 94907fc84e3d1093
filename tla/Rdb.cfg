\* three entries, a one-time and a locked host, with and without the cache
SPECIFICATION Spec
CONSTANTS
    h1 = h1
    h2 = h2
    h3 = h3
    h4 = h4
    h5 = h5
    None = None
    Hosts = {h1, h2, h3, h4, h5}
    Entries = {e1, e2, e3}
    Labels <- HostLabels
    Acls <- HostAcls
    Locked = {h5}
    Invalid = {h4}
    OnShard = {}
    Requests <- SomeRequests
    CacheModes = {TRUE, FALSE}
INVARIANTS
    TypeOK
    NoHostTwice
    NothingLeaks
    CacheHidesNothing
    UncachedServesAll
PROPERTIES
    PromiseKept
    UncachedKeepsPriority
CHECK_DEADLOCK FALSE
