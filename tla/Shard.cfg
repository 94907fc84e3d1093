\* a job that may be aborted, or a host, with one failure; or two jobs
SPECIFICATION FairSpec
CONSTANTS
    j1 = j1
    j2 = j2
    j3 = j3
    e1 = e1
    e2 = e2
    e3 = e3
    h1 = h1
    None = None
    Jobs = {j1, j2, j3}
    Entries = {e1, e2, e3}
    JobOf <- OwnJob
    Hosts = {h1}
    Statuses = {"Ready", "Running"}
    InitStatus = "Ready"
    Loads <- SomeLoads
    Abortable = {e1}
    MaxUpload = 1
    MaxFailures = 1
INVARIANTS
    TypeOK
    NothingForgotten
    ShardInv
PROPERTIES
    CompleteIsFinal
    JobSynced
    JobArrives
    AbortArrives
    HostArrives
    HostLeaves
    StatusSynced
