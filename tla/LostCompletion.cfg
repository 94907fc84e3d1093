\* one job with two entries; nothing fails
SPECIFICATION FairSpec
CONSTANTS
    j1 = j1
    j2 = j2
    j3 = j3
    e1 = e1
    e2 = e2
    e3 = e3
    h1 = h1
    None = None
    Jobs = {j1}
    Entries = {e1, e2}
    JobOf <- OneJob
    Hosts = {}
    Statuses = {"Ready", "Running"}
    InitStatus = "Ready"
    Loads <- NoFailures
    Abortable = {}
    MaxUpload = 1
    MaxFailures = 1
PROPERTIES
    EntrySynced
