\* Short limits: every lease is freed, crashes and lost replies included.
CONSTANTS
    w1 = w1  w2 = w2
    Workers = {w1, w2}
    Executions = {"e1"}
    FileExecutions = {"e1", "e2"}
    FileAttempts = 1
    Providers <- AnyProvider
    FileProviders <- TwoProviders
    Faults = {"late", "stale", "mismatch"}
    FileFaults = {"stale", "mismatch"}
    Backends <- TwoProcesses
    CommandLine <- OneProcess
    Leaked = Leaked
    LeaseTTL = 8
    StoreLimit = 1
    ProbeLimit = 1
    SubmitLimit = 1
    MaxAttempts = 2
    MaxReceipts = 1
SPECIFICATION FairSpec
INVARIANTS
    BroadcastsSound
PROPERTIES
    LeaseFreed
