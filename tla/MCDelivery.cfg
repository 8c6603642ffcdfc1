\* Bitcoin or Zcash, two backend processes, ticks of ten seconds.
CONSTANTS
    w1 = w1
    w2 = w2
    e1 = e1
    e2 = e2
    Workers = {w1, w2}
    Executions = {e1}
    Process <- TwoProcesses
    Leaked = Leaked
    Store = "upstash"
    Providers <- AnyProvider
    Faults = {"late", "stale", "mismatch"}
    LeaseTTL = 18
    StoreLimit = 1
    ProbeLimit = 3
    SubmitLimit = 3
    MaxAttempts = 2
    MaxReceipts = 2
SPECIFICATION Spec
SYMMETRY WorkerSymmetry
INVARIANTS
    SoleBroadcaster
    RebroadcastQueried
    WritesUnderLease
