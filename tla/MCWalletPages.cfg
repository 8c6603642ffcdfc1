SPECIFICATION Spec
CONSTANTS
    t1 = t1
    t2 = t2
    t3 = t3
    s1 = s1
    s2 = s2
    s3 = s3
    r1 = r1
    r2 = r2
    sig = sig
    None = None
    Calls = {1, 2}
    Trades = {t1, t2, t3}
    Local = {t1, t2}
    SignalOf <- MCSignalOf
    Sessions = {s1, s2}
    Rules = {r1, r2}
    Fits <- MCFits
    MaxOpen = 1
    FirstRules = r1
    FirstSession = s1
    Menus <- MCMenus
    MaxStarts = 3
    MaxEdits = 3
    MaxMoves = 1
    MaxSends = 1
    MaxRows = 2
    MaxActs = 3
    MaxSaves = 1
    MaxWalletActs = 3
    MaxDeskActs = 2
    MaxRowActs = 3
    MaxReads = 2
    MaxTxs = 3
    MaxPosts = 3
    MaxTicks = 4
    MaxConnects = 2
    MaxRequests = 4
INVARIANTS PagesTellTrue SentAsApproved OnceAndKept
PROPERTIES StepsWithinRules
CHECK_DEADLOCK FALSE
