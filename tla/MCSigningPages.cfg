SPECIFICATION Spec
CONSTANTS
    m1 = m1  a1 = a1  a2 = a2  c1 = c1  c2 = c2
    Members = {m1}
    Accounts = {a1, a2}
    Holds <- MCHolds
    Threshold = 1
    CancelThreshold = 1
    RequestKind = "native"
    Clicks = {1, 2}
    RequestChanges = 1
    MaxSaved = 3
    Attempts <- TwoAttempts
    Profiles = {c1, c2}
    Approvals = 2
    HasExtra = TRUE
    MaxChanges = 1
    Tabs = {"t1", "t2"}
    Flows = {"f1", "f2"}
    Signers = {"ann"}
    Passkeys = {"key"}
    Roster = {"ann", "key", "bob"}
    Thresholds = {1, 2}
    Others = {"bob"}
    Home = "home"
    Menus <- MenusValue
INVARIANTS AskedOnce ReportsTrue
PROPERTIES SendsOnlyCurrent
CHECK_DEADLOCK FALSE
