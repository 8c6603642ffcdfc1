SPECIFICATION Spec
CONSTANTS
    a = a
    b = b
    Members <- MCMembers
    CreateArgs <- Solo
    Bodies <- SwappedBody
    Targets <- LaterTargets
    MaxProposals = 3
    MaxIntentIndex = 3
    MaxActive = 2
    MaxTime = 0
    MaxTTL = 1
CHECK_DEADLOCK FALSE
INVARIANTS
    OpenOnApprovedIntent
PROPERTIES
    OpenIntentFrozen
