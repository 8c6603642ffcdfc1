SPECIFICATION Spec
CONSTANTS
    a = a
    b = b
    Members <- MCMembers
    CreateArgs <- TwoOfTwo
    Bodies <- SwappedBody
    Targets <- UpdateTarget
    MaxProposals = 2
    MaxIntentIndex = 2
    MaxActive = 2
    MaxTime = 2
    MaxTTL = 2
CHECK_DEADLOCK FALSE
INVARIANTS
    TypeOK
    ActiveCountExact
    QuorumHolds
    BackedApprovals
PROPERTIES
    TimelockServed
