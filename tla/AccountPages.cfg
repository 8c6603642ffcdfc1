SPECIFICATION Spec
CONSTANTS
    MaxExchangeActs = 6
    MaxIntents = 2
    MaxReservations = 2
    MaxOrderActs = 3
    MaxSetupActs = 4
    MaxOrderCalls = 2
    MaxRecordsPerAgent = 2
    MaxFillAttempts = 2
    MaxLockActs = 8
    MaxRouteActs = 6
    MaxSignerActs = 6
    MaxPinJobs = 2
    MaxFeedActs = 3
    MaxMailActs = 3
    MaxNoticeCalls = 2
    MaxEntries = 2
    MaxClock = 2
    MaxHits = 5
    MaxMarketActs = 3
    MaxNewsActs = 1
    MaxTrades = 2
    MaxSlots = 6
    MaxNoticeSteps = 5
    NoticeLimit = 2
    SeenLimit = 2
    MaxDelegationSteps = 6
    MaxStandingSteps = 7
    MaxStandingTrades = 2
    MaxLibrarySteps = 4
INVARIANTS ScreensTellTrue DoneAsChosen OnceInTurn
PROPERTIES SettledStays
CHECK_DEADLOCK FALSE
