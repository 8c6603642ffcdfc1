SPECIFICATION Spec
CONSTANTS
    m1 = m1
    m2 = m2
    r1 = r1
    r2 = r2
    Intents = {i1}
    Members = {m1, m2}
    Recipients = {r1, r2}
    Schedules = {s1}
    Policies = {budget, team}
    NoPolicy = NoPolicy
    Text <- MCText
    budget = budget
    team = team
    Batches <- MCBatches
    Terms <- MCTerms
    Delays = {1}
    Timelock = 0
    Horizon = 4
    MaxLog = 3
INVARIANTS
    MeterCovers
    VelocityHolds
    AllowanceHolds
    ScheduleHonoured
CHECK_DEADLOCK FALSE
