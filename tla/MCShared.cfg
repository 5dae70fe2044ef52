CONSTANTS
    None = None
    Revisions = {1, 2}
    Advancers = {m1, m2}
    PullIds = {n1, n2}
    Admissions = {m1, m2}
    Receipts = {n1, n2}
    Demands = {1, 2}
    Quota = 2
    Policies <- MCPolicies
    Duration = 2
    MaxTime = 2
    MaxRevision = 2
    MaxReadings = 2
    MaxSpent = 2
    Projects = {"p1", "p2"}
    Threads = {c1}
    Runs = {"r1", "r2"}
    ProjectOf <- MCProjectOf
    DeclaredOf <- MCDeclaredOf
    Browsers = {m1, m2}
    CommandKeys = {n1, n2}
    MessageIds = {1}
    MaxEvents = 3
    Rulebooks <- MCRulebooks
    Requests <- MCRequests
    RiskClass <- MCRiskClass
    Profiles = {1, 2, 3, 4}
    Registered <- MCRegistered
    Groups <- MCGroups
    Granted = {1, 2, 3, 4}
    Tasks = {"w", "v"}
    Plans <- MCPlans
    Limits <- MCLimits
    Amount = 1
    Readings = {1, 2}
    Lifetime = 3
    RouteTimes = {0, 1, 2, 3}
    Generations = 2
    WorkerOps = {m1, m2}
    ReviewerOps = {v1}
    AttemptLimit <- MCAttemptLimit
    MaxCycles = 3
    MaxSends = 1
    ReviewKeys = {k1}
SPECIFICATION MCSpec
SYMMETRY MCSymmetry
INVARIANTS
    DeliveriesAreSafe
    ConversationsAreFollowed
    RoutesAreSound
PROPERTIES
    QuotaNotOverspent
    TaskEffectsAreOwned
    ReviewsAreCurrent
CHECK_DEADLOCK FALSE
