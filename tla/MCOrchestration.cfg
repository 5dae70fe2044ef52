CONSTANTS
    None = None
    Lead = lead
    Candidates = {other}
    Advisors = {advisor}
    Plans <- MCPlans
    Ceiling = {"read"}
    Creators = {c1, c2}
    MaxProject = 2
    MaxIntents = 2
    MaxPlans = 2
    MaxHandoffs = 2
    CheckIds = {k1}
    Reviewers = {v1}
    MaxCandidates = 2
    MaxEvidence = 3
    MaxTotal = 4
    MaxRetries = 1
    MaxInput = 2
    Ids = {1, 2, 3, 4, 5}
    MaxStops = 2
    Executions = {x1, x2}
    IntentOf <- MCIntentOf
    Submitters = {s1}
    Budget = 1
    MaxSource = 2
    Authors = {t1}
    Rulebooks <- MCRulebooks
    Catalogs = {"c1"}
    Policies <- MCPolicies
    MaxProjectRevision = 3
    MaxPreviews = 2
    Qualifiers = {1, 2}
    Suites = {"worker", "reviewer", "commander", "fixture"}
    Scenes = 1
    MaxStarts = 2
    MaxGenerations = 2
    MaxChanges = 2
    Requests = {1, 2, 3, 4}
    MaxRequests = 2
    RelayLimit = 3
    ExpiresAt = 1
    MaxClock = 1
SPECIFICATION MCSpec
INVARIANTS
    ApprovedPlansAreSound
    FactsAreEarned
PROPERTIES
    SerialRunsAreSound
    PlansArePaidFor
    GateOpensByReview
    ConfigurationsAreReviewed
    SendsAreBounded
CHECK_DEADLOCK FALSE
