CONSTANTS
    t1 = t1
    t2 = t2
    t3 = t3
    e1 = e1
    g1 = g1
    g2 = g2
    TaskIds = {t1, t2, t3}
    SetIds = {e1}
    GrantIds = {g1, g2}
    ActsOf <- MCActsOf
    Zones <- MCZones
    Outs = {"o"}
    Specs <- MCSpecs
    Limits = {2}
    MaxBatch = 3
    MaxHead = 2
    MaxVersion = 4
    None = None
    CapOf <- MCCapOf
    CostOf <- MCCostOf
    Policies <- MCPolicies
    Readings <- MCReadings
    MaxClaims = 2
SPECIFICATION Spec
INVARIANTS
    PinsAreArchived
    OccupancyWithinCeiling
PROPERTIES
    JoinSeesPinnedResults
    SealIsFinal
