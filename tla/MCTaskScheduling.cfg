CONSTANTS
    t1 = t1
    t2 = t2
    e1 = e1
    e2 = e2
    g1 = g1
    TaskIds = {t1, t2}
    SetIds = {e1, e2}
    GrantIds = {g1}
    ActsOf <- MCActsOf
    Zones <- MCZones
    Outs = {"o"}
    Specs <- MCSpecs
    Limits = {}
    MaxBatch = 2
    MaxHead = 2
    MaxVersion = 5
    None = None
    CapOf <- MCCapOf
    CostOf <- MCCostOf
    Policies <- MCPolicies
    Readings <- MCReadings
    MaxClaims = 2
SPECIFICATION Spec
INVARIANTS
    TypeOK
    OneWriterPerZone
    EndedIsReleased
PROPERTIES
    ImplementsWriteZones
    ReleasedByReconciliation
