CONSTANTS
    None = None
    Altered = Altered
    Conversations = {v1, v2}
    Keys = {k1, k2, k3}
    Editors = {t1}
    Drafts <- MCDrafts
    Edits <- MCEdits
    Catalog = {"lead"}
    MaxHead = 3
    MaxInputs = 1
    DeployKeys = {d1, d2}
    Workers = {w1, w2}
    RunKeys = {r1}
    Starters = {s1}
    MaxFailures = 1
SPECIFICATION MCSpec
SYMMETRY MCSymmetry
INVARIANTS
    PublishedIsRunnable
    BundlesAreSound
PROPERTIES
    DeploymentsAreSound
CHECK_DEADLOCK FALSE
