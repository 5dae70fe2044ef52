CONSTANTS
    g1 = g1
    g2 = g2
    g3 = g3
    g4 = g4
    k1 = k1
    GrantIds <- MCGrantIds
    CredKeys = {k1}
    Acts = {"expand_graph", "seal"}
    Bodies <- MCBodies
    MaxTime = 2
    NoGrant = NoGrant
    None = None
SPECIFICATION Spec
SYMMETRY Symmetry
INVARIANT
    RevokedGrantHasNoLiveCredential
