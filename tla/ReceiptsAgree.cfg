CONSTANTS
    p1 = p1
    p2 = p2
    k1 = k1
    k2 = k2
    th1 = th1
    th2 = th2
    Keys = {k1, k2}
    Payloads = {p1, p2}
    Expected <- MCExpected
    Threads = {th1, th2}
    MaxHead = 2
    MaxLosses = 2
    None = None
SPECIFICATION Spec
INVARIANT
    ReceiptsAgree
