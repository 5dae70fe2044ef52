CONSTANTS
    None = None
    Attempts = {a1}
    Calls = {c1, c2}
    Logical = {l1}
    Digests = {g1}
    Events = {e1, e2}
    Amounts = {1, 2}
    Limit = 2
    Execs = {x1}
    MaxFence = 2
    MaxUsage = 2
    CheckCount = 1
    Qualifications <- MCQualifications
    MaxSubjects = 2
    MaxTransitions = 2
    CheckBudget = 2
SPECIFICATION MCSpec
INVARIANTS
    MoneyIsAccounted
    OneRunner
PROPERTIES
    CallsAreResolved
    AttemptsEndOnce
    CancelledStops
    ChecksAreCurrent
CHECK_DEADLOCK FALSE
