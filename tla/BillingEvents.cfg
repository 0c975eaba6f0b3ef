SPECIFICATION Spec
CONSTANTS
    Events = {e1, e2}
    Workers = {w1, w2}
    Kinds <- MCKinds
    StartRows <- MCStartRows
    Plans = {p1, p2}
    Sids = {s1, s2}
    p1 = p1
    p2 = p2
    s1 = s1
    s2 = s2
    Free = Free
    None = None
    MaxFaults = 1
INVARIANTS TypeOK ProcessedTookEffect AckedIsSettled RedeliveryConverges
PROPERTIES PlanFollowsEvent SerialLifecycle ImplementsBook EventsSettle
