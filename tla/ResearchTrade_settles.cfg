SPECIFICATION FairSpec
CONSTANTS
    Symbols = {s1, s2}
    Trades = {t1, t2, t3}
    None = None
    Unknown = Unknown
    Events <- EventsSettling
    MaxTicks = 2
    MaxCrashes = 0
INVARIANT ContextOfManagedTrade
PROPERTY PendingEventuallyAccounted
