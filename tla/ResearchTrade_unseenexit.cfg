SPECIFICATION Spec
CONSTANTS
    Symbols = {s1, s2}
    Trades = {t1, t2}
    None = None
    Unknown = Unknown
    Events = {"exit"}
    MaxTicks = 2
    MaxCrashes = 0
PROPERTY EntryAfterAccounting
