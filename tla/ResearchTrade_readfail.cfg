SPECIFICATION Spec
CONSTANTS
    Symbols = {s1, s2}
    Trades = {t1, t2}
    None = None
    Unknown = Unknown
    Events = {"read"}
    MaxTicks = 2
    MaxCrashes = 0
INVARIANT AtMostOnePosition
