SPECIFICATION FairSpec
CONSTANTS
    Symbols = {s1}
    Trades = {t1}
    None = None
    Unknown = Unknown
    Events = {"late"}
    MaxTicks = 2
    MaxCrashes = 0
PROPERTY PendingEventuallyAccounted
