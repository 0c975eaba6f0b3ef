SPECIFICATION Spec
CONSTANTS
    Symbols = {s1, s2}
    Trades = {t1, t2, t3}
    None = None
    Unknown = Unknown
    Events <- EventsFilling
    MaxTicks = 2
    MaxCrashes = 1
INVARIANTS TypeOK CheckpointNamesOpenTrade
PROPERTIES NoEntryWhilePending PendingNotOverwritten CompleteStaysComplete CalmEntryAfterAccounting
