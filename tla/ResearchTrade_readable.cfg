SPECIFICATION FairSpec
CONSTANTS
    Symbols = {s1, s2}
    Trades = {t1, t2, t3}
    None = None
    Unknown = Unknown
    Events <- EventsReadable
    MaxTicks = 2
    MaxCrashes = 2
INVARIANT AtMostOnePosition
PROPERTIES ImplementsSlot EventuallyFlat
