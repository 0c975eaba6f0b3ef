SPECIFICATION FairSpec
CONSTANTS
    Containers = {c1, c2}
    None = None
    MaxDisruptions = 3
INVARIANTS TypeOK OneTrader StopsOnlyWhenAsked
PROPERTIES TradingResumes ImplementsTerm
