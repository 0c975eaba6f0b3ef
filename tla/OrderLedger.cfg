SPECIFICATION Spec
CONSTANTS
    MaxIntents = 3
    Attempts = 1
INVARIANTS TypeOK NeverWrittenOff FillsAreReal PersistedBeforeSent OneOpenEntry LeftTradeBlocksStart
PROPERTIES UnknownBlocksEntry OrphanBlocksEntries ImplementsSubmitOnce SessionEnds
