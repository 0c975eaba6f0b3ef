SPECIFICATION Spec
CONSTANTS
    MaxIntents = 2
    Attempts = 1
INVARIANTS RestartRecovers
