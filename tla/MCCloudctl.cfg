CONSTANTS
    Terminals = 2
    MaxCommands = 4
    MaxReads = 1
SPECIFICATION Spec
INVARIANTS
    ExitTruthful
    ClearLeavesOnlyLate
    DeleteHitsWhatWasMeant
