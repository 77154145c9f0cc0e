\* The hot loop keeps up and lives; the Brain may die once.
SPECIFICATION OperatedSpec
CONSTANTS
    Cells = {token, min_output}
    MaxSignals = 4
    MaxExecDeaths = 0
    MaxBrainDeaths = 1
    Pace = "idle"
INVARIANTS TypeOK OpportunitiesAreWhole
PROPERTIES ImplementsMailbox DeliversFairly
