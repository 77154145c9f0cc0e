\* Any pace of the Brain; each process may die once, the pipeline instead of
\* the executor.
SPECIFICATION FairSpec
CONSTANTS
    Cells = {token, min_output}
    MaxSignals = 3
    MaxExecDeaths = 1
    MaxBrainDeaths = 1
    Pace = "any"
INVARIANT NothingStale
PROPERTY FlagDrains
