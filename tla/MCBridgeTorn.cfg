\* The executor restarts while the Brain writes.
SPECIFICATION Spec
CONSTANTS
    Cells = {token, min_output}
    MaxSignals = 3
    MaxExecDeaths = 0
    MaxBrainDeaths = 0
    Pace = "down"
INVARIANT OpportunitiesAreWhole
