SPECIFICATION Spec
CONSTANTS
    Cells = {token, min_output}
    MaxSignals = 3
    MaxExecDeaths = 0
    MaxBrainDeaths = 0
    Pace = "idle"
PROPERTY EmergencyStops
