\* check_all as asyncio runs it.
SPECIFICATION FairSpec
CONSTANTS
    Width = 2
    Timeout = 3
    PingEvery = 2
    NumCex = 1
    Keys = {1}
    GroupEnds = {"raises"}
PROPERTY StallStops
