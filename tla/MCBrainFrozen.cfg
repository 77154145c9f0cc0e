SPECIFICATION FairSpec
CONSTANTS
    Passphrases = {p1}
    NoPass = none
    MaxProvisions = 1
    SearchEnds = {"finds"}
    Exchanges = {e1, e2}
    Prices = {1}
    MaxReconnects = 1
    PipeSize = 1
    Window = 2
    MinReturns = 2
PROPERTY DeadFeedsGoSilent
