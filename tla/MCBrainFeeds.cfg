\* Three exchanges, of which two are a majority; one wallet; one message at a
\* time on its way.
SPECIFICATION Spec
CONSTANTS
    Passphrases = {p1}
    NoPass = none
    MaxProvisions = 1
    SearchEnds = {"finds"}
    Exchanges = {e1, e2, e3}
    Prices = {1, 2}
    MaxReconnects = 1
    PipeSize = 1
    Window = 3
    MinReturns = 2
CONSTRAINT OneInFlight
SYMMETRY ExchangeSymmetry
INVARIANTS TypeOK CalmBeforeSignal MajorityRules
