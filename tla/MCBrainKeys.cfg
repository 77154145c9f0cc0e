\* Two passphrases, three wallets; one exchange, whose price never counts.
SPECIFICATION FairSpec
CONSTANTS
    Passphrases = {p1, p2}
    NoPass = none
    MaxProvisions = 3
    SearchEnds = {"raises", "finds"}
    Exchanges = {e1}
    Prices = {1}
    MaxReconnects = 2
    PipeSize = 1
    Window = 2
    MinReturns = 2
INVARIANT ServesOwnWallet
PROPERTY FeedSettles
