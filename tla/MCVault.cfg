\* A swap, one nested in it and one in that, of two tokens; the vault holds at most
\* two of each.
SPECIFICATION Spec
CONSTANTS
    Executors = {"bot", "hook"}
    Contracts = {"hook"}
    Routers = {"dex"}
    Tokens = {"usd", "eth"}
    Orders <- MCOrders
    Amounts = {1, 2}
    StartBalance = 2
    MaxBalance = 2
    MaxTime = 1
    MaxDepth = 3
INVARIANTS TypeOK OncePerNonce LossBounded SpentIsPaid
PROPERTY ImplementsLedger
