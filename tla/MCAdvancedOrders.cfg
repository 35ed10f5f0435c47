\* Three orders on two symbols, checked at any sequence of three prices.
SPECIFICATION StopsSpec
CONSTANTS
    btc = btc
    eth = eth
    Ids = {a, b, c}
    Symbols = {btc, eth}
    Prices = {0, 1, 3, 4, 5}
    Requests <- SomeRequests
    MarketPrices = {1, 3, 4}
    Eps = 1
    None = None
SYMMETRY IdSymmetry
INVARIANTS
    StopsTypeOK
    EachTriggersOnce
    NothingMissed
    TrailingFollows
    FirstAddedFirst
