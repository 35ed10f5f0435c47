\* Two clients, a stop, the price loop and the feed.
SPECIFICATION EngineSpec
CONSTANTS
    btc = btc
    a = a
    b = b
    c = c
    s = s
    Ids = {a, b, c, s}
    StopIds = {s}
    Cancels = {a, s}
    Symbol = btc
    Prices = {0, 2, 4, 6}
    ClientOffers <- ClientsOffers
    Offers <- AllOffers
    NewQuantities = {}
    MaxOrders = 4
    MarketPrices <- Means
    Symbols = {btc}
    Requests <- TheRequests
    Eps = 1
    None = None
INVARIANTS
    EngineTypeOK
    StopsReachTheBook
    NoFalseTrigger
PROPERTIES
    BookRulesKept
    AddOrderReturns
    BboFlows
    DueStopsTrigger
    DepthFlows
