\* A sell trades with the lowest bid first.
SPECIFICATION FreshSpec
CONSTANTS
    Ids = {a, b, c}
    Prices = {0, 1, 2}
    Offers <- LiveOffers
    NewQuantities = {}
    MaxOrders = 3
    Eps = 1
    None = None
PROPERTIES
    PricePriority
