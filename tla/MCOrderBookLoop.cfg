\* Ids used twice: a filled maker stays, and add_order never returns.
SPECIFICATION ReuseSpec
CONSTANTS
    Ids = {a, b}
    Prices = {0, 1, 2}
    Offers <- LiveOffers
    NewQuantities = {}
    MaxOrders = 3
    Eps = 1
    None = None
PROPERTIES
    AddOrderReturns
