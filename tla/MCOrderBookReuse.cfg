\* What the book keeps even when clients use an order id more than once.
SPECIFICATION ReuseSpec
CONSTANTS
    Ids = {a, b}
    Prices = {0, 1, 2}
    Offers <- ReuseOffers
    NewQuantities = {1, 2}
    MaxOrders = 3
    Eps = 1
    None = None
SYMMETRY IdSymmetry
INVARIANTS
    LimitRespected
    NeverOverfilled
    LevelsWellFormed
