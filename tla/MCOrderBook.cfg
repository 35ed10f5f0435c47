\* Every sequence of calls on three orders with ids of their own.
SPECIFICATION FreshSpec
CONSTANTS
    Ids = {a, b, c}
    Prices = {0, 1, 2}
    Offers <- AllOffers
    NewQuantities = {1, 2}
    MaxOrders = 3
    Eps = 1
    None = None
SYMMETRY IdSymmetry
INVARIANTS
    TypeOK
    LookupExact
    TapeAgrees
    TimePriority
    BuyNeverCrosses
    FokAllOrNothing
    CancelledStaysOut
PROPERTIES
    KeepsThePromise
    EveryRoundCounts
