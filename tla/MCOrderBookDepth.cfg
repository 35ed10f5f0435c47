\* The book as MatchingEngine uses it (it never modifies): queues of three
\* makers, and quantities that leave residues below the tolerance.
SPECIFICATION FreshSpec
CONSTANTS
    Ids = {a, b, c, d}
    Prices = {0, 1, 2}
    Offers <- DeepOffers
    NewQuantities = {}
    MaxOrders = 4
    Eps = 2
    None = None
SYMMETRY IdSymmetry
INVARIANTS
    FokAllOrNothing
    RestingHasLeaves
    LimitOrdersAccountedFor
    DepthAgreesWithTape
