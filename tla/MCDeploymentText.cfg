\* A snapshot is stored from memory that its texts have left.
SPECIFICATION Spec
CONSTANTS
    btc = btc
    eth = eth
    data = data
    other = other
    Defaults <- TheDefaults
    SymbolDefaults <- TheSymbolDefaults
    DefaultSymbols <- TheDefaultSymbols
    Documents <- TheDocuments
    EngineConfigs <- TheEngineConfigs
    SymbolConfigs <- TheSymbolConfigs
    Missing = Missing
    Torn = Torn
    NoObject = NoObject
    BadValue = BadValue
    Symbols <- TheSymbols
    EngineSymbols = {btc}
    Retention = 2
    Word = 64
    Times = {0, 1, 2, 3, 4}
    Faults = {}
    Sizes = {0, 2000}
    Remains = {"own", "other", "garbage"}
    Bounds <- OneRound
    None = None
\* The rounds are used up.
CHECK_DEADLOCK FALSE
INVARIANTS
    SavedAsReported
