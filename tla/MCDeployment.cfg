\* Settings loaded, edited and saved, snapshots taken, processes killed.  The
\* texts of the rows are garbage throughout: no property of this run reads them.
SPECIFICATION Spec
CONSTANTS
    btc = btc
    eth = eth
    data = data
    other = other
    Defaults <- TheDefaults
    SymbolDefaults <- TheSymbolDefaults
    DefaultSymbols <- TheDefaultSymbols
    Documents <- TheDocuments
    EngineConfigs <- TheEngineConfigs
    SymbolConfigs <- TheSymbolConfigs
    Missing = Missing
    Torn = Torn
    NoObject = NoObject
    BadValue = BadValue
    Symbols <- TheSymbols
    EngineSymbols = {btc}
    Retention = 2
    Word = 64
    Times = {0, 1, 2, 3, 4}
    Faults = {"open", "tables", "save", "clock"}
    Sizes = {0, 2000}
    Remains = {"garbage"}
    Bounds <- TheBounds
    None = None
\* Without a file load_config waits for itself.
CHECK_DEADLOCK FALSE
INVARIANTS
    TypeOK
    LoadAllOrNothing
    SaveRoundTrips
    KeptForRetention
    SnapshotsInOrder
    LatestIsNewest
    FigureIsTrue
