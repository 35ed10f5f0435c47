\* The threads at work, interrupted by a signal anywhere.
SPECIFICATION Spec
CONSTANTS
    btc = btc
    Symbols = {btc}
    FeedSymbols <- OneFeedSymbol
    HealthSymbol = btc
    ConfigFiles = {"present"}
    Services = {"feed"}
    Bounds <- TradesOrSignal
    MaxStops = 2
    None = None
\* The process ends.
CHECK_DEADLOCK FALSE
INVARIANTS
    TypeOK
    NoDeadlock
    TapeInOrder
    ServicesJoined
