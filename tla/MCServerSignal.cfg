\* A signal that interrupts a thread holding a mutex is never done with.
SPECIFICATION Spec
CONSTANTS
    btc = btc
    Symbols = {btc}
    FeedSymbols <- OneFeedSymbol
    HealthSymbol = btc
    ConfigFiles = {"present"}
    Services = {"health"}
    Bounds <- OneSignal
    MaxStops = 2
    None = None
\* The process ends.
CHECK_DEADLOCK FALSE
PROPERTIES
    StopsOnSignal
