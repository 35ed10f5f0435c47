\* Without a configuration file load_config waits for itself.
SPECIFICATION Spec
CONSTANTS
    btc = btc
    Symbols = {btc}
    FeedSymbols <- OneFeedSymbol
    HealthSymbol = btc
    ConfigFiles = {"missing"}
    Services = {"health"}
    Bounds <- OneSignal
    MaxStops = 2
    None = None
\* The process ends.
CHECK_DEADLOCK FALSE
PROPERTIES
    ComesUp
