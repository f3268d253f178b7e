SPECIFICATION MarketSpec
CONSTANTS
    a = a
    b = b
    Products = {a, b}
    Blank = Blank
    Misspelt = Misspelt
    Configs <- MCConfigs
    HandshakeTimeout = 2
    ReadDeadline = 3
    InitialReconnect = 1
    MaxReconnect = 3
    MaxQuotes = 1
    MaxFaults = 2
    NoQuote = NoQuote
    Tickers <- MCTickers
    Manuals <- MCManuals
    Bodies <- MCBodies
    Volumes <- MCVolumes
    LiquidityShare <- MCLiquidityShare
    NoTicker = NoTicker
INVARIANTS
    StopsInTime
    Monotone
PROPERTIES
    CatchesUp
CHECK_DEADLOCK FALSE
