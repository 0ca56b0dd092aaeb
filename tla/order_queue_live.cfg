\* Every submission ends and every lock comes free, whatever crashes or fails.
SPECIFICATION FairSpec
CONSTANTS
    p1 = p1  p2 = p2  k1 = k1  k2 = k2  btc = btc  eth = eth
    upbit = upbit  binance = binance
    Caller = {p1, p2}
    Key = {k1, k2}
    Instrument = {btc, eth}
    Market = {upbit, binance}
    MarketOf <- MCMarketOf
    FuturesMarket = {binance}
    Connected = {binance}
    OneAtATime = {binance}
    FuturesMode = {binance}
    Request <- MCRequestContested
    NoRequest = NoRequest
    DailyPnl = {0}
    LockTimeout = 2
    CallTimeout = 3
    MaxOrders = 1
    Faults = {"crash", "lost_reply", "idem_ttl"}
    DailyLossLimit = 30
    DailyLossKill = 50
    MaxPosition = 200
PROPERTIES EverySubmitReturns LocksComeFree
