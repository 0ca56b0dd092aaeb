\* A client retries, with its key, a submission that failed.
SPECIFICATION Spec
CONSTANTS
    p1 = p1  p2 = p2  k1 = k1  k2 = k2  btc = btc  eth = eth
    upbit = upbit  binance = binance
    Caller = {p1, p2}
    Key = {k1, k2}
    Instrument = {btc, eth}
    Market = {upbit, binance}
    MarketOf <- MCMarketOf
    FuturesMarket = {binance}
    Connected = {binance}
    OneAtATime = {binance}
    FuturesMode = {binance}
    Request <- MCRequestDisciplined
    NoRequest = NoRequest
    DailyPnl <- MCDailyPnl
    LockTimeout = 2
    CallTimeout = 3
    MaxOrders = 2
    Faults = {"lost_reply"}
    DailyLossLimit = 30
    DailyLossKill = 50
    MaxPosition = 200
INVARIANTS OneOrderPerKey
