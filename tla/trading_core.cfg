\* The same order by two coroutines, one of them a retry, around one kill: calls
\* wait, fail and lose their replies, locks lapse under them, the process crashes
\* and is shut down.
SPECIFICATION CoreSpec
CONSTANTS
    p1 = p1  p2 = p2  k1 = k1  x1 = x1  eth = eth  binance = binance
    Caller = {p1, p2}
    Key = {k1}
    Instrument = {eth}
    Market = {binance}
    MarketOf <- MCMarketOf
    FuturesMarket = {binance}
    Connected = {binance}
    OneAtATime = {binance}
    FuturesMode = {}
    Request <- MCRequest
    NoRequest = NoRequest
    DailyPnl <- MCDailyPnl
    LockTimeout = 1
    CallTimeout = 1
    MaxOrders = 2
    Faults = {"crash", "lost_reply"}
    DailyLossLimit = 30
    DailyLossKill = 50
    MaxPosition = 200
    Killer = {x1}
    Holding <- MCHolding
SYMMETRY Callers
INVARIANTS CoreTypeOK OnlyStragglersRest KillFlattens
PROPERTIES ShutdownQuiesces CoreKillOnlyReduces
