\* submit() with everything that can go wrong around it.  A tick is 5 s:
\* LOCK_TIMEOUT = 10 s, a connector's subprocess may run 15 s.
SPECIFICATION Spec
CONSTANTS
    p1 = p1  p2 = p2  k1 = k1  k2 = k2  btc = btc  eth = eth
    upbit = upbit  binance = binance
    Caller = {p1, p2}
    Key = {k1, k2}
    Instrument = {btc, eth}
    Market = {upbit, binance}
    MarketOf <- MCMarketOf
    FuturesMarket = {binance}
    Connected = {binance}
    OneAtATime = {binance}
    FuturesMode = {binance}
    Request <- MCRequest
    NoRequest = NoRequest
    DailyPnl <- MCDailyPnl
    LockTimeout = 2
    CallTimeout = 3
    MaxOrders = 2
    Faults = {"crash", "lost_reply"}
    DailyLossLimit = 30
    DailyLossKill = 50
    MaxPosition = 200
SYMMETRY Callers
INVARIANTS TypeOK LateOrdersWereInFlight AnswersSound AnsweredIsCached ExclusiveUntilLapse
    RepeatsExplained
PROPERTIES ImplementsGate
