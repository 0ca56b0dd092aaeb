\* One component at a time: a backtest over every history of seven candles, the
\* watchdog's runs with two that die, two commands to two markets by a worker
\* and two command lines, the bridge, the pollers, the PnL keys, the rate limiter
\* and the circuit breaker.  A backtest ends, and so does the log of trades.
SPECIFICATION Spec
CONSTANTS
    nan = nan  w1 = w1  c1 = c1  c2 = c2  kr = kr  upbit = upbit  btc = btc  hl_btc = hl_btc
    t1 = t1  t2 = t2
    Missing = nan
    Price = {1, 2, 4}
    History <- MCHistory
    RequestTime = {0, 3, 4, 7}
    Compute <- MCCompute
    Warmup = 2
    QueryLimit = 6
    InitialCapital = 3
    TradeAmount = 8
    CommissionRate = 10
    MaxFailures = 3
    MaxDeaths = 2
    Market = {kr, upbit}
    KisMarket = {kr}
    Worker = {w1}
    Command = {c1, c2}
    MaxCommands = 2
    Ttl = 2
    MaxRevision = 2
    Symbol = {btc, hl_btc}
    Served = {btc}
    BaseOf <- MCBaseOf
    MaxNews = 2
    MaxFailed = 2
    Amount = {2, 3}
    LastDay = 1
    MaxEntries = 3
    Task = {t1, t2}
    Tokens = {1, 3, 4}
    Rate = 2
    Capacity = 3
    MaxIdle = 3
    Thread = {t1, t2}
    FailMax = 3
    ResetTimeout = 2
CHECK_DEADLOCK FALSE
INVARIANTS
    EquityReconciles ReportAddsUp NoLookAhead TradesInOrder DrawdownIsWorst
    SuccessIsTrue CommandsSurvive SnapshotIsCausal
    AnalysisFresh SummaryInOrder GrantedWithinRate
PROPERTIES
    KillIsEarned SlowHostIsKilled DisabledStaysOut PollersRecoverHere
    AcquireReturns RefusedOnlyWhileFailing
