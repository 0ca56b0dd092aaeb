\* One execution, every call may fail, the tracker may lag, crashes in between.
SPECIFICATION FairKillSpec
CONSTANTS
    x1 = x1  x2 = x2  btc = btc  eth = eth  upbit = upbit  binance = binance
    Killer = {x1}
    Instrument = {btc, eth}
    Market = {upbit, binance}
    MarketOf <- MCMarketOf
    Connected = {upbit, binance}
    Holding <- MCHolding
INVARIANTS NothingSkipped SuccessMeansClosed
PROPERTIES KillEnds KillOnlyReduces
