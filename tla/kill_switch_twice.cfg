\* Two executions close the same positions.
SPECIFICATION KillSpec
CONSTANTS
    x1 = x1  x2 = x2  btc = btc  eth = eth  upbit = upbit  binance = binance
    Killer = {x1, x2}
    Instrument = {btc, eth}
    Market = {upbit, binance}
    MarketOf <- MCMarketOf
    Connected = {upbit, binance}
    Holding <- MCHolding
PROPERTIES KillOnlyReduces
