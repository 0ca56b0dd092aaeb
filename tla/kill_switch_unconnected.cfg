\* A position on a market that has no connector.
SPECIFICATION KillSpec
CONSTANTS
    x1 = x1  x2 = x2  btc = btc  eth = eth  upbit = upbit  binance = binance
    Killer = {x1, x2}
    Instrument = {btc, eth}
    Market = {upbit, binance}
    MarketOf <- MCMarketOf
    Connected = {binance}
    Holding <- MCHolding
INVARIANTS SuccessMeansClosed
