\* One symbol, nothing fails, and the market goes on for more candles than the
\* window takes.
SPECIFICATION FairSpec
CONSTANTS
    btc = btc
    Key = {btc}
    Collected = {btc}
    MinCandles = 2
    Window = 2
    FetchLimit = 3
    Revisions = 1
    FirstTick = 0
    LastTick = 3
    MaxQueue = 1
    MaxFaults = 0
CHECK_DEADLOCK FALSE
PROPERTIES RegimeBecomesCurrent
