\* One symbol.  The market moves once and stops before there are more candles than
\* the window takes; one thing fails: a fetch, a handler, a connection or a process.
\* The exchange's clock stops, the polling goes on.
SPECIFICATION FairSpec
CONSTANTS
    btc = btc
    Key = {btc}
    Collected = {btc}
    MinCandles = 2
    Window = 3
    FetchLimit = 3
    Revisions = 2
    FirstTick = 2
    LastTick = 3
    MaxQueue = 1
    MaxFaults = 1
CHECK_DEADLOCK FALSE
INVARIANTS PipelineTypeOK BoundedLag
PROPERTIES SignalCatchesUp
