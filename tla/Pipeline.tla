------------------------------ MODULE Pipeline ------------------------------
(* From the exchange to the signal: the collector fetches candles, stores them
   and announces them on `hydra:candle:new`; the indicator, the regime and the
   strategy engine all listen to that one channel and hand their results to each
   other through Redis keys.  A result is abstracted to the revision of the
   newest candle it was computed from.

   An action is the code between two awaits of one process. *)
EXTENDS CandleStore, Sequences

CONSTANTS
    Key,        \* (market, symbol, timeframe) triples of config/data.yaml
    Collected,  \* those on an active market that ccxt serves
    MinCandles, \* _MIN_CANDLES = 210
    Window,     \* limit=250 of the indicator engine
    FetchLimit, \* limit=500 of fetch_ohlcv
    Revisions,  \* revisions of a candle until it closes, one per tick
    FirstTick, LastTick,             \* when the model begins and when time stops
    MaxQueue, MaxFaults              \* bounds of the model

ASSUME PipelineAssumption ==
    /\ Collected \subseteq Key
    /\ {MinCandles, Window, FetchLimit, Revisions, MaxQueue} \subseteq Nat \ {0}
    /\ MinCandles <= Window /\ Window <= FetchLimit
    /\ {FirstTick, LastTick, MaxFaults} \subseteq Nat /\ FirstTick <= LastTick

VARIABLES
    now,        \* the exchange's clock; also the revision of its newest candle
    task,       \* task[k]: where _fetch_and_store of k is suspended
    table,      \* table[k]: open time |-> tick of the stored revision
    indicator,  \* hydra:indicator:k, the revision it includes, or None
    regime,     \* hydra:regime:k, the same
    signal,     \* hydra:signal:k, the revisions of its indicator and its regime
    mode,       \* mode[e]: what engine e is doing
    todo,       \* todo[e]: keys its cold start still has to handle
    inbox,      \* inbox[e]: messages its subscription has not handled
    hand,       \* hand[e]: the event being handled and what was read for it
    faults,     \* failures so far
    announced,  \* history: what the last three announcements of k announced
    calm        \* history: announcements of k since the last failure that found
                \* the previous one handled, at most 3

vars == <<now, task, table, indicator, regime, signal, mode, todo, inbox,
          hand, faults, announced, calm>>
marketVars == <<now, task, table, announced>>
engineVars == <<mode, todo, inbox, hand>>
cacheVars  == <<indicator, regime, signal>>

Engine == {"indicator", "regime", "strategy"}
None   == -1
Revision == 0 .. LastTick
Idle   == [key |-> "none"]
Handling == [key : Key, step : {"read", "read2", "write"},
             ind : Revision \cup {None}, reg : Revision \cup {None}]

Busy(e) == hand[e] # Idle
\* Engine e listens and has handled all it was told about k.
Settled(e, k) ==
    /\ mode[e] = "listen" /\ hand[e].key # k
    /\ \A i \in 1 .. Len(inbox[e]) : inbox[e][i] # k
-----------------------------------------------------------------------------
(* What is computed of what. *)

\* IndicatorCalculator.compute: nothing of fewer than MinCandles candles, else
\* values that include the newest candle of the window.
compute(window) ==
    IF Cardinality(DOMAIN window) < MinCandles THEN None ELSE window[Newest(window)]

Computed(k) == compute(query(table[k], 0, Window))

\* fetch_ohlcv(since=None, limit=FetchLimit): the last candles as they are now.
fetch_ohlcv ==
    LET last == now \div Revisions
        Closing(t) == t * Revisions + Revisions - 1
    IN [t \in {u \in 0 .. last : u > last - FetchLimit} |->
            IF now < Closing(t) THEN now ELSE Closing(t)]
-----------------------------------------------------------------------------
(* The collector. *)

Tick ==
    /\ now < LastTick
    /\ now' = now + 1
    /\ UNCHANGED <<task, table, announced, calm, faults>>
    /\ UNCHANGED <<engineVars, cacheVars>>

\* One round of collect_once: a task for every symbol of an active market that
\* ccxt knows; the next round begins when all have returned (gather).
collect_once ==
    /\ \A k \in Key : task[k] = "idle"
    /\ task' = [k \in Key |-> IF k \in Collected THEN "fetch" ELSE "idle"]
    /\ UNCHANGED <<now, table, announced, calm, faults>>
    /\ UNCHANGED <<engineVars, cacheVars>>

\* Fetch, then upsert.  One action: nobody else writes the table or sees the
\* candles in between, so a fetch that is old when stored is an early one.
Stored(k) ==
    /\ task[k] = "fetch"
    /\ task' = [task EXCEPT ![k] = "publish"]
    /\ table' = [table EXCEPT ![k] = upsert(@, fetch_ohlcv)]
    /\ UNCHANGED <<now, announced, calm, faults, engineVars, cacheVars>>

\* What a publish does: every subscriber of the moment gets the message.
Deliver(k) ==
    /\ \A e \in Engine : Len(inbox[e]) < MaxQueue
    /\ inbox' = [e \in Engine |-> IF mode[e] = "listen" THEN Append(inbox[e], k)
                                                       ELSE inbox[e]]
    /\ announced' = [announced EXCEPT ![k] = Append(Tail(@), Computed(k))]
    /\ calm' = [calm EXCEPT ![k] =
                   IF \A e \in Engine : Settled(e, k) THEN (IF @ < 3 THEN @ + 1 ELSE 3)
                   ELSE IF \A e \in Engine : mode[e] = "listen" THEN 1 ELSE 0]

\* slip: announce only a candle that has not been announced yet
PublishedIfNew(k) ==
    /\ task[k] = "publish"
    /\ task' = [task EXCEPT ![k] = "idle"]
    /\ IF announced[k][3] = Computed(k) THEN UNCHANGED <<inbox, announced, calm>>
                                        ELSE Deliver(k)
    /\ UNCHANGED <<now, table, faults, mode, todo, hand, cacheVars>>

\* The announcement follows every upsert, whether or not it brought news.
Published(k) ==
    /\ task[k] = "publish"
    /\ task' = [task EXCEPT ![k] = "idle"]
    /\ Deliver(k)
    /\ UNCHANGED <<now, table, faults, mode, todo, hand, cacheVars>>

\* The exchange answers nothing, or one of the awaits raises: this task
\* ends, the others go on.
TaskFails(k) ==
    /\ task[k] # "idle" /\ faults < MaxFaults
    /\ task' = [task EXCEPT ![k] = "idle"]
    /\ faults' = faults + 1
    /\ calm' = [calm EXCEPT ![k] = 0]
    /\ UNCHANGED <<now, table, announced, engineVars, cacheVars>>

_fetch_and_store(k) == Stored(k) \/ Published(k) \/ TaskFails(k)
-----------------------------------------------------------------------------
(* What the three engines have in common: main, cold_start and run. *)

\* The keys a cold start handles: those with candles, or those with an indicator.
ColdKeys(e) == IF e = "indicator" THEN get_symbols(table)
                                  ELSE {k \in Key : indicator[k] # None}

Begin(e, k) == hand' = [hand EXCEPT ![e] =
                          [key |-> k, step |-> "read", ind |-> None, reg |-> None]]
Finish(e) == hand' = [hand EXCEPT ![e] = Idle]

StartCold(e) ==
    /\ mode[e] = "start"
    /\ mode' = [mode EXCEPT ![e] = "cold"]
    /\ todo' = [todo EXCEPT ![e] = ColdKeys(e)]
    /\ UNCHANGED <<marketVars, calm, faults, inbox, hand, cacheVars>>

NextCold(e) ==
    /\ mode[e] = "cold" /\ ~Busy(e)
    /\ \E k \in todo[e] : Begin(e, k) /\ todo' = [todo EXCEPT ![e] = @ \ {k}]
    /\ UNCHANGED <<marketVars, calm, faults, mode, inbox, cacheVars>>

\* Subscribed only after the cold start; what was announced before is missed.
Subscribe(e) ==
    /\ \/ mode[e] = "cold" /\ todo[e] = {} /\ ~Busy(e)
       \/ mode[e] = "away"
    /\ mode' = [mode EXCEPT ![e] = "listen"]
    /\ UNCHANGED <<marketVars, calm, faults, todo, inbox, hand, cacheVars>>

Receive(e) ==
    /\ mode[e] = "listen" /\ ~Busy(e) /\ inbox[e] # <<>>
    /\ Begin(e, Head(inbox[e]))
    /\ inbox' = [inbox EXCEPT ![e] = Tail(@)]
    /\ UNCHANGED <<marketVars, calm, faults, mode, todo, cacheVars>>

\* listen() raises: what was not handled is lost, the loop subscribes again in
\* 5 s, without another cold start.
Disconnect(e) ==
    /\ mode[e] = "listen" /\ ~Busy(e) /\ faults < MaxFaults
    /\ mode' = [mode EXCEPT ![e] = "away"]
    /\ inbox' = [inbox EXCEPT ![e] = <<>>]
    /\ faults' = faults + 1
    /\ calm' = [k \in Key |-> 0]
    /\ UNCHANGED <<marketVars, todo, hand, cacheVars>>

\* _handle_event catches whatever it meets: the event is dropped.
HandlerFails(e) ==
    /\ Busy(e) /\ faults < MaxFaults
    /\ Finish(e)
    /\ faults' = faults + 1
    /\ calm' = [k \in Key |-> 0]
    /\ UNCHANGED <<marketVars, mode, todo, inbox, cacheVars>>

\* slip: what it was handling survives the restart
RestartInHand(e) ==
    /\ mode[e] # "start" /\ faults < MaxFaults
    /\ mode' = [mode EXCEPT ![e] = "start"]
    /\ todo' = [todo EXCEPT ![e] = {}]
    /\ inbox' = [inbox EXCEPT ![e] = <<>>]
    /\ faults' = faults + 1
    /\ calm' = [k \in Key |-> 0]
    /\ UNCHANGED <<marketVars, hand, cacheVars>>

\* The process dies and is started again by the container's restart policy.
Restart(e) ==
    /\ mode[e] # "start" /\ faults < MaxFaults
    /\ mode' = [mode EXCEPT ![e] = "start"]
    /\ todo' = [todo EXCEPT ![e] = {}]
    /\ inbox' = [inbox EXCEPT ![e] = <<>>]
    /\ Finish(e)
    /\ faults' = faults + 1
    /\ calm' = [k \in Key |-> 0]
    /\ UNCHANGED <<marketVars, cacheVars>>

cold_start(e) == StartCold(e) \/ NextCold(e)
run(e) == Subscribe(e) \/ Receive(e) \/ Disconnect(e)
-----------------------------------------------------------------------------
(* The three handlers. *)

At(e, step) == Busy(e) /\ hand[e].step = step
HandlerFrame == UNCHANGED <<marketVars, calm, faults, mode, todo, inbox>>

\* IndicatorEngine._handle_event: query, compute, and set if there is a result.
IndicatorReads ==
    LET e == "indicator"
        new == Computed(hand[e].key)
    IN /\ At(e, "read")
       /\ IF new = None THEN Finish(e)
          ELSE hand' = [hand EXCEPT ![e].step = "write", ![e].ind = new]
       /\ UNCHANGED cacheVars /\ HandlerFrame

IndicatorWrites ==
    LET e == "indicator" IN
    /\ At(e, "write")
    /\ indicator' = [indicator EXCEPT ![hand[e].key] = hand[e].ind]
    /\ Finish(e)
    /\ UNCHANGED <<regime, signal>> /\ HandlerFrame

\* RegimeEngine._handle_event: a regime of the indicator cached at the moment.
RegimeReads ==
    LET e == "regime"
        cached == indicator[hand[e].key]
    IN /\ At(e, "read")
       /\ IF cached = None THEN Finish(e)
          ELSE hand' = [hand EXCEPT ![e].step = "write", ![e].ind = cached]
       /\ UNCHANGED cacheVars /\ HandlerFrame

\* slip: a regime that is cached is kept
RegimeWritesOnce ==
    LET e == "regime" IN
    /\ At(e, "write")
    /\ regime' = [regime EXCEPT ![hand[e].key] = IF @ = None THEN hand[e].ind ELSE @]
    /\ Finish(e)
    /\ UNCHANGED <<indicator, signal>> /\ HandlerFrame

RegimeWrites ==
    LET e == "regime" IN
    /\ At(e, "write")
    /\ regime' = [regime EXCEPT ![hand[e].key] = hand[e].ind]
    /\ Finish(e)
    /\ UNCHANGED <<indicator, signal>> /\ HandlerFrame

\* StrategyEngine._handle_event reads the indicator, and after another await the
\* regime: the two may stem from different candles.
StrategyReadsIndicator ==
    LET e == "strategy"
        cached == indicator[hand[e].key]
    IN /\ At(e, "read")
       /\ IF cached = None THEN Finish(e)
          ELSE hand' = [hand EXCEPT ![e].step = "read2", ![e].ind = cached]
       /\ UNCHANGED cacheVars /\ HandlerFrame

StrategyReadsRegime ==
    LET e == "strategy"
        cached == regime[hand[e].key]
    IN /\ At(e, "read2")
       /\ IF cached = None THEN Finish(e)
          ELSE hand' = [hand EXCEPT ![e].step = "write", ![e].reg = cached]
       /\ UNCHANGED cacheVars /\ HandlerFrame

\* With STRATEGY_DRY_RUN=false an order would follow.  None ever does: the risk
\* engine, made for a synchronous client, raises on the asynchronous one it gets.
StrategyWrites ==
    LET e == "strategy" IN
    /\ At(e, "write")
    /\ signal' = [signal EXCEPT ![hand[e].key] =
                     [ind |-> hand[e].ind, reg |-> hand[e].reg]]
    /\ Finish(e)
    /\ UNCHANGED <<indicator, regime>> /\ HandlerFrame

IndicatorHandles == IndicatorReads \/ IndicatorWrites \/ HandlerFails("indicator")
RegimeHandles    == RegimeReads \/ RegimeWrites \/ HandlerFails("regime")
StrategyHandles  == StrategyReadsIndicator \/ StrategyReadsRegime \/ StrategyWrites
                    \/ HandlerFails("strategy")

IndicatorMain == cold_start("indicator") \/ run("indicator") \/ Restart("indicator")
RegimeMain    == cold_start("regime") \/ run("regime") \/ Restart("regime")
StrategyMain  == cold_start("strategy") \/ run("strategy") \/ Restart("strategy")
-----------------------------------------------------------------------------
\* Nothing stored yet and the engines, whose cold starts found nothing, listen.
Init ==
    /\ now = FirstTick
    /\ task = [k \in Key |-> "idle"]
    /\ table = [k \in Key |-> NoRows]
    /\ indicator = [k \in Key |-> None] /\ regime = [k \in Key |-> None]
    /\ signal = [k \in Key |-> [ind |-> None, reg |-> None]]
    /\ mode = [e \in Engine |-> "listen"] /\ todo = [e \in Engine |-> {}]
    /\ inbox = [e \in Engine |-> <<>>] /\ hand = [e \in Engine |-> Idle]
    /\ faults = 0
    /\ announced = [k \in Key |-> <<None, None, None>>] /\ calm = [k \in Key |-> 0]

Next ==
    \/ Tick \/ collect_once \/ \E k \in Key : _fetch_and_store(k)
    \/ IndicatorMain \/ IndicatorHandles
    \/ RegimeMain \/ RegimeHandles
    \/ StrategyMain \/ StrategyHandles

Spec == Init /\ [][Next]_vars

(* The collector polls for ever; a task that can go on does (15 s timeouts); an
   engine handles what it has.  Failures are not forced, and are finitely many. *)
EngineStep(e) == StartCold(e) \/ NextCold(e) \/ Subscribe(e) \/ Receive(e)
FairSpec ==
    /\ Spec /\ WF_vars(collect_once)
    /\ \A k \in Key : WF_vars(Stored(k) \/ Published(k))
    /\ \A e \in Engine : WF_vars(EngineStep(e))
    /\ WF_vars(IndicatorReads \/ IndicatorWrites)
    /\ WF_vars(RegimeReads \/ RegimeWrites)
    /\ WF_vars(StrategyReadsIndicator \/ StrategyReadsRegime \/ StrategyWrites)
-----------------------------------------------------------------------------
PipelineTypeOK ==
    /\ now \in Revision
    /\ \A k \in Key :
        /\ task[k] \in {"idle", "fetch", "publish"}
        /\ \A t \in DOMAIN table[k] : table[k][t] \in Revision
        /\ {indicator[k], regime[k], signal[k].ind, signal[k].reg}
               \subseteq Revision \cup {None}
    /\ \A e \in Engine :
        /\ mode[e] \in {"start", "cold", "listen", "away"}
        /\ todo[e] \subseteq Key /\ Len(inbox[e]) <= MaxQueue
        /\ hand[e] \in Handling \cup {Idle}
        /\ Busy(e) => mode[e] \in {"cold", "listen"}

(* The engines race on every announcement and the strategy may read what the
   other two have not rewritten yet, but no more than this: once the
   announcements of k are handled, the indicator is as new as the last one, the
   regime and the indicator of a signal as the one before, and the signal's
   regime as the one before that; so there is a signal after three. *)
BoundedLag ==
    \A k \in Key : (\A e \in Engine : Settled(e, k)) =>
        /\ calm[k] >= 1 => indicator[k] >= announced[k][3]
        /\ calm[k] >= 2 => /\ regime[k] >= announced[k][2]
                           /\ signal[k].ind \in {None} \cup announced[k][2] .. LastTick
        /\ calm[k] >= 3 => signal[k].reg >= announced[k][1]

(* When the market pauses and failures end, the signal catches up: both its parts
   include the newest candle of the window, however events were lost before,
   because every poll announces again. *)
SignalCatchesUp ==
    \A k \in Collected :
        <>[](Computed(k) # None => signal[k] = [ind |-> Computed(k), reg |-> Computed(k)])

(* docs/API_REFERENCE_KO.md, of GET /regime: it returns the classification of the
   current market.  So, when the market pauses and failures end, the regime of a
   symbol that has one should come to include its newest candle, as now stored. *)
RegimeBecomesCurrent ==
    \A k \in Collected :
        <>[](regime[k] # None => regime[k] = table[k][Newest(table[k])])
=============================================================================
