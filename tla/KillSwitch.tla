----------------------------- MODULE KillSwitch -----------------------------
(***************************************************************************)
(* hydra/core/kill_switch.py: KillSwitch.execute, with the position rows   *)
(* of hydra/core/position_tracker.py that it reads.  Executions come from  *)
(* POST /killswitch (dashboard, CLI, watchdog, n8n) and overlap freely.    *)
(* execute() awaits each connector call and the Telegram message; between  *)
(* two awaits it runs alone.  Positions are signed integers, long above 0. *)
(* The exchanges move at any time: an order that was on its way when the   *)
(* flag was set may still land, and one that rests may fill.               *)
(***************************************************************************)
EXTENDS Integers, Sequences, FiniteSets

CONSTANTS
    Killer,      \* executions of the kill switch
    Instrument,  \* (market, symbol) pairs
    Market,
    MarketOf,    \* [Instrument -> Market]
    Connected,   \* the keys of KillSwitch._exchanges
    Holding      \* [Instrument -> the positions that trading may lead to]

ASSUME KillAssumption ==
    /\ MarketOf \in [Instrument -> Market]
    /\ Connected \subseteq Market
    /\ Holding \in [Instrument -> SUBSET Int]

VARIABLES
    killFlag,  \* hydra:kill_switch_active
    tracked,   \* [Instrument -> position in hydra:positions:*, 0 when no row]
    exec,      \* [Killer -> the local state of its execute()]
    real,      \* [Instrument -> position really held]
    resting,   \* instruments with an order, of either side, that rests
    late       \* history: instruments that got an order after the flag was set

account == <<real, resting, late>>
killVars == <<killFlag, tracked, exec, account>>

Execution == [stage: {"idle", "cancel", "close", "notify", "done", "lost"},
              toCancel: SUBSET Market, toClose: SUBSET Instrument,
              qty: [Instrument -> Int], held: [Instrument -> Int],
              closed: SUBSET Instrument,
              errors: SUBSET (Market \cup Instrument)]

KillTypeOK ==
    /\ killFlag \in BOOLEAN
    /\ tracked \in [Instrument -> Int]
    /\ exec \in [Killer -> Execution]
    /\ real \in [Instrument -> Int]
    /\ resting \in SUBSET Instrument
    /\ late \in SUBSET Instrument

Flat == [i \in Instrument |-> 0]

NotStarted == [stage |-> "idle", toCancel |-> {}, toClose |-> {}, qty |-> Flat,
               held |-> Flat, closed |-> {}, errors |-> {}]

KillInit ==
    /\ killFlag = FALSE
    /\ tracked = Flat
    /\ exec = [k \in Killer |-> NotStarted]
    /\ real = Flat
    /\ resting = {}
    /\ late = {}

-----------------------------------------------------------------------------
(* What runs between two awaits. *)

(* When the last cancel_all has ended the positions are read, once; a position
   whose market has no connector is skipped without a word.  `held` records
   what was really held then. *)
ToClose == {i \in Instrument : tracked[i] # 0 /\ MarketOf[i] \in Connected}

\* slip: the positions are read before the orders are cancelled
ReadsFirst(e) ==
    LET read == IF e.stage = "cancel" /\ e.toCancel = Connected
                THEN [e EXCEPT !.qty = tracked, !.held = real]
                ELSE e
        f == IF read.stage = "cancel" /\ read.toCancel = {}
             THEN [read EXCEPT !.stage = "close",
                               !.toClose = {i \in Instrument : read.qty[i] # 0 /\
                                               MarketOf[i] \in Connected}]
             ELSE read
    IN IF f.stage = "close" /\ f.toClose = {} THEN [f EXCEPT !.stage = "notify"] ELSE f

Advance(e) ==
    LET f == IF e.stage = "cancel" /\ e.toCancel = {}
             THEN [e EXCEPT !.stage = "close", !.toClose = ToClose,
                            !.qty = tracked, !.held = real]
             ELSE e
    IN IF f.stage = "close" /\ f.toClose = {} THEN [f EXCEPT !.stage = "notify"] ELSE f

(* A call that worked: go on with the next one. *)
Canceled(e, m) == Advance([e EXCEPT !.toCancel = @ \ {m}])
Closed(e, i) == Advance([e EXCEPT !.toClose = @ \ {i}, !.closed = @ \cup {i}])

(* The except clauses: note the error and go on with the next one. *)
\* slip: wait for all of them to succeed
WaitForAll(e, m) == [e EXCEPT !.toCancel = @ \ {m}, !.errors = @ \cup {m}]
\* slip: the first exception ends the loop
AbortCancels(e, m) == Advance([e EXCEPT !.toCancel = {}, !.errors = @ \cup {m}])
CancelErred(e, m) == Advance([e EXCEPT !.toCancel = @ \ {m}, !.errors = @ \cup {m}])

\* slip: the error is not recorded
UncountedClose(e, i) == Advance([e EXCEPT !.toClose = @ \ {i}])
CloseErred(e, i) == Advance([e EXCEPT !.toClose = @ \ {i}, !.errors = @ \cup {i}])

CanceledOn(m) == {i \in resting : MarketOf[i] # m}

(* A market order for the tracked quantity, to the other side. *)
\* slip: the position's own side
DoubledUp(i, q) == [real EXCEPT ![i] = @ + q]
ClosedOut(i, q) == [real EXCEPT ![i] = @ - q]

-----------------------------------------------------------------------------
Start(k) ==
    /\ exec[k].stage = "idle"
    /\ killFlag' = TRUE
    /\ exec' = [exec EXCEPT ![k] =
                   Advance([NotStarted EXCEPT !.stage = "cancel", !.toCancel = Connected])]
    /\ UNCHANGED <<tracked, account>>

CancelDone(k, m) ==
    /\ exec[k].stage = "cancel" /\ m \in exec[k].toCancel
    /\ resting' = CanceledOn(m)
    /\ exec' = [exec EXCEPT ![k] = Canceled(@, m)]
    /\ UNCHANGED <<killFlag, tracked, real, late>>

(* cancel_all raised: before the exchange acted, or after. *)
CancelFailed(k, m) ==
    /\ exec[k].stage = "cancel" /\ m \in exec[k].toCancel
    /\ resting' \in {resting, CanceledOn(m)}
    /\ exec' = [exec EXCEPT ![k] = CancelErred(@, m)]
    /\ UNCHANGED <<killFlag, tracked, real, late>>

CloseDone(k, i) ==
    /\ exec[k].stage = "close" /\ i \in exec[k].toClose
    /\ real' = ClosedOut(i, exec[k].qty[i])
    /\ exec' = [exec EXCEPT ![k] = Closed(@, i)]
    /\ UNCHANGED <<killFlag, tracked, resting, late>>

CloseFailed(k, i) ==
    /\ exec[k].stage = "close" /\ i \in exec[k].toClose
    /\ real' \in {real, ClosedOut(i, exec[k].qty[i])}
    /\ exec' = [exec EXCEPT ![k] = CloseErred(@, i)]
    /\ UNCHANGED <<killFlag, tracked, resting, late>>

(* The Telegram message was sent or its failure logged; execute() returns. *)
Notified(k) ==
    /\ exec[k].stage = "notify"
    /\ exec' = [exec EXCEPT ![k].stage = "done"]
    /\ UNCHANGED <<killFlag, tracked, account>>

-----------------------------------------------------------------------------
(* Around execute(). *)

Running(k) == exec[k].stage \in {"cancel", "close", "notify"}

(* PositionTracker.update or clear, called by whoever follows the fills. *)
Track(i) ==
    /\ tracked' = [tracked EXCEPT ![i] = real[i]]
    /\ UNCHANGED <<killFlag, exec, account>>

Moves(i, d) ==
    /\ real[i] + d \in Holding[i]
    /\ real' = [real EXCEPT ![i] = @ + d]

(* An order reaches the exchange and fills, or rests there. *)
Lands(i, d) ==
    /\ \/ Moves(i, d) /\ UNCHANGED resting
       \/ resting' = resting \cup {i} /\ UNCHANGED real
    /\ UNCHANGED <<killFlag, tracked, exec>>

(* submit() reads the flag before it calls the exchange: after the flag is set
   orders still land. *)
Trade(i, d) ==
    /\ Lands(i, d)
    /\ late' = IF killFlag THEN late \cup {i} ELSE late

(* An order that rests fills; it may have been the last one of its instrument. *)
Fills(i, d) ==
    /\ i \in resting /\ Moves(i, d)
    /\ resting' \in {resting, resting \ {i}}
    /\ UNCHANGED <<killFlag, tracked, exec, late>>

(* The process dies: executions are lost, Redis and the account are not. *)
Die ==
    /\ exec' = [k \in Killer |->
                   IF Running(k) THEN [exec[k] EXCEPT !.stage = "lost"] ELSE exec[k]]
    /\ UNCHANGED <<killFlag, tracked, account>>

ExecuteStep(k) ==
    \/ \E m \in Market : CancelDone(k, m) \/ CancelFailed(k, m)
    \/ \E i \in Instrument : CloseDone(k, i) \/ CloseFailed(k, i)
    \/ Notified(k)

KillNext ==
    \/ \E k \in Killer : Start(k) \/ ExecuteStep(k)
    \/ \E i \in Instrument :
           Track(i) \/ \E d \in {-1, 1} : Trade(i, d) \/ Fills(i, d)
    \/ Die

KillSpec == KillInit /\ [][KillNext]_killVars

(* Every connector call ends and so does the Telegram call; no more is assumed. *)
FairKillSpec == KillSpec /\ \A k \in Killer : WF_killVars(ExecuteStep(k))

-----------------------------------------------------------------------------
(* Properties. *)

Success(k) == exec[k].stage = "done" /\ exec[k].errors = {}
Reachable(i) == MarketOf[i] \in Connected

(* One exchange that fails keeps no other from being cleared: when an
   execution is through, nothing rests at a connected exchange but where orders
   landed late, unless its cancel_all is among the errors; and every position it
   read whose market is connected was either closed or is among the errors. *)
NothingSkipped ==
    \A k \in Killer : exec[k].stage \in {"notify", "done"} =>
        /\ \A i \in resting \ late : Reachable(i) => MarketOf[i] \in exec[k].errors
        /\ \A i \in Instrument : exec[k].qty[i] # 0 /\ Reachable(i) =>
               i \in exec[k].closed \cup exec[k].errors

(* A kill switch that reports success has closed every position it knew of. *)
SuccessMeansClosed ==
    \A k \in Killer : Success(k) =>
        \A i \in Instrument : exec[k].qty[i] # 0 => i \in exec[k].closed

(* Liquidation only ever reduces: where an execution read the position as it was
   and its cancel_all did not fail, it neither grows nor turns the position, even
   with others at work.  That is so because all that could still move it was
   cancelled before the reading; what landed after the flag was not. *)
KillOnlyReduces ==
    [][\A k \in Killer, i \in Instrument \ late :
           /\ ExecuteStep(k)
           /\ exec[k].qty[i] = exec[k].held[i]
           /\ MarketOf[i] \notin exec[k].errors
           => real'[i] \in IF real[i] >= 0 THEN 0..real[i] ELSE real[i]..0]_killVars

(* Every execution that is not cut off by a crash gives its answer, whatever
   the exchanges do. *)
KillEnds == \A k \in Killer : Running(k) ~> ~Running(k)
=============================================================================
