---------------------------- MODULE TradingCore ----------------------------
(***************************************************************************)
(* The hydra-core process of hydra/main.py: OrderQueue, KillSwitch and     *)
(* GracefulManager on one event loop, one Redis and one set of connectors. *)
(* The order queue's variables are those of OrderQueue; the kill switch    *)
(* shares killFlag with it.  An order that the exchange accepts fills, and *)
(* moves the position, or rests and may fill later.  What KillSwitch calls *)
(* late are the instruments of stragglers.                                 *)
(***************************************************************************)
EXTENDS OrderQueue

CONSTANTS Killer, Holding

ASSUME CoreAssumption ==
    /\ Connected \subseteq Market
    /\ Holding \in [Instrument -> SUBSET Int]

VARIABLES
    tracked, exec, real, resting,   \* of KillSwitch
    shuttingDown                    \* GracefulManager._shutting_down

(* An order that the kill switch had no chance to deal with: it was under way
   when the flag was set and landed after. *)
Straggler(i) == \E n \in DOMAIN book :
    book[n].inst = i /\ book[n].late /\ book[n].by \in atKill

Stragglers == {i \in Instrument : Straggler(i)}

KS == INSTANCE KillSwitch WITH late <- Stragglers

killOwn == <<tracked, exec, real, resting>>
coreVars == <<vars, killOwn, shuttingDown>>

CoreTypeOK ==
    /\ TypeOK
    /\ KS!KillTypeOK
    /\ shuttingDown \in BOOLEAN

CoreInit ==
    /\ Init
    /\ KS!KillInit
    /\ shuttingDown = FALSE

-----------------------------------------------------------------------------
(* Everything submit() does but place the order leaves the account alone. *)
QueueStep ==
    /\ \/ \E r \in Request : SubmitCached(r) \/ \E p \in Caller : SubmitAdmitted(p, r)
       \/ \E p \in Caller : CallStarts(p) \/ CallEnds(p)
       \/ \E v \in DailyPnl : UpdateDailyPnl(v)
       \/ Tick
    /\ UNCHANGED <<killOwn, shuttingDown>>

OrderLands(p) ==
    /\ CreateAccepted(p)
    /\ KS!Lands(req[p].inst, IF req[p].side = "buy" THEN 1 ELSE -1)
    /\ UNCHANGED shuttingDown

(* execute() begins: the flag that submit() reads is set in the same step. *)
Kill(k) ==
    /\ KillSet
    /\ KS!Start(k)
    /\ UNCHANGED shuttingDown

(* The execution goes on, positions are tracked, resting orders fill. *)
KillStep ==
    /\ UNCHANGED <<lockTTL, idem, dailyPnl, proc, exchange, history, shuttingDown>>
    /\ \/ \E k \in Killer : KS!ExecuteStep(k)
       \/ \E i \in Instrument : KS!Track(i) \/ \E d \in {-1, 1} : KS!Fills(i, d)

(* GracefulManager.shutdown on SIGTERM or SIGINT: no await in it suspends.  It
   blocks new orders and saves the positions (to a key that nobody reads, left
   out here); submissions in flight go on, and so does the process. *)
\* slip: without block_new_orders
ShutdownUnblocked ==
    /\ ~shuttingDown
    /\ shuttingDown' = TRUE
    /\ UNCHANGED <<vars, killOwn>>

Shutdown ==
    /\ ~shuttingDown
    /\ BlockNewOrders
    /\ shuttingDown' = TRUE
    /\ UNCHANGED killOwn

CoreCrash ==
    /\ Crash
    /\ KS!Die
    /\ shuttingDown' = FALSE

CoreNext ==
    \/ QueueStep \/ KillStep
    \/ \E p \in Caller : OrderLands(p)
    \/ \E k \in Killer : Kill(k)
    \/ Shutdown \/ CoreCrash

CoreSpec == CoreInit /\ [][CoreNext]_coreVars

-----------------------------------------------------------------------------
(* Properties. *)

(* A kill switch that is through with an exchange, without an error there,
   leaves nothing resting on it but what stragglers placed: blocking before
   cancelling leaves no other gap. *)
OnlyStragglersRest ==
    \A k \in Killer : exec[k].stage \in {"close", "notify", "done"} =>
        \A i \in resting :
            \/ ~KS!Reachable(i)
            \/ MarketOf[i] \in exec[k].errors
            \/ Straggler(i)

(* What the kill switch is for.  A successful execution that read the positions
   as they were, the only one so far, leaves the account flat but for markets
   without a connector and for stragglers. *)
KillFlattens ==
    \A k \in Killer :
        /\ KS!Success(k)
        /\ exec[k].qty = exec[k].held
        /\ \A x \in Killer \ {k} : exec[x].stage = "idle"
        => \A i \in Instrument : real[i] = 0 \/ ~KS!Reachable(i) \/ Straggler(i)

(* Liquidation only ever reduces, among real submissions: what still moves a
   position between its reading and its closing order is a straggler, or rests
   where cancel_all failed. *)
CoreKillOnlyReduces == KS!KillOnlyReduces

(* After a shutdown has let the submissions in flight finish, no order is placed
   until the process restarts. *)
ShutdownQuiesces ==
    [][shuttingDown /\ InFlight = {} => InFlight' = {} /\ book' = book]_coreVars
=============================================================================
