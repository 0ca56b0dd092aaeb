----------------------------- MODULE CoreProofs -----------------------------
(***************************************************************************)
(* What is proved of TradingCore, for every set of coroutines, executions, *)
(* instruments and requests: the composed process implements OrderQueue, a *)
(* shutdown quiesces, and a kill switch leaves nothing resting and nothing *)
(* held but for what stragglers did.                                       *)
(***************************************************************************)
EXTENDS TradingCore, OrderQueueProofs

-----------------------------------------------------------------------------
(* The process takes no step with the order queue that OrderQueue does not take. *)

LEMMA KillStepFrame ==
    ASSUME KillStep
    PROVE  UNCHANGED <<vars, shuttingDown>>
<1>1. UNCHANGED killFlag
  BY DEF KillStep, KS!ExecuteStep, KS!CancelDone, KS!CancelFailed, KS!CloseDone,
         KS!CloseFailed, KS!Notified, KS!Track, KS!Fills
<1> QED  BY <1>1 DEF KillStep, vars, redis

LEMMA CoreStepIsQueueStep == [CoreNext]_coreVars => [Next]_vars
<1> SUFFICES ASSUME CoreNext \/ UNCHANGED coreVars PROVE Next \/ UNCHANGED vars
  OBVIOUS
<1>1. CASE QueueStep
  BY <1>1 DEF QueueStep, Next
<1>2. CASE KillStep
  BY <1>2, KillStepFrame
<1>3. ASSUME NEW p \in Caller, OrderLands(p) PROVE Next
  BY <1>3 DEF OrderLands, Next
<1>4. ASSUME NEW k \in Killer, Kill(k) PROVE Next
  BY <1>4 DEF Kill, Next
<1>5. CASE Shutdown
  BY <1>5 DEF Shutdown, Next
<1>6. CASE CoreCrash
  BY <1>6 DEF CoreCrash, Next
<1>7. CASE UNCHANGED coreVars
  BY <1>7 DEF coreVars
<1> QED  BY <1>1, <1>2, <1>3, <1>4, <1>5, <1>6, <1>7 DEF CoreNext

(* The composed process implements the order queue, so everything that is proved of
   OrderQueue holds in it. *)
THEOREM CoreIsQueue == CoreSpec => Spec
<1>1. CoreInit => Init
  BY DEF CoreInit
<1> QED  BY <1>1, CoreStepIsQueueStep, PTL DEF CoreSpec, Spec

(* In the composed process, too: locks exclude until they lapse, orders are repeated
   only as explained, a key that was answered stays cached, and what lands after the
   kill was under way. *)
THEOREM CoreKeepsTheQueue ==
    CoreSpec => /\ []ExclusiveUntilLapse /\ []RepeatsExplained
                /\ []AnsweredIsCached /\ []LateOrdersWereInFlight
  BY CoreIsQueue, LockExcludes, RepeatsAreExplained, AnsweredStaysCached,
     KillStopsOrders, PTL

-----------------------------------------------------------------------------
(* Shutdown.  Once it has begun the queue is blocked until the process dies, so a
   process that nobody is inside of stays empty and places nothing. *)

ShutBlocked == shuttingDown => blocked

LEMMA ShutBlockedStep == ShutBlocked /\ [CoreNext]_coreVars => ShutBlocked'
<1> SUFFICES ASSUME ShutBlocked, CoreNext \/ UNCHANGED coreVars PROVE ShutBlocked'
  OBVIOUS
<1>1. CASE QueueStep
  <2>1. UNCHANGED shuttingDown
    BY <1>1 DEF QueueStep
  <2>2. UNCHANGED blocked
    BY <1>1 DEF QueueStep, SubmitCached, SubmitAdmitted, CallStarts, CallEnds,
                LeverageSet, LeverageFailed, CreateReturned, CreateFailed, Leave,
                UpdateDailyPnl, Tick, proc
  <2> QED  BY <2>1, <2>2 DEF ShutBlocked
<1>2. CASE KillStep
  BY <1>2, KillStepFrame DEF ShutBlocked, vars, proc
<1>3. ASSUME NEW p \in Caller, OrderLands(p) PROVE ShutBlocked'
  BY <1>3 DEF OrderLands, CreateAccepted, ShutBlocked
<1>4. ASSUME NEW k \in Killer, Kill(k) PROVE ShutBlocked'
  BY <1>4 DEF Kill, KillSet, ShutBlocked, proc
<1>5. CASE Shutdown
  BY <1>5 DEF Shutdown, BlockNewOrders, ShutBlocked
<1>6. CASE CoreCrash
  BY <1>6 DEF CoreCrash, ShutBlocked
<1>7. CASE UNCHANGED coreVars
  BY <1>7 DEF coreVars, vars, proc, ShutBlocked
<1> QED  BY <1>1, <1>2, <1>3, <1>4, <1>5, <1>6, <1>7 DEF CoreNext

LEMMA QuietWhenBlocked ==
    ASSUME Typed, blocked, InFlight = {}, [Next]_vars
    PROVE  InFlight' = {} /\ book' = book
<1>1. ASSUME NEW r \in Request, NEW p \in Caller PROVE ~SubmitAdmitted(p, r)
  BY DEF SubmitAdmitted, Passes, KillBlocked
<1>2. ASSUME NEW p \in Caller PROVE ~CallStarts(p) /\ ~CallEnds(p) /\ ~CreateAccepted(p)
  BY DEF CallStarts, CallEnds, LeverageSet, LeverageFailed, CreateReturned,
         CreateFailed, CreateAccepted, InFlight
<1>3. \A p \in Caller : pc[p] = "idle"
  BY DEF InFlight
<1>4. book' = book /\ \A p \in Caller : pc'[p] = "idle"
  BY <1>1, <1>2, <1>3
     DEF Next, SubmitCached, UpdateDailyPnl, IdemExpires, Tick, KillSet, BlockNewOrders,
         Crash, vars, proc, exchange
<1> QED  BY <1>4 DEF InFlight

(* After a shutdown has let the submissions in flight finish, no order is placed
   until the process restarts. *)
THEOREM ShutdownIsQuiet == CoreSpec => ShutdownQuiesces
<1>1. CoreInit => ShutBlocked
  BY DEF CoreInit, ShutBlocked
<1>2. Typed /\ ShutBlocked /\ [CoreNext]_coreVars =>
          [shuttingDown /\ InFlight = {} => InFlight' = {} /\ book' = book]_coreVars
  BY QuietWhenBlocked, CoreStepIsQueueStep DEF ShutBlocked
<1> QED
  BY <1>1, <1>2, ShutBlockedStep, CoreIsQueue, AlwaysTyped, PTL
     DEF CoreSpec, ShutdownQuiesces

-----------------------------------------------------------------------------
(* Types of the composition.  What an execution does between two awaits keeps its
   errors and, as long as it is cancelling, its list of markets. *)

LEMMA AdvanceKeeps ==
    ASSUME KS!KillTypeOK, NEW e \in KS!Execution
    PROVE  /\ KS!Advance(e) \in KS!Execution
           /\ KS!Advance(e).errors = e.errors
           /\ \/ KS!Advance(e).stage = e.stage
              \/ /\ KS!Advance(e).stage \in {"close", "notify"}
                 /\ e.stage \in {"cancel", "close"}
           /\ e.stage = "cancel" /\ e.toCancel # {} => KS!Advance(e) = e
<1> DEFINE f == IF e.stage = "cancel" /\ e.toCancel = {}
                THEN [e EXCEPT !.stage = "close", !.toClose = KS!ToClose,
                               !.qty = tracked, !.held = real]
                ELSE e
<1>1. /\ f \in KS!Execution /\ f.errors = e.errors
      /\ f.stage = e.stage \/ (f.stage = "close" /\ e.stage = "cancel")
      /\ e.stage = "cancel" /\ e.toCancel # {} => f = e
  BY DEF KS!Execution, KS!KillTypeOK, KS!ToClose
<1>2. KS!Advance(e) = IF f.stage = "close" /\ f.toClose = {}
                      THEN [f EXCEPT !.stage = "notify"] ELSE f
  BY DEF KS!Advance
<1> HIDE DEF f
<1> QED  BY <1>1, <1>2 DEF KS!Execution

(* The outcomes of a cancel_all and of a closing order. *)
LEMMA CancelKeeps ==
    ASSUME KS!KillTypeOK, NEW e \in KS!Execution, NEW m \in Market
    PROVE  /\ KS!Canceled(e, m) \in KS!Execution /\ KS!CancelErred(e, m) \in KS!Execution
           /\ KS!Canceled(e, m).errors = e.errors
           /\ KS!CancelErred(e, m).errors = e.errors \cup {m}
           /\ \A g \in {KS!Canceled(e, m), KS!CancelErred(e, m)} :
                  e.stage = "cancel" /\ e.toCancel \ {m} # {} =>
                      g.stage = "cancel" /\ g.toCancel = e.toCancel \ {m}
<1> DEFINE c == [e EXCEPT !.toCancel = @ \ {m}]
           d == [e EXCEPT !.toCancel = @ \ {m}, !.errors = @ \cup {m}]
<1>1. /\ c \in KS!Execution /\ c.errors = e.errors /\ c.stage = e.stage
      /\ c.toCancel = e.toCancel \ {m}
      /\ d \in KS!Execution /\ d.errors = e.errors \cup {m} /\ d.stage = e.stage
      /\ d.toCancel = e.toCancel \ {m}
  BY DEF KS!Execution
<1>2. KS!Canceled(e, m) = KS!Advance(c) /\ KS!CancelErred(e, m) = KS!Advance(d)
  BY DEF KS!Canceled, KS!CancelErred
<1> HIDE DEF c, d
<1> QED  BY <1>1, <1>2, AdvanceKeeps

LEMMA CloseKeeps ==
    ASSUME KS!KillTypeOK, NEW e \in KS!Execution, NEW i \in Instrument, e.stage = "close"
    PROVE  \A g \in {KS!Closed(e, i), KS!CloseErred(e, i)} :
               g \in KS!Execution /\ e.errors \subseteq g.errors /\ g.stage # "cancel"
<1> DEFINE c == [e EXCEPT !.toClose = @ \ {i}, !.closed = @ \cup {i}]
           d == [e EXCEPT !.toClose = @ \ {i}, !.errors = @ \cup {i}]
<1>1. /\ c \in KS!Execution /\ c.errors = e.errors /\ c.stage = "close"
      /\ d \in KS!Execution /\ d.errors = e.errors \cup {i} /\ d.stage = "close"
  BY DEF KS!Execution
<1>2. KS!Closed(e, i) = KS!Advance(c) /\ KS!CloseErred(e, i) = KS!Advance(d)
  BY DEF KS!Closed, KS!CloseErred
<1> HIDE DEF c, d
<1> QED  BY <1>1, <1>2, AdvanceKeeps

LEMMA NotStartedTyped == KS!NotStarted \in KS!Execution
  BY DEF KS!NotStarted, KS!Execution, KS!Flat

(* An execution begins with every connected market on its list, and with none it is
   done cancelling. *)
LEMMA StartKeeps ==
    ASSUME KS!KillTypeOK
    PROVE  LET e == KS!Advance([KS!NotStarted EXCEPT !.stage = "cancel",
                                                     !.toCancel = Connected])
           IN  /\ e \in KS!Execution
               /\ Connected # {} => e.stage = "cancel" /\ e.toCancel = Connected
<1> DEFINE c == [KS!NotStarted EXCEPT !.stage = "cancel", !.toCancel = Connected]
<1>1. c \in KS!Execution /\ c.stage = "cancel" /\ c.toCancel = Connected
  BY CoreAssumption, NotStartedTyped DEF CoreAssumption, KS!Execution
<1> HIDE DEF c
<1> QED  BY <1>1, AdvanceKeeps DEF c

(* One execution moves to a state that is an execution. *)
LEMMA ExecMoves ==
    ASSUME KS!KillTypeOK, NEW k \in Killer, NEW e \in KS!Execution,
           exec' = [exec EXCEPT ![k] = e]
    PROVE  /\ exec' \in [Killer -> KS!Execution] /\ exec'[k] = e
           /\ \A x \in Killer : x # k => exec'[x] = exec[x]
  BY DEF KS!KillTypeOK

LEMMA CoreTypedStep == CoreTypeOK /\ InHand /\ [CoreNext]_coreVars => CoreTypeOK'
<1> SUFFICES ASSUME CoreTypeOK, InHand, CoreNext \/ UNCHANGED coreVars
             PROVE  KS!KillTypeOK' /\ shuttingDown' \in BOOLEAN
  BY CoreStepIsQueueStep, NextTyped DEF CoreTypeOK, Typed
<1> USE DEF CoreTypeOK
<1>0. /\ killFlag' \in BOOLEAN
      /\ Stragglers' \in SUBSET Instrument
  BY CoreStepIsQueueStep, NextTyped DEF Typed, TypeOK, Stragglers
<1>1. CASE QueueStep
  BY <1>0, <1>1 DEF QueueStep, killOwn, KS!KillTypeOK
<1>2. CASE KillStep
  <2>0. UNCHANGED shuttingDown
    BY <1>2 DEF KillStep
  <2>1. ASSUME NEW k \in Killer, KS!ExecuteStep(k) PROVE KS!KillTypeOK'
    <3>0. exec[k] \in KS!Execution /\ exec[k].qty \in [Instrument -> Int]
      BY DEF KS!KillTypeOK, KS!Execution
    <3>1. ASSUME NEW m \in Market, KS!CancelDone(k, m) \/ KS!CancelFailed(k, m)
          PROVE  KS!KillTypeOK'
      <4>1. exec' \in [Killer -> KS!Execution]
        BY <3>0, <3>1, CancelKeeps, ExecMoves DEF KS!CancelDone, KS!CancelFailed
      <4> QED
        BY <1>0, <3>1, <4>1
           DEF KS!CancelDone, KS!CancelFailed, KS!CanceledOn, KS!KillTypeOK
    <3>2. ASSUME NEW i \in Instrument, KS!CloseDone(k, i) \/ KS!CloseFailed(k, i)
          PROVE  KS!KillTypeOK'
      <4>1. exec' \in [Killer -> KS!Execution]
        BY <3>0, <3>2, CloseKeeps, ExecMoves DEF KS!CloseDone, KS!CloseFailed
      <4>2. KS!ClosedOut(i, exec[k].qty[i]) \in [Instrument -> Int]
        BY <3>0 DEF KS!ClosedOut, KS!KillTypeOK
      <4> QED
        BY <1>0, <3>2, <4>1, <4>2 DEF KS!CloseDone, KS!CloseFailed, KS!KillTypeOK
    <3>3. CASE KS!Notified(k)
      <4>1. [exec[k] EXCEPT !.stage = "done"] \in KS!Execution
        BY <3>0 DEF KS!Execution
      <4>2. exec' \in [Killer -> KS!Execution]
        BY <3>3, <4>1, ExecMoves DEF KS!Notified
      <4> QED  BY <1>0, <3>3, <4>2 DEF KS!Notified, KS!KillTypeOK, KS!account
    <3> QED  BY <2>1, <3>1, <3>2, <3>3 DEF KS!ExecuteStep
  <2>2. ASSUME NEW i \in Instrument, KS!Track(i) PROVE KS!KillTypeOK'
    BY <1>0, <2>2 DEF KS!Track, KS!KillTypeOK, KS!account
  <2>3. ASSUME NEW i \in Instrument, NEW d \in {-1, 1}, KS!Fills(i, d)
        PROVE  KS!KillTypeOK'
    <3>1. real' \in [Instrument -> Int] /\ resting' \in SUBSET Instrument
      BY <2>3 DEF KS!Fills, KS!Moves, KS!KillTypeOK
    <3> QED  BY <1>0, <2>3, <3>1 DEF KS!Fills, KS!KillTypeOK
  <2> QED  BY <1>2, <2>0, <2>1, <2>2, <2>3 DEF KillStep
<1>3. ASSUME NEW p \in Caller, OrderLands(p)
      PROVE  KS!KillTypeOK' /\ shuttingDown' \in BOOLEAN
  <2>1. req[p] \in Request
    BY <1>3 DEF OrderLands, CreateAccepted, InHand
  <2>2. req[p].inst \in Instrument
    BY <2>1, RequestFields
  <2> DEFINE d == IF req[p].side = "buy" THEN 1 ELSE -1
  <2>3. d \in Int /\ KS!Lands(req[p].inst, d)
    BY <1>3 DEF OrderLands
  <2> HIDE DEF d
  <2>4. real' \in [Instrument -> Int] /\ resting' \in SUBSET Instrument
    BY <2>2, <2>3 DEF KS!Lands, KS!Moves, KS!KillTypeOK
  <2> QED  BY <1>0, <1>3, <2>3, <2>4 DEF OrderLands, KS!Lands, KS!KillTypeOK
<1>4. ASSUME NEW k \in Killer, Kill(k)
      PROVE  KS!KillTypeOK' /\ shuttingDown' \in BOOLEAN
  <2>1. exec' \in [Killer -> KS!Execution]
    BY <1>4, StartKeeps, ExecMoves DEF Kill, KS!Start
  <2> QED  BY <1>0, <1>4, <2>1 DEF Kill, KS!Start, KS!KillTypeOK, KS!account
<1>5. CASE Shutdown
  BY <1>0, <1>5 DEF Shutdown, killOwn, KS!KillTypeOK
<1>6. CASE CoreCrash
  <2>1. \A k \in Killer : [exec[k] EXCEPT !.stage = "lost"] \in KS!Execution
    BY DEF KS!KillTypeOK, KS!Execution
  <2>2. exec' \in [Killer -> KS!Execution]
    BY <1>6, <2>1 DEF CoreCrash, KS!Die, KS!KillTypeOK
  <2> QED  BY <1>0, <1>6, <2>2 DEF CoreCrash, KS!Die, KS!KillTypeOK, KS!account
<1>7. CASE UNCHANGED coreVars
  BY <1>0, <1>7 DEF coreVars, vars, redis, killOwn, KS!KillTypeOK
<1> QED  BY <1>1, <1>2, <1>3, <1>4, <1>5, <1>6, <1>7 DEF CoreNext

(* Type correctness of the composed process. *)
THEOREM CoreTypeCorrect == CoreSpec => []CoreTypeOK
<1>1. CoreInit => CoreTypeOK
  <2> SUFFICES ASSUME CoreInit PROVE CoreTypeOK
    OBVIOUS
  <2>1. TypeOK /\ shuttingDown \in BOOLEAN
    BY InitTyped DEF CoreInit, Typed
  <2>2. KS!Flat \in [Instrument -> Int]
    BY DEF KS!Flat
  <2>3. KS!KillTypeOK
    BY <2>2, NotStartedTyped DEF CoreInit, KS!KillInit, KS!KillTypeOK, Stragglers
  <2> QED  BY <2>1, <2>3 DEF CoreTypeOK
<1>2. CoreSpec => []InHand
  BY CoreIsQueue, AlwaysTyped, PTL DEF Typed
<1> QED  BY <1>1, <1>2, CoreTypedStep, PTL DEF CoreSpec

-----------------------------------------------------------------------------
(* What rests after a kill.  An execution that has begun has set the flag; what
   rests then at a connected exchange is still to be cancelled there, or its
   cancel_all failed, or a straggler placed it. *)

Begun(k) == exec[k].stage \in {"cancel", "close", "notify", "done"}

Excused(k, i) ==
    \/ ~KS!Reachable(i)
    \/ MarketOf[i] \in exec[k].errors
    \/ Straggler(i)
    \/ exec[k].stage = "cancel" /\ MarketOf[i] \in exec[k].toCancel

RestAccounted ==
    \A k \in Killer : Begun(k) => killFlag /\ \A i \in resting : Excused(k, i)

(* Once a straggler, always a straggler: the book only grows at its end, and the
   callers of the first kill are never forgotten. *)
LEMMA StragglerStays ==
    ASSUME Typed, KillAccounting, [Next]_vars, NEW i, Straggler(i)
    PROVE  Straggler(i)' /\ killFlag'
<1>0. PICK n \in DOMAIN book : book[n].inst = i /\ book[n].late /\ book[n].by \in atKill
  BY DEF Straggler
<1>1. killFlag
  BY <1>0 DEF KillAccounting
<1>2. killFlag' /\ UNCHANGED atKill
  BY <1>1 DEF Next, SubmitCached, SubmitAdmitted, CallStarts, CreateAccepted, CallEnds,
              LeverageSet, LeverageFailed, CreateReturned, CreateFailed, UpdateDailyPnl, IdemExpires,
              Tick, KillSet, BlockNewOrders, Crash, vars, redis, history
<1>3. CASE UNCHANGED book
  BY <1>0, <1>2, <1>3 DEF Straggler
<1>4. ASSUME NEW p \in Caller, CreateAccepted(p) PROVE Straggler(i)'
  <2>1. n \in DOMAIN book' /\ book'[n] = book[n]
    <3>1. book \in Seq(Order)
      BY DEF Typed, TypeOK
    <3> QED  BY <1>4, <3>1 DEF CreateAccepted
  <2> QED  BY <1>0, <1>2, <2>1 DEF Straggler
<1>5. UNCHANGED book \/ \E p \in Caller : CreateAccepted(p)
  BY DEF Next, SubmitCached, SubmitAdmitted, CallStarts, CallEnds, LeverageSet,
         LeverageFailed, CreateReturned, CreateFailed, UpdateDailyPnl, IdemExpires,
         Tick, KillSet, BlockNewOrders, Crash, vars, exchange
<1> QED  BY <1>2, <1>3, <1>4, <1>5

(* Executions that stand still stay excused while nothing comes to rest. *)
LEMMA StillExcused ==
    ASSUME Typed, KillAccounting, [Next]_vars, RestAccounted, killFlag => killFlag',
           NEW k \in Killer, Begun(k)', exec'[k] = exec[k], NEW i \in resting
    PROVE  killFlag' /\ Excused(k, i)'
<1>1. Begun(k) /\ killFlag /\ Excused(k, i)
  BY DEF Begun, RestAccounted
<1> QED  BY <1>1, StragglerStays DEF Excused, KS!Reachable

Cleared == CoreTypeOK /\ InHand /\ KillAccounting /\ RestAccounted

(* An order that the exchange accepts is the last of the book. *)
LEMMA LandsLast ==
    ASSUME TypeOK, NEW p \in Caller, CreateAccepted(p)
    PROVE  \E n \in DOMAIN book' : /\ book'[n].inst = req[p].inst
                                   /\ book'[n].by = p /\ book'[n].late = killFlag
<1>1. book \in Seq(Order)
  BY DEF TypeOK
<1>2. /\ Len(book) + 1 \in DOMAIN book'
      /\ book'[Len(book) + 1].inst = req[p].inst /\ book'[Len(book) + 1].by = p
      /\ book'[Len(book) + 1].late = killFlag
  BY <1>1 DEF CreateAccepted
<1> QED  BY <1>2

(* If it lands after the kill, its instrument has a straggler. *)
LEMMA LateLands ==
    ASSUME Cleared, NEW p \in Caller, OrderLands(p), killFlag, NEW i, i = req[p].inst
    PROVE  Straggler(i)'
<1>1. p \in atKill /\ CreateAccepted(p) /\ UNCHANGED atKill
  BY DEF Cleared, KillAccounting, OrderLands, CreateAccepted, InFlight, history
<1>2. PICK n \in DOMAIN book' : /\ book'[n].inst = req[p].inst
                                /\ book'[n].by = p /\ book'[n].late = killFlag
  BY <1>1, LandsLast DEF Cleared, CoreTypeOK
<1> QED  BY <1>1, <1>2 DEF Straggler

LEMMA RestAccountedStep == Cleared /\ [CoreNext]_coreVars => RestAccounted'
<1> SUFFICES ASSUME Cleared, CoreNext \/ UNCHANGED coreVars PROVE RestAccounted'
  OBVIOUS
<1> USE DEF Cleared
<1>0. /\ Typed /\ KS!KillTypeOK /\ (Next \/ UNCHANGED vars)
      /\ \A k \in Killer : exec[k] \in KS!Execution
  BY CoreStepIsQueueStep DEF CoreTypeOK, Typed, KS!KillTypeOK
(* No execution moves and nothing comes to rest. *)
<1>1. ASSUME UNCHANGED <<exec, resting>>, killFlag => killFlag' PROVE RestAccounted'
  BY <1>0, <1>1, StillExcused DEF RestAccounted, Begun
(* One execution moves, within what it has begun, and nothing comes to rest. *)
<1>2. ASSUME NEW k \in Killer, Begun(k), killFlag', resting' \subseteq resting,
             \A x \in Killer : x # k => exec'[x] = exec[x],
             \A i \in resting' : Excused(k, i) => Excused(k, i)'
      PROVE  RestAccounted'
  <2>1. killFlag /\ \A i \in resting' : Excused(k, i)'
    BY <1>2 DEF RestAccounted
  <2>2. ASSUME NEW x \in Killer, x # k, Begun(x)', NEW i \in resting'
        PROVE  Excused(x, i)'
    BY <1>0, <1>2, <2>2, StillExcused
  <2> QED  BY <1>2, <2>1, <2>2 DEF RestAccounted
<1>3. CASE QueueStep
  <2>1. UNCHANGED killFlag
    BY <1>3 DEF QueueStep, SubmitCached, SubmitAdmitted, CallStarts, CallEnds,
                LeverageSet, LeverageFailed, CreateReturned, CreateFailed,
                UpdateDailyPnl, Tick, redis
  <2> QED  BY <1>1, <1>3, <2>1 DEF QueueStep, killOwn
<1>4. CASE KillStep
  <2>0. UNCHANGED <<killFlag, book, atKill>> /\ \A i : Straggler(i)' = Straggler(i)
    BY <1>4, KillStepFrame DEF vars, redis, exchange, history, Straggler
  <2>1. ASSUME NEW k \in Killer, KS!ExecuteStep(k) PROVE RestAccounted'
    <3>1. ASSUME NEW m \in Market, KS!CancelDone(k, m) \/ KS!CancelFailed(k, m)
          PROVE  RestAccounted'
      <4>1. /\ exec[k].stage = "cancel" /\ resting' \subseteq resting
            /\ exec'[k] \in {KS!Canceled(exec[k], m), KS!CancelErred(exec[k], m)}
            /\ \A x \in Killer : x # k => exec'[x] = exec[x]
        BY <1>0, <3>1, CancelKeeps, ExecMoves
           DEF KS!CancelDone, KS!CancelFailed, KS!CanceledOn
      <4>2. Begun(k) /\ killFlag'
        BY <2>0, <4>1 DEF Begun, RestAccounted
      <4>3. ASSUME NEW i \in resting', Excused(k, i) PROVE Excused(k, i)'
        <5>1. exec[k].errors \subseteq exec'[k].errors
          BY <1>0, <4>1, CancelKeeps
        <5>2. CASE MarketOf[i] = m
          <6>1. m \in exec'[k].errors
            BY <1>0, <3>1, <4>3, <5>2, CancelKeeps, ExecMoves
               DEF KS!CancelDone, KS!CancelFailed, KS!CanceledOn
          <6> QED  BY <5>2, <6>1 DEF Excused
        <5>3. CASE MarketOf[i] # m
          <6>1. MarketOf[i] \in exec[k].toCancel =>
                    exec'[k].stage = "cancel" /\ MarketOf[i] \in exec'[k].toCancel
            BY <1>0, <4>1, <5>3, CancelKeeps
          <6> QED  BY <2>0, <4>3, <5>1, <6>1 DEF Excused, KS!Reachable
        <5> QED  BY <5>2, <5>3
      <4> QED  BY <1>2, <4>1, <4>2, <4>3
    <3>2. ASSUME NEW i \in Instrument, KS!CloseDone(k, i) \/ KS!CloseFailed(k, i)
          PROVE  RestAccounted'
      <4>1. /\ exec[k].stage = "close" /\ resting' = resting
            /\ exec[k].errors \subseteq exec'[k].errors
            /\ \A x \in Killer : x # k => exec'[x] = exec[x]
        BY <1>0, <3>2, CloseKeeps, ExecMoves DEF KS!CloseDone, KS!CloseFailed
      <4>2. Begun(k) /\ killFlag'
        BY <2>0, <4>1 DEF Begun, RestAccounted
      <4>3. \A j \in resting' : Excused(k, j) => Excused(k, j)'
        BY <2>0, <4>1 DEF Excused, KS!Reachable
      <4> QED  BY <1>2, <4>1, <4>2, <4>3
    <3>3. CASE KS!Notified(k)
      <4>1. /\ exec[k].stage = "notify" /\ resting' = resting
            /\ exec'[k].errors = exec[k].errors
            /\ \A x \in Killer : x # k => exec'[x] = exec[x]
        BY <1>0, <3>3 DEF KS!Notified, KS!KillTypeOK, KS!account, KS!Execution
      <4>2. Begun(k) /\ killFlag'
        BY <2>0, <4>1 DEF Begun, RestAccounted
      <4>3. \A j \in resting' : Excused(k, j) => Excused(k, j)'
        BY <2>0, <4>1 DEF Excused, KS!Reachable
      <4> QED  BY <1>2, <4>1, <4>2, <4>3
    <3> QED  BY <2>1, <3>1, <3>2, <3>3 DEF KS!ExecuteStep
  <2>2. ASSUME NEW i \in Instrument, KS!Track(i) PROVE RestAccounted'
    BY <1>1, <2>0, <2>2 DEF KS!Track, KS!account
  <2>3. ASSUME NEW i \in Instrument, NEW d \in {-1, 1}, KS!Fills(i, d)
        PROVE  RestAccounted'
    BY <2>0, <2>3 DEF KS!Fills, RestAccounted, Begun, Excused, KS!Reachable
  <2> QED  BY <1>4, <2>1, <2>2, <2>3 DEF KillStep
<1>5. ASSUME NEW p \in Caller, OrderLands(p) PROVE RestAccounted'
  <2>1. /\ UNCHANGED <<exec, killFlag, atKill>> /\ CreateAccepted(p)
        /\ resting' \subseteq resting \cup {req[p].inst}
    BY <1>5 DEF OrderLands, KS!Lands, CreateAccepted, history
  <2>2. ASSUME killFlag, NEW i, i = req[p].inst PROVE Straggler(i)'
    BY <1>5, <2>2, LateLands
  <2>3. ASSUME NEW k \in Killer, Begun(k)', NEW i \in resting'
        PROVE  killFlag' /\ Excused(k, i)'
    <3>1. killFlag
      BY <2>1, <2>3 DEF RestAccounted, Begun
    <3>2. CASE i \in resting
      BY <1>0, <2>1, <2>3, <3>2, StillExcused
    <3>3. CASE i = req[p].inst
      BY <2>1, <2>2, <3>1, <3>3 DEF Excused
    <3> QED  BY <2>1, <3>2, <3>3
  <2>4. ASSUME NEW k \in Killer, Begun(k)' PROVE killFlag'
    BY <2>1, <2>4 DEF RestAccounted, Begun
  <2> QED  BY <2>3, <2>4 DEF RestAccounted
<1>6. ASSUME NEW k \in Killer, Kill(k) PROVE RestAccounted'
  <2>1. killFlag' /\ UNCHANGED resting
    BY <1>6 DEF Kill, KS!Start, KS!account
  <2>2. /\ Connected # {} => exec'[k].stage = "cancel" /\ exec'[k].toCancel = Connected
        /\ \A x \in Killer : x # k => exec'[x] = exec[x]
    BY <1>0, <1>6, StartKeeps, ExecMoves DEF Kill, KS!Start
  <2>3. \A i \in resting' : Excused(k, i)'
    BY <2>2 DEF Excused, KS!Reachable
  <2>4. ASSUME NEW x \in Killer, x # k, Begun(x)', NEW i \in resting' PROVE Excused(x, i)'
    BY <1>0, <2>1, <2>2, <2>4, StillExcused
  <2> QED  BY <2>1, <2>3, <2>4 DEF RestAccounted
<1>7. CASE Shutdown
  BY <1>1, <1>7 DEF Shutdown, BlockNewOrders, redis, killOwn
<1>8. CASE CoreCrash
  <2>1. /\ UNCHANGED <<killFlag, resting>>
        /\ \A k \in Killer : exec'[k] = IF KS!Running(k)
               THEN [exec[k] EXCEPT !.stage = "lost"] ELSE exec[k]
    BY <1>8 DEF CoreCrash, KS!Die, KS!account
  <2>2. ASSUME NEW k \in Killer, Begun(k)' PROVE exec'[k] = exec[k]
    BY <1>0, <2>1, <2>2 DEF Begun, KS!Execution
  <2>3. ASSUME NEW k \in Killer, Begun(k)' PROVE killFlag'
    BY <2>1, <2>2, <2>3 DEF RestAccounted, Begun
  <2> QED  BY <1>0, <2>1, <2>2, <2>3, StillExcused DEF RestAccounted
<1>9. CASE UNCHANGED coreVars
  BY <1>1, <1>9 DEF coreVars, vars, redis, killOwn
<1> QED  BY <1>3, <1>4, <1>5, <1>6, <1>7, <1>8, <1>9 DEF CoreNext

LEMMA AlwaysCleared == CoreSpec => []Cleared
<1>1. CoreInit => KillAccounting
  BY DEF CoreInit, Init, KillAccounting, LateOrdersWereInFlight, InFlight
<1>2. CoreInit => RestAccounted
  BY DEF CoreInit, KS!KillInit, RestAccounted, Begun, KS!NotStarted
<1>3. CoreTypeOK /\ InHand /\ KillAccounting /\ [CoreNext]_coreVars => KillAccounting'
  BY CoreStepIsQueueStep, KillAccountingStep DEF Typed, CoreTypeOK
<1>4. CoreSpec => []InHand
  BY CoreIsQueue, AlwaysTyped, PTL DEF Typed
<1>5. Cleared <=> CoreTypeOK /\ InHand /\ KillAccounting /\ RestAccounted
  BY DEF Cleared
<1> QED
  BY <1>1, <1>2, <1>3, <1>4, <1>5, RestAccountedStep, CoreTypeCorrect, PTL DEF CoreSpec

(* A kill switch that is through with an exchange, without an error there, leaves
   nothing resting on it but what stragglers placed, however many executions and
   submissions overlap and whichever of them crash. *)
THEOREM OnlyStragglersAreLeft == CoreSpec => []OnlyStragglersRest
<1>1. Cleared => OnlyStragglersRest
  BY DEF Cleared, RestAccounted, Begun, Excused, OnlyStragglersRest
<1> QED  BY <1>1, AlwaysCleared, PTL

-----------------------------------------------------------------------------
(* What a kill is for.  A lone execution that read the positions as they were owes,
   while it is closing, what it has still to close, and nothing after; and what is
   really held is what it owes, but for what stragglers did. *)

OwedBy(e, i) == IF e.stage = "close" /\ i \in e.toClose THEN e.qty[i] ELSE 0

LoneAndTrue(k) ==
    /\ exec[k].stage \in {"close", "notify", "done"}
    /\ exec[k].errors = {} /\ exec[k].qty = exec[k].held
    /\ \A x \in Killer \ {k} : exec[x].stage = "idle"

Settled ==
    \A k \in Killer : LoneAndTrue(k) =>
        \A i \in Instrument : KS!Reachable(i) =>
            Straggler(i) \/ real[i] = OwedBy(exec[k], i)

(* The positions are read when the last cancel_all has ended: from then on the
   execution owes what is tracked. *)
LEMMA AdvanceOwes ==
    ASSUME KS!KillTypeOK, NEW e \in KS!Execution
    PROVE  /\ e.stage = "cancel" /\ KS!Advance(e).stage # "cancel" =>
                 /\ KS!Advance(e).qty = tracked /\ KS!Advance(e).held = real
                 /\ \A i \in Instrument : KS!Reachable(i) =>
                        OwedBy(KS!Advance(e), i) = tracked[i]
           /\ e.stage = "close" =>
                 /\ KS!Advance(e).qty = e.qty /\ KS!Advance(e).held = e.held
                 /\ \A i \in Instrument : OwedBy(KS!Advance(e), i) = OwedBy(e, i)
<1> DEFINE f == IF e.stage = "cancel" /\ e.toCancel = {}
                THEN [e EXCEPT !.stage = "close", !.toClose = KS!ToClose,
                               !.qty = tracked, !.held = real]
                ELSE e
           g == IF f.stage = "close" /\ f.toClose = {} THEN [f EXCEPT !.stage = "notify"]
                                                       ELSE f
<1>1. KS!Advance(e) = g
  BY DEF KS!Advance
<1>2. f \in KS!Execution
  BY DEF KS!Execution, KS!KillTypeOK, KS!ToClose
<1>3. e.stage = "cancel" /\ e.toCancel = {} =>
          /\ f.stage = "close" /\ f.toClose = KS!ToClose
          /\ f.qty = tracked /\ f.held = real
  BY DEF KS!Execution
<1>4. ~(e.stage = "cancel" /\ e.toCancel = {}) => f = e
  OBVIOUS
<1> HIDE DEF f
<1>5. /\ g.qty = f.qty /\ g.held = f.held
      /\ \A i \in Instrument : OwedBy(g, i) = OwedBy(f, i)
      /\ f.stage = "cancel" => g = f
  BY <1>2 DEF KS!Execution, OwedBy
<1> HIDE DEF g
<1>6. \A i \in Instrument : KS!Reachable(i) => i \in KS!ToClose \/ tracked[i] = 0
  BY DEF KS!ToClose, KS!Reachable
<1> QED  BY <1>1, <1>3, <1>4, <1>5, <1>6 DEF OwedBy

LEMMA SettledStep == Cleared /\ Settled /\ [CoreNext]_coreVars => Settled'
<1> SUFFICES ASSUME Cleared, Settled, CoreNext \/ UNCHANGED coreVars,
                    NEW k \in Killer, LoneAndTrue(k)',
                    NEW i \in Instrument, KS!Reachable(i)
             PROVE  Straggler(i)' \/ real'[i] = OwedBy(exec'[k], i)
  BY DEF Settled, KS!Reachable, OwedBy
<1>0. /\ Typed /\ KillAccounting /\ KS!KillTypeOK /\ (Next \/ UNCHANGED vars)
      /\ \A x \in Killer : exec[x] \in KS!Execution
      /\ Straggler(i) => Straggler(i)'
  BY CoreStepIsQueueStep, StragglerStays
     DEF Cleared, CoreTypeOK, Typed, KS!KillTypeOK
<1>1. ASSUME UNCHANGED <<exec, real>>
      PROVE  Straggler(i)' \/ real'[i] = OwedBy(exec'[k], i)
  BY <1>0, <1>1 DEF Settled, LoneAndTrue
(* The execution that moves is k itself: another one would no longer be idle. *)
<1>2. ASSUME NEW x \in Killer, NEW e, e.stage # "idle", exec' = [exec EXCEPT ![x] = e]
      PROVE  /\ x = k /\ exec'[k] = e
             /\ \A y \in Killer \ {k} : exec[y].stage = "idle"
  BY <1>2 DEF LoneAndTrue, KS!KillTypeOK, Cleared, CoreTypeOK
(* The positions are read in this step. *)
<1>3. ASSUME NEW e \in KS!Execution, e.stage = "cancel", exec'[k] = KS!Advance(e),
             UNCHANGED real
      PROVE  real'[i] = OwedBy(exec'[k], i)
  <2>1. KS!Advance(e).stage # "cancel"
    BY <1>3 DEF LoneAndTrue
  <2>2. /\ exec'[k].qty = tracked /\ exec'[k].held = real
        /\ OwedBy(exec'[k], i) = tracked[i]
    BY <1>0, <1>3, <2>1, AdvanceOwes
  <2> QED  BY <1>3, <2>2 DEF LoneAndTrue
<1>4. CASE QueueStep
  BY <1>1, <1>4 DEF QueueStep, killOwn
<1>5. CASE KillStep
  <2>1. ASSUME NEW x \in Killer, NEW m \in Market, KS!CancelDone(x, m)
        PROVE  real'[i] = OwedBy(exec'[k], i)
    <3> DEFINE c == [exec[x] EXCEPT !.toCancel = @ \ {m}]
    <3>1. c \in KS!Execution /\ c.stage = "cancel" /\ UNCHANGED real
      BY <1>0, <2>1 DEF KS!CancelDone, KS!Execution
    <3>2. exec' = [exec EXCEPT ![x] = KS!Advance(c)]
      BY <2>1 DEF KS!CancelDone, KS!Canceled
    <3> HIDE DEF c
    <3>3. KS!Advance(c).stage # "idle"
      BY <1>0, <3>1, AdvanceKeeps
    <3> QED  BY <1>2, <1>3, <3>1, <3>2, <3>3
  <2>2. ASSUME NEW x \in Killer, NEW m \in Market, KS!CancelFailed(x, m) PROVE FALSE
    <3> DEFINE d == KS!CancelErred(exec[x], m)
    <3>1. exec' = [exec EXCEPT ![x] = d] /\ exec[x].stage = "cancel"
      BY <2>2 DEF KS!CancelFailed
    <3>2. d.stage # "idle" /\ d.errors # {}
      <4> DEFINE c == [exec[x] EXCEPT !.toCancel = @ \ {m}, !.errors = @ \cup {m}]
      <4>1. c \in KS!Execution /\ c.stage = "cancel" /\ m \in c.errors
        BY <1>0, <3>1 DEF KS!Execution
      <4>2. d = KS!Advance(c)
        BY DEF KS!CancelErred
      <4> HIDE DEF c, d
      <4> QED  BY <1>0, <4>1, <4>2, AdvanceKeeps
    <3> HIDE DEF d
    <3> QED  BY <1>2, <3>1, <3>2 DEF LoneAndTrue
  <2>3. ASSUME NEW x \in Killer, NEW j \in Instrument, KS!CloseDone(x, j)
        PROVE  Straggler(i)' \/ real'[i] = OwedBy(exec'[k], i)
    <3> DEFINE c == [exec[x] EXCEPT !.toClose = @ \ {j}, !.closed = @ \cup {j}]
    <3>1. /\ c \in KS!Execution /\ c.stage = "close" /\ exec[x].stage = "close"
          /\ c.errors = exec[x].errors /\ c.qty = exec[x].qty /\ c.held = exec[x].held
          /\ c.toClose = exec[x].toClose \ {j} /\ j \in exec[x].toClose
      BY <1>0, <2>3 DEF KS!CloseDone, KS!Execution
    <3>2. exec' = [exec EXCEPT ![x] = KS!Advance(c)]
      BY <2>3 DEF KS!CloseDone, KS!Closed
    <3> HIDE DEF c
    <3>3. KS!Advance(c).stage # "idle" /\ KS!Advance(c).errors = c.errors
      BY <1>0, <3>1, AdvanceKeeps
    <3>4. /\ x = k /\ exec'[k] = KS!Advance(c)
          /\ \A y \in Killer \ {k} : exec[y].stage = "idle"
      BY <1>2, <3>2, <3>3
    <3>5. /\ KS!Advance(c).qty = c.qty /\ KS!Advance(c).held = c.held
          /\ OwedBy(exec'[k], i) = OwedBy(c, i)
      BY <1>0, <3>1, <3>4, AdvanceOwes
    <3>6. LoneAndTrue(k)
      BY <3>1, <3>3, <3>4, <3>5 DEF LoneAndTrue
    <3>7. Straggler(i) \/ real[i] = OwedBy(exec[k], i)
      BY <3>6 DEF Settled
    <3>8. real'[i] = IF i = j THEN real[i] - exec[k].qty[i] ELSE real[i]
      BY <1>0, <2>3, <3>4 DEF KS!CloseDone, KS!ClosedOut, KS!KillTypeOK
    <3>9. real[i] \in Int
      BY <1>0 DEF KS!KillTypeOK
    <3>10. CASE i = j
      <4>1. OwedBy(c, i) = 0 /\ OwedBy(exec[k], i) = exec[k].qty[i]
        BY <3>1, <3>4, <3>10 DEF OwedBy
      <4> QED  BY <1>0, <3>5, <3>7, <3>8, <3>9, <3>10, <4>1
    <3>11. CASE i # j
      <4>1. OwedBy(c, i) = OwedBy(exec[k], i)
        BY <3>1, <3>4, <3>11 DEF OwedBy
      <4> QED  BY <1>0, <3>5, <3>7, <3>8, <3>11, <4>1
    <3> QED  BY <3>10, <3>11
  <2>4. ASSUME NEW x \in Killer, NEW j \in Instrument, KS!CloseFailed(x, j) PROVE FALSE
    <3> DEFINE d == KS!CloseErred(exec[x], j)
    <3>1. exec' = [exec EXCEPT ![x] = d] /\ exec[x].stage = "close"
      BY <2>4 DEF KS!CloseFailed
    <3>2. d.stage # "idle" /\ d.errors # {}
      <4> DEFINE c == [exec[x] EXCEPT !.toClose = @ \ {j}, !.errors = @ \cup {j}]
      <4>1. c \in KS!Execution /\ c.stage = "close" /\ j \in c.errors
        BY <1>0, <3>1 DEF KS!Execution
      <4>2. d = KS!Advance(c)
        BY DEF KS!CloseErred
      <4> HIDE DEF c, d
      <4> QED  BY <1>0, <4>1, <4>2, AdvanceKeeps
    <3> HIDE DEF d
    <3> QED  BY <1>2, <3>1, <3>2 DEF LoneAndTrue
  <2>5. ASSUME NEW x \in Killer, KS!Notified(x)
        PROVE  Straggler(i)' \/ real'[i] = OwedBy(exec'[k], i)
    <3> DEFINE d == [exec[x] EXCEPT !.stage = "done"]
    <3>1. exec' = [exec EXCEPT ![x] = d] /\ exec[x].stage = "notify" /\ UNCHANGED real
      BY <2>5 DEF KS!Notified, KS!account
    <3>2. /\ d.stage = "done" /\ d.errors = exec[x].errors
          /\ d.qty = exec[x].qty /\ d.held = exec[x].held
      BY <1>0 DEF KS!Execution
    <3> HIDE DEF d
    <3>3. x = k /\ exec'[k] = d /\ \A y \in Killer \ {k} : exec[y].stage = "idle"
      BY <1>2, <3>1, <3>2
    <3>4. LoneAndTrue(k)
      BY <3>1, <3>2, <3>3 DEF LoneAndTrue
    <3> QED  BY <1>0, <3>1, <3>2, <3>3, <3>4 DEF Settled, OwedBy
  <2>6. ASSUME NEW j \in Instrument, KS!Track(j) PROVE UNCHANGED <<exec, real>>
    BY <2>6 DEF KS!Track, KS!account
(* What rests at this point was placed by a straggler. *)
  <2>7. ASSUME NEW j \in Instrument, NEW d \in {-1, 1}, KS!Fills(j, d)
        PROVE  Straggler(i)' \/ real'[i] = OwedBy(exec'[k], i)
    <3>1. /\ UNCHANGED exec /\ j \in resting
          /\ i # j => real'[i] = real[i]
      BY <1>0, <2>7 DEF KS!Fills, KS!Moves, KS!KillTypeOK
    <3>2. LoneAndTrue(k)
      BY <3>1 DEF LoneAndTrue
    <3>3. i = j => Straggler(i)
      BY <3>1, <3>2 DEF LoneAndTrue, Begun, Cleared, RestAccounted, Excused
    <3> QED  BY <1>0, <3>1, <3>2, <3>3 DEF Settled
  <2> QED
    BY <1>1, <1>5, <2>1, <2>2, <2>3, <2>4, <2>5, <2>6, <2>7 DEF KillStep, KS!ExecuteStep
<1>6. ASSUME NEW p \in Caller, OrderLands(p)
      PROVE  Straggler(i)' \/ real'[i] = OwedBy(exec'[k], i)
  <2>1. UNCHANGED exec /\ (i # req[p].inst => real'[i] = real[i])
    BY <1>0, <1>6 DEF OrderLands, KS!Lands, KS!Moves, KS!KillTypeOK
  <2>2. killFlag /\ (Straggler(i) \/ real[i] = OwedBy(exec[k], i))
    BY <2>1 DEF LoneAndTrue, Begun, Cleared, RestAccounted, Settled
  <2> QED  BY <1>0, <1>6, <2>1, <2>2, LateLands
<1>7. ASSUME NEW x \in Killer, Kill(x) PROVE real'[i] = OwedBy(exec'[k], i)
  <2> DEFINE c == [KS!NotStarted EXCEPT !.stage = "cancel", !.toCancel = Connected]
  <2>1. c \in KS!Execution /\ c.stage = "cancel"
    BY CoreAssumption, NotStartedTyped DEF CoreAssumption, KS!Execution
  <2>2. exec' = [exec EXCEPT ![x] = KS!Advance(c)] /\ UNCHANGED real
    BY <1>7 DEF Kill, KS!Start, KS!account
  <2> HIDE DEF c
  <2>3. KS!Advance(c).stage # "idle"
    BY <1>0, <2>1, AdvanceKeeps
  <2> QED  BY <1>2, <1>3, <2>1, <2>2, <2>3
<1>8. CASE Shutdown
  BY <1>1, <1>8 DEF Shutdown, killOwn
<1>9. CASE CoreCrash
  <2>1. /\ UNCHANGED real
        /\ \A x \in Killer : exec'[x] = IF KS!Running(x)
               THEN [exec[x] EXCEPT !.stage = "lost"] ELSE exec[x]
    BY <1>9 DEF CoreCrash, KS!Die, KS!account
  <2>2. \A x \in Killer : [exec[x] EXCEPT !.stage = "lost"].stage = "lost"
    BY <1>0 DEF KS!Execution
  <2>3. exec'[k] = exec[k] /\ \A x \in Killer \ {k} : exec[x].stage = "idle"
    BY <2>1, <2>2 DEF LoneAndTrue
  <2>4. LoneAndTrue(k)
    BY <2>3 DEF LoneAndTrue
  <2> QED  BY <1>0, <2>1, <2>3, <2>4 DEF Settled
<1>10. CASE UNCHANGED coreVars
  BY <1>1, <1>10 DEF coreVars, killOwn
<1> QED  BY <1>4, <1>5, <1>6, <1>7, <1>8, <1>9, <1>10 DEF CoreNext

(* A lone kill switch that reports success, having read the positions as they were,
   leaves the account flat but for markets without a connector and stragglers. *)
THEOREM KillIsFlat == CoreSpec => []KillFlattens
<1>1. CoreInit => Settled
  BY DEF CoreInit, KS!KillInit, KS!NotStarted, Settled, LoneAndTrue
<1>2. Settled => KillFlattens
  BY DEF Settled, LoneAndTrue, OwedBy, KillFlattens, KS!Success
<1> QED  BY <1>1, <1>2, AlwaysCleared, SettledStep, PTL DEF CoreSpec

-----------------------------------------------------------------------------
(* The composed process takes no step with the account and the executions that
   KillSwitch does not take, with the stragglers' instruments as the late ones: so
   what is proved of KillSwitch holds in it.  KP is KS with its proofs. *)

KP == INSTANCE KillSwitchProofs WITH late <- Stragglers

(* The one step that may make a straggler. *)
LEMMA LandingIsTrade ==
    ASSUME Cleared, NEW p \in Caller, OrderLands(p)
    PROVE  Stragglers' = IF killFlag THEN Stragglers \cup {req[p].inst} ELSE Stragglers
<1>1. /\ CreateAccepted(p) /\ req[p].inst \in Instrument /\ book \in Seq(Order)
      /\ UNCHANGED <<killFlag, atKill>>
  BY RequestFields
     DEF OrderLands, CreateAccepted, Cleared, CoreTypeOK, TypeOK, InHand, redis, history
<1> DEFINE n0 == Len(book) + 1
<1>2. /\ DOMAIN book' = DOMAIN book \cup {n0}
      /\ \A n \in DOMAIN book : book'[n] = book[n]
      /\ book'[n0].inst = req[p].inst /\ book'[n0].late = killFlag
  <2>1. DOMAIN book' = 1..n0 /\ DOMAIN book = 1..Len(book) /\ Len(book) \in Nat
    BY <1>1 DEF CreateAccepted
  <2>2. /\ \A n \in DOMAIN book : book'[n] = book[n]
        /\ book'[n0].inst = req[p].inst /\ book'[n0].late = killFlag
    BY <1>1 DEF CreateAccepted
  <2>3. 1..n0 = (1..Len(book)) \cup {n0}
    BY <2>1
  <2> QED  BY <2>1, <2>2, <2>3
<1> HIDE DEF n0
<1>3. ASSUME NEW i \in Instrument, Straggler(i) PROVE Straggler(i)'
  BY <1>1, <1>2, <1>3 DEF Straggler
<1>4. ASSUME NEW i \in Instrument, Straggler(i)'
      PROVE  Straggler(i) \/ (killFlag /\ i = req[p].inst)
  BY <1>1, <1>2, <1>4 DEF Straggler
<1>5. ASSUME killFlag, NEW i, i = req[p].inst PROVE Straggler(i)'
  BY <1>5, LateLands
<1>6. ASSUME NEW i \in Instrument
      PROVE  Straggler(i)' <=> Straggler(i) \/ (killFlag /\ i = req[p].inst)
  BY <1>3, <1>4, <1>5
<1>7. Stragglers' = {i \in Instrument : Straggler(i) \/ (killFlag /\ i = req[p].inst)}
  BY <1>6 DEF Stragglers
<1> HIDE DEF Straggler
<1> QED  BY <1>1, <1>7 DEF Stragglers

(* KP has the steps of KS. *)
LEMMA SameStart == \A k : KS!Start(k) <=> KP!Start(k)
  BY DEF KS!Start, KP!Start, KS!Advance, KP!Advance, KS!ToClose, KP!ToClose,
         KS!NotStarted, KP!NotStarted, KS!Flat, KP!Flat, KS!account, KP!account

LEMMA SameExecute == \A k : KS!ExecuteStep(k) <=> KP!ExecuteStep(k)
<1> SUFFICES ASSUME NEW k PROVE KS!ExecuteStep(k) <=> KP!ExecuteStep(k)
  OBVIOUS
<1>1. ASSUME NEW m
      PROVE  /\ KS!CancelDone(k, m) <=> KP!CancelDone(k, m)
             /\ KS!CancelFailed(k, m) <=> KP!CancelFailed(k, m)
  BY DEF KS!CancelDone, KP!CancelDone, KS!CancelFailed, KP!CancelFailed,
         KS!CanceledOn, KP!CanceledOn, KS!Canceled, KP!Canceled, KS!CancelErred,
         KP!CancelErred, KS!Advance, KP!Advance, KS!ToClose, KP!ToClose
<1>2. ASSUME NEW i
      PROVE  /\ KS!CloseDone(k, i) <=> KP!CloseDone(k, i)
             /\ KS!CloseFailed(k, i) <=> KP!CloseFailed(k, i)
  BY DEF KS!CloseDone, KP!CloseDone, KS!CloseFailed, KP!CloseFailed,
         KS!ClosedOut, KP!ClosedOut, KS!Closed, KP!Closed, KS!CloseErred,
         KP!CloseErred, KS!Advance, KP!Advance, KS!ToClose, KP!ToClose
<1>3. KS!Notified(k) <=> KP!Notified(k)
  BY DEF KS!Notified, KP!Notified, KS!account, KP!account
<1> QED  BY <1>1, <1>2, <1>3 DEF KS!ExecuteStep, KP!ExecuteStep

LEMMA SameAround ==
    /\ \A i : KS!Track(i) <=> KP!Track(i)
    /\ \A i, d : KS!Trade(i, d) <=> KP!Trade(i, d)
    /\ \A i, d : KS!Fills(i, d) <=> KP!Fills(i, d)
    /\ KS!Die <=> KP!Die
<1>1. \A i : KS!Track(i) <=> KP!Track(i)
  BY DEF KS!Track, KP!Track, KS!account, KP!account
<1>2. \A i, d : KS!Trade(i, d) <=> KP!Trade(i, d)
  BY DEF KS!Trade, KP!Trade, KS!Lands, KP!Lands, KS!Moves, KP!Moves
<1>3. \A i, d : KS!Fills(i, d) <=> KP!Fills(i, d)
  BY DEF KS!Fills, KP!Fills, KS!Moves, KP!Moves
<1>4. KS!Die <=> KP!Die
  BY DEF KS!Die, KP!Die, KS!Running, KP!Running, KS!account, KP!account
<1> QED  BY <1>1, <1>2, <1>3, <1>4

LEMMA CoreStepIsKillStep ==
    Cleared /\ [CoreNext]_coreVars => [KP!KillNext]_(KP!killVars)
<1> SUFFICES ASSUME Cleared, CoreNext \/ UNCHANGED coreVars
             PROVE  KP!KillNext \/ UNCHANGED KP!killVars
  OBVIOUS
<1> DEFINE Still == UNCHANGED <<killFlag, killOwn>> /\ UNCHANGED <<book, atKill>>
<1>1. ASSUME Still PROVE UNCHANGED KP!killVars
  <2>1. UNCHANGED Stragglers
    BY <1>1 DEF Stragglers, Straggler
  <2> QED  BY <1>1, <2>1 DEF KP!killVars, KP!account, killOwn
<1>2. CASE QueueStep
  BY <1>1, <1>2
     DEF QueueStep, SubmitCached, SubmitAdmitted, CallStarts, CallEnds, LeverageSet,
         LeverageFailed, CreateReturned, CreateFailed, UpdateDailyPnl, Tick, redis,
         exchange, history
<1>3. CASE KillStep
  BY <1>3, SameExecute, SameAround DEF KillStep, KP!KillNext
<1>4. ASSUME NEW p \in Caller, OrderLands(p) PROVE KP!KillNext
  <2> DEFINE d == IF req[p].side = "buy" THEN 1 ELSE -1
  <2>1. KS!Lands(req[p].inst, d) /\ d \in {-1, 1}
    BY <1>4 DEF OrderLands
  <2> HIDE DEF d
  <2>2. KS!Trade(req[p].inst, d)
    BY <1>4, <2>1, LandingIsTrade DEF KS!Trade
  <2>3. req[p].inst \in Instrument
    BY <1>4, RequestFields DEF OrderLands, CreateAccepted, Cleared, InHand
  <2> QED  BY <2>1, <2>2, <2>3, SameAround DEF KP!KillNext
<1>5. ASSUME NEW k \in Killer, Kill(k) PROVE KP!KillNext
  BY <1>5, SameStart DEF Kill, KP!KillNext
<1>6. CASE Shutdown
  BY <1>1, <1>6 DEF Shutdown, BlockNewOrders, redis, exchange, history
<1>7. CASE CoreCrash
  BY <1>7, SameAround DEF CoreCrash, KP!KillNext
<1>8. CASE UNCHANGED coreVars
  BY <1>1, <1>8 DEF coreVars, vars, redis, exchange, history
<1> QED  BY <1>2, <1>3, <1>4, <1>5, <1>6, <1>7, <1>8 DEF CoreNext

(* The composed process implements KillSwitch. *)
THEOREM CoreIsKillSwitch == CoreSpec => KP!KillSpec
<1>1. CoreInit => KP!KillInit
  <2>1. CoreInit => Stragglers = {}
    BY DEF CoreInit, Init, Stragglers, Straggler
  <2> QED
    BY <2>1 DEF CoreInit, KS!KillInit, KP!KillInit, KS!Flat, KP!Flat, KS!NotStarted,
                KP!NotStarted
<1> QED  BY <1>1, AlwaysCleared, CoreStepIsKillStep, PTL DEF CoreSpec, KP!KillSpec

(* One execution of the kill switch only ever reduces positions among real
   submissions, too: but where stragglers landed or cancel_all failed. *)
THEOREM CoreKillReduces ==
    (\A j, k \in Killer : j = k) => (CoreSpec => CoreKillOnlyReduces)
<1> SUFFICES ASSUME \A j, k \in Killer : j = k PROVE CoreSpec => CoreKillOnlyReduces
  OBVIOUS
<1>1. KP!KillAssumption
  BY CoreAssumption, OrderAssumption
     DEF KP!KillAssumption, CoreAssumption, OrderAssumption
<1>2. KP!KillSpec => KP!KillOnlyReduces
  BY <1>1, KP!OneKillOnlyReduces DEF KP!Alone
<1>3. [\A k \in Killer, i \in Instrument \ Stragglers :
           /\ KP!ExecuteStep(k)
           /\ exec[k].qty[i] = exec[k].held[i]
           /\ MarketOf[i] \notin exec[k].errors
           => real'[i] \in IF real[i] >= 0 THEN 0..real[i] ELSE real[i]..0]_(KP!killVars)
      => [\A k \in Killer, i \in Instrument \ Stragglers :
              /\ KS!ExecuteStep(k)
              /\ exec[k].qty[i] = exec[k].held[i]
              /\ MarketOf[i] \notin exec[k].errors
              => real'[i] \in IF real[i] >= 0 THEN 0..real[i]
                              ELSE real[i]..0]_(KS!killVars)
  BY SameExecute DEF KP!killVars, KS!killVars, KP!account, KS!account
<1> QED
  BY <1>2, <1>3, CoreIsKillSwitch, PTL
     DEF CoreKillOnlyReduces, KS!KillOnlyReduces, KP!KillOnlyReduces
=============================================================================
