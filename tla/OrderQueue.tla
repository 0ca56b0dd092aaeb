----------------------------- MODULE OrderQueue -----------------------------
(***************************************************************************)
(* hydra/core/order_queue.py: OrderQueue.submit, run by several coroutines *)
(* of the hydra-core process on one event loop.  The Redis client is       *)
(* synchronous, so everything between two awaits of submit() is one step;  *)
(* the awaits are the two connector calls, set_leverage and create_order.  *)
(*                                                                         *)
(* State: Redis (lock keys with their TTL, idempotency cache, kill flag,   *)
(* daily pnl), the process (the in-memory block and the coroutines) and,   *)
(* outside the program, the orders that the exchange accepted (book).      *)
(* Time passes in ticks; LockTimeout and CallTimeout are in ticks.  A call *)
(* first waits, without a limit, for a thread of the executor and for the  *)
(* breaker of its market; only then its subprocess and the timeout start.  *)
(* An operator marked `slip` is a bug that somebody might make: the system *)
(* does not use it, and each one is known to break a property below.       *)
(***************************************************************************)
EXTENDS RiskEngine, Sequences, FiniteSets

CONSTANTS
    Caller,         \* the coroutines that may be inside submit() at once
    Key,            \* idempotency keys
    Instrument,     \* (market, symbol) pairs
    Market,
    MarketOf,       \* [Instrument -> Market]
    FuturesMarket,  \* FUTURES_MARKETS
    Connected,      \* markets whose connector create_exchanges built
    OneAtATime,     \* markets whose connector has a breaker: one call runs
    FuturesMode,    \* connectors built with is_futures=True
    Request,        \* the orders that clients may send
    NoRequest,      \* what an idle coroutine has in hand
    DailyPnl,       \* the values that daily pnl may take
    LockTimeout,    \* LOCK_TIMEOUT
    CallTimeout,    \* the timeout=15 of a connector's subprocess
    MaxOrders,      \* bound on the number of orders the exchange accepts
    Faults          \* which of "crash", "lost_reply", "idem_ttl" happen

Side == {"buy", "sell"}
Slot == Instrument \X Side

ASSUME OrderAssumption ==
    /\ LockTimeout \in Nat \ {0}
    /\ CallTimeout \in Nat \ {0}
    /\ MaxOrders \in Nat
    /\ MarketOf \in [Instrument -> Market]
    /\ DailyPnl \subseteq Int /\ 0 \in DailyPnl
    /\ Request \subseteq [key: Key, inst: Instrument, side: Side, lev: Nat]
    /\ NoRequest \notin Request

VARIABLES
    lockTTL,    \* [Slot -> remaining life of the lock key, 0 when absent]
    idem,       \* [Key -> cached order id, 0 when absent]
    killFlag,   \* hydra:kill_switch_active
    dailyPnl,   \* hydra:daily_pnl
    blocked,    \* OrderQueue._blocked
    pc,         \* [Caller -> where its submit() is suspended]
    req,        \* [Caller -> its OrderRequest]
    running,    \* callers whose connector call has got to its subprocess
    callAge,    \* [Caller -> ticks that subprocess has been running]
    landed,     \* [Caller -> id of the order its create_order call placed]
    book,       \* orders accepted by the exchange, in order
    answers,    \* history: <<key, order id>> pairs that submit() returned
    lapsed,     \* history: busy slots whose lock expired under a caller
    atKill      \* history: callers inside submit() when the flag was set

redis == <<lockTTL, idem, killFlag, dailyPnl>>
proc == <<blocked, pc, req, running, callAge, landed>>
exchange == <<book>>
history == <<answers, lapsed, atKill>>
vars == <<redis, proc, exchange, history>>

Order == [key: Key, inst: Instrument, side: Side, by: Caller,
          late: BOOLEAN, overdue: BOOLEAN]

TypeOK ==
    /\ lockTTL \in [Slot -> 0..LockTimeout]
    /\ idem \in [Key -> Nat]
    /\ killFlag \in BOOLEAN
    /\ dailyPnl \in DailyPnl
    /\ blocked \in BOOLEAN
    /\ pc \in [Caller -> {"idle", "leverage", "create"}]
    /\ req \in [Caller -> Request \cup {NoRequest}]
    /\ running \in SUBSET Caller
    /\ callAge \in [Caller -> 0..CallTimeout]
    /\ landed \in [Caller -> Nat]
    /\ book \in Seq(Order)
    /\ answers \in SUBSET (Key \X Nat)
    /\ lapsed \in SUBSET Slot
    /\ atKill \in SUBSET Caller

Init ==
    /\ lockTTL = [s \in Slot |-> 0]
    /\ idem = [k \in Key |-> 0]
    /\ killFlag = FALSE
    /\ dailyPnl = 0
    /\ blocked = FALSE
    /\ pc = [p \in Caller |-> "idle"]
    /\ req = [p \in Caller |-> NoRequest]
    /\ running = {}
    /\ callAge = [p \in Caller |-> 0]
    /\ landed = [p \in Caller |-> 0]
    /\ book = <<>>
    /\ answers = {}
    /\ lapsed = {}
    /\ atKill = {}

-----------------------------------------------------------------------------
(* Guards and small effects of submit(). *)

InFlight == {p \in Caller : pc[p] # "idle"}
SlotOf(r) == <<r.inst, r.side>>            \* order_lock:market:symbol:side
BusySlots == {SlotOf(req[p]) : p \in InFlight}
Cached(r) == idem[r.key] # 0

KillFlagUnread == blocked          \* slip: the Redis flag is not read
KillBlocked == blocked \/ killFlag

LockIgnored(s) == TRUE             \* slip: the result of SET NX is not looked at
LockFree(s) == lockTTL[s] = 0

RiskAllows == CheckOrderAllowed(dailyPnl, 0)
HasConnector(r) == MarketOf[r.inst] \in Connected

(* OrderRequest.model_post_init: leverage on a futures market makes it a
   futures order; on a spot-mode connector set_leverage is a no-op that
   returns without suspending. *)
IsFutures(r) == r.lev > 1 /\ MarketOf[r.inst] \in FuturesMarket
CallsSetLeverage(r) == IsFutures(r) /\ MarketOf[r.inst] \in FuturesMode

(* The finally clause: the lock key is deleted whoever holds it now. *)
Released(s) == [lockTTL EXCEPT ![s] = 0]

(* The coroutine leaves submit(). *)
LeaveWithOrder(p) ==    \* slip: the call's result survives into the next call
    /\ pc' = [pc EXCEPT ![p] = "idle"]
    /\ req' = [req EXCEPT ![p] = NoRequest]
    /\ running' = running \ {p}
    /\ callAge' = [callAge EXCEPT ![p] = 0]
    /\ UNCHANGED <<landed, blocked>>

Leave(p) ==
    /\ pc' = [pc EXCEPT ![p] = "idle"]
    /\ req' = [req EXCEPT ![p] = NoRequest]
    /\ running' = running \ {p}
    /\ callAge' = [callAge EXCEPT ![p] = 0]
    /\ landed' = [landed EXCEPT ![p] = 0]
    /\ UNCHANGED blocked

-----------------------------------------------------------------------------
(* submit(), from its entry to its first await or its return.  A refusal
   (kill flag, lock, risk, no connector) raises and changes nothing: when it
   comes after the lock was taken, the finally clause gives the lock back
   before another coroutine can run.  So a refusal is a stuttering step. *)

SubmitCached(r) ==
    /\ Cached(r)
    /\ answers' = answers \cup {<<r.key, idem[r.key]>>}
    /\ UNCHANGED <<redis, proc, exchange, lapsed, atKill>>

Passes(r) ==
    /\ ~Cached(r)
    /\ ~KillBlocked
    /\ LockFree(SlotOf(r))
    /\ RiskAllows
    /\ HasConnector(r)

SubmitAdmitted(p, r) ==
    /\ pc[p] = "idle"
    /\ Passes(r)
    /\ lockTTL' = [lockTTL EXCEPT ![SlotOf(r)] = LockTimeout]
    /\ pc' = [pc EXCEPT ![p] = IF CallsSetLeverage(r) THEN "leverage" ELSE "create"]
    /\ req' = [req EXCEPT ![p] = r]
    /\ lapsed' = lapsed \cap BusySlots
    /\ UNCHANGED <<idem, killFlag, dailyPnl, blocked, running, callAge, landed,
                   exchange, answers, atKill>>

-----------------------------------------------------------------------------
(* The connector calls.  Each of them waits for a thread and, on most markets,
   for the calls of others to end; an order reaches the exchange at some point
   of the subprocess, which may fail before or (a lost reply) after that point. *)

MarketBusy(m) == m \in OneAtATime /\ \E q \in running : MarketOf[req[q].inst] = m

CallStarts(p) ==
    /\ p \in InFlight \ running
    /\ ~MarketBusy(MarketOf[req[p].inst])
    /\ running' = running \cup {p}
    /\ UNCHANGED <<redis, blocked, pc, req, callAge, landed, exchange, history>>

LeverageSet(p) ==
    /\ pc[p] = "leverage" /\ p \in running
    /\ pc' = [pc EXCEPT ![p] = "create"]
    /\ running' = running \ {p}
    /\ callAge' = [callAge EXCEPT ![p] = 0]
    /\ UNCHANGED <<redis, blocked, req, landed, exchange, history>>

LeverageFailed(p) ==
    /\ pc[p] = "leverage" /\ p \in running
    /\ lockTTL' = Released(SlotOf(req[p]))
    /\ Leave(p)
    /\ UNCHANGED <<idem, killFlag, dailyPnl, exchange, history>>

CreateAccepted(p) ==
    /\ pc[p] = "create" /\ p \in running /\ landed[p] = 0
    /\ Len(book) < MaxOrders
    /\ book' = Append(book,
           [key |-> req[p].key, inst |-> req[p].inst, side |-> req[p].side,
            by |-> p, late |-> killFlag, overdue |-> SlotOf(req[p]) \in lapsed])
    /\ landed' = [landed EXCEPT ![p] = Len(book) + 1]
    /\ UNCHANGED <<redis, blocked, pc, req, running, callAge, history>>

CreateReturnedUnsaved(p) ==    \* slip: the result is not cached
    /\ pc[p] = "create" /\ landed[p] # 0
    /\ lockTTL' = Released(SlotOf(req[p]))
    /\ Leave(p)
    /\ answers' = answers \cup {<<req[p].key, landed[p]>>}
    /\ UNCHANGED <<idem, killFlag, dailyPnl, exchange, lapsed, atKill>>

CreateReturned(p) ==
    /\ pc[p] = "create" /\ landed[p] # 0
    /\ idem' = [idem EXCEPT ![req[p].key] = landed[p]]
    /\ lockTTL' = Released(SlotOf(req[p]))
    /\ Leave(p)
    /\ answers' = answers \cup {<<req[p].key, landed[p]>>}
    /\ UNCHANGED <<killFlag, dailyPnl, exchange, lapsed, atKill>>

CreateNeverTimesOut(p) ==    \* slip: a subprocess without a timeout
    /\ pc[p] = "create" /\ p \in running
    /\ landed[p] # 0 /\ "lost_reply" \in Faults
    /\ lockTTL' = Released(SlotOf(req[p]))
    /\ Leave(p)
    /\ UNCHANGED <<idem, killFlag, dailyPnl, exchange, history>>

CreateFailed(p) ==
    /\ pc[p] = "create" /\ p \in running
    /\ landed[p] = 0 \/ "lost_reply" \in Faults
    /\ lockTTL' = Released(SlotOf(req[p]))
    /\ Leave(p)
    /\ UNCHANGED <<idem, killFlag, dailyPnl, exchange, history>>

CallEnds(p) ==
    \/ LeverageSet(p) \/ LeverageFailed(p)
    \/ CreateReturned(p) \/ CreateFailed(p)
-----------------------------------------------------------------------------
(* What happens around submit(). *)

(* One tick: lock keys and running calls grow older.  No subprocess outlives
   its timeout; a call that waits may wait for any time. *)
NotAged(ttl) == ttl             \* slip: SET NX without EX
AgedPastZero(ttl) == ttl - 1    \* slip
Aged(ttl) == IF ttl > 0 THEN ttl - 1 ELSE 0

Tick ==
    /\ \A p \in running : callAge[p] < CallTimeout
    /\ lockTTL' = [s \in Slot |-> Aged(lockTTL[s])]
    /\ callAge' = [p \in Caller |-> IF p \in running THEN callAge[p] + 1 ELSE 0]
    /\ lapsed' = lapsed \cup {SlotOf(req[p]) : p \in
                     {q \in InFlight : lockTTL[SlotOf(req[q])] = 1}}
    /\ UNCHANGED <<idem, killFlag, dailyPnl, blocked, pc, req, running, landed,
                   exchange, answers, atKill>>

(* KillSwitch.execute sets the flag; nothing in the repository deletes it. *)
KillSet ==
    /\ killFlag' = TRUE
    /\ atKill' = IF killFlag THEN atKill ELSE InFlight
    /\ UNCHANGED <<lockTTL, idem, dailyPnl, proc, exchange, answers, lapsed>>

(* GracefulManager.shutdown calls block_new_orders. *)
BlockNewOrders ==
    /\ blocked' = TRUE
    /\ UNCHANGED <<redis, pc, req, running, callAge, landed, exchange, history>>

(* RiskEngine.update_daily_pnl. *)
UpdateDailyPnl(v) ==
    /\ dailyPnl' = v
    /\ UNCHANGED <<lockTTL, idem, killFlag, proc, exchange, history>>

(* IDEMPOTENCY_TTL runs out. *)
IdemExpires(k) ==
    /\ "idem_ttl" \in Faults
    /\ idem' = [idem EXCEPT ![k] = 0]
    /\ UNCHANGED <<lockTTL, killFlag, dailyPnl, proc, exchange, history>>

(* The process dies and is restarted (restart: always): its memory is lost,
   no finally clause runs, Redis (appendonly) and the exchange are kept. *)
Crash ==
    /\ "crash" \in Faults
    /\ blocked' = FALSE
    /\ pc' = [p \in Caller |-> "idle"]
    /\ running' = {}
    /\ callAge' = [p \in Caller |-> 0]
    /\ landed' = [p \in Caller |-> 0]
    /\ req' = [p \in Caller |-> NoRequest]
    /\ UNCHANGED <<redis, exchange, history>>

Next ==
    \/ \E r \in Request : SubmitCached(r) \/ \E p \in Caller : SubmitAdmitted(p, r)
    \/ \E p \in Caller : CallStarts(p) \/ CreateAccepted(p) \/ CallEnds(p)
    \/ \E v \in DailyPnl : UpdateDailyPnl(v)
    \/ \E k \in Key : IdemExpires(k)
    \/ Tick \/ KillSet \/ BlockNewOrders \/ Crash

(* A subprocess ends by itself or by its timeout, time passes, and whoever waits
   for the executor or a breaker that comes free again and again gets it in the
   end; nobody has to submit, kill, crash or get an order accepted. *)
Fairness ==
    /\ WF_vars(Tick)
    /\ \A p \in Caller : SF_vars(CallStarts(p)) /\ WF_vars(CallEnds(p))

Spec == Init /\ [][Next]_vars
FairSpec == Spec /\ Fairness

-----------------------------------------------------------------------------
(* Properties. *)

(* After the kill flag is set, the only orders that still reach an exchange
   belong to submissions that were already past the kill check, at most one
   each: submit() reads the flag once, before its awaits. *)
LateOrdersWereInFlight ==
    \A i, j \in DOMAIN book :
        book[i].late /\ book[j].late =>
            /\ book[i].by \in atKill
            /\ book[i].by = book[j].by => i = j

(* The order that submit() returns, or that the idempotency cache holds for
   a retry, is one that the exchange accepted under that very key; the order
   that a running call has placed is its own. *)
AnswersSound ==
    /\ \A a \in answers : a[2] \in DOMAIN book /\ book[a[2]].key = a[1]
    /\ \A k \in Key : idem[k] # 0 =>
           idem[k] \in DOMAIN book /\ book[idem[k]].key = k
    /\ \A p \in Caller : pc[p] = "create" /\ landed[p] # 0 =>
           /\ landed[p] \in DOMAIN book
           /\ book[landed[p]].by = p /\ book[landed[p]].key = req[p].key

(* While no cache entry has expired, a key that was ever answered is cached,
   across restarts too: a retry of it is given an order, never places one. *)
AnsweredIsCached ==
    "idem_ttl" \notin Faults => \A a \in answers : idem[a[1]] # 0

(* The order lock excludes for as long as it lives: until a lock key expires
   under its holder, a (market, symbol, side) has one submission at a time,
   and that submission holds a live lock. *)
ExclusiveUntilLapse ==
    \A p \in InFlight : SlotOf(req[p]) \notin lapsed =>
        /\ lockTTL[SlotOf(req[p])] > 0
        /\ \A q \in InFlight : SlotOf(req[q]) = SlotOf(req[p]) => p = q

(* What the lock is for, without the condition: one submission at a time per
   (market, symbol, side). *)
SlotExclusive ==
    \A p, q \in InFlight : SlotOf(req[p]) = SlotOf(req[q]) => p = q

(* What the idempotency key is for: one exchange order per key. *)
OneOrderPerKey ==
    \A i, j \in DOMAIN book : book[i].key = book[j].key => i = j

(* What is left of that.  Nobody was, or will be, told of an orphan: its outcome
   was lost when its call failed or its process crashed.  A second order under a
   key and in its slot is placed only if the first is an orphan, or if the second
   belongs to a submission in whose slot a lock had lapsed under its holder. *)
Orphan(i) == /\ <<book[i].key, i>> \notin answers
             /\ \A p \in Caller : landed[p] # i

RepeatsExplained ==
    "idem_ttl" \notin Faults =>
        \A i, j \in DOMAIN book :
            i < j /\ book[i].key = book[j].key /\ SlotOf(book[i]) = SlotOf(book[j]) =>
                Orphan(i) \/ book[j].overdue

(* No submission hangs: every connector call returns, fails or times out. *)
EverySubmitReturns == \A p \in Caller : pc[p] # "idle" ~> pc[p] = "idle"

(* No lock outlives its owner: a slot whose holder crashed opens again. *)
LocksComeFree == \A s \in Slot : lockTTL[s] > 0 ~> lockTTL[s] = 0

(* submit() implements the turnstile of AdmissionGate: killFlag closes it for
   good, the in-memory block and the daily loss limit pause it. *)
GateState ==
    IF killFlag THEN "closed"
    ELSE IF blocked \/ dailyPnl <= -DailyLossLimit \/ dailyPnl <= -DailyLossKill
    THEN "paused" ELSE "open"

Gate == INSTANCE AdmissionGate WITH
    gate <- GateState,
    inside <- InFlight,
    spent <- {p \in Caller : landed[p] # 0},
    landings <- Len(book)

ImplementsGate == Gate!GateSpec
=============================================================================
