-------------------------- MODULE OrderQueueProofs --------------------------
(***************************************************************************)
(* What is proved of OrderQueue, for every set of coroutines, keys,        *)
(* instruments and requests and for every pair of timeouts.                *)
(***************************************************************************)
EXTENDS OrderQueue, TLAPS

-----------------------------------------------------------------------------
(* The types that an order and a request in hand have, and the slot they name. *)

LEMMA RequestFields ==
    ASSUME NEW r \in Request
    PROVE  /\ r \in [key: Key, inst: Instrument, side: Side, lev: Nat]
           /\ SlotOf(r) \in Slot
<1>1. r \in [key: Key, inst: Instrument, side: Side, lev: Nat]
  BY OrderAssumption DEF OrderAssumption
<1> QED  BY <1>1 DEF SlotOf, Slot

(* Whoever is inside submit() has a request in hand, a call that runs is somebody's,
   and nothing is left over from an earlier call. *)
InHand ==
    \A p \in Caller :
        /\ pc[p] # "idle" => req[p] \in Request
        /\ landed[p] # 0 => pc[p] = "create"
        /\ p \in running => pc[p] # "idle"
        /\ callAge[p] # 0 => p \in running

Typed == TypeOK /\ InHand

LEMMA InitTyped == Init => Typed
<1> SUFFICES ASSUME Init PROVE Typed
  OBVIOUS
<1> USE OrderAssumption DEF OrderAssumption
<1>1. TypeOK
  <2>1. lockTTL \in [Slot -> 0..LockTimeout] /\ callAge \in [Caller -> 0..CallTimeout]
    BY DEF Init
  <2>2. book \in Seq(Order)
    BY DEF Init
  <2> QED  BY <2>1, <2>2 DEF Init, TypeOK
<1>2. InHand
  BY DEF Init, InHand
<1> QED  BY <1>1, <1>2 DEF Typed

(* Giving a lock back keeps the lock table a lock table, and frees no other. *)
LEMMA ReleasedTyped ==
    ASSUME TypeOK, NEW s
    PROVE  /\ Released(s) \in [Slot -> 0..LockTimeout]
           /\ \A t \in Slot : t # s => Released(s)[t] = lockTTL[t]
<1>1. lockTTL \in [Slot -> 0..LockTimeout] /\ 0 \in 0..LockTimeout
  BY OrderAssumption DEF OrderAssumption, TypeOK
<1> QED  BY <1>1 DEF Released

(* Whoever leaves submit() leaves nothing behind. *)
LEMMA LeaveTyped ==
    ASSUME Typed, NEW p \in Caller, Leave(p)
    PROVE  /\ pc' \in [Caller -> {"idle", "leverage", "create"}]
           /\ req' \in [Caller -> Request \cup {NoRequest}]
           /\ running' \in SUBSET Caller /\ callAge' \in [Caller -> 0..CallTimeout]
           /\ landed' \in [Caller -> Nat] /\ blocked' \in BOOLEAN
           /\ InHand'
<1>1. 0 \in 0..CallTimeout
  BY OrderAssumption DEF OrderAssumption
<1>2. /\ pc' \in [Caller -> {"idle", "leverage", "create"}]
      /\ req' \in [Caller -> Request \cup {NoRequest}]
      /\ running' \in SUBSET Caller /\ callAge' \in [Caller -> 0..CallTimeout]
      /\ landed' \in [Caller -> Nat] /\ blocked' \in BOOLEAN
  BY <1>1 DEF Typed, TypeOK, Leave
<1>3. InHand'
  BY DEF Typed, TypeOK, InHand, Leave
<1> QED  BY <1>2, <1>3

(* Every step keeps the types, one action at a time. *)
LEMMA NextTyped == Typed /\ [Next]_vars => Typed'
<1> SUFFICES ASSUME Typed, [Next]_vars PROVE Typed'
  OBVIOUS
<1> USE OrderAssumption DEF OrderAssumption, Typed, TypeOK, InHand
<1>1. ASSUME NEW r \in Request, SubmitCached(r) PROVE Typed'
  BY <1>1, RequestFields DEF SubmitCached, Cached, redis, proc, exchange
<1>2. ASSUME NEW r \in Request, NEW p \in Caller, SubmitAdmitted(p, r) PROVE Typed'
  <2>1. SlotOf(r) \in Slot
    BY RequestFields
  <2>2. TypeOK'
    <3>1. lockTTL' \in [Slot -> 0..LockTimeout]
      BY <1>2, <2>1 DEF SubmitAdmitted
    <3>2. pc' \in [Caller -> {"idle", "leverage", "create"}]
      BY <1>2 DEF SubmitAdmitted
    <3>3. req' \in [Caller -> Request \cup {NoRequest}] /\ lapsed' \in SUBSET Slot
      BY <1>2 DEF SubmitAdmitted
    <3> QED  BY <1>2, <3>1, <3>2, <3>3 DEF SubmitAdmitted, exchange
  <2>3. InHand'
    BY <1>2 DEF SubmitAdmitted, exchange
  <2> QED  BY <2>2, <2>3
<1>3. ASSUME NEW p \in Caller, LeverageSet(p) PROVE Typed'
  <2>2. callAge' \in [Caller -> 0..CallTimeout]
    BY <1>3, OrderAssumption DEF LeverageSet
  <2>3. TypeOK'
    BY <1>3, <2>2 DEF LeverageSet, redis, exchange, history
  <2>4. InHand'
    BY <1>3 DEF LeverageSet, exchange
  <2> QED  BY <2>3, <2>4
<1>4. ASSUME NEW p \in Caller, LeverageFailed(p) PROVE Typed'
  <2>1. lockTTL' \in [Slot -> 0..LockTimeout]
    BY <1>4, ReleasedTyped DEF LeverageFailed
  <2> QED  BY <1>4, <2>1, LeaveTyped DEF LeverageFailed, exchange, history
<1>5. ASSUME NEW p \in Caller, CreateAccepted(p) PROVE Typed'
  <2>1. /\ req[p] \in Request
        /\ req[p] \in [key: Key, inst: Instrument, side: Side, lev: Nat]
    BY <1>5, RequestFields DEF CreateAccepted
  <2>3. [key |-> req[p].key, inst |-> req[p].inst, side |-> req[p].side,
         by |-> p, late |-> killFlag, overdue |-> SlotOf(req[p]) \in lapsed] \in Order
    BY <2>1 DEF Order
  <2>5. book' \in Seq(Order)
    BY <1>5, <2>3 DEF CreateAccepted
  <2>4. landed' \in [Caller -> Nat]
    BY <1>5 DEF CreateAccepted
  <2> QED  BY <1>5, <2>5, <2>4 DEF CreateAccepted, redis, history
<1>6. ASSUME NEW p \in Caller, CreateReturned(p) PROVE Typed'
  <2>1. req[p] \in Request /\ req[p].key \in Key /\ landed[p] \in Nat
    BY <1>6, RequestFields DEF CreateReturned
  <2>2. lockTTL' \in [Slot -> 0..LockTimeout]
    BY <1>6, ReleasedTyped DEF CreateReturned
  <2>3. idem' \in [Key -> Nat] /\ answers' \in SUBSET (Key \X Nat)
    BY <1>6, <2>1 DEF CreateReturned
  <2> QED  BY <1>6, <2>2, <2>3, LeaveTyped DEF CreateReturned, exchange
<1>7. ASSUME NEW p \in Caller, CreateFailed(p) PROVE Typed'
  <2>1. lockTTL' \in [Slot -> 0..LockTimeout]
    BY <1>7, ReleasedTyped DEF CreateFailed
  <2> QED  BY <1>7, <2>1, LeaveTyped DEF CreateFailed, exchange, history
<1>8. CASE Tick
  <2>1. lockTTL' \in [Slot -> 0..LockTimeout]
    BY <1>8 DEF Tick, Aged
  <2>2. callAge' \in [Caller -> 0..CallTimeout]
    BY <1>8 DEF Tick, InFlight
  <2>3. lapsed' \in SUBSET Slot
    BY <1>8, RequestFields DEF Tick, InFlight
  <2>4. InHand'
    BY <1>8 DEF Tick, InFlight
  <2> QED  BY <1>8, <2>1, <2>2, <2>3, <2>4 DEF Tick, exchange
<1>9. CASE KillSet
  BY <1>9 DEF KillSet, InFlight, proc, exchange
<1>10. CASE BlockNewOrders
  BY <1>10 DEF BlockNewOrders, redis, exchange, history
<1>11. ASSUME NEW v \in DailyPnl, UpdateDailyPnl(v) PROVE Typed'
  BY <1>11 DEF UpdateDailyPnl, proc, exchange, history
<1>12. ASSUME NEW k \in Key, IdemExpires(k) PROVE Typed'
  BY <1>12 DEF IdemExpires, proc, exchange, history
<1>13. CASE Crash
  <2>1. TypeOK'
    <3>1. 0 \in 0..CallTimeout
      OBVIOUS
    <3> QED  BY <1>13, <3>1 DEF Crash, redis, exchange, history
  <2>2. InHand'
    BY <1>13 DEF Crash
  <2> QED  BY <2>1, <2>2
<1>14. CASE UNCHANGED vars
  BY <1>14 DEF vars, redis, proc, exchange, history
<1>15. ASSUME NEW p \in Caller, CallStarts(p) PROVE Typed'
  BY <1>15 DEF CallStarts, InFlight, redis, exchange, history
<1> QED
  BY <1>1, <1>2, <1>3, <1>4, <1>5, <1>6, <1>7, <1>8, <1>9, <1>10, <1>11, <1>12,
     <1>13, <1>14, <1>15 DEF Next, CallEnds

(* Type correctness: every reachable state of the order queue is well typed. *)
THEOREM TypeCorrect == Spec => []TypeOK
<1>1. Typed => TypeOK
  BY DEF Typed
<1> QED  BY InitTyped, NextTyped, <1>1, PTL DEF Spec

LEMMA AlwaysTyped == Spec => []Typed
  BY InitTyped, NextTyped, PTL DEF Spec

-----------------------------------------------------------------------------
(* The order lock.  ExclusiveUntilLapse is inductive by itself: a slot with
   somebody in it has a live lock until it is in `lapsed`, and nobody enters a
   slot whose lock lives. *)

LEMMA LockInit == Init => ExclusiveUntilLapse
  BY DEF Init, ExclusiveUntilLapse, InFlight

LEMMA LockStep == Typed /\ ExclusiveUntilLapse /\ [Next]_vars => ExclusiveUntilLapse'
<1> SUFFICES ASSUME Typed, ExclusiveUntilLapse, [Next]_vars
             PROVE  ExclusiveUntilLapse'
  OBVIOUS
<1> USE DEF Typed
<1>1. ASSUME NEW r \in Request, SubmitCached(r) PROVE ExclusiveUntilLapse'
  BY <1>1 DEF SubmitCached, ExclusiveUntilLapse, InFlight, redis, proc
<1>2. ASSUME NEW r \in Request, NEW p \in Caller, SubmitAdmitted(p, r)
      PROVE  ExclusiveUntilLapse'
  <2>1. SlotOf(r) \in Slot /\ lockTTL[SlotOf(r)] = 0 /\ lockTTL'[SlotOf(r)] = LockTimeout
    BY <1>2, RequestFields DEF SubmitAdmitted, Passes, LockFree, TypeOK
  <2>2. /\ InFlight' = InFlight \cup {p} /\ p \notin InFlight
        /\ req'[p] = r /\ \A q \in Caller : q # p => req'[q] = req[q]
    BY <1>2 DEF SubmitAdmitted, InFlight, TypeOK
  <2>3. \A q \in InFlight : SlotOf(req[q]) = SlotOf(r) => SlotOf(r) \in lapsed'
    BY <1>2, <2>1 DEF SubmitAdmitted, ExclusiveUntilLapse, BusySlots
  <2>4. \A q \in InFlight : SlotOf(req[q]) \notin lapsed' => SlotOf(req[q]) \notin lapsed
    BY <1>2 DEF SubmitAdmitted, BusySlots
  <2>5. \A q \in InFlight : SlotOf(req[q]) # SlotOf(r) =>
            lockTTL'[SlotOf(req[q])] = lockTTL[SlotOf(req[q])]
    BY <1>2, RequestFields DEF SubmitAdmitted, TypeOK, InHand, InFlight
  <2>6. LockTimeout > 0
    BY OrderAssumption DEF OrderAssumption
  <2>7. InFlight \subseteq Caller
    BY DEF InFlight
  <2> HIDE DEF InFlight, SlotOf
  <2> QED  BY <2>1, <2>2, <2>3, <2>4, <2>5, <2>6, <2>7 DEF ExclusiveUntilLapse
<1>3. ASSUME NEW p \in Caller, lockTTL' = Released(SlotOf(req[p])), Leave(p),
             pc[p] # "idle", lapsed' = lapsed
      PROVE  ExclusiveUntilLapse'
  <2>1. /\ InFlight' = InFlight \ {p}
        /\ \A q \in InFlight' : req'[q] = req[q]
    BY <1>3 DEF Leave, InFlight, TypeOK
  <2>2. \A q \in InFlight' : SlotOf(req[q]) \notin lapsed =>
            lockTTL'[SlotOf(req[q])] = lockTTL[SlotOf(req[q])]
    BY <1>3, <2>1, ReleasedTyped, RequestFields
       DEF ExclusiveUntilLapse, InFlight, InHand
  <2> QED  BY <1>3, <2>1, <2>2 DEF ExclusiveUntilLapse
<1>4. ASSUME NEW p \in Caller, CallEnds(p) PROVE ExclusiveUntilLapse'
  <2>1. CASE LeverageSet(p)
    BY <2>1 DEF LeverageSet, ExclusiveUntilLapse, InFlight, TypeOK, redis, history
  <2>2. CASE LeverageFailed(p)
    BY <2>2, <1>3 DEF LeverageFailed, history
  <2>3. CASE CreateReturned(p)
    BY <2>3, <1>3 DEF CreateReturned
  <2>4. CASE CreateFailed(p)
    BY <2>4, <1>3 DEF CreateFailed, history
  <2> QED  BY <1>4, <2>1, <2>2, <2>3, <2>4 DEF CallEnds
<1>5. ASSUME NEW p \in Caller, CreateAccepted(p) PROVE ExclusiveUntilLapse'
  BY <1>5 DEF CreateAccepted, ExclusiveUntilLapse, InFlight, redis, history
<1>6. CASE Tick
  <2>1. InFlight' = InFlight /\ req' = req /\ lapsed \subseteq lapsed'
    BY <1>6 DEF Tick, InFlight
  <2>2. ASSUME NEW p \in InFlight, SlotOf(req[p]) \notin lapsed'
        PROVE  lockTTL'[SlotOf(req[p])] > 0
    <3>1. SlotOf(req[p]) \in Slot
      BY RequestFields DEF InHand, InFlight
    <3>2. lockTTL[SlotOf(req[p])] \in Nat
      BY <3>1, OrderAssumption DEF OrderAssumption, TypeOK
    <3>4. lockTTL[SlotOf(req[p])] > 0
      BY <2>1, <2>2 DEF ExclusiveUntilLapse
    <3>3. lockTTL[SlotOf(req[p])] # 1
      BY <1>6, <2>2 DEF Tick
    <3> QED  BY <1>6, <3>1, <3>2, <3>3, <3>4 DEF Tick, Aged
  <2> QED  BY <2>1, <2>2 DEF ExclusiveUntilLapse
<1>7. CASE Crash
  BY <1>7 DEF Crash, ExclusiveUntilLapse, InFlight
<1>8. CASE KillSet \/ BlockNewOrders \/ UNCHANGED vars
           \/ (\E v \in DailyPnl : UpdateDailyPnl(v)) \/ \E k \in Key : IdemExpires(k)
  BY <1>8 DEF KillSet, BlockNewOrders, UpdateDailyPnl, IdemExpires, vars, redis, proc,
              history, ExclusiveUntilLapse, InFlight
<1>9. ASSUME NEW p \in Caller, CallStarts(p) PROVE ExclusiveUntilLapse'
  BY <1>9 DEF CallStarts, ExclusiveUntilLapse, InFlight, redis, history
<1> QED
  BY <1>1, <1>2, <1>4, <1>5, <1>6, <1>7, <1>8, <1>9 DEF Next

(* Until a lock key expires under its holder, the lock excludes. *)
THEOREM LockExcludes == Spec => []ExclusiveUntilLapse
  BY AlwaysTyped, LockInit, LockStep, PTL DEF Spec

-----------------------------------------------------------------------------
(* Orders that land after the kill.  Nobody enters once the flag is set, so the
   callers inside are among those that were inside then; and a caller who has
   placed a late order either still carries it or is out for good. *)

KillAccounting ==
    /\ killFlag => InFlight \subseteq atKill
    /\ \A n \in DOMAIN book : book[n].late =>
           /\ killFlag
           /\ book[n].by \in atKill
           /\ book[n].by \in InFlight => landed[book[n].by] # 0
    /\ LateOrdersWereInFlight

(* A step that places no order, lets nobody in and leaves the kill flag alone. *)
LEMMA KillQuietStep ==
    ASSUME KillAccounting, UNCHANGED <<book, killFlag, atKill>>,
           InFlight' \subseteq InFlight,
           \A p \in InFlight' : landed'[p] = landed[p]
    PROVE  KillAccounting'
<1>1. LateOrdersWereInFlight'
  BY DEF KillAccounting, LateOrdersWereInFlight
<1> QED  BY <1>1 DEF KillAccounting

LEMMA KillAccountingStep == Typed /\ KillAccounting /\ [Next]_vars => KillAccounting'
<1> SUFFICES ASSUME Typed, KillAccounting, [Next]_vars PROVE KillAccounting'
  OBVIOUS
<1> USE DEF Typed
<1>1. ASSUME NEW r \in Request, SubmitCached(r) PROVE KillAccounting'
  <2>1. InFlight' = InFlight
    BY <1>1 DEF SubmitCached, InFlight, proc
  <2> QED  BY <1>1, <2>1, KillQuietStep DEF SubmitCached, redis, proc, exchange
<1>2. ASSUME NEW r \in Request, NEW p \in Caller, SubmitAdmitted(p, r)
      PROVE  KillAccounting'
  <2>1. ~killFlag /\ ~killFlag' /\ book' = book
    BY <1>2 DEF SubmitAdmitted, Passes, KillBlocked, exchange
  <2>2. \A n \in DOMAIN book : ~book[n].late
    BY <2>1 DEF KillAccounting
  <2> QED  BY <2>1, <2>2 DEF KillAccounting, LateOrdersWereInFlight
<1>3. ASSUME NEW p \in Caller, CallEnds(p) PROVE KillAccounting'
  <2>1. UNCHANGED <<book, killFlag, atKill>>
    BY <1>3 DEF CallEnds, LeverageSet, LeverageFailed, CreateReturned, CreateFailed,
                Leave, redis, exchange, history
  <2>2. /\ InFlight' \subseteq InFlight
        /\ \A q \in InFlight' : landed'[q] = landed[q]
    BY <1>3 DEF CallEnds, LeverageSet, LeverageFailed, CreateReturned, CreateFailed,
                Leave, InFlight, TypeOK
  <2> QED  BY <2>1, <2>2, KillQuietStep
<1>4. ASSUME NEW p \in Caller, CreateAccepted(p) PROVE KillAccounting'
  <2> DEFINE n0 == Len(book) + 1
  <2>1. /\ pc[p] = "create" /\ landed[p] = 0 /\ p \in InFlight
        /\ InFlight' = InFlight /\ UNCHANGED <<killFlag, atKill>>
    BY <1>4 DEF CreateAccepted, InFlight, redis, history
  <2>2. /\ Len(book) \in Nat /\ DOMAIN book = 1..Len(book) /\ DOMAIN book' = 1..n0
        /\ \A n \in DOMAIN book : book'[n] = book[n]
        /\ book'[n0].late = killFlag /\ book'[n0].by = p
    <3>1. book \in Seq(Order)
      BY DEF TypeOK
    <3> QED  BY <1>4, <3>1 DEF CreateAccepted
  <2>3. landed'[p] # 0 /\ \A q \in Caller : q # p => landed'[q] = landed[q]
    <3>1. landed' = [landed EXCEPT ![p] = n0]
      BY <1>4 DEF CreateAccepted
    <3> QED  BY <2>2, <3>1 DEF TypeOK
  <2>4. \A n \in DOMAIN book : book[n].late => book[n].by # p
    BY <2>1 DEF KillAccounting
  <2>5. killFlag => p \in atKill
    BY <2>1 DEF KillAccounting
  <2>6. InFlight \subseteq Caller
    BY DEF InFlight
  <2>7. \A n \in DOMAIN book' : n \in DOMAIN book \/ n = n0
    BY <2>2
  <2> HIDE DEF InFlight, n0
  <2>8. LateOrdersWereInFlight'
    BY <2>1, <2>2, <2>4, <2>5, <2>7 DEF KillAccounting, LateOrdersWereInFlight
  <2>9. ASSUME NEW n \in DOMAIN book', book'[n].late
        PROVE  /\ killFlag' /\ book'[n].by \in atKill'
               /\ book'[n].by \in InFlight' => landed'[book'[n].by] # 0
    BY <2>1, <2>2, <2>3, <2>5, <2>6, <2>7, <2>9 DEF KillAccounting
  <2> QED  BY <2>1, <2>8, <2>9 DEF KillAccounting
<1>5. CASE KillSet
  <2>1. InFlight' = InFlight /\ UNCHANGED <<book, landed>> /\ killFlag'
    BY <1>5 DEF KillSet, InFlight, proc, exchange
  <2>2. CASE killFlag
    BY <1>5, <2>1, <2>2, KillQuietStep DEF KillSet
  <2>3. CASE ~killFlag
    <3>1. \A n \in DOMAIN book : ~book[n].late
      BY <2>3 DEF KillAccounting
    <3> QED  BY <1>5, <2>1, <2>3, <3>1 DEF KillSet, KillAccounting, LateOrdersWereInFlight
  <2> QED  BY <2>2, <2>3
<1>6. CASE Tick
  <2>1. InFlight' = InFlight
    BY <1>6 DEF Tick, InFlight
  <2> QED  BY <1>6, <2>1, KillQuietStep DEF Tick, exchange
<1>7. CASE Crash
  <2>1. InFlight' = {}
    BY <1>7 DEF Crash, InFlight
  <2> QED  BY <1>7, <2>1, KillQuietStep DEF Crash, redis, exchange, history
<1>8. CASE BlockNewOrders \/ UNCHANGED vars
           \/ (\E v \in DailyPnl : UpdateDailyPnl(v)) \/ \E k \in Key : IdemExpires(k)
  <2>1. UNCHANGED <<book, killFlag, atKill, pc, landed>>
    BY <1>8 DEF BlockNewOrders, UpdateDailyPnl, IdemExpires, vars, redis, proc,
                exchange, history
  <2>2. InFlight' = InFlight
    BY <2>1 DEF InFlight
  <2> QED  BY <2>1, <2>2, KillQuietStep
<1>9. ASSUME NEW p \in Caller, CallStarts(p) PROVE KillAccounting'
  <2>1. InFlight' = InFlight
    BY <1>9 DEF CallStarts, InFlight
  <2> QED  BY <1>9, <2>1, KillQuietStep DEF CallStarts, redis, exchange, history
<1> QED
  BY <1>1, <1>2, <1>3, <1>4, <1>5, <1>6, <1>7, <1>8, <1>9 DEF Next

(* After the kill flag is set, an order can only come from a submission that was
   under way, and at most one from each. *)
THEOREM KillStopsOrders == Spec => []LateOrdersWereInFlight
<1>1. Init => KillAccounting
  BY DEF Init, KillAccounting, LateOrdersWereInFlight, InFlight
<1>2. KillAccounting => LateOrdersWereInFlight
  BY DEF KillAccounting
<1> QED  BY AlwaysTyped, KillAccountingStep, <1>1, <1>2, PTL DEF Spec

-----------------------------------------------------------------------------
(* What a client is told.  The answers, the cache and the order ids that running
   calls carry all point into the book, which only grows at its end. *)

(* A step that places no order, answers nobody, caches nothing and gives nobody
   an order to carry. *)
LEMMA AnswerQuietStep ==
    ASSUME AnswersSound, UNCHANGED <<answers, idem, book>>,
           \A p \in Caller : pc'[p] = "create" /\ landed'[p] # 0 =>
               pc[p] = "create" /\ landed'[p] = landed[p] /\ req'[p] = req[p]
    PROVE  AnswersSound'
  BY DEF AnswersSound

LEMMA AnswersSoundStep == Typed /\ AnswersSound /\ [Next]_vars => AnswersSound'
<1> SUFFICES ASSUME Typed, AnswersSound, [Next]_vars PROVE AnswersSound'
  OBVIOUS
<1> USE DEF Typed
<1>1. ASSUME NEW r \in Request, SubmitCached(r) PROVE AnswersSound'
  <2>1. r.key \in Key
    BY RequestFields
  <2>2. idem[r.key] \in DOMAIN book /\ book[idem[r.key]].key = r.key
    BY <1>1, <2>1 DEF SubmitCached, Cached, AnswersSound
  <2>3. \A a \in answers' : a[2] \in DOMAIN book /\ book[a[2]].key = a[1]
    BY <1>1, <2>2 DEF SubmitCached, AnswersSound
  <2>4. UNCHANGED <<idem, book, pc, landed, req>>
    BY <1>1 DEF SubmitCached, redis, proc, exchange
  <2> QED  BY <2>3, <2>4 DEF AnswersSound
<1>2. ASSUME NEW r \in Request, NEW p \in Caller, SubmitAdmitted(p, r)
      PROVE  AnswersSound'
  <2>1. UNCHANGED <<answers, idem, book, landed>>
    BY <1>2 DEF SubmitAdmitted, exchange
  <2>2. landed[p] = 0 /\ \A q \in Caller : q # p => pc'[q] = pc[q] /\ req'[q] = req[q]
    BY <1>2 DEF SubmitAdmitted, TypeOK, InHand
  <2> QED  BY <2>1, <2>2, AnswerQuietStep
<1>3. ASSUME NEW p \in Caller, LeverageSet(p) PROVE AnswersSound'
  <2>1. UNCHANGED <<answers, idem, book, landed, req>>
    BY <1>3 DEF LeverageSet, redis, exchange, history
  <2>2. landed[p] = 0 /\ \A q \in Caller : q # p => pc'[q] = pc[q]
    BY <1>3 DEF LeverageSet, TypeOK, InHand
  <2> QED  BY <2>1, <2>2, AnswerQuietStep
<1>4. ASSUME NEW p \in Caller, Leave(p)
      PROVE  \A q \in Caller : pc'[q] = "create" /\ landed'[q] # 0 =>
                 q # p /\ pc[q] = "create" /\ landed'[q] = landed[q] /\ req'[q] = req[q]
  BY <1>4 DEF Leave, TypeOK
<1>5. ASSUME NEW p \in Caller, LeverageFailed(p) \/ CreateFailed(p) PROVE AnswersSound'
  <2>1. Leave(p) /\ UNCHANGED <<answers, idem, book>>
    BY <1>5 DEF LeverageFailed, CreateFailed, exchange, history
  <2> QED  BY <1>4, <2>1, AnswerQuietStep
<1>6. ASSUME NEW p \in Caller, CreateReturned(p) PROVE AnswersSound'
  <2>1. landed[p] \in DOMAIN book /\ book[landed[p]].key = req[p].key
    BY <1>6 DEF CreateReturned, AnswersSound
  <2>2. /\ book' = book /\ Leave(p)
        /\ answers' = answers \cup {<<req[p].key, landed[p]>>}
    BY <1>6 DEF CreateReturned, exchange
  <2>3. \A k \in Key : idem'[k] = IF k = req[p].key THEN landed[p] ELSE idem[k]
    BY <1>6 DEF CreateReturned, TypeOK
  <2>4. \A a \in answers' : a[2] \in DOMAIN book' /\ book'[a[2]].key = a[1]
    BY <2>1, <2>2 DEF AnswersSound
  <2>5. \A k \in Key : idem'[k] # 0 =>
            idem'[k] \in DOMAIN book' /\ book'[idem'[k]].key = k
    BY <2>1, <2>2, <2>3 DEF AnswersSound
  <2>6. \A q \in Caller : pc'[q] = "create" /\ landed'[q] # 0 =>
            /\ landed'[q] \in DOMAIN book'
            /\ book'[landed'[q]].by = q /\ book'[landed'[q]].key = req'[q].key
    BY <1>4, <2>2 DEF AnswersSound
  <2> QED  BY <2>4, <2>5, <2>6 DEF AnswersSound
<1>7. ASSUME NEW p \in Caller, CreateAccepted(p) PROVE AnswersSound'
  <2> DEFINE n0 == Len(book) + 1
  <2>1. /\ DOMAIN book \subseteq DOMAIN book' /\ n0 \in DOMAIN book'
        /\ \A n \in DOMAIN book : book'[n] = book[n]
        /\ book'[n0].by = p /\ book'[n0].key = req[p].key
    <3>1. book \in Seq(Order)
      BY DEF TypeOK
    <3> QED  BY <1>7, <3>1 DEF CreateAccepted
  <2>2. /\ UNCHANGED <<answers, idem, pc, req>>
        /\ \A q \in Caller : landed'[q] = IF q = p THEN n0 ELSE landed[q]
    BY <1>7 DEF CreateAccepted, TypeOK, redis, history
  <2> HIDE DEF n0
  <2>3. \A a \in answers : a[2] \in DOMAIN book' /\ book'[a[2]].key = a[1]
    BY <2>1 DEF AnswersSound
  <2>4. \A k \in Key : idem[k] # 0 =>
            idem[k] \in DOMAIN book' /\ book'[idem[k]].key = k
    BY <2>1 DEF AnswersSound
  <2>5. \A q \in Caller : pc[q] = "create" /\ landed'[q] # 0 =>
            /\ landed'[q] \in DOMAIN book'
            /\ book'[landed'[q]].by = q /\ book'[landed'[q]].key = req[q].key
    BY <2>1, <2>2 DEF AnswersSound
  <2> QED  BY <2>2, <2>3, <2>4, <2>5 DEF AnswersSound
<1>8. ASSUME NEW k \in Key, IdemExpires(k) PROVE AnswersSound'
  <2>1. UNCHANGED <<answers, book, pc, landed, req>>
    BY <1>8 DEF IdemExpires, proc, exchange, history
  <2>2. \A l \in Key : idem'[l] = IF l = k THEN 0 ELSE idem[l]
    BY <1>8 DEF IdemExpires, TypeOK
  <2> QED  BY <2>1, <2>2 DEF AnswersSound
<1>9. CASE Crash
  <2>1. UNCHANGED <<answers, idem, book>> /\ \A p \in Caller : landed'[p] = 0
    BY <1>9 DEF Crash, redis, exchange, history
  <2> QED  BY <2>1, AnswerQuietStep
<1>10. CASE Tick \/ KillSet \/ BlockNewOrders \/ UNCHANGED vars
            \/ \E v \in DailyPnl : UpdateDailyPnl(v)
  <2>1. UNCHANGED <<answers, idem, book, pc, landed, req>>
    BY <1>10 DEF Tick, KillSet, BlockNewOrders, UpdateDailyPnl, vars, redis, proc,
                 exchange, history
  <2> QED  BY <2>1, AnswerQuietStep
<1>11. ASSUME NEW p \in Caller, CallStarts(p) PROVE AnswersSound'
  BY <1>11, AnswerQuietStep DEF CallStarts, redis, exchange, history
<1> QED
  BY <1>1, <1>2, <1>3, <1>5, <1>6, <1>7, <1>8, <1>9, <1>10, <1>11 DEF Next, CallEnds

(* Whatever crashes, expires or gets lost: the order that submit() returns, or
   that the cache holds for a retry, is one that the exchange accepted under that
   very key, and the order that a running call carries is its own. *)
THEOREM AnswersAreSound == Spec => []AnswersSound
<1>1. Init => AnswersSound
  BY DEF Init, AnswersSound
<1> QED  BY AlwaysTyped, AnswersSoundStep, <1>1, PTL DEF Spec

LEMMA AnsweredStep == Typed /\ AnsweredIsCached /\ [Next]_vars => AnsweredIsCached'
<1> SUFFICES ASSUME Typed, AnsweredIsCached, [Next]_vars, "idem_ttl" \notin Faults
             PROVE  \A a \in answers' : idem'[a[1]] # 0
  BY DEF AnsweredIsCached
<1>0. \A a \in answers : a[1] \in Key /\ idem[a[1]] # 0
  BY DEF AnsweredIsCached, Typed, TypeOK
<1>1. ASSUME NEW r \in Request, SubmitCached(r)
      PROVE  \A a \in answers' : idem'[a[1]] # 0
  BY <1>0, <1>1 DEF SubmitCached, Cached, redis
<1>2. ASSUME NEW p \in Caller, CreateReturned(p)
      PROVE  \A a \in answers' : idem'[a[1]] # 0
  <2>1. /\ landed[p] # 0 /\ req[p].key \in Key
        /\ answers' = answers \cup {<<req[p].key, landed[p]>>}
    BY <1>2, RequestFields DEF CreateReturned, Typed, TypeOK, InHand
  <2>2. \A k \in Key : idem'[k] = IF k = req[p].key THEN landed[p] ELSE idem[k]
    BY <1>2 DEF CreateReturned, Typed, TypeOK
  <2> QED  BY <1>0, <2>1, <2>2
<1>3. CASE UNCHANGED <<idem, answers>>
  BY <1>0, <1>3
<1>4. ASSUME NEW p \in Caller,
             \/ CallStarts(p) \/ CreateAccepted(p)
             \/ LeverageSet(p) \/ LeverageFailed(p) \/ CreateFailed(p)
      PROVE  UNCHANGED <<idem, answers>>
  BY <1>4 DEF CallStarts, CreateAccepted, LeverageSet, LeverageFailed, CreateFailed, redis, history
<1>5. ASSUME NEW p \in Caller, NEW r \in Request, SubmitAdmitted(p, r)
      PROVE  UNCHANGED <<idem, answers>>
  BY <1>5 DEF SubmitAdmitted
<1>6. CASE Tick \/ KillSet \/ BlockNewOrders \/ Crash \/ UNCHANGED vars
           \/ \E v \in DailyPnl : UpdateDailyPnl(v)
  BY <1>3, <1>6 DEF Tick, KillSet, BlockNewOrders, Crash, UpdateDailyPnl, vars, redis,
                    history
<1>7. ASSUME NEW k \in Key PROVE ~IdemExpires(k)
  BY DEF IdemExpires
<1> QED
  BY <1>1, <1>2, <1>3, <1>4, <1>5, <1>6, <1>7 DEF Next, CallEnds

(* While no cache entry expires, a key that was ever answered stays cached,
   across restarts too, so that a retry of it never places an order. *)
THEOREM AnsweredStaysCached == Spec => []AnsweredIsCached
<1>1. Init => AnsweredIsCached
  BY DEF Init, AnsweredIsCached
<1> QED  BY AlwaysTyped, AnsweredStep, <1>1, PTL DEF Spec

-----------------------------------------------------------------------------
(* Orders that are repeated.  As long as no cache entry expires: what the cache
   holds has been answered; whoever has yet to place an order finds only orphans
   under its key in its slot, unless a lock has lapsed there; and the order that a
   caller carries is in the caller's slot. *)

FindsOrphans(p) ==
    \A i \in DOMAIN book :
        book[i].key = req[p].key /\ SlotOf(book[i]) = SlotOf(req[p]) =>
            Orphan(i) \/ SlotOf(req[p]) \in lapsed

Repeats ==
    /\ \A k \in Key : idem[k] # 0 => <<k, idem[k]>> \in answers
    /\ \A p \in InFlight : landed[p] = 0 => FindsOrphans(p)
    /\ \A p \in InFlight : landed[p] # 0 => SlotOf(book[landed[p]]) = SlotOf(req[p])
    /\ RepeatsExplained

Told == Typed /\ ExclusiveUntilLapse /\ AnswersSound /\ AnsweredIsCached /\ Repeats

(* A step that places no order, answers nobody, lets nobody in, at most takes orders
   out of the hands of callers and forgets no lapse. *)
LEMMA RepeatsQuietStep ==
    ASSUME Repeats, UNCHANGED <<answers, idem, book>>,
           InFlight' \subseteq InFlight, lapsed \subseteq lapsed',
           \A p \in InFlight' : landed'[p] = landed[p] /\ req'[p] = req[p],
           \A p \in Caller : landed'[p] = landed[p] \/ landed'[p] = 0,
           0 \notin DOMAIN book
    PROVE  Repeats'
<1>1. \A i \in DOMAIN book : Orphan(i) => Orphan(i)'
  BY DEF Orphan
<1>2. RepeatsExplained'
  BY <1>1 DEF Repeats, RepeatsExplained, SlotOf
<1>3. ASSUME NEW p \in InFlight', landed'[p] = 0 PROVE FindsOrphans(p)'
  <2>1. FindsOrphans(p)
    BY <1>3 DEF Repeats
  <2> QED  BY <1>1, <1>3, <2>1 DEF FindsOrphans, SlotOf
<1>4. \A p \in InFlight' : landed'[p] # 0 => SlotOf(book[landed[p]])' = SlotOf(req[p])'
  BY DEF Repeats, SlotOf
<1> QED  BY <1>2, <1>3, <1>4 DEF Repeats, SlotOf

LEMMA RepeatsStep ==
    "idem_ttl" \notin Faults /\ Told /\ [Next]_vars => Repeats'
<1> SUFFICES ASSUME "idem_ttl" \notin Faults, Told, [Next]_vars PROVE Repeats'
  OBVIOUS
<1> USE DEF Told
<1>0. /\ TypeOK /\ InHand
      /\ InFlight \subseteq Caller /\ \A p \in InFlight : req[p].key \in Key
      /\ Len(book) \in Nat /\ DOMAIN book = 1..Len(book)
  <2>1. TypeOK /\ InHand /\ InFlight \subseteq Caller
    BY DEF Typed, InFlight
  <2>2. \A p \in InFlight : req[p].key \in Key
    BY <2>1, RequestFields DEF InHand, InFlight
  <2> QED  BY <2>1, <2>2 DEF TypeOK
<1>1. ASSUME NEW r \in Request, SubmitCached(r) PROVE Repeats'
  <2>1. answers' = answers
    BY <1>1, RequestFields DEF SubmitCached, Cached, Repeats
  <2>2. InFlight' = InFlight /\ UNCHANGED <<idem, book, landed, req, lapsed>>
    BY <1>1 DEF SubmitCached, InFlight, redis, proc, exchange
  <2> QED  BY <1>0, <2>1, <2>2, RepeatsQuietStep
<1>2. ASSUME NEW r \in Request, NEW p \in Caller, SubmitAdmitted(p, r) PROVE Repeats'
  <2>1. /\ UNCHANGED <<answers, idem, book, landed>> /\ idem[r.key] = 0
        /\ lapsed' = lapsed \cap BusySlots /\ landed[p] = 0
    BY <1>0, <1>2 DEF SubmitAdmitted, Passes, Cached, exchange, InHand
  <2>2. /\ InFlight' = InFlight \cup {p} /\ p \notin InFlight
        /\ req'[p] = r /\ \A q \in Caller : q # p => req'[q] = req[q]
    BY <1>0, <1>2 DEF SubmitAdmitted, InFlight, TypeOK
  <2>3. \A q \in InFlight : SlotOf(req[q]) \in lapsed => SlotOf(req[q]) \in lapsed'
    BY <2>1 DEF BusySlots
  <2>4. \A i : Orphan(i)' <=> Orphan(i)
    BY <2>1 DEF Orphan
(* An order that somebody carries is in a slot whose lock was free: it lapsed. *)
  <2>5. ASSUME NEW i \in DOMAIN book, book[i].key = r.key, SlotOf(book[i]) = SlotOf(r)
        PROVE  Orphan(i) \/ SlotOf(r) \in lapsed'
    <3>1. <<book[i].key, i>> \notin answers
      BY <2>1, <2>5 DEF AnsweredIsCached
    <3>2. ASSUME NEW q \in Caller, landed[q] = i PROVE SlotOf(r) \in lapsed'
      <4>1. q \in InFlight /\ i # 0
        BY <1>0, <2>5, <3>2 DEF InHand, InFlight
      <4>2. SlotOf(req[q]) = SlotOf(r)
        BY <2>5, <3>2, <4>1 DEF Repeats
      <4>3. lockTTL[SlotOf(r)] = 0
        BY <1>2 DEF SubmitAdmitted, Passes, LockFree
      <4> QED  BY <2>3, <4>1, <4>2, <4>3 DEF ExclusiveUntilLapse
    <3> QED  BY <3>1, <3>2 DEF Orphan
  <2>6. FindsOrphans(p)'
    BY <2>1, <2>2, <2>4, <2>5 DEF FindsOrphans, SlotOf
  <2>7. ASSUME NEW q \in InFlight, landed[q] = 0 PROVE FindsOrphans(q)'
    <3>1. FindsOrphans(q) /\ req'[q] = req[q]
      BY <1>0, <2>2, <2>7 DEF Repeats
    <3> QED  BY <2>1, <2>3, <2>4, <2>7, <3>1 DEF FindsOrphans, SlotOf
  <2>8. \A q \in InFlight : landed[q] # 0 => SlotOf(book[landed[q]]) = SlotOf(req'[q])
    BY <1>0, <2>2 DEF Repeats
  <2>9. RepeatsExplained'
    BY <2>1, <2>4 DEF Repeats, RepeatsExplained, SlotOf
  <2> QED  BY <2>1, <2>2, <2>6, <2>7, <2>8, <2>9 DEF Repeats, SlotOf
<1>3. ASSUME NEW p \in Caller, CallStarts(p) \/ LeverageSet(p) PROVE Repeats'
  <2>1. /\ UNCHANGED <<answers, idem, book, landed, req, lapsed>>
        /\ InFlight' = InFlight
    BY <1>0, <1>3 DEF CallStarts, LeverageSet, InFlight, TypeOK, redis, exchange, history
  <2> QED  BY <1>0, <2>1, RepeatsQuietStep
<1>4. ASSUME NEW p \in Caller, Leave(p)
      PROVE  /\ InFlight' = InFlight \ {p}
             /\ \A q \in InFlight' : landed'[q] = landed[q] /\ req'[q] = req[q]
             /\ \A q \in Caller : landed'[q] = IF q = p THEN 0 ELSE landed[q]
  BY <1>0, <1>4 DEF Leave, InFlight, TypeOK
<1>5. ASSUME NEW p \in Caller, LeverageFailed(p) \/ CreateFailed(p) PROVE Repeats'
  <2>1. Leave(p) /\ UNCHANGED <<answers, idem, book, lapsed>>
    BY <1>5 DEF LeverageFailed, CreateFailed, exchange, history
  <2> QED  BY <1>0, <1>4, <2>1, RepeatsQuietStep
<1>6. ASSUME NEW p \in Caller, CreateReturned(p) PROVE Repeats'
  <2>1. /\ p \in InFlight /\ landed[p] # 0 /\ UNCHANGED <<book, lapsed>> /\ Leave(p)
        /\ answers' = answers \cup {<<req[p].key, landed[p]>>}
    BY <1>6 DEF CreateReturned, InFlight, exchange
  <2>2. \A k \in Key : idem'[k] = IF k = req[p].key THEN landed[p] ELSE idem[k]
    BY <1>0, <1>6 DEF CreateReturned, TypeOK
  <2>3. \A i \in DOMAIN book : Orphan(i) => Orphan(i)'
    <3>1. ASSUME NEW i \in DOMAIN book, Orphan(i) PROVE Orphan(i)'
      <4>1. i # landed[p] /\ i # 0
        BY <1>0, <3>1 DEF Orphan
      <4>2. <<book'[i].key, i>> \notin answers'
        BY <2>1, <3>1, <4>1 DEF Orphan
      <4>3. \A q \in Caller : landed'[q] # i
        BY <1>4, <2>1, <3>1, <4>1 DEF Orphan
      <4> QED  BY <4>2, <4>3 DEF Orphan
    <3> QED  BY <3>1
  <2>4. \A k \in Key : idem'[k] # 0 => <<k, idem'[k]>> \in answers'
    BY <2>1, <2>2 DEF Repeats
  <2>5. ASSUME NEW q \in InFlight', landed'[q] = 0 PROVE FindsOrphans(q)'
    <3>1. FindsOrphans(q) /\ req'[q] = req[q]
      BY <1>4, <2>1, <2>5 DEF Repeats
    <3> QED  BY <2>1, <2>3, <3>1 DEF FindsOrphans, SlotOf
  <2>6. \A q \in InFlight' : landed'[q] # 0 => SlotOf(book'[landed'[q]]) = SlotOf(req'[q])
    BY <1>4, <2>1 DEF Repeats
  <2>7. RepeatsExplained'
    BY <2>1, <2>3 DEF Repeats, RepeatsExplained, SlotOf
  <2> QED  BY <2>4, <2>5, <2>6, <2>7 DEF Repeats, SlotOf
<1>7. ASSUME NEW p \in Caller, CreateAccepted(p) PROVE Repeats'
  <2> DEFINE n0 == Len(book) + 1
  <2>1. /\ p \in InFlight /\ landed[p] = 0
        /\ InFlight' = InFlight /\ UNCHANGED <<answers, idem, req, lapsed>>
        /\ \A q \in Caller : landed'[q] = IF q = p THEN n0 ELSE landed[q]
    BY <1>0, <1>7 DEF CreateAccepted, InFlight, TypeOK, redis, history
  <2>2. /\ DOMAIN book' = DOMAIN book \cup {n0} /\ n0 # 0 /\ n0 \in Nat
        /\ \A n \in DOMAIN book : book'[n] = book[n] /\ n < n0 /\ n \in Nat
        /\ book'[n0].key = req[p].key /\ SlotOf(book'[n0]) = SlotOf(req[p])
        /\ book'[n0].overdue = (SlotOf(req[p]) \in lapsed)
    <3>1. book \in Seq(Order)
      BY <1>0 DEF TypeOK
    <3>2. /\ DOMAIN book' = 1..n0 /\ \A n \in DOMAIN book : book'[n] = book[n]
          /\ book'[n0] = [key |-> req[p].key, inst |-> req[p].inst,
                side |-> req[p].side, by |-> p, late |-> killFlag,
                overdue |-> SlotOf(req[p]) \in lapsed]
      BY <1>7, <3>1 DEF CreateAccepted
    <3>3. 1..n0 = DOMAIN book \cup {n0} /\ n0 # 0 /\ n0 \in Nat
      BY <1>0
    <3>4. \A n \in DOMAIN book : n < n0 /\ n \in Nat
      BY <1>0
    <3> HIDE DEF n0
    <3>5. book'[n0].key = req[p].key /\ SlotOf(book'[n0]) = SlotOf(req[p])
      BY <3>2 DEF SlotOf
    <3>6. book'[n0].overdue = (SlotOf(req[p]) \in lapsed)
      BY <3>2
    <3> QED  BY <3>2, <3>3, <3>4, <3>5, <3>6
  <2> HIDE DEF n0
  <2>3. \A i \in DOMAIN book : Orphan(i) => Orphan(i)'
    BY <2>1, <2>2 DEF Orphan
  <2>4. ASSUME NEW q \in InFlight, landed'[q] = 0 PROVE FindsOrphans(q)'
    <3>1. q # p /\ landed[q] = 0 /\ FindsOrphans(q)
      BY <1>0, <2>1, <2>2, <2>4 DEF Repeats
    <3>2. SlotOf(book'[n0]) = SlotOf(req[q]) => SlotOf(req[q]) \in lapsed
      BY <2>1, <2>2, <3>1 DEF ExclusiveUntilLapse
    <3> QED  BY <2>1, <2>2, <2>3, <3>1, <3>2 DEF FindsOrphans, SlotOf
  <2>5. ASSUME NEW q \in InFlight, landed'[q] # 0
        PROVE  SlotOf(book'[landed'[q]]) = SlotOf(req[q])
    <3>1. CASE q = p
      BY <1>0, <2>1, <2>2, <3>1
    <3>2. CASE q # p
      <4>1. landed'[q] = landed[q] /\ landed[q] \in DOMAIN book
        BY <1>0, <2>1, <2>5, <3>2 DEF AnswersSound, InHand
      <4> QED  BY <2>2, <2>5, <4>1 DEF Repeats
    <3> QED  BY <3>1, <3>2
  <2>6. ASSUME NEW i \in DOMAIN book', NEW j \in DOMAIN book', i < j,
               book'[i].key = book'[j].key, SlotOf(book'[i]) = SlotOf(book'[j])
        PROVE  Orphan(i)' \/ book'[j].overdue
    <3>1. i \in DOMAIN book
      BY <2>2, <2>6
    <3>2. CASE j = n0
      <4>1. FindsOrphans(p)
        BY <2>1 DEF Repeats
      <4>2. book[i].key = req[p].key /\ SlotOf(book[i]) = SlotOf(req[p])
        BY <2>2, <2>6, <3>1, <3>2
      <4> QED  BY <2>2, <2>3, <3>1, <3>2, <4>1, <4>2 DEF FindsOrphans
    <3>3. CASE j \in DOMAIN book
      BY <2>2, <2>3, <2>6, <3>1, <3>3 DEF Repeats, RepeatsExplained
    <3> QED  BY <2>2, <3>2, <3>3
  <2>7. RepeatsExplained'
    BY <2>6 DEF RepeatsExplained, SlotOf
  <2>8. \A k \in Key : idem'[k] # 0 => <<k, idem'[k]>> \in answers'
    BY <2>1 DEF Repeats
  <2> QED  BY <2>1, <2>4, <2>5, <2>7, <2>8 DEF Repeats, SlotOf
<1>8. CASE Crash
  <2>1. /\ UNCHANGED <<answers, idem, book, lapsed>> /\ InFlight' = {}
        /\ \A p \in Caller : landed'[p] = 0
    BY <1>8 DEF Crash, InFlight, redis, exchange, history
  <2> QED  BY <1>0, <2>1, RepeatsQuietStep
<1>9. CASE Tick \/ KillSet \/ BlockNewOrders \/ UNCHANGED vars
           \/ \E v \in DailyPnl : UpdateDailyPnl(v)
  <2>1. UNCHANGED <<answers, idem, book, pc, landed, req>> /\ lapsed \subseteq lapsed'
    BY <1>9 DEF Tick, KillSet, BlockNewOrders, UpdateDailyPnl, vars, redis, proc,
                exchange, history
  <2>2. InFlight' = InFlight
    BY <2>1 DEF InFlight
  <2> QED  BY <1>0, <2>1, <2>2, RepeatsQuietStep
<1>10. ASSUME NEW k \in Key PROVE ~IdemExpires(k)
  BY DEF IdemExpires
<1> QED
  BY <1>1, <1>2, <1>3, <1>5, <1>6, <1>7, <1>8, <1>9, <1>10 DEF Next, CallEnds

(* As long as no cache entry expires: a second order under a key and in its slot is
   placed only after one whose outcome was lost, or by a submission in whose slot a
   lock had lapsed.  No timeout is assumed to be longer than another. *)
THEOREM RepeatsAreExplained == Spec => []RepeatsExplained
<1>1. CASE "idem_ttl" \in Faults
  <2>1. RepeatsExplained
    BY <1>1 DEF RepeatsExplained
  <2> QED  BY <2>1, PTL
<1>2. CASE "idem_ttl" \notin Faults
  <2>1. Init => Told
    <3> SUFFICES ASSUME Init PROVE Told
      OBVIOUS
    <3>1. AnswersSound /\ AnsweredIsCached /\ Repeats
      BY DEF Init, AnswersSound, AnsweredIsCached, Repeats, RepeatsExplained, InFlight
    <3> QED  BY <3>1, InitTyped, LockInit DEF Told
  <2>2. Told /\ [Next]_vars => Told'
    <3> SUFFICES ASSUME Told, [Next]_vars PROVE Told'
      OBVIOUS
    <3>1. Typed' /\ ExclusiveUntilLapse' /\ AnswersSound' /\ AnsweredIsCached'
      BY NextTyped, LockStep, AnswersSoundStep, AnsweredStep DEF Told
    <3> QED  BY <1>2, <3>1, RepeatsStep DEF Told
  <2>3. Told => RepeatsExplained
    BY DEF Told, Repeats
  <2> QED  BY <2>1, <2>2, <2>3, PTL DEF Spec
<1> QED  BY <1>1, <1>2

-----------------------------------------------------------------------------
(* The order queue is a turnstile: it implements AdmissionGate.  Inside are the
   coroutines that were admitted, spent those whose order has landed. *)

Spent == {p \in Caller : landed[p] # 0}

(* A step that neither lets in, nor out, nor places an order may at most turn
   the gate, and never back from "closed". *)
LEMMA GateQuietStep ==
    ASSUME Typed, InFlight' = InFlight, UNCHANGED <<landed, book>>, killFlag => killFlag'
    PROVE  Gate!Operate
  BY DEF Gate!Operate, GateState

LEMMA GateExit ==
    ASSUME Typed, NEW p \in Caller, pc[p] # "idle", Leave(p),
           UNCHANGED <<book, killFlag, dailyPnl>>
    PROVE  Gate!Exit(p)
<1>1. InFlight' = InFlight \ {p} /\ p \in InFlight
  BY DEF Leave, InFlight, Typed, TypeOK
<1>2. Spent' = Spent \ {p}
  BY DEF Leave, Spent, Typed, TypeOK
<1>3. UNCHANGED <<GateState, book>>
  BY DEF GateState, Leave
<1> QED  BY <1>1, <1>2, <1>3 DEF Gate!Exit, Spent

LEMMA GateStep == Typed /\ [Next]_vars => [Gate!GateNext]_(Gate!gateVars)
<1> SUFFICES ASSUME Typed, [Next]_vars PROVE Gate!GateNext \/ UNCHANGED Gate!gateVars
  OBVIOUS
<1> USE DEF Typed
<1>1. ASSUME NEW r \in Request, SubmitCached(r) PROVE Gate!Operate
  <2>1. InFlight' = InFlight
    BY <1>1 DEF SubmitCached, InFlight, proc
  <2> QED  BY <1>1, <2>1, GateQuietStep DEF SubmitCached, redis, proc, exchange
<1>2. ASSUME NEW r \in Request, NEW p \in Caller, SubmitAdmitted(p, r) PROVE Gate!Enter(p)
  <2>1. GateState = "open" /\ UNCHANGED <<GateState, book>>
    BY <1>2, RiskAssumption
       DEF RiskAssumption, SubmitAdmitted, Passes, KillBlocked, RiskAllows,
           CheckOrderAllowed, GateState, exchange
  <2>2. InFlight' = InFlight \cup {p} /\ p \notin InFlight
    BY <1>2 DEF SubmitAdmitted, InFlight, TypeOK
  <2>3. Spent' = Spent
    BY <1>2 DEF SubmitAdmitted, Spent
  <2> QED  BY <2>1, <2>2, <2>3 DEF Gate!Enter, Spent
<1>3. ASSUME NEW p \in Caller, CallStarts(p) \/ LeverageSet(p) PROVE Gate!Operate
  <2>1. InFlight' = InFlight
    BY <1>3 DEF CallStarts, LeverageSet, InFlight, TypeOK
  <2> QED  BY <1>3, <2>1, GateQuietStep DEF CallStarts, LeverageSet, redis, exchange
<1>4. ASSUME NEW p \in Caller, LeverageFailed(p) \/ CreateReturned(p) \/ CreateFailed(p)
      PROVE  Gate!Exit(p)
  BY <1>4, GateExit DEF LeverageFailed, CreateReturned, CreateFailed, exchange
<1>5. ASSUME NEW p \in Caller, CreateAccepted(p) PROVE Gate!Land(p)
  <2>1. InFlight' = InFlight /\ p \in InFlight /\ p \notin Spent
    BY <1>5 DEF CreateAccepted, InFlight, Spent
  <2>2. Len(book) \in Nat /\ Len(book') = Len(book) + 1
    <3>1. book \in Seq(Order)
      BY DEF TypeOK
    <3> QED  BY <1>5, <3>1 DEF CreateAccepted
  <2>3. Spent' = Spent \cup {p}
    <3>1. landed' = [landed EXCEPT ![p] = Len(book) + 1]
      BY <1>5 DEF CreateAccepted
    <3> QED  BY <2>2, <3>1 DEF Spent, TypeOK
  <2>4. UNCHANGED GateState
    BY <1>5 DEF CreateAccepted, GateState, redis
  <2> QED  BY <2>1, <2>2, <2>3, <2>4 DEF Gate!Land, Spent
<1>6. CASE KillSet \/ BlockNewOrders \/ Tick \/ UNCHANGED vars
           \/ (\E v \in DailyPnl : UpdateDailyPnl(v)) \/ \E k \in Key : IdemExpires(k)
  <2>1. UNCHANGED <<pc, landed, book>> /\ (killFlag => killFlag')
    BY <1>6 DEF KillSet, BlockNewOrders, Tick, UpdateDailyPnl, IdemExpires, vars, redis,
                proc, exchange
  <2>2. InFlight' = InFlight
    BY <2>1 DEF InFlight
  <2>3. Gate!Operate
    BY <2>1, <2>2, GateQuietStep
  <2> QED  BY <2>3 DEF Gate!GateNext
<1>7. CASE Crash
  <2>1. InFlight' = {} /\ Spent' = {}
    BY <1>7 DEF Crash, InFlight, Spent
  <2>2. UNCHANGED <<killFlag, book>>
    BY <1>7 DEF Crash, redis, exchange
  <2>3. Gate!Restart
    BY <2>1, <2>2 DEF Gate!Restart, GateState, Spent
  <2> QED  BY <2>3 DEF Gate!GateNext
<1> QED
  BY <1>1, <1>2, <1>3, <1>4, <1>5, <1>6, <1>7 DEF Next, CallEnds, Gate!GateNext

(* OrderQueue implements the turnstile: nobody enters a gate that is not open, a
   visit places at most one order, and a gate that the kill switch has closed
   stays closed. *)
THEOREM QueueIsGate == Spec => ImplementsGate
<1>1. Init => Gate!GateInit
  BY DEF Init, Gate!GateInit, GateState, InFlight
<1> QED  BY AlwaysTyped, GateStep, <1>1, PTL DEF Spec, ImplementsGate, Gate!GateSpec
=============================================================================
