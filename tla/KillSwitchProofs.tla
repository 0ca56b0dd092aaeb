-------------------------- MODULE KillSwitchProofs --------------------------
(***************************************************************************)
(* What is proved of KillSwitch, for every set of overlapping executions,  *)
(* instruments and markets, whichever calls fail.                          *)
(***************************************************************************)
EXTENDS KillSwitch, TLAPS

-----------------------------------------------------------------------------
(* Types. *)

LEMMA StartTyped ==
    NotStarted \in Execution /\ NotStarted.stage = "idle"
BY DEF NotStarted, Execution, Flat

(* Advance moves between stages and, on the way to closing, reads the positions;
   what an execution has done so far it leaves alone. *)
LEMMA AdvanceTyped ==
    ASSUME KillTypeOK, NEW e \in Execution
    PROVE  /\ Advance(e) \in Execution
           /\ Advance(e).errors = e.errors
           /\ Advance(e).closed = e.closed
           /\ Advance(e).toCancel = e.toCancel
<1>1. ToClose \in SUBSET Instrument
  BY DEF ToClose
<1> DEFINE f == IF e.stage = "cancel" /\ e.toCancel = {}
                THEN [e EXCEPT !.stage = "close", !.toClose = ToClose,
                               !.qty = tracked, !.held = real]
                ELSE e
<1>2. /\ f \in Execution
      /\ f.errors = e.errors /\ f.closed = e.closed /\ f.toCancel = e.toCancel
  BY <1>1 DEF Execution, KillTypeOK
<1>3. Advance(e) = IF f.stage = "close" /\ f.toClose = {}
                   THEN [f EXCEPT !.stage = "notify"] ELSE f
  BY DEF Advance
<1> HIDE DEF f
<1> QED  BY <1>2, <1>3 DEF Execution

(* What a call's outcome does to an execution. *)
LEMMA OutcomeTyped ==
    ASSUME KillTypeOK, NEW e \in Execution
    PROVE  /\ \A m \in Market : Canceled(e, m) \in Execution
           /\ \A m \in Market : CancelErred(e, m) \in Execution
           /\ \A i \in Instrument : Closed(e, i) \in Execution
           /\ \A i \in Instrument : CloseErred(e, i) \in Execution
           /\ \A s \in {"done", "lost"} : [e EXCEPT !.stage = s] \in Execution
<1>1. ASSUME NEW m \in Market PROVE [e EXCEPT !.toCancel = @ \ {m}] \in Execution
  BY DEF Execution
<1>2. ASSUME NEW m \in Market
      PROVE  [e EXCEPT !.toCancel = @ \ {m}, !.errors = @ \cup {m}] \in Execution
  BY DEF Execution
<1>3. ASSUME NEW i \in Instrument
      PROVE  [e EXCEPT !.toClose = @ \ {i}, !.closed = @ \cup {i}] \in Execution
  BY DEF Execution
<1>4. ASSUME NEW i \in Instrument
      PROVE  [e EXCEPT !.toClose = @ \ {i}, !.errors = @ \cup {i}] \in Execution
  BY DEF Execution
<1>5. \A s \in {"done", "lost"} : [e EXCEPT !.stage = s] \in Execution
  BY DEF Execution
<1> QED
  BY <1>1, <1>2, <1>3, <1>4, <1>5, AdvanceTyped
     DEF Canceled, CancelErred, Closed, CloseErred

LEMMA KillInitTyped == KillInit => KillTypeOK
<1> SUFFICES ASSUME KillInit PROVE KillTypeOK
  OBVIOUS
<1>1. tracked \in [Instrument -> Int] /\ real \in [Instrument -> Int]
  BY DEF KillInit, Flat
<1>2. exec \in [Killer -> Execution]
  BY StartTyped DEF KillInit
<1> QED  BY <1>1, <1>2 DEF KillInit, KillTypeOK

(* Only the execution that takes a step changes. *)
LEMMA ExecTyped ==
    ASSUME KillTypeOK, NEW k \in Killer, NEW e \in Execution,
           exec' = [exec EXCEPT ![k] = e]
    PROVE  exec' \in [Killer -> Execution]
BY DEF KillTypeOK

(* Whatever step an execution takes, the account stays an account. *)
LEMMA ClosedOutTyped ==
    ASSUME KillTypeOK, NEW k \in Killer, NEW i \in Instrument
    PROVE  ClosedOut(i, exec[k].qty[i]) \in [Instrument -> Int]
<1>1. exec[k].qty[i] \in Int
  BY DEF KillTypeOK, Execution
<1> QED  BY <1>1 DEF ClosedOut, KillTypeOK

LEMMA KillNextTyped == KillTypeOK /\ [KillNext]_killVars => KillTypeOK'
<1> SUFFICES ASSUME KillTypeOK, [KillNext]_killVars PROVE KillTypeOK'
  OBVIOUS
<1> USE KillAssumption DEF KillAssumption
<1>1. ASSUME NEW k \in Killer, Start(k) PROVE KillTypeOK'
  <2> DEFINE e == [NotStarted EXCEPT !.stage = "cancel", !.toCancel = Connected]
  <2>1. e \in Execution
    BY StartTyped DEF Execution
  <2>2. Advance(e) \in Execution
    BY <2>1, AdvanceTyped
  <2> HIDE DEF e
  <2>3. exec' \in [Killer -> Execution]
    BY <1>1, <2>2, ExecTyped DEF Start, e
  <2> QED  BY <1>1, <2>3 DEF Start, KillTypeOK, account
<1>2. ASSUME NEW k \in Killer, NEW m \in Market, CancelDone(k, m) PROVE KillTypeOK'
  <2>1. exec[k] \in Execution
    BY DEF KillTypeOK
  <2>2. exec' \in [Killer -> Execution]
    BY <1>2, <2>1, OutcomeTyped, ExecTyped DEF CancelDone
  <2> QED  BY <1>2, <2>2 DEF CancelDone, KillTypeOK, CanceledOn
<1>3. ASSUME NEW k \in Killer, NEW m \in Market, CancelFailed(k, m) PROVE KillTypeOK'
  <2>1. exec[k] \in Execution
    BY DEF KillTypeOK
  <2>2. exec' \in [Killer -> Execution]
    BY <1>3, <2>1, OutcomeTyped, ExecTyped DEF CancelFailed
  <2> QED  BY <1>3, <2>2 DEF CancelFailed, KillTypeOK, CanceledOn
<1>4. ASSUME NEW k \in Killer, NEW i \in Instrument, CloseDone(k, i) PROVE KillTypeOK'
  <2>1. exec[k] \in Execution
    BY DEF KillTypeOK
  <2>2. exec' \in [Killer -> Execution]
    BY <1>4, <2>1, OutcomeTyped, ExecTyped DEF CloseDone
  <2> QED  BY <1>4, <2>2, ClosedOutTyped DEF CloseDone, KillTypeOK
<1>5. ASSUME NEW k \in Killer, NEW i \in Instrument, CloseFailed(k, i) PROVE KillTypeOK'
  <2>1. exec[k] \in Execution
    BY DEF KillTypeOK
  <2>2. exec' \in [Killer -> Execution]
    BY <1>5, <2>1, OutcomeTyped, ExecTyped DEF CloseFailed
  <2> QED  BY <1>5, <2>2, ClosedOutTyped DEF CloseFailed, KillTypeOK
<1>6. ASSUME NEW k \in Killer, Notified(k) PROVE KillTypeOK'
  <2>1. exec[k] \in Execution
    BY DEF KillTypeOK
  <2>2. exec' \in [Killer -> Execution]
    BY <1>6, <2>1, OutcomeTyped, ExecTyped DEF Notified
  <2> QED  BY <1>6, <2>2 DEF Notified, KillTypeOK, account
<1>7. ASSUME NEW i \in Instrument, Track(i) PROVE KillTypeOK'
  BY <1>7 DEF Track, KillTypeOK, account
<1>8. ASSUME NEW i \in Instrument, NEW d \in {-1, 1}, Trade(i, d) \/ Fills(i, d)
      PROVE  KillTypeOK'
  <2>1. /\ real' \in [Instrument -> Int] /\ resting' \in SUBSET Instrument
        /\ late' \in SUBSET Instrument
    BY <1>8 DEF Trade, Lands, Fills, Moves, KillTypeOK
  <2> QED  BY <1>8, <2>1 DEF Trade, Lands, Fills, KillTypeOK
<1>9. CASE Die
  <2>1. \A k \in Killer : exec[k] \in Execution
    BY DEF KillTypeOK
  <2>2. exec' \in [Killer -> Execution]
    BY <1>9, <2>1, OutcomeTyped DEF Die
  <2> QED  BY <1>9, <2>2 DEF Die, KillTypeOK, account
<1>10. CASE UNCHANGED killVars
  BY <1>10 DEF killVars, account, KillTypeOK
<1> QED
  BY <1>1, <1>2, <1>3, <1>4, <1>5, <1>6, <1>7, <1>8, <1>9, <1>10
     DEF KillNext, ExecuteStep

(* Type correctness: every reachable state of the kill switch is well typed. *)
THEOREM KillTypeCorrect == KillSpec => []KillTypeOK
BY KillInitTyped, KillNextTyped, PTL DEF KillSpec

-----------------------------------------------------------------------------
(* Nothing is skipped.  At every stage, what an execution still has to deal with
   is on one of its lists: what rests at a connected exchange, and did not land
   late, is still to be cancelled or among the errors; what was read at a connected
   exchange is still to be closed, closed, or among the errors.  An execution that
   has begun has set the flag, so what comes to rest behind its back is late. *)

Active(e) == e.stage \in {"cancel", "close", "notify", "done"}

CancelsAccounted(e, rest) ==
    Active(e) => \A i \in rest : Reachable(i) =>
        MarketOf[i] \in e.errors \cup (IF e.stage = "cancel" THEN e.toCancel ELSE {})

ClosesAccounted(e) ==
    e.stage \in {"close", "notify", "done"} =>
        \A i \in Instrument : e.qty[i] # 0 /\ Reachable(i) =>
            i \in e.closed \cup e.errors \cup (IF e.stage = "close" THEN e.toClose ELSE {})

Accounted(e, rest) == CancelsAccounted(e, rest) /\ ClosesAccounted(e)

AllAccounted ==
    \A k \in Killer : /\ Active(exec[k]) => killFlag
                      /\ Accounted(exec[k], resting \ late)

LEMMA FewerRest ==
    ASSUME NEW e, NEW rest, NEW fewer \in SUBSET rest, Accounted(e, rest)
    PROVE  Accounted(e, fewer)
BY DEF Accounted, CancelsAccounted

LEMMA AdvanceAccounted ==
    ASSUME KillTypeOK, NEW e \in Execution, NEW rest, Accounted(e, rest)
    PROVE  Accounted(Advance(e), rest)
<1> DEFINE f == IF e.stage = "cancel" /\ e.toCancel = {}
                THEN [e EXCEPT !.stage = "close", !.toClose = ToClose,
                               !.qty = tracked, !.held = real]
                ELSE e
<1>1. f \in Execution /\ Accounted(f, rest)
  <2>1. CASE e.stage = "cancel" /\ e.toCancel = {}
    <3>1. /\ f.stage = "close" /\ f.toClose = ToClose /\ f.qty = tracked
          /\ f.errors = e.errors /\ f \in Execution
      BY <2>1 DEF Execution, KillTypeOK, ToClose
    <3>2. CancelsAccounted(f, rest)
      BY <2>1, <3>1 DEF Accounted, CancelsAccounted, Active
    <3>3. ClosesAccounted(f)
      BY <3>1 DEF ClosesAccounted, ToClose, Reachable
    <3> QED  BY <3>1, <3>2, <3>3 DEF Accounted
  <2>2. CASE ~(e.stage = "cancel" /\ e.toCancel = {})
    BY <2>2
  <2> QED  BY <2>1, <2>2
<1>2. Advance(e) = IF f.stage = "close" /\ f.toClose = {}
                   THEN [f EXCEPT !.stage = "notify"] ELSE f
  BY DEF Advance
<1> HIDE DEF f
<1>3. CASE f.stage = "close" /\ f.toClose = {}
  <2>1. /\ Advance(e).stage = "notify" /\ Advance(e).errors = f.errors
        /\ Advance(e).closed = f.closed /\ Advance(e).qty = f.qty
    BY <1>1, <1>2, <1>3 DEF Execution
  <2> QED
    BY <1>1, <1>3, <2>1 DEF Accounted, CancelsAccounted, ClosesAccounted, Active
<1> QED  BY <1>1, <1>2, <1>3

(* One execution takes a step to a state that accounts for everything, and no
   new order comes to rest: then everything is still accounted for. *)
LEMMA OneMoved ==
    ASSUME KillTypeOK, AllAccounted, NEW k \in Killer, NEW e,
           exec' = [exec EXCEPT ![k] = e], resting' \subseteq resting, late' = late,
           killFlag => killFlag', Active(e) => killFlag', Accounted(e, resting' \ late)
    PROVE  AllAccounted'
<1> SUFFICES ASSUME NEW x \in Killer
             PROVE  /\ Active(exec'[x]) => killFlag'
                    /\ Accounted(exec'[x], resting' \ late)
  BY DEF AllAccounted, Accounted, CancelsAccounted, ClosesAccounted, Active, Reachable
<1>1. CASE x = k
  BY <1>1 DEF KillTypeOK
<1>2. CASE x # k
  <2>1. exec'[x] = exec[x]
    BY <1>2 DEF KillTypeOK
  <2> QED  BY <2>1, FewerRest DEF AllAccounted
<1> QED  BY <1>1, <1>2

LEMMA AccountedInit == KillInit => AllAccounted
BY DEF KillInit, AllAccounted, NotStarted, Active, Accounted, CancelsAccounted,
       ClosesAccounted

LEMMA AccountedStep == KillTypeOK /\ AllAccounted /\ [KillNext]_killVars => AllAccounted'
<1> SUFFICES ASSUME KillTypeOK, AllAccounted, [KillNext]_killVars PROVE AllAccounted'
  OBVIOUS
<1> USE KillAssumption DEF KillAssumption
<1>1. ASSUME NEW k \in Killer, Start(k) PROVE AllAccounted'
  <2> DEFINE e == [NotStarted EXCEPT !.stage = "cancel", !.toCancel = Connected]
  <2>1. e \in Execution /\ e.stage = "cancel" /\ e.toCancel = Connected
    BY StartTyped DEF Execution
  <2>2. Accounted(e, resting \ late)
    BY <2>1 DEF Accounted, CancelsAccounted, ClosesAccounted, Reachable
  <2> HIDE DEF e
  <2>3. Accounted(Advance(e), resting \ late)
    BY <2>1, <2>2, AdvanceAccounted
  <2>4. exec' = [exec EXCEPT ![k] = Advance(e)] /\ resting' = resting /\ late' = late /\ killFlag'
    BY <1>1 DEF Start, account, e
  <2> QED  BY <2>3, <2>4, OneMoved
<1>2. ASSUME NEW k \in Killer, NEW m \in Market, CancelDone(k, m) PROVE AllAccounted'
  <2> DEFINE e == [exec[k] EXCEPT !.toCancel = @ \ {m}]
  <2>1. /\ exec[k].stage = "cancel" /\ exec[k] \in Execution
        /\ resting' = CanceledOn(m) /\ killFlag' = killFlag /\ late' = late
        /\ exec' = [exec EXCEPT ![k] = Advance(e)]
    BY <1>2 DEF CancelDone, KillTypeOK, Canceled
  <2>2. /\ e \in Execution /\ e.stage = "cancel" /\ e.errors = exec[k].errors
        /\ e.toCancel = exec[k].toCancel \ {m}
    BY <2>1 DEF Execution
  <2> HIDE DEF e
  <2>3. CancelsAccounted(exec[k], resting \ late)
    BY DEF AllAccounted, Accounted
  <2>4. Accounted(e, resting' \ late)
    BY <2>1, <2>2, <2>3
       DEF Accounted, CancelsAccounted, ClosesAccounted, Active, CanceledOn
  <2>5. Accounted(Advance(e), resting' \ late)
    BY <2>2, <2>4, AdvanceAccounted
  <2>6. killFlag /\ resting' \subseteq resting
    BY <2>1 DEF AllAccounted, Active, CanceledOn
  <2> QED  BY <2>1, <2>5, <2>6, OneMoved
<1>3. ASSUME NEW k \in Killer, NEW m \in Market, CancelFailed(k, m) PROVE AllAccounted'
  <2> DEFINE e == [exec[k] EXCEPT !.toCancel = @ \ {m}, !.errors = @ \cup {m}]
  <2>1. /\ exec[k].stage = "cancel" /\ exec[k] \in Execution
        /\ resting' \subseteq resting /\ killFlag' = killFlag /\ late' = late
        /\ exec' = [exec EXCEPT ![k] = Advance(e)]
    BY <1>3 DEF CancelFailed, KillTypeOK, CanceledOn, CancelErred
  <2>2. /\ e \in Execution /\ e.stage = "cancel" /\ e.errors = exec[k].errors \cup {m}
        /\ e.toCancel = exec[k].toCancel \ {m}
    BY <2>1 DEF Execution
  <2> HIDE DEF e
  <2>3. CancelsAccounted(exec[k], resting \ late)
    BY DEF AllAccounted, Accounted
  <2>4. Accounted(e, resting' \ late)
    BY <2>1, <2>2, <2>3 DEF Accounted, CancelsAccounted, ClosesAccounted, Active
  <2>5. Accounted(Advance(e), resting' \ late)
    BY <2>2, <2>4, AdvanceAccounted
  <2>6. killFlag
    BY <2>1 DEF AllAccounted, Active
  <2> QED  BY <2>1, <2>5, <2>6, OneMoved
<1>4. ASSUME NEW k \in Killer, NEW i \in Instrument, CloseDone(k, i) PROVE AllAccounted'
  <2> DEFINE e == [exec[k] EXCEPT !.toClose = @ \ {i}, !.closed = @ \cup {i}]
  <2>1. /\ exec[k].stage = "close" /\ exec[k] \in Execution
        /\ resting' = resting /\ killFlag' = killFlag /\ late' = late
        /\ exec' = [exec EXCEPT ![k] = Advance(e)]
    BY <1>4 DEF CloseDone, KillTypeOK, Closed
  <2>2. /\ e \in Execution /\ e.stage = "close" /\ e.errors = exec[k].errors
        /\ e.closed = exec[k].closed \cup {i} /\ e.toClose = exec[k].toClose \ {i}
        /\ e.qty = exec[k].qty
    BY <2>1 DEF Execution
  <2> HIDE DEF e
  <2>3. Accounted(exec[k], resting \ late)
    BY DEF AllAccounted
  <2>4. Accounted(e, resting' \ late)
    BY <2>1, <2>2, <2>3 DEF Accounted, CancelsAccounted, ClosesAccounted, Active
  <2>5. Accounted(Advance(e), resting' \ late)
    BY <2>2, <2>4, AdvanceAccounted
  <2>6. killFlag
    BY <2>1 DEF AllAccounted, Active
  <2> QED  BY <2>1, <2>5, <2>6, OneMoved
<1>5. ASSUME NEW k \in Killer, NEW i \in Instrument, CloseFailed(k, i) PROVE AllAccounted'
  <2> DEFINE e == [exec[k] EXCEPT !.toClose = @ \ {i}, !.errors = @ \cup {i}]
  <2>1. /\ exec[k].stage = "close" /\ exec[k] \in Execution
        /\ resting' = resting /\ killFlag' = killFlag /\ late' = late
        /\ exec' = [exec EXCEPT ![k] = Advance(e)]
    BY <1>5 DEF CloseFailed, KillTypeOK, CloseErred
  <2>2. /\ e \in Execution /\ e.stage = "close" /\ e.errors = exec[k].errors \cup {i}
        /\ e.closed = exec[k].closed /\ e.toClose = exec[k].toClose \ {i}
        /\ e.qty = exec[k].qty
    BY <2>1 DEF Execution
  <2> HIDE DEF e
  <2>3. Accounted(exec[k], resting \ late)
    BY DEF AllAccounted
  <2>4. Accounted(e, resting' \ late)
    BY <2>1, <2>2, <2>3 DEF Accounted, CancelsAccounted, ClosesAccounted, Active
  <2>5. Accounted(Advance(e), resting' \ late)
    BY <2>2, <2>4, AdvanceAccounted
  <2>6. killFlag
    BY <2>1 DEF AllAccounted, Active
  <2> QED  BY <2>1, <2>5, <2>6, OneMoved
<1>6. ASSUME NEW k \in Killer, Notified(k) PROVE AllAccounted'
  <2> DEFINE e == [exec[k] EXCEPT !.stage = "done"]
  <2>1. /\ exec[k].stage = "notify" /\ exec[k] \in Execution
        /\ resting' = resting /\ killFlag' = killFlag /\ late' = late
        /\ exec' = [exec EXCEPT ![k] = e]
    BY <1>6 DEF Notified, KillTypeOK, account
  <2>2. /\ e.stage = "done" /\ e.errors = exec[k].errors
        /\ e.closed = exec[k].closed /\ e.qty = exec[k].qty
    BY <2>1 DEF Execution
  <2> HIDE DEF e
  <2>3. Accounted(exec[k], resting \ late) /\ killFlag
    BY <2>1 DEF AllAccounted, Active
  <2>4. Accounted(e, resting' \ late)
    BY <2>1, <2>2, <2>3 DEF Accounted, CancelsAccounted, ClosesAccounted, Active
  <2> QED  BY <2>1, <2>3, <2>4, OneMoved
<1>7. ASSUME NEW i \in Instrument, Track(i) PROVE AllAccounted'
  BY <1>7 DEF Track, account, AllAccounted, Accounted, CancelsAccounted,
              ClosesAccounted, Active, Reachable
<1>8. ASSUME NEW i \in Instrument, NEW d \in {-1, 1}, Trade(i, d) \/ Fills(i, d)
      PROVE  AllAccounted'
  <2>1. exec' = exec /\ killFlag' = killFlag
    BY <1>8 DEF Trade, Lands, Fills
  <2>2. killFlag => resting' \ late' \subseteq resting \ late
    BY <1>8 DEF Trade, Lands, Fills
  <2>3. ASSUME NEW k \in Killer PROVE Accounted(exec[k], resting' \ late')
    <3>1. CASE Active(exec[k])
      BY <2>2, <3>1, FewerRest DEF AllAccounted
    <3>2. CASE ~Active(exec[k])
      BY <3>2 DEF Accounted, CancelsAccounted, ClosesAccounted, Active
    <3> QED  BY <3>1, <3>2
  <2> QED
    BY <2>1, <2>3 DEF AllAccounted, Accounted, CancelsAccounted, ClosesAccounted,
                      Active, Reachable
<1>9. CASE Die
  <2>1. \A k \in Killer : \/ exec'[k] = exec[k]
                          \/ exec'[k].stage = "lost"
    BY <1>9 DEF Die, KillTypeOK, Execution
  <2>2. resting' = resting /\ killFlag' = killFlag /\ late' = late
    BY <1>9 DEF Die, account
  <2> QED
    BY <2>1, <2>2 DEF AllAccounted, Accounted, CancelsAccounted, ClosesAccounted,
                      Active, Reachable
<1>10. CASE UNCHANGED killVars
  BY <1>10 DEF killVars, account, AllAccounted, Accounted, CancelsAccounted,
               ClosesAccounted, Active, Reachable
<1> QED
  BY <1>1, <1>2, <1>3, <1>4, <1>5, <1>6, <1>7, <1>8, <1>9, <1>10
     DEF KillNext, ExecuteStep

LEMMA AlwaysAccounted == KillSpec => [](KillTypeOK /\ AllAccounted)
BY KillInitTyped, KillNextTyped, AccountedInit, AccountedStep, PTL DEF KillSpec

(* One exchange that fails keeps no other from being cleared: an execution that
   is through has cancelled, closed or reported everything it could reach. *)
THEOREM KillSkipsNothing == KillSpec => []NothingSkipped
<1>1. AllAccounted => NothingSkipped
  BY DEF AllAccounted, Accounted, CancelsAccounted, ClosesAccounted, Active,
         NothingSkipped
<1> QED  BY <1>1, AlwaysAccounted, PTL

(* A kill switch that reports success has closed every position it knew of, if
   every market has a connector: this is the only condition. *)
THEOREM SuccessIsTrue == Connected = Market => (KillSpec => []SuccessMeansClosed)
<1> SUFFICES ASSUME Connected = Market PROVE KillSpec => []SuccessMeansClosed
  OBVIOUS
<1>1. NothingSkipped => SuccessMeansClosed
  <2> SUFFICES ASSUME NothingSkipped, NEW k \in Killer, Success(k),
                      NEW i \in Instrument, exec[k].qty[i] # 0
               PROVE  i \in exec[k].closed
    BY DEF SuccessMeansClosed
  <2>1. Reachable(i)
    BY KillAssumption DEF KillAssumption, Reachable
  <2> QED  BY <2>1 DEF NothingSkipped, Success
<1> QED  BY <1>1, KillSkipsNothing, PTL

-----------------------------------------------------------------------------
(* One execution only reduces.  Between its reading of a position and the closing
   order nothing else moves that position: what rested was cancelled, but where
   cancel_all failed; what lands is late; and nobody else closes.  Two executions
   do not have this (see KillOnlyReduces). *)

Alone == \A j, k \in Killer : j = k

ReadTrue(e, acct, lt) ==
    e.stage = "close" => \A i \in e.toClose :
        /\ Reachable(i)
        /\ e.qty[i] = e.held[i] /\ MarketOf[i] \notin e.errors /\ i \notin lt =>
               acct[i] = e.qty[i]

AllReadTrue ==
    \A k \in Killer : /\ Active(exec[k]) => killFlag
                      /\ ReadTrue(exec[k], real, late)

(* Leaving the cancel stage reads the account as it is; after that, Advance
   only moves on from an empty list. *)
LEMMA AdvanceReads ==
    ASSUME KillTypeOK, NEW e \in Execution, NEW acct, NEW lt,
           IF e.stage = "cancel" THEN acct = real ELSE ReadTrue(e, acct, lt)
    PROVE  ReadTrue(Advance(e), acct, lt)
<1> DEFINE f == IF e.stage = "cancel" /\ e.toCancel = {}
                THEN [e EXCEPT !.stage = "close", !.toClose = ToClose,
                               !.qty = tracked, !.held = real]
                ELSE e
<1>1. f \in Execution /\ ReadTrue(f, acct, lt)
  <2>1. CASE e.stage = "cancel" /\ e.toCancel = {}
    <3>1. /\ f.stage = "close" /\ f.toClose = ToClose /\ f.qty = tracked
          /\ f.held = real /\ f \in Execution
      BY <2>1 DEF Execution, KillTypeOK, ToClose
    <3> QED  BY <2>1, <3>1 DEF ReadTrue, ToClose, Reachable
  <2>2. CASE ~(e.stage = "cancel" /\ e.toCancel = {})
    BY <2>2 DEF ReadTrue
  <2> QED  BY <2>1, <2>2
<1>2. Advance(e) = IF f.stage = "close" /\ f.toClose = {}
                   THEN [f EXCEPT !.stage = "notify"] ELSE f
  BY DEF Advance
<1> HIDE DEF f
<1> QED  BY <1>1, <1>2 DEF ReadTrue, Execution

LEMMA ReadTrueInit == KillInit => AllReadTrue
BY DEF KillInit, AllReadTrue, NotStarted, Active, ReadTrue

LEMMA ReadTrueMoved ==
    ASSUME KillTypeOK, Alone, NEW k \in Killer, NEW e,
           exec' = [exec EXCEPT ![k] = e], Active(e) => killFlag', ReadTrue(e, real', late')
    PROVE  AllReadTrue'
<1>1. exec'[k] = e /\ \A x \in Killer : x = k
  BY DEF KillTypeOK, Alone
<1> QED  BY <1>1 DEF AllReadTrue, ReadTrue, Active, Reachable

LEMMA ReadTrueStep ==
    Alone /\ KillTypeOK /\ AllAccounted /\ AllReadTrue /\ [KillNext]_killVars
        => AllReadTrue'
<1> SUFFICES ASSUME Alone, KillTypeOK, AllAccounted, AllReadTrue, [KillNext]_killVars
             PROVE  AllReadTrue'
  OBVIOUS
<1> USE KillAssumption DEF KillAssumption
<1>1. ASSUME NEW k \in Killer, Start(k) PROVE AllReadTrue'
  <2> DEFINE e == [NotStarted EXCEPT !.stage = "cancel", !.toCancel = Connected]
  <2>1. e \in Execution /\ e.stage = "cancel"
    BY StartTyped DEF Execution
  <2> HIDE DEF e
  <2>2. exec' = [exec EXCEPT ![k] = Advance(e)] /\ real' = real /\ killFlag'
    BY <1>1 DEF Start, account, e
  <2>3. ReadTrue(Advance(e), real', late')
    BY <2>1, <2>2, AdvanceReads
  <2> QED  BY <2>2, <2>3, ReadTrueMoved
<1>2. ASSUME NEW k \in Killer, NEW m \in Market, CancelDone(k, m) \/ CancelFailed(k, m)
      PROVE  AllReadTrue'
  <2> DEFINE d == [exec[k] EXCEPT !.toCancel = @ \ {m}]
             e == [exec[k] EXCEPT !.toCancel = @ \ {m}, !.errors = @ \cup {m}]
  <2>1. /\ exec[k].stage = "cancel" /\ exec[k] \in Execution
        /\ real' = real /\ killFlag' = killFlag
        /\ \/ exec' = [exec EXCEPT ![k] = Advance(d)]
           \/ exec' = [exec EXCEPT ![k] = Advance(e)]
    BY <1>2 DEF CancelDone, CancelFailed, KillTypeOK, Canceled, CancelErred
  <2>2. /\ d \in Execution /\ d.stage = "cancel"
        /\ e \in Execution /\ e.stage = "cancel"
    BY <2>1 DEF Execution
  <2> HIDE DEF d, e
  <2>3. ReadTrue(Advance(d), real', late') /\ ReadTrue(Advance(e), real', late')
    BY <2>1, <2>2, AdvanceReads
  <2>4. killFlag'
    BY <2>1 DEF AllReadTrue, Active
  <2> QED  BY <2>1, <2>3, <2>4, ReadTrueMoved
<1>3. ASSUME NEW k \in Killer, NEW i \in Instrument, CloseDone(k, i) \/ CloseFailed(k, i)
      PROVE  AllReadTrue'
  <2> DEFINE d == [exec[k] EXCEPT !.toClose = @ \ {i}, !.closed = @ \cup {i}]
             e == [exec[k] EXCEPT !.toClose = @ \ {i}, !.errors = @ \cup {i}]
  <2>1. /\ exec[k].stage = "close" /\ exec[k] \in Execution
        /\ real' = real \/ real' = ClosedOut(i, exec[k].qty[i])
        /\ killFlag' = killFlag /\ late' = late
        /\ \/ exec' = [exec EXCEPT ![k] = Advance(d)]
           \/ exec' = [exec EXCEPT ![k] = Advance(e)]
    BY <1>3 DEF CloseDone, CloseFailed, KillTypeOK, Closed, CloseErred
  <2>2. \A f \in {d, e} :
            /\ f \in Execution /\ f.stage = "close"
            /\ f.toClose = exec[k].toClose \ {i}
            /\ f.qty = exec[k].qty /\ f.held = exec[k].held
            /\ exec[k].errors \subseteq f.errors
    <3>1. /\ d \in Execution /\ d.stage = "close"
          /\ d.toClose = exec[k].toClose \ {i}
          /\ d.qty = exec[k].qty /\ d.held = exec[k].held
          /\ d.errors = exec[k].errors
      BY <2>1 DEF Execution
    <3>2. /\ e \in Execution /\ e.stage = "close"
          /\ e.toClose = exec[k].toClose \ {i}
          /\ e.qty = exec[k].qty /\ e.held = exec[k].held
          /\ e.errors = exec[k].errors \cup {i}
      BY <2>1 DEF Execution
    <3> HIDE DEF d, e
    <3> QED  BY <3>1, <3>2
  <2> HIDE DEF d, e
  <2>3. ReadTrue(exec[k], real, late)
    BY DEF AllReadTrue
  <2>4. \A j \in Instrument : j # i => real'[j] = real[j]
    BY <2>1 DEF ClosedOut, KillTypeOK
  <2>5. exec[k].toClose \subseteq Instrument
    BY <2>1 DEF Execution
  <2>6. \A f \in {d, e} : ReadTrue(f, real', late')
    BY <2>1, <2>2, <2>3, <2>4, <2>5 DEF ReadTrue
  <2>7. ReadTrue(Advance(d), real', late') /\ ReadTrue(Advance(e), real', late')
    BY <2>2, <2>6, AdvanceReads
  <2>8. killFlag'
    BY <2>1 DEF AllReadTrue, Active
  <2> QED  BY <2>1, <2>7, <2>8, ReadTrueMoved
<1>4. ASSUME NEW k \in Killer, Notified(k) PROVE AllReadTrue'
  <2>1. exec'[k].stage = "done" /\ killFlag' /\ \A x \in Killer : x = k
    BY <1>4 DEF Notified, KillTypeOK, Execution, Alone, AllReadTrue, Active
  <2> QED  BY <2>1 DEF AllReadTrue, ReadTrue
<1>5. ASSUME NEW i \in Instrument, Track(i) PROVE AllReadTrue'
  BY <1>5 DEF Track, account, AllReadTrue, ReadTrue, Active, Reachable
<1>6. ASSUME NEW i \in Instrument, NEW d \in {-1, 1}, Trade(i, d) \/ Fills(i, d)
      PROVE  AllReadTrue'
  <2>1. /\ exec' = exec /\ killFlag' = killFlag /\ late \subseteq late'
        /\ \A j \in Instrument : j # i => real'[j] = real[j]
        /\ killFlag => i \in late' \/ i \in resting
    BY <1>6 DEF Trade, Lands, Moves, Fills, KillTypeOK
  <2>2. ASSUME NEW k \in Killer PROVE ReadTrue(exec[k], real', late')
    <3> SUFFICES ASSUME exec[k].stage = "close", NEW j \in exec[k].toClose,
                        exec[k].qty[j] = exec[k].held[j],
                        MarketOf[j] \notin exec[k].errors, j \notin late'
                 PROVE  real'[j] = exec[k].qty[j]
      BY DEF AllReadTrue, ReadTrue
    <3>1. killFlag /\ Reachable(j) /\ j \in Instrument /\ real[j] = exec[k].qty[j]
      BY <2>1 DEF AllReadTrue, ReadTrue, Active, KillTypeOK, Execution
    <3>2. j \notin resting \ late
      BY <3>1 DEF AllAccounted, Accounted, CancelsAccounted, Active
    <3> QED  BY <2>1, <3>1, <3>2
  <2> QED  BY <2>1, <2>2 DEF AllReadTrue, ReadTrue, Active, Reachable
<1>7. CASE Die
  <2>1. \A k \in Killer : exec'[k] = exec[k] \/ exec'[k].stage = "lost"
    BY <1>7 DEF Die, KillTypeOK, Execution
  <2> QED  BY <1>7, <2>1 DEF Die, account, AllReadTrue, ReadTrue, Active, Reachable
<1>8. CASE UNCHANGED killVars
  BY <1>8 DEF killVars, account, AllReadTrue, ReadTrue, Active, Reachable
<1> QED
  BY <1>1, <1>2, <1>3, <1>4, <1>5, <1>6, <1>7, <1>8 DEF KillNext, ExecuteStep

(* Where a position has been read truly, what a step of the execution may do to
   it is nothing, or close it. *)
LEMMA StepReduces ==
    ASSUME KillTypeOK, AllReadTrue, NEW k \in Killer, NEW i \in Instrument \ late,
           ExecuteStep(k), exec[k].qty[i] = exec[k].held[i],
           MarketOf[i] \notin exec[k].errors
    PROVE  real'[i] \in IF real[i] >= 0 THEN 0..real[i] ELSE real[i]..0
<1>1. real[i] \in Int /\ exec[k] \in Execution
  BY DEF KillTypeOK
<1>2. real'[i] = real[i] \/ real'[i] = 0
  <2>1. ASSUME NEW j \in Instrument, CloseDone(k, j) \/ CloseFailed(k, j)
        PROVE  real'[i] = real[i] \/ real'[i] = 0
    <3>1. /\ exec[k].stage = "close" /\ j \in exec[k].toClose
          /\ real' = real \/ real' = ClosedOut(j, exec[k].qty[j])
      BY <2>1 DEF CloseDone, CloseFailed
    <3>2. CASE j = i
      <4>1. real[i] = exec[k].qty[i]
        BY <3>1, <3>2 DEF AllReadTrue, ReadTrue
      <4> QED  BY <1>1, <3>1, <3>2, <4>1 DEF ClosedOut, KillTypeOK
    <3>3. CASE j # i
      BY <3>1, <3>3 DEF ClosedOut, KillTypeOK
    <3> QED  BY <3>2, <3>3
  <2>2. ASSUME NEW m \in Market, CancelDone(k, m) \/ CancelFailed(k, m)
        PROVE  real'[i] = real[i]
    BY <2>2 DEF CancelDone, CancelFailed
  <2>3. CASE Notified(k)
    BY <2>3 DEF Notified, account
  <2> QED  BY <2>1, <2>2, <2>3 DEF ExecuteStep
<1> QED  BY <1>1, <1>2

(* Liquidation only ever reduces what it read truly, as long as there is one
   execution: not where an order landed late, nor where cancel_all failed. *)
THEOREM OneKillOnlyReduces == Alone => (KillSpec => KillOnlyReduces)
<1> SUFFICES ASSUME Alone PROVE KillSpec => KillOnlyReduces
  OBVIOUS
<1> DEFINE Inv == KillTypeOK /\ AllAccounted /\ AllReadTrue
<1>1. KillInit => Inv
  BY KillInitTyped, AccountedInit, ReadTrueInit
<1>2. Inv /\ [KillNext]_killVars => Inv'
  BY KillNextTyped, AccountedStep, ReadTrueStep
<1>3. Inv /\ [KillNext]_killVars =>
          [\A k \in Killer, i \in Instrument \ late :
               /\ ExecuteStep(k)
               /\ exec[k].qty[i] = exec[k].held[i]
               /\ MarketOf[i] \notin exec[k].errors
               => real'[i] \in IF real[i] >= 0 THEN 0..real[i] ELSE real[i]..0]_killVars
  BY StepReduces
<1> HIDE DEF Inv
<1> QED  BY <1>1, <1>2, <1>3, PTL DEF KillSpec, KillOnlyReduces
=============================================================================
