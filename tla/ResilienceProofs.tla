-------------------------- MODULE ResilienceProofs --------------------------
(***************************************************************************)
(* What is proved of the two guards of an exchange, hydra/resilience: the  *)
(* rate limiter, for every rate, capacity and number of callers, and the   *)
(* circuit breaker, for every limits and number of threads.                *)
(***************************************************************************)
EXTENDS RateLimiter, Breaker, SequenceTheorems, TLAPS

-----------------------------------------------------------------------------
(* The bucket never grants more than its rate.  What it has to give and the level of
   the leaking bucket together never exceed Capacity: that is the inductive
   invariant. *)

Call == [task : Task, n : Tokens]

RlTypeOK ==
    /\ tokens \in 0 .. Capacity /\ elapsed \in Nat
    /\ waiting \in Seq(Call)
    /\ sleep \in Int /\ level \in Nat

RlInv == RlTypeOK /\ level + Now <= Capacity

\* One more tick brings Rate more tokens.
LEMMA OneTickMore ==
    ASSUME NEW e \in Nat
    PROVE  e * Rate \in Nat /\ (e + 1) * Rate = e * Rate + Rate /\ 0 * Rate = 0
<1>1. Rate \in Nat
  BY RateAssumption
<1> QED
  BY <1>1, SMT

\* What a refill leaves is between what there was and Capacity.
LEMMA RefillBounds ==
    ASSUME NEW have \in 0 .. Capacity, NEW ticks \in Nat
    PROVE  /\ _refill(have, ticks) \in 0 .. Capacity
           /\ _refill(have, ticks) >= have
           /\ _refill(have, 0) = have
           /\ _refill(have, ticks + 1) <= _refill(have, ticks) + Rate
<1>1. Rate \in Nat /\ Capacity \in Nat
  BY RateAssumption
<1>2. ticks * Rate \in Nat /\ (ticks + 1) * Rate = ticks * Rate + Rate /\ 0 * Rate = 0
  BY OneTickMore
<1> QED
  BY <1>1, <1>2 DEF _refill, Least

\* What comes in with a tick leaks out with it.
LEMMA Leak ==
    ASSUME NEW l \in Nat, NEW n \in Nat, NEW m \in 0 .. Capacity,
           l + n <= Capacity, m <= n + Rate
    PROVE  (IF l > Rate THEN l - Rate ELSE 0) + m <= Capacity
BY RateAssumption

\* A new limiter has a full bucket and has granted nothing.
THEOREM RateInit == RlInit => RlInv
<1> SUFFICES ASSUME RlInit PROVE RlInv
  OBVIOUS
<1>1. Capacity \in Nat
  BY RateAssumption
<1>2. RlTypeOK
  BY <1>1 DEF RlInit, RlTypeOK
<1>3. Now = Capacity
  BY <1>1, RefillBounds DEF RlInit, Now
<1> QED
  BY <1>1, <1>2, <1>3 DEF RlInit, RlInv

\* Calls, grants, sleeps and the passing of time keep what was granted within the rate.
THEOREM RateStep == RlInv /\ [RlNext]_rlVars => RlInv'
<1> SUFFICES ASSUME RlInv, [RlNext]_rlVars PROVE RlInv'
  OBVIOUS
<1> USE DEF RlInv, RlTypeOK
<1>0. /\ Capacity \in Nat /\ Rate \in Nat /\ Tokens \subseteq Nat
      /\ Now \in 0 .. Capacity /\ Now >= tokens
  BY RateAssumption, RefillBounds DEF Now
<1>h. waiting # <<>> => Head(waiting) \in Call /\ Head(waiting).n \in Nat /\ Tail(waiting) \in Seq(Call)
  <2>1. waiting # <<>> => Head(waiting) \in Call /\ Tail(waiting) \in Seq(Call)
    BY HeadTailProperties
  <2>2. \A c \in Call : c.n \in Nat
    BY <1>0 DEF Call
  <2> QED
    BY <2>1, <2>2
<1>1. ASSUME NEW t \in Task, NEW n \in Tokens, acquire(t, n)
      PROVE  RlInv'
  <2>1. [task |-> t, n |-> n] \in Call
    BY DEF Call
  <2>2. waiting' \in Seq(Call)
    BY <1>1, <2>1 DEF acquire
  <2> QED
    BY <1>1, <2>2 DEF acquire, Now
<1>2. CASE Takes
  <2>1. tokens' \in 0 .. Capacity /\ tokens' = Now - Head(waiting).n
    BY <1>0, <1>h, <1>2 DEF Takes
  <2>2. Now' = tokens'
    BY <2>1, <1>2, RefillBounds DEF Takes, Now
  <2> QED
    BY <1>0, <1>h, <1>2, <2>1, <2>2 DEF Takes
<1>3. CASE Sleeps
  <2>1. tokens' \in 0 .. Capacity /\ tokens' = Now
    BY <1>0, <1>3 DEF Sleeps
  <2>2. Now' = Now
    BY <2>1, <1>3, RefillBounds DEF Sleeps, Now
  <2>3. Rate > 0 /\ sleep' \in Int
    BY <1>0, <1>h, <1>3, RateAssumption DEF Sleeps
  <2> QED
    BY <1>0, <1>3, <2>1, <2>2, <2>3 DEF Sleeps
<1>4. CASE Second
  <2>1. Now' <= Now + Rate
    BY <1>4, RefillBounds DEF Second, Now
  <2>2. Now' \in 0 .. Capacity
    BY <1>4, RefillBounds DEF Second, Now
  <2>3. /\ elapsed' \in Nat /\ sleep' \in Int /\ level' \in Nat
        /\ tokens' = tokens /\ waiting' = waiting
        /\ level' = IF level > Rate THEN level - Rate ELSE 0
    BY <1>0, <1>4 DEF Second
  <2> HIDE DEF RlInv, RlTypeOK
  <2>4. level \in Nat /\ Now \in Nat /\ level + Now <= Capacity
    BY <1>0 DEF RlInv, RlTypeOK
  <2>5. (IF level > Rate THEN level - Rate ELSE 0) + Now' <= Capacity
    BY <2>1, <2>2, <2>4, Leak
  <2>6. level' + Now' <= Capacity
    BY <2>3, <2>5
  <2> QED
    BY <2>2, <2>3, <2>6 DEF RlInv, RlTypeOK
<1>5. CASE UNCHANGED rlVars
  BY <1>5 DEF rlVars, Now
<1> QED
  BY <1>1, <1>2, <1>3, <1>4, <1>5 DEF RlNext

(* In no period of d ticks are more than Capacity + d * Rate tokens taken, however
   many coroutines call acquire and whatever they ask for. *)
THEOREM NeverAboveRate == RlSpec => []GrantedWithinRate
<1>1. ASSUME RlInv PROVE GrantedWithinRate
  <2>1. Now \in 0 .. Capacity /\ Capacity \in Nat
    BY <1>1, RateAssumption, RefillBounds DEF RlInv, RlTypeOK, Now
  <2> QED
    BY <1>1, <2>1 DEF RlInv, RlTypeOK, GrantedWithinRate
<1> QED
  BY RateInit, RateStep, <1>1, PTL DEF RlSpec

-----------------------------------------------------------------------------
(* The circuit breaker refuses a call only of an exchange that keeps failing: its
   counter is the number of failures in a row, and its clock, while it is not
   closed, the time since the last of them. *)

BreakerState ==
    [state : {"closed", "open", "half"}, fails : 0 .. FailMax, since : 0 .. ResetTimeout]

BrInv ==
    /\ breaker \in BreakerState
    /\ quiet \in 0 .. ResetTimeout
    /\ streak_f = breaker.fails
    /\ breaker.state # "closed" => breaker.fails = FailMax /\ breaker.since = quiet

\* The limits are positive and AtMost keeps to its bound.
LEMMA Limits ==
    /\ FailMax \in Nat \ {0} /\ ResetTimeout \in Nat \ {0}
    /\ \A n \in Nat, b \in Nat : AtMost(n, b) \in 0 .. b /\ (n >= b => AtMost(n, b) = b)
  BY BreakerAssumption DEF AtMost

\* A connector starts with a closed breaker and no failure.
THEOREM BreakerStarts == BrInit => BrInv
  BY Limits DEF BrInit, BrInv, BreakerState, create_breaker

\* Calls, their ends and the passing of time keep the counter and the clock true.
THEOREM BreakerSteps == BrInv /\ [BrNext]_brVars => BrInv'
<1> SUFFICES ASSUME BrInv, [BrNext]_brVars PROVE BrInv'
  OBVIOUS
<1>0. PICK st \in {"closed", "open", "half"}, f \in 0 .. FailMax, s \in 0 .. ResetTimeout :
          breaker = [state |-> st, fails |-> f, since |-> s]
  BY DEF BrInv, BreakerState
<1>1. ASSUME NEW t \in Thread, _run(t) PROVE BrInv'
  BY <1>1 DEF _run, BrInv
<1>2. ASSUME NEW t \in Thread, Admitted(t) PROVE BrInv'
  <2>1. breaker' = breaker \/ breaker' = [breaker EXCEPT !.state = "closed"]
        \/ (breaker.state = "open" /\ breaker' = [breaker EXCEPT !.state = "half"])
    BY <1>2 DEF Admitted
  <2>2. streak_f' = streak_f /\ quiet' = quiet
    BY <1>2 DEF Admitted
  <2>3. CASE breaker' = breaker
    BY <2>2, <2>3 DEF BrInv
  <2>4. CASE breaker' = [breaker EXCEPT !.state = "closed"]
    <3>1. breaker' = [state |-> "closed", fails |-> f, since |-> s]
      BY <1>0, <2>4
    <3> QED
      BY <1>0, <2>2, <3>1 DEF BrInv, BreakerState
  <2>5. CASE breaker.state = "open" /\ breaker' = [breaker EXCEPT !.state = "half"]
    <3>1. breaker' = [state |-> "half", fails |-> f, since |-> s]
      BY <1>0, <2>5
    <3> QED
      BY <1>0, <2>2, <2>5, <3>1 DEF BrInv, BreakerState
  <2> QED
    BY <2>1, <2>3, <2>4, <2>5
<1>3. ASSUME NEW t \in Thread, Answers(t) \/ Garbled(t) PROVE BrInv'
  <2>1. breaker' = [state |-> "closed", fails |-> 0, since |-> 0]
        /\ streak_f' = 0 /\ quiet' = quiet
    BY <1>3 DEF Answers, Garbled, Succeeded, create_breaker
  <2>2. 0 \in 0 .. FailMax /\ 0 \in 0 .. ResetTimeout
    BY Limits
  <2>3. breaker' \in BreakerState
    BY <2>1, <2>2 DEF BreakerState
  <2> QED
    BY <2>1, <2>3 DEF BrInv
<1>4. ASSUME NEW t \in Thread, CommandFails(t) PROVE BrInv'
  <2> DEFINE n == AtMost(f + 1, FailMax)
             opens == st = "half" \/ f + 1 >= FailMax
  <2>1. /\ breaker' = [state |-> IF opens THEN "open" ELSE "closed", fails |-> n, since |-> 0]
        /\ streak_f' = AtMost(streak_f + 1, FailMax) /\ quiet' = 0
    BY <1>0, <1>4 DEF CommandFails, Tripped
  <2>2. n \in 0 .. FailMax /\ (opens => n = FailMax)
    <3>1. f + 1 \in Nat /\ FailMax \in Nat
      BY Limits
    <3>2. st = "half" => f = FailMax
      BY <1>0 DEF BrInv
    <3> QED
      BY <3>1, <3>2, Limits
  <2>3. streak_f' = n
    BY <1>0, <2>1 DEF BrInv
  <2> HIDE DEF n, opens
  <2> QED
    BY <2>1, <2>2, <2>3, Limits DEF BrInv, BreakerState
<1>5. CASE TimePasses
  <2>1. breaker' = [state |-> st, fails |-> f, since |-> AtMost(s + 1, ResetTimeout)]
    BY <1>0, <1>5 DEF TimePasses
  <2>2. quiet' = AtMost(quiet + 1, ResetTimeout) /\ streak_f' = streak_f
    BY <1>5 DEF TimePasses
  <2>3. AtMost(s + 1, ResetTimeout) \in 0 .. ResetTimeout /\ quiet' \in 0 .. ResetTimeout
    <3>1. s + 1 \in Nat /\ quiet + 1 \in Nat /\ ResetTimeout \in Nat
      BY Limits DEF BrInv
    <3> QED
      BY <2>2, <3>1, Limits
  <2> QED
    BY <1>0, <2>1, <2>2, <2>3 DEF BrInv, BreakerState
<1>6. CASE UNCHANGED brVars
  BY <1>6 DEF brVars, BrInv
<1> QED
  BY <1>1, <1>2, <1>3, <1>4, <1>5, <1>6 DEF BrNext

(* A call of CryptoExchange._run is refused without being tried only when FailMax
   commands failed in a row, none has succeeded since and the last failed less than
   ResetTimeout ago, for any number of threads. *)
THEOREM RefusalIsJustified == BrSpec => RefusedOnlyWhileFailing
<1> DEFINE Refused == \A t \in Thread : call[t] # "refused" /\ call'[t] = "refused" =>
                          streak_f = FailMax /\ quiet < ResetTimeout
<1>1. BrInv /\ [BrNext]_brVars => [Refused]_brVars
  <2> SUFFICES ASSUME BrInv, BrNext, NEW t \in Thread,
                      call[t] # "refused", call'[t] = "refused"
               PROVE  streak_f = FailMax /\ quiet < ResetTimeout
    OBVIOUS
  <2>1. ASSUME NEW u \in Thread, call' = [call EXCEPT ![u] = "waiting"] PROVE FALSE
    BY <2>1
  <2>2. ASSUME NEW u \in Thread, NEW end \in {"answered", "failed", "running"},
               call' = [call EXCEPT ![u] = end]
        PROVE  FALSE
    BY <2>2
  <2>3. PICK u \in Thread : Admitted(u)
    BY <2>1, <2>2 DEF BrNext, _run, Answers, Garbled, CommandFails, TimePasses
  <2>4. breaker.state = "open" /\ breaker.since < ResetTimeout
    BY <2>2, <2>3 DEF Admitted
  <2> QED
    BY <2>4 DEF BrInv
<1> QED
  BY BreakerStarts, BreakerSteps, <1>1, PTL DEF BrSpec, RefusedOnlyWhileFailing
=============================================================================
