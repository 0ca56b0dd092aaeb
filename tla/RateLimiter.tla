----------------------------- MODULE RateLimiter -----------------------------
(* TokenBucketRateLimiter: acquire() refills, sleeps while there are too few
   tokens and takes its own, all under one asyncio.Lock, which serves in the order
   of arrival.  Time is in ticks, and Rate is the tokens of one tick. *)
EXTENDS Integers, Sequences

CONSTANTS Task,      \* coroutines that call acquire
          Tokens,    \* numbers of tokens they ask for
          Rate, Capacity,
          MaxIdle    \* bound of the model: ticks without a refill

ASSUME RateAssumption == {Rate, Capacity} \subseteq Nat \ {0} /\ Tokens \subseteq Nat \ {0}
                         /\ MaxIdle \in Nat

VARIABLES
    tokens,   \* _tokens
    elapsed,  \* ticks since _last_refill
    waiting,  \* calls in order, the first of which holds the lock
    sleep,    \* ticks the holder still sleeps
    level     \* history: a bucket that leaks Rate a tick, and into which every
              \* token taken is poured

rlVars == <<tokens, elapsed, waiting, sleep, level>>

Least(x, y) == IF x <= y THEN x ELSE y

\* slip: the time that has passed is added without the cap
_refillUncapped(have, ticks) == have + ticks * Rate

_refill(have, ticks) == Least(Capacity, have + ticks * Rate)

Now == _refill(tokens, elapsed)

acquire(t, n) ==
    /\ \A i \in 1 .. Len(waiting) : waiting[i].task # t
    /\ waiting' = Append(waiting, [task |-> t, n |-> n])
    /\ UNCHANGED <<tokens, elapsed, sleep, level>>

\* slip: what came in during the sleep is not counted
TakesStale ==
    /\ waiting # <<>> /\ sleep = 0
    /\ tokens >= Head(waiting).n
    /\ tokens' = tokens - Head(waiting).n
    /\ elapsed' = 0
    /\ waiting' = Tail(waiting)
    /\ level' = level + Head(waiting).n
    /\ UNCHANGED sleep

\* The holder is awake: it takes its tokens and leaves, ...
Takes ==
    /\ waiting # <<>> /\ sleep = 0
    /\ Now >= Head(waiting).n
    /\ tokens' = Now - Head(waiting).n
    /\ elapsed' = 0
    /\ waiting' = Tail(waiting)
    /\ level' = level + Head(waiting).n
    /\ UNCHANGED sleep

\* ... or sleeps until what it lacks has come in, still holding the lock.
Sleeps ==
    /\ waiting # <<>> /\ sleep = 0
    /\ Now < Head(waiting).n
    /\ tokens' = Now /\ elapsed' = 0
    /\ sleep' = (Head(waiting).n - Now + Rate - 1) \div Rate
    /\ UNCHANGED <<waiting, level>>

Second ==
    /\ elapsed < MaxIdle
    /\ elapsed' = elapsed + 1
    /\ sleep' = IF sleep > 0 THEN sleep - 1 ELSE 0
    /\ level' = IF level > Rate THEN level - Rate ELSE 0
    /\ UNCHANGED <<tokens, waiting>>

RlInit == tokens = Capacity /\ elapsed = 0 /\ waiting = <<>> /\ sleep = 0 /\ level = 0

RlNext == (\E t \in Task : \E n \in Tokens : acquire(t, n)) \/ Takes \/ Sleeps \/ Second

RlSpec == RlInit /\ [][RlNext]_rlVars
-----------------------------------------------------------------------------
(* In no period of d ticks, wherever it begins, are more than Capacity + d * Rate
   tokens taken: the leaking bucket never holds more than Capacity. *)
GrantedWithinRate == level <= Capacity

(* Every call gets its tokens, or asks for more than Capacity, or waits behind one
   that does: that one sleeps for ever, with the lock. *)
AcquireReturns ==
    \A t \in Task :
        (\E i \in 1 .. Len(waiting) : waiting[i].task = t) ~>
            \/ \A i \in 1 .. Len(waiting) : waiting[i].task # t
            \/ waiting # <<>> /\ Head(waiting).n > Capacity
=============================================================================
