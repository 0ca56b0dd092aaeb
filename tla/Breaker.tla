------------------------------- MODULE Breaker -------------------------------
(* One market's CryptoExchange: every call runs the ccxt command line in a thread
   of the executor, through the one circuit breaker all calls of the market share,
   those of orders and those of the kill switch.  The breaker is pybreaker's: it
   lets one call run at a time, and after FailMax failures in a row it refuses
   every call for ResetTimeout and then lets one through on trial. *)
EXTENDS Integers, FiniteSets

CONSTANTS Thread,       \* threads that make calls
          FailMax,      \* fail_max = 5
          ResetTimeout  \* reset_timeout = 30, in ticks

ASSUME BreakerAssumption == {FailMax, ResetTimeout} \subseteq Nat \ {0}

VARIABLES
    call,     \* call[t]: "idle", "waiting" for the breaker, "running", or how the
              \* last one ended: "answered", "failed" or "refused"
    breaker,  \* its state, the failures it counted and the ticks since it opened
    streak_f, \* history: commands that failed in a row, at most FailMax
    quiet     \* history: ticks since one failed, at most ResetTimeout

brVars == <<call, breaker, streak_f, quiet>>

AtMost(x, bound) == IF x > bound THEN bound ELSE x
Running == {t \in Thread : call[t] = "running"}
Idle(t) == call[t] \notin {"waiting", "running"}

\* create_breaker, once per connector.
create_breaker == [state |-> "closed", fails |-> 0, since |-> 0]

_run(t) ==
    /\ Idle(t)
    /\ call' = [call EXCEPT ![t] = "waiting"]
    /\ UNCHANGED <<breaker, streak_f, quiet>>

\* The turn of t: its command starts, or is refused without being tried.
Admitted(t) ==
    /\ call[t] = "waiting" /\ Running = {}
    /\ IF breaker.state = "open" /\ breaker.since < ResetTimeout
       THEN call' = [call EXCEPT ![t] = "refused"] /\ UNCHANGED breaker
       ELSE /\ call' = [call EXCEPT ![t] = "running"]
            /\ breaker' = [breaker EXCEPT !.state = IF breaker.state = "open" THEN "half" ELSE "closed"]
    /\ UNCHANGED <<streak_f, quiet>>

Succeeded == breaker' = create_breaker
Tripped ==
    LET opens == breaker.state = "half" \/ breaker.fails + 1 >= FailMax
    IN breaker' = [state |-> IF opens THEN "open" ELSE "closed",
                   fails |-> AtMost(breaker.fails + 1, FailMax), since |-> 0]

Answers(t) ==
    /\ call[t] = "running" /\ call' = [call EXCEPT ![t] = "answered"]
    /\ Succeeded /\ streak_f' = 0
    /\ UNCHANGED quiet

\* slip: the answer is parsed inside the breaker's call
GarbledTrips(t) ==
    /\ call[t] = "running" /\ call' = [call EXCEPT ![t] = "failed"]
    /\ Tripped /\ streak_f' = 0
    /\ UNCHANGED quiet

\* json.loads raises on what a successful command printed: the call fails, but
\* for the breaker it was a success.
Garbled(t) ==
    /\ call[t] = "running" /\ call' = [call EXCEPT ![t] = "failed"]
    /\ Succeeded /\ streak_f' = 0
    /\ UNCHANGED quiet

\* A timeout of 15 s or an exit code: an exchange that is away, and just as well
\* an order it rejects.
CommandFails(t) ==
    /\ call[t] = "running" /\ call' = [call EXCEPT ![t] = "failed"]
    /\ Tripped /\ streak_f' = AtMost(streak_f + 1, FailMax)
    /\ quiet' = 0

TimePasses ==
    /\ breaker' = [breaker EXCEPT !.since = AtMost(breaker.since + 1, ResetTimeout)]
    /\ quiet' = AtMost(quiet + 1, ResetTimeout)
    /\ UNCHANGED <<call, streak_f>>

BrInit ==
    /\ call = [t \in Thread |-> "idle"] /\ breaker = create_breaker
    /\ streak_f = 0 /\ quiet = ResetTimeout

BrNext ==
    \/ \E t \in Thread : _run(t) \/ Admitted(t) \/ Answers(t) \/ Garbled(t) \/ CommandFails(t)
    \/ TimePasses

BrSpec == BrInit /\ [][BrNext]_brVars
-----------------------------------------------------------------------------
(* A call, of the kill switch too, is refused untried only after FailMax commands
   that failed in a row, none succeeding since, the last of them less than
   ResetTimeout ago.  (Why they failed does not matter: an order that the exchange
   rejects is a command that fails.) *)
RefusedOnlyWhileFailing ==
    [][\A t \in Thread : call[t] # "refused" /\ call'[t] = "refused" =>
           streak_f = FailMax /\ quiet < ResetTimeout]_brVars
=============================================================================
