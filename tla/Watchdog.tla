------------------------------ MODULE Watchdog ------------------------------
(* Who asks for the kill switch from outside: the watchdog function that runs
   once a minute in the cloud (scripts/dr_watchdog.py), the command line
   (hydra kill) and the Telegram bot.  A run of the watchdog ends before the
   next begins; it may die between any two of its steps, and the failure count
   in DynamoDB survives it. *)
EXTENDS Integers

CONSTANTS MaxFailures, \* MAX_FAILURES = 3
          MaxDeaths    \* bound of the model: runs that die, answers that get lost

ASSUME WatchdogAssumption == MaxFailures \in Nat \ {0} /\ MaxDeaths \in Nat

VARIABLES
    host,      \* the server: "up", "slow" (no answer in 5 s, but in 30) or "down"
    keyValid,  \* the watchdog's HYDRA_API_KEY is the server's
    watch,     \* the step its run comes to next
    count,     \* the item in DynamoDB
    read,      \* failure_count of the run
    streak,    \* history: /health was not answered 200 so many times in a row, at
               \* most MaxFailures
    unrecorded, \* history: /health was answered 200 since the count was last set to 0
    executed,  \* executed[c]: the last request of c was carried out
    told,      \* told[c]: and success was reported to the operator
    deaths

wdVars == <<host, keyValid, watch, count, read, streak, unrecorded, executed, told, deaths>>

Requester == {"watchdog", "cli", "telegram"}
WatchStep == {"off", "check", "reset_healthy", "count", "close", "alert", "reset"}

\* The outcome of a request, for the requester.
Outcome(c, done, reported) ==
    /\ executed' = [executed EXCEPT ![c] = done]
    /\ told' = [told EXCEPT ![c] = reported]

HostChanges ==
    /\ \E h \in {"up", "slow", "down"} \ {host} : host' = h
    /\ UNCHANGED <<keyValid, watch, count, read, streak, unrecorded, executed, told, deaths>>

\* run_setup writes a new HYDRA_API_KEY on every run; the watchdog keeps the old.
KeyReplaced ==
    /\ keyValid' = FALSE
    /\ UNCHANGED <<host, watch, count, read, streak, unrecorded, executed, told, deaths>>
-----------------------------------------------------------------------------
(* lambda_handler *)

get_failure_count ==
    /\ watch = "off"
    /\ watch' = "check" /\ read' = count
    /\ Outcome("watchdog", FALSE, FALSE)
    /\ UNCHANGED <<host, keyValid, count, streak, unrecorded, deaths>>

\* GET /health: 200 only of a host that is up; any host may miss the deadline.
CheckHealth ==
    /\ watch = "check"
    /\ \/ /\ host = "up"
          /\ watch' = "reset_healthy" /\ streak' = 0 /\ unrecorded' = TRUE
       \/ /\ watch' = "count" /\ UNCHANGED unrecorded
          /\ streak' = IF streak < MaxFailures THEN streak + 1 ELSE streak
    /\ UNCHANGED <<host, keyValid, count, read, executed, told, deaths>>

\* The reset is inside the try: if it raises, the run counts a failure although
\* the host is healthy.
ResetHealthy ==
    /\ watch = "reset_healthy"
    /\ \/ watch' = "off" /\ count' = 0 /\ unrecorded' = FALSE
       \/ watch' = "count" /\ UNCHANGED <<count, unrecorded>>
    /\ UNCHANGED <<host, keyValid, read, streak, executed, told, deaths>>

\* slip: the new count is not stored
CountForgotten ==
    /\ watch = "count"
    /\ watch' = IF read + 1 >= MaxFailures THEN "close" ELSE "off"
    /\ UNCHANGED <<count, host, keyValid, read, streak, unrecorded, executed, told, deaths>>

\* slip: the limit is compared before this failure is counted in, off by one
CloseTooEarly ==
    /\ watch = "count"
    /\ count' = IF read < MaxFailures THEN read + 1 ELSE read
    /\ watch' = IF read + 2 >= MaxFailures THEN "close" ELSE "off"
    /\ UNCHANGED <<host, keyValid, read, streak, unrecorded, executed, told, deaths>>

set_failure_count ==
    /\ watch = "count"
    /\ count' = IF read < MaxFailures THEN read + 1 ELSE read \* >= is all it is used for
    /\ watch' = IF count' >= MaxFailures THEN "close" ELSE "off"
    /\ UNCHANGED <<host, keyValid, read, streak, unrecorded, executed, told, deaths>>

\* slip: a request that raised is reported like one that was answered
CloseRegardless ==
    /\ watch = "close"
    /\ watch' = "alert"
    /\ Outcome("watchdog", host # "down" /\ keyValid, FALSE)
    /\ UNCHANGED <<host, keyValid, count, read, streak, unrecorded, deaths>>

\* The status of the answer is not looked at: a refused request (403) returns
\* its JSON like one that was carried out.  A host that is down raises, and so
\* does an answer that gets lost: the run ends with no alert and no reset.
emergency_close_all ==
    /\ watch = "close"
    /\ \/ /\ host # "down"
          /\ watch' = "alert"
          /\ Outcome("watchdog", keyValid, FALSE)
          /\ UNCHANGED deaths
       \/ /\ host # "down" /\ deaths < MaxDeaths
          /\ watch' = "off"
          /\ Outcome("watchdog", keyValid, FALSE)
          /\ deaths' = deaths + 1
       \/ /\ host = "down"
          /\ watch' = "off"
          /\ UNCHANGED <<executed, told, deaths>>
    /\ UNCHANGED <<host, keyValid, count, read, streak, unrecorded>>

send_telegram_alert ==
    /\ watch = "alert"
    /\ watch' = "reset"
    /\ told' = [told EXCEPT !["watchdog"] = TRUE]
    /\ UNCHANGED <<host, keyValid, count, read, streak, unrecorded, executed, deaths>>

reset_failure_count ==
    /\ watch = "reset"
    /\ watch' = "off" /\ count' = 0 /\ unrecorded' = FALSE
    /\ UNCHANGED <<host, keyValid, read, streak, executed, told, deaths>>

\* An exception outside the try, or the end of the function's time.
RunDies ==
    /\ watch # "off" /\ deaths < MaxDeaths
    /\ watch' = "off" /\ deaths' = deaths + 1
    /\ UNCHANGED <<host, keyValid, count, read, streak, unrecorded, executed, told>>

lambda_handler ==
    \/ get_failure_count \/ CheckHealth \/ ResetHealthy \/ set_failure_count
    \/ emergency_close_all \/ send_telegram_alert \/ reset_failure_count
-----------------------------------------------------------------------------
(* The other two. *)

\* hydra kill: raise_for_status, so that only an answer of success is reported.
kill ==
    /\ \/ host # "down" /\ \E answered \in BOOLEAN : Outcome("cli", TRUE, answered)
       \/ Outcome("cli", FALSE, FALSE)
    /\ UNCHANGED <<host, keyValid, watch, count, read, streak, unrecorded, deaths>>

\* /killswitch: the callback posts to /risk/kill, which no router serves, ignores
\* the status and swallows every exception; the reply is always success.
handle_killswitch ==
    /\ Outcome("telegram", FALSE, TRUE)
    /\ UNCHANGED <<host, keyValid, watch, count, read, streak, unrecorded, deaths>>

WdInit ==
    /\ host = "up" /\ keyValid = TRUE /\ watch = "off"
    /\ count = 0 /\ read = 0 /\ streak = 0 /\ unrecorded = FALSE /\ deaths = 0
    /\ executed = [c \in Requester |-> FALSE] /\ told = [c \in Requester |-> FALSE]

WdNext ==
    \/ HostChanges \/ KeyReplaced
    \/ lambda_handler \/ RunDies
    \/ kill \/ handle_killswitch

WdSpec == WdInit /\ [][WdNext]_wdVars
-----------------------------------------------------------------------------
(* The header of dr_watchdog.py: the positions are closed after three health checks
   in a row that failed.  The code counts a run that got its 200 but whose reset
   raised as a failure, and one that died before its reset leaves the count standing. *)
KillOnlyAfterThree ==
    [][~executed["watchdog"] /\ executed'["watchdog"] => streak = MaxFailures]_wdVars

(* Whatever runs die and wherever, fewer than three failed checks in a row close the
   positions only if the host has answered 200 since the count was last 0, and the
   run that got the answer could not reset it. *)
KillIsEarned ==
    [][~executed["watchdog"] /\ executed'["watchdog"] =>
           streak = MaxFailures \/ unrecorded]_wdVars

(* A host that has stopped answering /health in time but still serves the kill
   switch, to a watchdog with a valid key, is told to close its positions, again
   and again.  (Nothing of the kind holds for one that is down.) *)
SlowHostIsKilled ==
    <>[](host = "slow" /\ keyValid) => []<>executed["watchdog"]

(* Whoever is told that the positions are closed can rely on the request having
   been carried out, but for the users of the bot, and of a watchdog whose key is
   no longer valid. *)
SuccessIsTrue ==
    \A c \in Requester : told[c] /\ ~executed[c] =>
        c = "telegram" \/ (c = "watchdog" /\ ~keyValid)
=============================================================================
