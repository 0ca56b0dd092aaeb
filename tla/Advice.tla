------------------------------- MODULE Advice -------------------------------
(* The OpenClaw bridge (agent/openclaw_bridge.py): every round it reads what the
   engines have cached, asks an external agent, and stores the answer under
   hydra:openclaw:analysis:latest with a TTL of one hour.  It shares Redis with
   engines that go on writing while it reads; its own writes are separate commands, and
   the process may die, or an exception end the round, between any two. *)
EXTENDS Integers, Sequences

CONSTANTS Ttl,        \* 3600 s, in ticks
          MaxRevision \* bound of the model: indicator revisions

ASSUME AdviceAssumption == {Ttl, MaxRevision} \subseteq Nat \ {0}

VARIABLES
    cached,    \* the engines' keys of a symbol: the revision each includes, 0 if
               \* the key does not exist; a signal has two, its indicator's and
               \* its regime's
    round,     \* the step the bridge comes to next
    state,     \* what _collect_hydra_state has read so far
    analysis,  \* hydra:openclaw:analysis:latest: its age, and whether it has a TTL
    severed    \* history: the TTL of the analysis was never set

adVars == <<cached, round, state, analysis, severed>>

Section == {"signal_ind", "signal_reg", "regime", "indicator"}
NothingRead == [s \in Section |-> 0]
NoAnalysis == [age |-> -1, ttl |-> FALSE]
Stored(age, ttl) == [age |-> age, ttl |-> ttl]
-----------------------------------------------------------------------------
(* The engines: each writes what it computed from values it read before, the
   newest of which is no newer than what is cached now. *)

IndicatorComputed ==
    /\ cached.indicator < MaxRevision
    /\ cached' = [cached EXCEPT !.indicator = cached.indicator + 1]
    /\ UNCHANGED <<round, state, analysis, severed>>

RegimeDetected ==
    /\ \E i \in cached.regime .. cached.indicator :
        i > 0 /\ cached' = [cached EXCEPT !.regime = i]
    /\ UNCHANGED <<round, state, analysis, severed>>

SignalGenerated ==
    /\ \E i \in cached.signal_ind .. cached.indicator :
       \E r \in cached.signal_reg .. cached.regime :
        i > 0 /\ r > 0 /\ cached' = [cached EXCEPT !.signal_ind = i, !.signal_reg = r]
    /\ UNCHANGED <<round, state, analysis, severed>>
-----------------------------------------------------------------------------
(* The bridge. *)

\* slip: the indicators are read first, as the engines compute them first
SectionsForward == << {"indicator"}, {"regime"}, {"signal_ind", "signal_reg"} >>

\* The order in which _collect_hydra_state reads: one GET per key.
Sections == << {"signal_ind", "signal_reg"}, {"regime"}, {"indicator"} >>

_collect_hydra_state ==
    /\ round \in 0 .. Len(Sections) - 1
    /\ state' = [s \in Section |-> IF s \in Sections[round + 1] THEN cached[s]
                                   ELSE IF round = 0 THEN 0 ELSE state[s]]
    /\ round' = round + 1
    /\ UNCHANGED <<cached, analysis, severed>>

Collected == round = Len(Sections)
Stop == round' = 0 /\ state' = NothingRead

\* No signals and no regimes: the agent is not asked.  Otherwise it answers, or
\* fails: not installed, timeout, an error code, an answer that is not JSON.
_call_openclaw ==
    /\ Collected
    /\ \/ state.signal_ind # 0 \/ state.regime # 0
    /\ round' = round + 1 /\ state' = NothingRead
    /\ UNCHANGED <<cached, analysis, severed>>

CallFails ==
    /\ Collected /\ Stop
    /\ UNCHANGED <<cached, analysis, severed>>

Storing(n) == round = Len(Sections) + n

\* SET drops the TTL the key had.
SetResult ==
    /\ Storing(1)
    /\ analysis' = Stored(0, FALSE)
    /\ round' = round + 1
    /\ UNCHANGED <<cached, state, severed>>

\* slip: only a key that has outlived its hour is given a TTL again
ExpireIfOld ==
    /\ Storing(2)
    /\ analysis' = IF analysis.age > Ttl THEN Stored(0, TRUE) ELSE analysis
    /\ severed' = FALSE
    /\ round' = round + 1
    /\ UNCHANGED <<cached, state>>

\* An EXPIRE that comes late starts the hour late: the age is counted from it.
ExpireResult ==
    /\ Storing(2)
    /\ analysis' = IF analysis = NoAnalysis THEN analysis ELSE Stored(0, TRUE)
    /\ severed' = FALSE
    /\ round' = round + 1
    /\ UNCHANGED <<cached, state>>

\* The sentiments, the report file and the alerts: nothing here reads them back.
StoreRest ==
    /\ Storing(3)
    /\ Stop
    /\ UNCHANGED <<cached, analysis, severed>>

_store_results == SetResult \/ ExpireResult \/ StoreRest

\* main catches what run_once raises; a killed process starts over.
RoundDies ==
    /\ round > 0 /\ Stop
    /\ severed' = (severed \/ Storing(2))
    /\ UNCHANGED <<cached, analysis>>

Hour ==
    /\ analysis # NoAnalysis
    /\ analysis' = IF analysis.ttl /\ analysis.age = Ttl THEN NoAnalysis
                   ELSE IF analysis.age > Ttl THEN analysis
                   ELSE Stored(analysis.age + 1, analysis.ttl)
    /\ UNCHANGED <<cached, round, state, severed>>

run_once == _collect_hydra_state \/ _call_openclaw \/ CallFails \/ _store_results

AdInit ==
    /\ cached = NothingRead /\ round = 0 /\ state = NothingRead
    /\ analysis = NoAnalysis /\ severed = FALSE

AdNext == IndicatorComputed \/ RegimeDetected \/ SignalGenerated
          \/ run_once \/ RoundDies \/ Hour

AdSpec == AdInit /\ [][AdNext]_adVars
-----------------------------------------------------------------------------
(* What the agent is shown holds together although it was not read at one moment:
   no signal rests on a regime or an indicator newer than the ones beside it, and
   no regime on a newer indicator, because effects are read before their causes. *)
SnapshotIsCausal ==
    Collected =>
        /\ state.signal_reg <= state.regime
        /\ state.signal_ind <= state.indicator
        /\ state.regime <= state.indicator

(* An analysis is not shown for longer than its TTL, unless the round that stored
   it ended between SET and EXPIRE: then it stays until another round stores. *)
AnalysisFresh ==
    analysis.age > Ttl => severed \/ Storing(2)
=============================================================================
