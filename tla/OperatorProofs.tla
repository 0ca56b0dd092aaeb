--------------------------- MODULE OperatorProofs ---------------------------
(* What the components around the order path promise: the watchdog, markets.yaml,
   the bridge to the agent and the PnL keys. *)
EXTENDS Watchdog, Markets, Advice, PnlLedger, NaturalLemmas, SequenceTheorems

-----------------------------------------------------------------------------
(* The watchdog of scripts/dr_watchdog.py closes positions only after MaxFailures
   failed checks in a row, or after a healthy answer that it could not record: but
   for those, the count it stores never exceeds the number of such checks. *)

\* The count and what the run has read of it; a run that comes to count has one more
\* failed check behind it, and one about to close has MaxFailures.
WdInv ==
    /\ count \in 0 .. MaxFailures /\ read \in Nat /\ streak \in 0 .. MaxFailures
    /\ watch \in {"check", "reset_healthy", "count"} => read = count
    /\ unrecorded = TRUE \/ unrecorded = FALSE
    /\ watch = "reset_healthy" => unrecorded = TRUE
    /\ unrecorded = FALSE =>
           /\ count <= streak
           /\ watch = "count" => read < streak \/ streak = MaxFailures
           /\ watch = "close" => streak = MaxFailures
    /\ DOMAIN executed = Requester

\* No run has counted a failure at the start.
THEOREM WatchdogStarts == WdInit => WdInv
  BY WatchdogAssumption DEF WdInit, WdInv

\* Every step of a run, its death, and what happens outside keep the count honest.
THEOREM WatchdogSteps == WdInv /\ [WdNext]_wdVars => WdInv'
<1> SUFFICES ASSUME WdInv, [WdNext]_wdVars PROVE WdInv'
  OBVIOUS
<1> USE WatchdogAssumption DEF WdInv, Outcome
<1>1. CASE HostChanges \/ KeyReplaced
  BY <1>1 DEF HostChanges, KeyReplaced
<1>2. CASE lambda_handler
  <2>1. CASE get_failure_count
    BY <2>1 DEF get_failure_count
  <2>2. CASE CheckHealth
    BY <2>2 DEF CheckHealth
  <2>3. CASE ResetHealthy
    <3>1. CASE watch' = "off" /\ count' = 0 /\ unrecorded' = FALSE
      BY <2>3, <3>1 DEF ResetHealthy
    <3>2. CASE watch' = "count" /\ UNCHANGED <<count, unrecorded>>
      BY <2>3, <3>2 DEF ResetHealthy
    <3> QED
      BY <2>3, <3>1, <3>2 DEF ResetHealthy
  <2>4. CASE set_failure_count
    <3>1. read = count
      BY <2>4 DEF set_failure_count
    <3> QED
      BY <2>4, <3>1 DEF set_failure_count
  <2>5. CASE emergency_close_all
    BY <2>5 DEF emergency_close_all
  <2>6. CASE send_telegram_alert \/ reset_failure_count
    BY <2>6 DEF send_telegram_alert, reset_failure_count
  <2> QED
    BY <1>2, <2>1, <2>2, <2>3, <2>4, <2>5, <2>6 DEF lambda_handler
<1>3. CASE RunDies
  BY <1>3 DEF RunDies
<1>4. CASE kill \/ handle_killswitch
  BY <1>4 DEF kill, handle_killswitch
<1>5. CASE UNCHANGED wdVars
  BY <1>5 DEF wdVars
<1> QED
  BY <1>1, <1>2, <1>3, <1>4, <1>5 DEF WdNext

(* The request of the watchdog is carried out only after MaxFailures failed checks in
   a row, or when a healthy answer since the count was last 0 could not be recorded:
   for every limit and however many runs die half way. *)
THEOREM WatchdogWaits == WdSpec => KillIsEarned
<1>1. WdInv /\ [WdNext]_wdVars =>
          [~executed["watchdog"] /\ executed'["watchdog"] =>
               streak = MaxFailures \/ unrecorded]_wdVars
  <2> SUFFICES ASSUME WdInv, WdNext, ~executed["watchdog"], executed'["watchdog"]
               PROVE  streak = MaxFailures \/ unrecorded
    OBVIOUS
  <2>1. CASE emergency_close_all
    BY <2>1 DEF emergency_close_all, WdInv
  <2>2. CASE get_failure_count
    BY <2>2 DEF get_failure_count, Outcome, WdInv, Requester
  <2>3. CASE kill \/ handle_killswitch
    BY <2>3 DEF kill, handle_killswitch, Outcome, WdInv, Requester
  <2>4. CASE executed' = executed
    BY <2>4
  <2> QED
    BY <2>1, <2>2, <2>3, <2>4
       DEF WdNext, HostChanges, KeyReplaced, lambda_handler, CheckHealth, ResetHealthy,
           set_failure_count, send_telegram_alert, reset_failure_count, RunDies
<1> QED
  BY WatchdogStarts, WatchdogSteps, <1>1, PTL DEF WdSpec, KillIsEarned

\* A watchdog about to report success got an answer of a request that was carried
\* out, or refused because of its key, and the key never becomes valid again.
SuccessInv ==
    /\ DOMAIN executed = Requester /\ DOMAIN told = Requester
    /\ watch = "alert" => executed["watchdog"] \/ ~keyValid
    /\ SuccessIsTrue

(* Whoever is told that the positions are closed can rely on the request having been
   carried out, but for the users of the bot (whose callback posts to a path nobody
   serves) and of a watchdog with a key that was replaced. *)
THEOREM ReportsAreTrue == WdSpec => []SuccessIsTrue
<1>1. WdInit => SuccessInv
  BY DEF WdInit, SuccessInv, SuccessIsTrue
<1>2. SuccessInv /\ [WdNext]_wdVars => SuccessInv'
  <2> SUFFICES ASSUME SuccessInv, [WdNext]_wdVars PROVE SuccessInv'
    OBVIOUS
  <2> USE DEF SuccessInv, SuccessIsTrue, Outcome, Requester
  <2>1. CASE HostChanges \/ KeyReplaced \/ RunDies \/ UNCHANGED wdVars
    BY <2>1 DEF HostChanges, KeyReplaced, RunDies, wdVars
  <2>2. CASE get_failure_count
    BY <2>2 DEF get_failure_count
  <2>3. CASE CheckHealth \/ ResetHealthy \/ set_failure_count \/ reset_failure_count
    BY <2>3 DEF CheckHealth, ResetHealthy, set_failure_count, reset_failure_count
  <2>4. CASE emergency_close_all
    BY <2>4 DEF emergency_close_all
  <2>5. CASE send_telegram_alert
    BY <2>5 DEF send_telegram_alert
  <2>6. CASE kill \/ handle_killswitch
    BY <2>6 DEF kill, handle_killswitch
  <2> QED
    BY <2>1, <2>2, <2>3, <2>4, <2>5, <2>6 DEF WdNext, lambda_handler
<1> QED
  BY <1>1, <1>2, PTL DEF WdSpec, SuccessInv

-----------------------------------------------------------------------------
(* markets.yaml says what was last asked for of every market that no stale, torn or
   lost copy may have set back, and no command of such a copy was dropped for. *)

\* A document agrees with the commands on all markets but those in `except` and those
\* whose last command was dropped.
Agrees(data, except) ==
    \A m \in Market \ (except \cup dropped) : m \in DOMAIN data /\ data[m] = asked[m]

MkTyped ==
    /\ step \in [Process -> {"out", "loaded", "save"}]
    /\ DOMAIN copy = Process
    /\ behind \in [Process -> SUBSET Market] /\ mangled \in SUBSET Market
    /\ DOMAIN asked = Market
    /\ DOMAIN connected = Worker
    /\ DOMAIN file \subseteq Market
    /\ \A p \in Process : DOMAIN copy[p] \subseteq Market

\* The copies in memory agree with the commands on what their process is not behind
\* on, and so does the file once nobody is writing it.
MkInv ==
    /\ MkTyped
    /\ \A p \in Process : step[p] # "out" => Agrees(copy[p], behind[p])
    /\ ~Truncated => Agrees(file, mangled)

\* Nobody has asked for anything and the file says that all markets are off.
THEOREM MarketsStart == MkInit => MkInv
  BY DEF MkInit, MkInv, MkTyped, Agrees, Truncated, AllOff, NoMarkets, Process

\* Loading takes over what the file has, and stands behind on what it may not have.
LEMMA LoadAgrees ==
    ASSUME MkInv, NEW p \in Process, _load(p), UNCHANGED <<file, asked, mangled, dropped>>,
           DOMAIN connected' = Worker
    PROVE  MkInv'
<1>1. /\ step' = [step EXCEPT ![p] = "loaded"] /\ copy' = [copy EXCEPT ![p] = file]
      /\ behind' = [behind EXCEPT ![p] = IF Truncated THEN Market ELSE mangled]
      /\ step[p] = "out"
  BY DEF _load
<1>2. MkTyped'
  BY <1>1 DEF MkInv, MkTyped
<1>3. Truncated' <=> Truncated
  BY <1>1 DEF Truncated, MkInv, MkTyped
<1>4. ASSUME NEW q \in Process, step'[q] # "out" PROVE Agrees(copy[q], behind[q])'
  <2>1. CASE q = p
    BY <1>1, <2>1 DEF Agrees, MkInv, MkTyped
  <2>2. CASE q # p
    BY <1>1, <1>4, <2>2 DEF Agrees, MkInv, MkTyped
  <2> QED
    BY <2>1, <2>2
<1>5. ~Truncated' => Agrees(file, mangled)'
  BY <1>3 DEF Agrees, MkInv
<1> QED
  BY <1>2, <1>4, <1>5 DEF MkInv

\* A command leaves all other processes behind on its market, and the file empty.
LEMMA EditAgrees ==
    ASSUME MkInv, NEW p \in Process, NEW m \in Market, NEW st,
           Edit(p, m, With(copy[p], m, st), st)
    PROVE  MkInv'
<1> DEFINE data == With(copy[p], m, st)
<1>1. /\ step' = [step EXCEPT ![p] = "save"] /\ copy' = [copy EXCEPT ![p] = data]
      /\ behind' = [q \in Process |-> IF q = p THEN behind[p] \ {m} ELSE behind[q] \cup {m}]
      /\ file' = NoMarkets /\ asked' = [asked EXCEPT ![m] = st]
      /\ dropped' = dropped \ {m} /\ UNCHANGED <<mangled, connected>> /\ step[p] = "loaded"
  BY DEF Edit
<1>2. /\ DOMAIN data = DOMAIN copy[p] \cup {m}
      /\ \A n \in DOMAIN data : data[n] = IF n = m THEN st ELSE copy[p][n]
  BY DEF With
<1> HIDE DEF data
<1>3. MkTyped'
  <2>1. DOMAIN file' \subseteq Market
    BY <1>1 DEF NoMarkets
  <2>2. behind' \in [Process -> SUBSET Market]
    BY <1>1 DEF MkInv, MkTyped
  <2>3. \A q \in Process : DOMAIN copy'[q] \subseteq Market
    BY <1>1, <1>2 DEF MkInv, MkTyped
  <2> QED
    BY <1>1, <2>1, <2>2, <2>3 DEF MkInv, MkTyped
<1>4. Truncated'
  BY <1>1 DEF Truncated, MkInv, MkTyped
<1>5. ASSUME NEW q \in Process, step'[q] # "out" PROVE Agrees(copy[q], behind[q])'
  <2>1. CASE q = p
    <3>1. Agrees(copy[p], behind[p])
      BY <1>1 DEF MkInv
    <3>2. copy'[q] = data /\ behind'[q] = behind[p] \ {m}
      BY <1>1, <2>1 DEF MkInv, MkTyped
    <3>3. ASSUME NEW n \in Market, n \notin (behind[p] \ {m}) \cup dropped'
          PROVE  n \in DOMAIN data /\ data[n] = asked'[n]
      BY <1>1, <1>2, <3>1, <3>3 DEF Agrees, MkInv, MkTyped
    <3> QED
      BY <3>2, <3>3 DEF Agrees
  <2>2. CASE q # p
    <3>1. Agrees(copy[q], behind[q])
      BY <1>1, <1>5, <2>2 DEF MkInv, MkTyped
    <3>2. copy'[q] = copy[q] /\ behind'[q] = behind[q] \cup {m}
      BY <1>1, <2>2 DEF MkInv, MkTyped
    <3>3. ASSUME NEW n \in Market, n \notin (behind[q] \cup {m}) \cup dropped'
          PROVE  n \in DOMAIN copy[q] /\ copy[q][n] = asked'[n]
      BY <1>1, <3>1, <3>3 DEF Agrees, MkInv, MkTyped
    <3> QED
      BY <3>2, <3>3 DEF Agrees
  <2> QED
    BY <2>1, <2>2
<1> QED
  BY <1>3, <1>4, <1>5 DEF MkInv

\* A disable that finds no such market in its copy: the copy must be one that stood
\* behind on the market, so that nobody is held to the command.
LEMMA DropAgrees ==
    ASSUME MkInv, NEW p \in Process, NEW m \in Market, m \notin DOMAIN copy[p], Drop(p, m)
    PROVE  MkInv'
<1>1. /\ UNCHANGED <<file, copy, step, connected, behind, mangled>>
      /\ asked' = [asked EXCEPT ![m] = "off"] /\ step[p] = "loaded"
      /\ dropped' = IF m \in behind[p] THEN dropped \cup {m} ELSE dropped
  BY DEF Drop
<1>2. dropped' = dropped \cup {m}
  <2>1. Agrees(copy[p], behind[p])
    BY <1>1 DEF MkInv
  <2>2. m \in behind[p] \/ m \in dropped
    BY <2>1 DEF Agrees
  <2> QED
    BY <1>1, <2>2
<1>3. MkTyped'
  BY <1>1 DEF MkInv, MkTyped
<1>4. ASSUME NEW data, NEW except, Agrees(data, except)
      PROVE  \A n \in Market \ (except \cup dropped') : n \in DOMAIN data /\ data[n] = asked'[n]
  BY <1>1, <1>2, <1>4 DEF Agrees, MkInv, MkTyped
<1>5. \A q \in Process : step'[q] # "out" => Agrees(copy[q], behind[q])'
  BY <1>1, <1>4 DEF Agrees, MkInv
<1>6. ~Truncated' => Agrees(file, mangled)'
  BY <1>1, <1>4 DEF Agrees, MkInv, Truncated
<1> QED
  BY <1>3, <1>5, <1>6 DEF MkInv

\* A save brings to the file what its process has, and what it is behind on.
LEMMA SaveAgrees ==
    ASSUME MkInv, NEW p \in Process, _save(p)
    PROVE  MkInv'
<1>1. /\ step[p] = "save" /\ file' = copy[p] /\ mangled' = behind[p]
      /\ step' = [step EXCEPT ![p] = "loaded"]
      /\ UNCHANGED <<copy, behind, asked, connected, dropped>>
  BY DEF _save
<1>2. Agrees(copy[p], behind[p])
  BY <1>1 DEF MkInv
<1>3. MkTyped'
  BY <1>1 DEF MkInv, MkTyped
<1>4. \A q \in Process : step'[q] # "out" => Agrees(copy[q], behind[q])'
  BY <1>1 DEF Agrees, MkInv, MkTyped
<1>5. Agrees(file, mangled)'
  BY <1>1, <1>2 DEF Agrees
<1> QED
  BY <1>3, <1>4, <1>5 DEF MkInv

\* A process that ends, or dies, takes its copy with it; one that dies while it
\* saves leaves all markets to be restored.
LEMMA LeavingAgrees ==
    ASSUME MkInv, NEW p \in Process, step[p] # "out",
           step' = [step EXCEPT ![p] = "out"], copy' = [copy EXCEPT ![p] = NoMarkets],
           behind' = [behind EXCEPT ![p] = {}],
           mangled' = IF step[p] = "save" THEN Market ELSE mangled,
           UNCHANGED <<file, asked, dropped>>, DOMAIN connected' = Worker
    PROVE  MkInv'
<1>1. MkTyped'
  BY DEF MkInv, MkTyped, NoMarkets
<1>2. ASSUME NEW q \in Process, step'[q] # "out" PROVE Agrees(copy[q], behind[q])'
  BY <1>2 DEF Agrees, MkInv, MkTyped
<1>3. ~Truncated' => Agrees(file, mangled)'
  <2>1. CASE step[p] = "save"
    BY <2>1 DEF Agrees
  <2>2. CASE step[p] # "save"
    <3>1. Truncated => Truncated'
      BY <2>2 DEF Truncated, MkInv, MkTyped
    <3> QED
      BY <2>2, <3>1 DEF Agrees, MkInv
  <2> QED
    BY <2>1, <2>2
<1> QED
  BY <1>1, <1>2, <1>3 DEF MkInv

\* Every command, start, end and death of a process keeps copies and file in agreement.
THEOREM MarketsStep == MkInv /\ [MkNext]_mkVars => MkInv'
<1> SUFFICES ASSUME MkInv, [MkNext]_mkVars PROVE MkInv'
  OBVIOUS
<1>0. Worker \subseteq Process /\ Command \subseteq Process /\ Worker \cap Command = {}
  BY MarketsAssumption DEF Process
<1>1. ASSUME NEW w \in Worker, lifespan(w) PROVE MkInv'
  <2>1. DOMAIN connected' = Worker
    BY <1>1 DEF lifespan, MkInv, MkTyped
  <2> QED
    BY <1>0, <1>1, <2>1, LoadAgrees DEF lifespan
<1>2. ASSUME NEW c \in Command, CommandBegins(c) PROVE MkInv'
  <2>1. DOMAIN connected' = Worker
    BY <1>2 DEF CommandBegins, MkInv, MkTyped
  <2> QED
    BY <1>0, <1>2, <2>1, LoadAgrees DEF CommandBegins
<1>3. ASSUME NEW p \in Process, NEW m \in Market, NEW mode, enable(p, m, mode) \/ disable(p, m)
      PROVE  MkInv'
  <2>1. CASE enable(p, m, mode)
    BY <2>1, EditAgrees DEF enable
  <2>2. CASE disable(p, m)
    BY <2>2, EditAgrees, DropAgrees DEF disable
  <2> QED
    BY <1>3, <2>1, <2>2
<1>4. ASSUME NEW p \in Process, _save(p) PROVE MkInv'
  BY <1>4, SaveAgrees
<1>5. ASSUME NEW c \in Command, CommandEnds(c) PROVE MkInv'
  <2>1. /\ step[c] = "loaded" /\ UNCHANGED <<file, asked, mangled, connected, dropped>>
        /\ step' = [step EXCEPT ![c] = "out"] /\ copy' = [copy EXCEPT ![c] = NoMarkets]
        /\ behind' = [behind EXCEPT ![c] = {}]
    BY <1>5 DEF CommandEnds
  <2>2. DOMAIN connected' = Worker
    BY <2>1 DEF MkInv, MkTyped
  <2> QED
    BY <1>0, <2>1, <2>2, LeavingAgrees
<1>6. ASSUME NEW p \in Process, Dies(p) PROVE MkInv'
  <2>1. DOMAIN connected' = Worker
    BY <1>6 DEF Dies
  <2> QED
    BY <1>6, <2>1, LeavingAgrees DEF Dies
<1>7. ASSUME NEW c \in Command, StoreKeys(c) PROVE MkInv'
  BY <1>7 DEF StoreKeys, MkInv, MkTyped, Agrees, Truncated
<1>8. CASE UNCHANGED mkVars
  BY <1>8 DEF mkVars, MkInv, MkTyped, Agrees, Truncated
<1> QED
  BY <1>0, <1>1, <1>2, <1>3, <1>4, <1>5, <1>6, <1>7, <1>8
     DEF MkNext, enable_market, disable_market

(* A command stands until a process overwrites it that had loaded the file before,
   or while it was truncated, or that dies while it saves; and only such a process
   drops one.  For any number of workers, command lines and markets. *)
THEOREM CommandStands == MkSpec => []CommandsSurvive
<1>1. MkInv => CommandsSurvive
  BY DEF MkInv, Agrees, CommandsSurvive
<1> QED
  BY MarketsStart, MarketsStep, <1>1, PTL DEF MkSpec

(* A worker that starts makes no connector for a market whose last command was to
   disable it, unless a late or torn copy has set it back or dropped the command. *)
THEOREM DisabledIsNotConnected == MkSpec => DisabledStaysOut
<1> DEFINE Out == \A w \in Worker : connected'[w] # connected[w] =>
                      \A m \in connected'[w] : asked[m] # "off" \/ m \in behind'[w] \cup dropped
<1>1. MkInv /\ [MkNext]_mkVars => [Out]_mkVars
  <2> SUFFICES ASSUME MkInv, MkNext, NEW w \in Worker, connected'[w] # connected[w],
                      NEW m \in connected'[w]
               PROVE  asked[m] # "off" \/ m \in behind'[w] \cup dropped
    OBVIOUS
  <2>0. w \in Process
    BY DEF Process
  <2>1. ASSUME NEW p \in Process, Dies(p) PROVE FALSE
    BY <2>1 DEF Dies
  <2>2. PICK v \in Worker : lifespan(v)
    BY <2>1 DEF MkNext, enable_market, disable_market, enable, disable, Edit, Drop, CommandBegins,
                CommandEnds, StoreKeys, _save
  <2>3. v = w /\ connected'[w] = create_exchanges(file)
    BY <2>2 DEF lifespan, MkInv, MkTyped
  <2>4. behind'[w] = IF Truncated THEN Market ELSE mangled
    BY <2>0, <2>2, <2>3 DEF lifespan, _load, MkInv, MkTyped
  <2>5. m \in DOMAIN file /\ file[m] # "off" /\ m \in Market
    BY <2>3 DEF create_exchanges, get_active_markets, MkInv, MkTyped
  <2> QED
    BY <2>4, <2>5 DEF MkInv, Agrees
<1> QED
  BY MarketsStart, MarketsStep, <1>1, PTL DEF MkSpec, DisabledStaysOut

-----------------------------------------------------------------------------
(* What the bridge shows the agent is causal: effects are read before their causes,
   and the engines only ever replace a cached value by a newer one. *)

Revision == [Section -> Nat]

\* What the engines keep true of the cache ...
CacheCausal ==
    /\ cached \in Revision
    /\ cached.signal_reg <= cached.regime
    /\ cached.signal_ind <= cached.indicator
    /\ cached.regime <= cached.indicator

\* ... and the bridge of what it has read: what was read first is no newer than what
\* is read next, or than what is cached if that was not read yet.
ReadCausal ==
    /\ round \in Nat
    /\ state \in Revision
    /\ round = 1 => /\ state.signal_reg <= cached.regime
                    /\ state.signal_ind <= cached.indicator
    /\ round = 2 => /\ state.signal_reg <= state.regime
                    /\ state.signal_ind <= cached.indicator
                    /\ state.regime <= cached.indicator
    /\ round = 3 => /\ state.signal_reg <= state.regime
                    /\ state.signal_ind <= state.indicator
                    /\ state.regime <= state.indicator

AdInv == CacheCausal /\ ReadCausal

\* The sections in the order of the three reads.
LEMMA ThreeReads ==
    /\ Len(Sections) = 3
    /\ \A s \in Section :
        /\ s \in Sections[1] <=> s \in {"signal_ind", "signal_reg"}
        /\ s \in Sections[2] <=> s = "regime"
        /\ s \in Sections[3] <=> s = "indicator"
  BY DEF Sections, Section

\* Nothing is cached, and nothing read, at the start.
THEOREM AdviceStarts == AdInit => AdInv
  BY DEF AdInit, AdInv, CacheCausal, ReadCausal, NothingRead, Revision, Section

\* An engine that writes keeps the cache causal and takes nothing back.
LEMMA EnginesWrite ==
    ASSUME AdInv, IndicatorComputed \/ RegimeDetected \/ SignalGenerated
    PROVE  AdInv'
<1> USE DEF AdInv, CacheCausal, ReadCausal, Revision, Section
<1>1. UNCHANGED <<round, state>>
  BY DEF IndicatorComputed, RegimeDetected, SignalGenerated
<1>2. CASE IndicatorComputed
  BY <1>1, <1>2 DEF IndicatorComputed
<1>3. CASE RegimeDetected
  <2>1. PICK i \in cached.regime .. cached.indicator : cached' = [cached EXCEPT !.regime = i]
    BY <1>3 DEF RegimeDetected
  <2> QED
    BY <1>1, <2>1
<1>4. CASE SignalGenerated
  <2>1. PICK i \in cached.signal_ind .. cached.indicator, r \in cached.signal_reg .. cached.regime :
            cached' = [cached EXCEPT !.signal_ind = i, !.signal_reg = r]
    BY <1>4 DEF SignalGenerated
  <2>2. i \in Nat /\ i <= cached.indicator /\ r \in Nat /\ r <= cached.regime
    BY <2>1
  <2>3. cached' \in Revision
    BY <2>1, <2>2
  <2>4. /\ cached'.signal_ind = i /\ cached'.signal_reg = r
        /\ cached'.regime = cached.regime /\ cached'.indicator = cached.indicator
    BY <2>1
  <2>5. CacheCausal'
    BY <2>2, <2>3, <2>4
  <2>6. ReadCausal'
    BY <1>1, <2>4
  <2> QED
    BY <2>5, <2>6
<1> QED
  BY <1>2, <1>3, <1>4

\* Each read takes over what is cached and keeps what was read before.
LEMMA BridgeReads ==
    ASSUME AdInv, _collect_hydra_state
    PROVE  AdInv'
<1>1. /\ round \in {0, 1, 2} /\ round' = round + 1 /\ cached' = cached
      /\ state' = [s \in Section |-> IF s \in Sections[round + 1] THEN cached[s]
                                     ELSE IF round = 0 THEN 0 ELSE state[s]]
  BY ThreeReads DEF _collect_hydra_state
<1>2. CacheCausal'
  BY <1>1 DEF AdInv, CacheCausal
<1>3. state' \in Revision
  BY <1>1 DEF AdInv, CacheCausal, ReadCausal, Revision
<1>4. CASE round = 0
  <2>1. state'.signal_reg = cached.signal_reg /\ state'.signal_ind = cached.signal_ind
    BY <1>1, <1>4, ThreeReads DEF Section
  <2>2. round' = 1
    BY <1>1, <1>4
  <2> QED
    BY <1>1, <1>2, <1>3, <2>1, <2>2 DEF AdInv, CacheCausal, ReadCausal
<1>5. CASE round = 1
  <2>1. /\ state'.signal_reg = state.signal_reg /\ state'.signal_ind = state.signal_ind
        /\ state'.regime = cached.regime
    BY <1>1, <1>5, ThreeReads DEF Section
  <2>2. round' = 2
    BY <1>1, <1>5
  <2> QED
    BY <1>1, <1>2, <1>3, <1>5, <2>1, <2>2 DEF AdInv, CacheCausal, ReadCausal
<1>6. CASE round = 2
  <2>1. /\ state'.signal_reg = state.signal_reg /\ state'.signal_ind = state.signal_ind
        /\ state'.regime = state.regime /\ state'.indicator = cached.indicator
    BY <1>1, <1>6, ThreeReads DEF Section
  <2>2. round' = 3
    BY <1>1, <1>6
  <2> QED
    BY <1>1, <1>2, <1>3, <1>6, <2>1, <2>2 DEF AdInv, CacheCausal, ReadCausal
<1> QED
  BY <1>1, <1>4, <1>5, <1>6

\* Engines, bridge, the death of a round and the passing of time keep both true.
THEOREM AdviceSteps == AdInv /\ [AdNext]_adVars => AdInv'
<1> SUFFICES ASSUME AdInv, [AdNext]_adVars PROVE AdInv'
  OBVIOUS
<1>1. CASE IndicatorComputed \/ RegimeDetected \/ SignalGenerated
  BY <1>1, EnginesWrite
<1>2. CASE _collect_hydra_state
  BY <1>2, BridgeReads
<1>3. NothingRead \in Revision
  BY DEF NothingRead, Revision
<1>4. ASSUME cached' = cached, state' = NothingRead, round' = 0 \/ round' = 4 PROVE AdInv'
  BY <1>3, <1>4 DEF AdInv, CacheCausal, ReadCausal
<1>5. CASE _call_openclaw \/ CallFails \/ StoreRest \/ RoundDies
  <2>1. cached' = cached /\ state' = NothingRead /\ (round' = 0 \/ round' = 4)
    BY <1>5, ThreeReads DEF _call_openclaw, CallFails, StoreRest, RoundDies, Stop, Collected
  <2> QED
    BY <1>4, <2>1
<1>6. CASE SetResult \/ ExpireResult
  <2>1. cached' = cached /\ state' = state /\ round' \in {5, 6}
    <3>1. round = Len(Sections) + 1 \/ round = Len(Sections) + 2
      BY <1>6 DEF SetResult, ExpireResult, Storing
    <3>2. round' = round + 1 /\ cached' = cached /\ state' = state
      BY <1>6 DEF SetResult, ExpireResult
    <3> QED
      BY <3>1, <3>2, ThreeReads
  <2> QED
    BY <2>1 DEF AdInv, CacheCausal, ReadCausal
<1>7. CASE Hour \/ UNCHANGED adVars
  BY <1>7 DEF Hour, adVars, AdInv, CacheCausal, ReadCausal
<1> QED
  BY <1>1, <1>2, <1>5, <1>6, <1>7 DEF AdNext, run_once, _store_results

(* Once _collect_hydra_state has read everything, no signal rests on a regime or an
   indicator newer than the ones beside it, and no regime on a newer indicator,
   whatever the engines wrote in between and however often. *)
THEOREM AgentSeesCauses == AdSpec => []SnapshotIsCausal
<1>1. AdInv => SnapshotIsCausal
  BY ThreeReads DEF AdInv, ReadCausal, SnapshotIsCausal, Collected
<1> QED
  BY AdviceStarts, AdviceSteps, <1>1, PTL DEF AdSpec

\* An analysis without a TTL is one whose EXPIRE is still to come or never came.
FreshInv ==
    /\ Ttl \in Nat /\ round \in Nat
    /\ analysis = NoAnalysis \/ analysis \in [age : Nat, ttl : BOOLEAN]
    /\ analysis # NoAnalysis /\ ~analysis.ttl => severed \/ Storing(2)
    /\ AnalysisFresh

(* Hours after it was stored an analysis is gone, unless the round that stored it
   ended between the two commands of _store_results. *)
THEOREM AnalysisExpires == AdSpec => []AnalysisFresh
<1>1. AdInit => FreshInv
  BY AdviceAssumption DEF AdInit, FreshInv, AnalysisFresh, NoAnalysis
<1>2. FreshInv /\ [AdNext]_adVars => FreshInv'
  <2> SUFFICES ASSUME FreshInv, [AdNext]_adVars PROVE FreshInv'
    OBVIOUS
  <2>0. /\ NoAnalysis.age = -1 /\ NoAnalysis.ttl = FALSE
        /\ \A a \in Nat, t \in BOOLEAN :
              /\ Stored(a, t) \in [age : Nat, ttl : BOOLEAN]
              /\ Stored(a, t).age = a /\ Stored(a, t).ttl = t
    BY DEF NoAnalysis, Stored
  <2>1. CASE IndicatorComputed \/ RegimeDetected \/ SignalGenerated \/ UNCHANGED adVars
    BY <2>1 DEF FreshInv, AnalysisFresh, Storing, IndicatorComputed, RegimeDetected,
                SignalGenerated, adVars
  <2>2. CASE _collect_hydra_state \/ _call_openclaw \/ CallFails \/ StoreRest \/ RoundDies
    <3>1. analysis' = analysis
      BY <2>2 DEF _collect_hydra_state, _call_openclaw, CallFails, StoreRest, RoundDies
    <3>2. round' = round + 1 \/ round' = 0
      BY <2>2 DEF _collect_hydra_state, _call_openclaw, CallFails, StoreRest, RoundDies, Stop
    <3>3. CASE RoundDies
      <4>1. severed' = (severed \/ Storing(2))
        BY <3>3 DEF RoundDies
      <4>2. severed \/ Storing(2) => severed'
        BY <4>1, Zenon
      <4>3. round' \in Nat
        BY <3>2 DEF FreshInv
      <4> QED
        BY <3>1, <4>2, <4>3 DEF FreshInv, AnalysisFresh
    <3>4. CASE _collect_hydra_state \/ _call_openclaw \/ CallFails \/ StoreRest
      <4>1. round # 5 /\ severed' = severed
        BY <3>4, ThreeReads DEF _collect_hydra_state, _call_openclaw, CallFails, StoreRest,
                                Collected, Storing
      <4>2. ~Storing(2)
        BY <4>1, ThreeReads DEF Storing
      <4> QED
        BY <3>1, <3>2, <4>1, <4>2 DEF FreshInv, AnalysisFresh
    <3> QED
      BY <2>2, <3>3, <3>4
  <2>3. CASE SetResult
    <3>1. Storing(2)' /\ round' \in Nat /\ analysis' = Stored(0, FALSE)
      <4>1. round = 4 /\ round' = round + 1 /\ analysis' = Stored(0, FALSE)
        BY <2>3, ThreeReads DEF SetResult, Storing
      <4> QED
        BY <4>1, ThreeReads DEF Storing
    <3> QED
      BY <2>0, <3>1 DEF FreshInv, AnalysisFresh
  <2>4. CASE ExpireResult
    <3>1. round' = round + 1 /\ (analysis' = NoAnalysis \/ analysis' = Stored(0, TRUE))
      BY <2>4 DEF ExpireResult
    <3>2. analysis' = NoAnalysis \/ analysis' \in [age : Nat, ttl : BOOLEAN]
      BY <2>0, <3>1
    <3>3. (analysis' # NoAnalysis => analysis'.ttl) /\ analysis'.age \in {-1, 0}
      <4>1. Stored(0, TRUE).age = 0 /\ Stored(0, TRUE).ttl
        BY DEF Stored
      <4> QED
        BY <2>0, <3>1, <4>1
    <3>4. round' \in Nat /\ Ttl \in Nat
      BY <3>1 DEF FreshInv
    <3>5. ~(analysis'.age > Ttl)
      BY <3>3, <3>4
    <3> QED
      BY <3>2, <3>3, <3>4, <3>5 DEF FreshInv, AnalysisFresh
  <2>5. CASE Hour
    <3>1. /\ analysis # NoAnalysis /\ round' = round /\ severed' = severed
          /\ analysis' = IF analysis.ttl /\ analysis.age = Ttl THEN NoAnalysis
                         ELSE IF analysis.age > Ttl THEN analysis
                         ELSE Stored(analysis.age + 1, analysis.ttl)
      BY <2>5 DEF Hour
    <3>2. analysis.age \in Nat /\ analysis.ttl \in BOOLEAN
      BY <3>1 DEF FreshInv
    <3>3. FreshInv' <=> /\ analysis' = NoAnalysis \/ analysis' \in [age : Nat, ttl : BOOLEAN]
                        /\ analysis' # NoAnalysis /\ ~analysis'.ttl => severed \/ Storing(2)
                        /\ analysis'.age > Ttl => severed \/ Storing(2)
      BY <3>1 DEF FreshInv, AnalysisFresh, Storing
    <3>4. Ttl \in Nat
      BY DEF FreshInv
    <3>5. CASE analysis' = NoAnalysis
      BY <2>0, <3>5, <3>3, <3>4
    <3>6. CASE analysis' = analysis
      BY <3>6, <3>3 DEF FreshInv, AnalysisFresh
    <3>7. CASE analysis' = Stored(analysis.age + 1, analysis.ttl) /\ analysis.age <= Ttl
                /\ ~(analysis.ttl /\ analysis.age = Ttl)
      <4>1. /\ analysis' \in [age : Nat, ttl : BOOLEAN]
            /\ analysis'.age = analysis.age + 1 /\ analysis'.ttl = analysis.ttl
        BY <2>0, <3>2, <3>7
      <4>2. ~analysis.ttl => severed \/ Storing(2)
        BY <3>1 DEF FreshInv
      <4> QED
        BY <3>2, <3>7, <3>3, <3>4, <4>1, <4>2
    <3> QED
      BY <3>1, <3>2, <3>5, <3>6, <3>7 DEF FreshInv
  <2> QED
    BY <2>1, <2>2, <2>3, <2>4, <2>5 DEF AdNext, run_once, _store_results
<1> QED
  BY <1>1, <1>2, PTL DEF AdSpec, FreshInv

-----------------------------------------------------------------------------
(* PnlTracker.get_summary reads three keys of the books of pnl_tracker.py while
   others record: each is the books' value after some entry of the log, and these
   entries are in the order of the reads. *)

Entry == [kind : {"trade", "reset"}, pnl : Int, day : 0 .. LastDay]
Sums == [total : Int, daily : Int, count : Int]

\* An entry keeps the books numbers.
LEMMA PostedTyped ==
    ASSUME NEW s \in Sums, NEW e \in Entry, NEW d
    PROVE  Posted(s, e, d) \in Sums
<1>1. /\ s.total \in Int /\ s.daily \in Int /\ s.count \in Int /\ e.pnl \in Int
      /\ s = [total |-> s.total, daily |-> s.daily, count |-> s.count]
  BY DEF Sums, Entry
<1>2. CASE e.kind = "reset"
  <2>1. Posted(s, e, d) = [total |-> s.total, count |-> s.count,
                           daily |-> IF e.day = d THEN 0 ELSE s.daily]
    BY <1>1, <1>2 DEF Posted
  <2> QED
    BY <1>1, <2>1 DEF Sums
<1>3. CASE e.kind # "reset"
  BY <1>1, <1>3 DEF Posted, Sums
<1> QED
  BY <1>2, <1>3

\* The books satisfy their recursive definition.
LEMMA BooksAreKept ==
    ASSUME NEW entries \in Seq(Entry), NEW d
    PROVE  /\ Books(entries, d) \in [0 .. Len(entries) -> Sums]
           /\ Books(entries, d)[0] = EmptyBooks
           /\ \A n \in 1 .. Len(entries) :
                  Books(entries, d)[n] = Posted(Books(entries, d)[n - 1], entries[n], d)
<1> DEFINE last == Len(entries)
           posting == [n \in 1 .. last |-> [s \in Sums |-> Posted(s, entries[n], d)]]
           eqn(b) == [n \in 0 .. last |->
                         IF n = 0 THEN EmptyBooks ELSE Posted(b[n - 1], entries[n], d)]
<1>1. last \in Nat /\ EmptyBooks \in Sums
  BY DEF EmptyBooks, Sums
<1>2. ASSUME NEW n \in 1 .. last, NEW s \in Sums PROVE Posted(s, entries[n], d) \in Sums
  BY <1>2, PostedTyped
<1>3. posting \in [1 .. last -> [Sums -> Sums]]
  BY <1>2
<1>4. \A n \in 1 .. last : \A s \in Sums : posting[n][s] = Posted(s, entries[n], d)
  OBVIOUS
<1> HIDE DEF posting, last
<1>5. PICK f : Recursion(f, Sums, EmptyBooks, last, posting)
  BY <1>1, <1>3, RecursionExists
<1> USE <1>5 DEF Recursion
<1>6. f = eqn(f)
  <2>1. \A n \in 1 .. last : f[n - 1] \in Sums
    BY <1>1, <1>5
  <2>2. \A n \in 0 .. last : n # 0 => n \in 1 .. last
    BY <1>1
  <2>3. \A n \in 0 .. last :
            f[n] = IF n = 0 THEN EmptyBooks ELSE Posted(f[n - 1], entries[n], d)
    BY <1>4, <1>5, <2>1, <2>2
  <2> QED
    BY <1>5, <2>3
<1>7. Books(entries, d) = CHOOSE b : b = eqn(b)
  BY DEF Books, last
<1> DEFINE B == Books(entries, d)
<1>8. B = eqn(B)
  <2> HIDE DEF eqn
  <2> QED
    BY <1>6, <1>7, Zenon
<1>9. B = f
  <2> DEFINE T == {n \in 0 .. last : B[n] = f[n]}
  <2>1. 0 \in T
    BY <1>1, <1>5, <1>8
  <2>2. ASSUME NEW n \in 1 .. last, n - 1 \in T PROVE n \in T
    <3>1. n \in 0 .. last /\ n # 0 /\ B[n - 1] = f[n - 1]
      BY <1>1, <2>2
    <3>2. B[n] = Posted(B[n - 1], entries[n], d) /\ f[n] = Posted(f[n - 1], entries[n], d)
      BY <1>6, <1>8, <3>1
    <3> QED
      BY <3>1, <3>2
  <2> HIDE DEF T
  <2>3. 0 .. last \subseteq T
    BY <1>1, <2>1, <2>2, EveryIndex
  <2>4. DOMAIN B = 0 .. last /\ B = [n \in DOMAIN B |-> B[n]]
    BY <1>8
  <2> QED
    BY <1>5, <2>3, <2>4 DEF T
<1>10. \A n \in 1 .. last : B[n] = Posted(B[n - 1], entries[n], d)
  BY <1>1, <1>8
<1> QED
  BY <1>5, <1>9, <1>10 DEF last

\* One more entry leaves the books of the entries before it as they were.
LEMMA BooksGrow ==
    ASSUME NEW entries \in Seq(Entry), NEW e \in Entry, NEW d
    PROVE  LET more == Append(entries, e) IN
           /\ more \in Seq(Entry) /\ Len(more) = Len(entries) + 1
           /\ \A n \in 0 .. Len(entries) : Books(more, d)[n] = Books(entries, d)[n]
           /\ Books(more, d)[Len(more)] = Posted(Books(entries, d)[Len(entries)], e, d)
<1> DEFINE more == Append(entries, e)
           T == {n \in 0 .. Len(entries) : Books(more, d)[n] = Books(entries, d)[n]}
<1>1. /\ more \in Seq(Entry) /\ Len(more) = Len(entries) + 1 /\ Len(entries) \in Nat
      /\ more[Len(more)] = e
      /\ \A n \in 1 .. Len(entries) : more[n] = entries[n]
  OBVIOUS
<1> HIDE DEF more
<1>2. 0 \in T
  BY <1>1, BooksAreKept
<1>3. ASSUME NEW n \in 1 .. Len(entries), n - 1 \in T PROVE n \in T
  <2>1. n \in 1 .. Len(more) /\ n \in 0 .. Len(entries)
    BY <1>1
  <2>2. Books(more, d)[n] = Posted(Books(more, d)[n - 1], entries[n], d)
    BY <1>1, <2>1, BooksAreKept
  <2>3. Books(entries, d)[n] = Posted(Books(entries, d)[n - 1], entries[n], d)
    BY BooksAreKept
  <2> QED
    BY <1>3, <2>1, <2>2, <2>3
<1> HIDE DEF T
<1>4. 0 .. Len(entries) \subseteq T
  BY <1>1, <1>2, <1>3, EveryIndex
<1>5. Books(more, d)[Len(entries)] = Books(entries, d)[Len(entries)]
  BY <1>1, <1>4 DEF T
<1>6. Books(more, d)[Len(more)] = Posted(Books(more, d)[Len(more) - 1], more[Len(more)], d)
  BY <1>1, BooksAreKept
<1>7. Len(more) - 1 = Len(entries)
  BY <1>1
<1> QED
  BY <1>1, <1>4, <1>5, <1>6, <1>7 DEF T, more

\* What each GET of get_summary has read is in the books, in the order of the reads.
TotalRead(entries, s, d) ==
    \E n \in 0 .. Len(entries) : s.total = Books(entries, d)[n].total

DailyRead(entries, s) ==
    \E n \in 0 .. Len(entries) : \E m \in n .. Len(entries) :
        /\ s.total = Books(entries, s.day)[n].total
        /\ s.daily = Books(entries, s.day)[m].daily

CountRead(entries, s) ==
    \E n \in 0 .. Len(entries) : \E m \in n .. Len(entries) : \E c \in m .. Len(entries) :
        /\ s.total = Books(entries, s.day)[n].total
        /\ s.daily = Books(entries, s.day)[m].daily
        /\ s.count = Books(entries, s.day)[c].count

\* What was in the books stays there when another process records.
LEMMA ReadsStay ==
    ASSUME NEW entries \in Seq(Entry), NEW e \in Entry, NEW s
    PROVE  LET more == Append(entries, e) IN
           /\ \A d : TotalRead(entries, s, d) => TotalRead(more, s, d)
           /\ DailyRead(entries, s) => DailyRead(more, s)
           /\ CountRead(entries, s) => CountRead(more, s)
<1> DEFINE more == Append(entries, e)
<1>1. /\ Len(more) = Len(entries) + 1 /\ Len(entries) \in Nat
      /\ \A d : \A n \in 0 .. Len(entries) : Books(more, d)[n] = Books(entries, d)[n]
  BY BooksGrow
<1> HIDE DEF more
<1>2. /\ \A n \in 0 .. Len(entries) : n \in 0 .. Len(more)
      /\ \A n \in 0 .. Len(entries) : \A m \in n .. Len(entries) :
             m \in n .. Len(more) /\ m \in 0 .. Len(entries)
  BY <1>1
<1>3. ASSUME NEW d, TotalRead(entries, s, d) PROVE TotalRead(more, s, d)
  BY <1>1, <1>2, <1>3 DEF TotalRead
<1>4. ASSUME DailyRead(entries, s) PROVE DailyRead(more, s)
  <2>1. PICK n \in 0 .. Len(entries) : \E m \in n .. Len(entries) :
            /\ s.total = Books(entries, s.day)[n].total
            /\ s.daily = Books(entries, s.day)[m].daily
    BY <1>4 DEF DailyRead
  <2> QED
    BY <1>1, <1>2, <2>1 DEF DailyRead
<1>5. ASSUME CountRead(entries, s) PROVE CountRead(more, s)
  <2>1. PICK n \in 0 .. Len(entries) :
            \E m \in n .. Len(entries) : \E c \in m .. Len(entries) :
                /\ s.total = Books(entries, s.day)[n].total
                /\ s.daily = Books(entries, s.day)[m].daily
                /\ s.count = Books(entries, s.day)[c].count
    BY <1>5 DEF CountRead
  <2>2. PICK m \in n .. Len(entries) : \E c \in m .. Len(entries) :
            /\ s.total = Books(entries, s.day)[n].total
            /\ s.daily = Books(entries, s.day)[m].daily
            /\ s.count = Books(entries, s.day)[c].count
    BY <2>1
  <2>3. PICK c \in m .. Len(entries) : s.count = Books(entries, s.day)[c].count
    BY <2>2
  <2>4. /\ n \in 0 .. Len(more) /\ m \in n .. Len(more) /\ m \in 0 .. Len(entries)
        /\ c \in m .. Len(more) /\ c \in 0 .. Len(entries)
    BY <1>1, <1>2
  <2> QED
    BY <1>1, <2>2, <2>3, <2>4 DEF CountRead
<1> QED
  BY <1>3, <1>4, <1>5 DEF more

\* A record has the fields it was made of.
LEMMA SumsFields ==
    ASSUME NEW b, NEW x, NEW y, NEW z, b = [total |-> x, daily |-> y, count |-> z]
    PROVE  b.total = x /\ b.daily = y /\ b.count = z
OBVIOUS

\* The keys hold what the whole log amounts to, and a summary only what it held.
PlInv ==
    /\ today \in 0 .. LastDay /\ log \in Seq(Entry)
    /\ ledger \in [total : Int, count : Int, daily : [0 .. LastDay -> Int]]
    /\ summary \in [total : Int, daily : Int, count : Int, day : 0 .. LastDay]
    /\ \A d \in 0 .. LastDay :
           Books(log, d)[Len(log)] = [total |-> ledger.total, daily |-> ledger.daily[d],
                                      count |-> ledger.count]
    /\ asking = "daily" => \A d \in 0 .. LastDay : TotalRead(log, summary, d)
    /\ asking = "count" => DailyRead(log, summary)
    /\ asking = "answer" => CountRead(log, summary)

\* Before the first trade the books are empty and nothing has been read.
THEOREM LedgerStarts == PlInit => PlInv
<1> SUFFICES ASSUME PlInit PROVE PlInv
  OBVIOUS
<1>1. /\ today \in 0 .. LastDay /\ log \in Seq(Entry) /\ Len(log) = 0 /\ asking = "total"
  BY PnlAssumption DEF PlInit
<1>2. ledger \in [total : Int, count : Int, daily : [0 .. LastDay -> Int]]
  BY DEF PlInit
<1>3. summary \in [total : Int, daily : Int, count : Int, day : 0 .. LastDay]
  BY PnlAssumption DEF PlInit, Blank
<1>4. ASSUME NEW d \in 0 .. LastDay
      PROVE  Books(log, d)[Len(log)] = [total |-> ledger.total, daily |-> ledger.daily[d],
                                        count |-> ledger.count]
  <2>1. Books(log, d)[Len(log)] = EmptyBooks
    BY <1>1, BooksAreKept
  <2>2. ledger.total = 0 /\ ledger.count = 0 /\ ledger.daily[d] = 0
    BY DEF PlInit
  <2> QED
    BY <2>1, <2>2 DEF EmptyBooks
<1> QED
  BY <1>1, <1>2, <1>3, <1>4 DEF PlInv

\* Every trade, reset, midnight and read of pnl_tracker.py keeps this true.
THEOREM LedgerSteps == PlInv /\ [PlNext]_plVars => PlInv'
<1> SUFFICES ASSUME PlInv, [PlNext]_plVars PROVE PlInv'
  OBVIOUS
<1> DEFINE Held(l, entries, d) ==
               Books(entries, d)[Len(entries)] =
                   [total |-> l.total, daily |-> l.daily[d], count |-> l.count]
<1>0. /\ today \in 0 .. LastDay /\ log \in Seq(Entry) /\ Len(log) \in Nat
      /\ ledger.total \in Int /\ ledger.count \in Int
      /\ ledger.daily \in [0 .. LastDay -> Int]
      /\ \A d \in 0 .. LastDay : ledger.daily[d] \in Int
      /\ 0 \in 0 .. LastDay
  <2>1. /\ today \in 0 .. LastDay /\ log \in Seq(Entry)
        /\ ledger \in [total : Int, count : Int, daily : [0 .. LastDay -> Int]]
    BY DEF PlInv
  <2>2. Len(log) \in Nat /\ 0 \in 0 .. LastDay
    BY <2>1, PnlAssumption
  <2>3. /\ ledger.total \in Int /\ ledger.count \in Int
        /\ ledger.daily \in [0 .. LastDay -> Int]
    BY <2>1
  <2> QED
    BY <2>1, <2>2, <2>3
<1>10. /\ \A n \in 0 .. Len(log) : Len(log) \in n .. Len(log)
       /\ Len(log) \in 0 .. Len(log)
  BY <1>0
<1>11. ASSUME NEW d \in 0 .. LastDay
       PROVE  /\ Books(log, d)[Len(log)].total = ledger.total
              /\ Books(log, d)[Len(log)].daily = ledger.daily[d]
              /\ Books(log, d)[Len(log)].count = ledger.count
  <2>1. Books(log, d)[Len(log)] = [total |-> ledger.total, daily |-> ledger.daily[d],
                                   count |-> ledger.count]
    BY DEF PlInv
  <2> QED
    BY <2>1, SumsFields
<1>1. ASSUME NEW kind \in {"trade", "reset"}, NEW pnl \in Int, Logged(kind, pnl),
             UNCHANGED <<today, asking, summary>>,
             ledger' \in [total : Int, count : Int, daily : [0 .. LastDay -> Int]],
             \A d \in 0 .. LastDay :
                 Posted([total |-> ledger.total, daily |-> ledger.daily[d],
                         count |-> ledger.count],
                        [kind |-> kind, pnl |-> pnl, day |-> today], d)
                 = [total |-> ledger'.total, daily |-> ledger'.daily[d],
                    count |-> ledger'.count]
      PROVE  PlInv'
  <2> DEFINE e == [kind |-> kind, pnl |-> pnl, day |-> today]
  <2>1. e \in Entry /\ log' = Append(log, e)
    BY <1>0, <1>1 DEF Entry, Logged
  <2> HIDE DEF e
  <2>2. log' \in Seq(Entry)
    BY <1>0, <2>1
  <2>3. ASSUME NEW d \in 0 .. LastDay PROVE Held(ledger', log', d)
    <3>1. Books(log', d)[Len(log')] = Posted(Books(log, d)[Len(log)], e, d)
      BY <1>0, <2>1, BooksGrow
    <3>2. Held(ledger, log, d)
      BY DEF PlInv
    <3> QED
      BY <1>1, <3>1, <3>2 DEF e
  <2>4. /\ asking' = "daily" => \A d \in 0 .. LastDay : TotalRead(log', summary, d)
        /\ asking' = "count" => DailyRead(log', summary)
        /\ asking' = "answer" => CountRead(log', summary)
    BY <1>0, <1>1, <2>1, ReadsStay DEF PlInv
  <2> QED
    BY <1>0, <1>1, <2>2, <2>3, <2>4 DEF PlInv, TotalRead, DailyRead, CountRead
<1>2. ASSUME NEW pnl \in Amount, record_trade(pnl) PROVE PlInv'
  <2>1. pnl \in Int
    BY PnlAssumption
  <2>2. ledger' = [total |-> ledger.total + pnl, count |-> ledger.count + 1,
                   daily |-> [ledger.daily EXCEPT ![today] = ledger.daily[today] + pnl]]
    BY <1>2 DEF record_trade
  <2>3. ledger' \in [total : Int, count : Int, daily : [0 .. LastDay -> Int]]
    BY <1>0, <2>1, <2>2
  <2>4. ASSUME NEW d \in 0 .. LastDay
        PROVE  Posted([total |-> ledger.total, daily |-> ledger.daily[d],
                       count |-> ledger.count],
                      [kind |-> "trade", pnl |-> pnl, day |-> today], d)
               = [total |-> ledger'.total, daily |-> ledger'.daily[d],
                  count |-> ledger'.count]
    <3>1. ledger'.daily[d] = ledger.daily[d] + (IF today = d THEN pnl ELSE 0)
      <4>1. ledger'.daily = [ledger.daily EXCEPT ![today] = ledger.daily[today] + pnl]
        BY <2>2
      <4>2. ledger.daily[d] \in Int
        BY <1>0
      <4>3. CASE today = d
        BY <1>0, <4>1, <4>3
      <4>4. CASE today # d
        BY <1>0, <2>1, <4>1, <4>2, <4>4
      <4> QED
        BY <4>3, <4>4
    <3> QED
      BY <2>2, <3>1 DEF Posted
  <2> QED
    BY <1>1, <1>2, <2>1, <2>3, <2>4 DEF record_trade
<1>3. CASE reset_daily
  <2>1. ledger' = [ledger EXCEPT !.daily = [ledger.daily EXCEPT ![today] = 0]]
    BY <1>3 DEF reset_daily
  <2>2. ledger' = [total |-> ledger.total, count |-> ledger.count,
                   daily |-> [ledger.daily EXCEPT ![today] = 0]]
    BY <2>1 DEF PlInv
  <2>3. ledger' \in [total : Int, count : Int, daily : [0 .. LastDay -> Int]]
    BY <1>0, <2>2
  <2>4. ASSUME NEW d \in 0 .. LastDay
        PROVE  Posted([total |-> ledger.total, daily |-> ledger.daily[d],
                       count |-> ledger.count],
                      [kind |-> "reset", pnl |-> 0, day |-> today], d)
               = [total |-> ledger'.total, daily |-> ledger'.daily[d],
                  count |-> ledger'.count]
    <3>1. ledger'.daily[d] = IF today = d THEN 0 ELSE ledger.daily[d]
      BY <1>0, <2>2
    <3> QED
      BY <2>2, <3>1 DEF Posted
  <2> QED
    BY <1>1, <1>3, <2>3, <2>4 DEF reset_daily
<1>4. CASE Midnight
  BY <1>0, <1>4, PnlAssumption DEF Midnight, PlInv, TotalRead, DailyRead, CountRead
<1>5. CASE get_realized_total /\ UNCHANGED <<today, ledger, log>>
  <2>1. /\ asking' = "daily" /\ summary'.total = ledger.total
        /\ summary' \in [total : Int, daily : Int, count : Int, day : 0 .. LastDay]
    <3>1. asking' = "daily" /\ summary' = [Blank EXCEPT !.total = ledger.total]
      BY <1>5 DEF get_realized_total
    <3>2. summary' = [total |-> ledger.total, daily |-> 0, count |-> 0, day |-> 0]
      BY <3>1 DEF Blank
    <3>3. \A x \in Int : [total |-> x, daily |-> 0, count |-> 0, day |-> 0]
              \in [total : Int, daily : Int, count : Int, day : 0 .. LastDay]
      BY <1>0
    <3>4. summary'.total = ledger.total
      BY <3>2
    <3> QED
      BY <1>0, <3>1, <3>2, <3>3, <3>4
  <2>2. ASSUME NEW d \in 0 .. LastDay PROVE TotalRead(log, summary', d)
    BY <1>10, <1>11, <2>1 DEF TotalRead
  <2> QED
    BY <1>5, <2>1, <2>2 DEF PlInv, TotalRead
<1>6. CASE get_daily_realized /\ UNCHANGED <<today, ledger, log>>
  <2>1. /\ asking' = "count" /\ asking = "daily" /\ summary'.total = summary.total
        /\ summary'.daily = ledger.daily[today] /\ summary'.day = today
        /\ summary' \in [total : Int, daily : Int, count : Int, day : 0 .. LastDay]
    BY <1>0, <1>6 DEF get_daily_realized, PlInv
  <2>2. PICK n \in 0 .. Len(log) : summary.total = Books(log, today)[n].total
    BY <1>0, <2>1 DEF PlInv, TotalRead
  <2>3. Books(log, today)[Len(log)].daily = ledger.daily[today] /\ Len(log) \in n .. Len(log)
    BY <1>0, <1>10, <1>11
  <2>4. DailyRead(log, summary')
    BY <2>1, <2>2, <2>3 DEF DailyRead
  <2> QED
    BY <1>6, <2>1, <2>4 DEF PlInv, DailyRead
<1>7. CASE get_trade_count /\ UNCHANGED <<today, ledger, log>>
  <2>1. /\ asking' = "answer" /\ asking = "count" /\ summary'.total = summary.total
        /\ summary'.daily = summary.daily /\ summary'.day = summary.day
        /\ summary'.count = ledger.count /\ summary.day \in 0 .. LastDay
        /\ summary' \in [total : Int, daily : Int, count : Int, day : 0 .. LastDay]
    BY <1>0, <1>7 DEF get_trade_count, PlInv
  <2>2. PICK n \in 0 .. Len(log) : \E m \in n .. Len(log) :
            /\ summary.total = Books(log, summary.day)[n].total
            /\ summary.daily = Books(log, summary.day)[m].daily
    BY <2>1 DEF PlInv, DailyRead
  <2>5. PICK m \in n .. Len(log) :
            /\ summary.total = Books(log, summary.day)[n].total
            /\ summary.daily = Books(log, summary.day)[m].daily
    BY <2>2
  <2>3. /\ Books(log, summary.day)[Len(log)].count = ledger.count
        /\ Len(log) \in m .. Len(log)
    <3>1. Len(log) \in m .. Len(log)
      BY <1>0
    <3> QED
      BY <1>11, <2>1, <3>1
  <2>4. CountRead(log, summary')
    BY <2>1, <2>5, <2>3 DEF CountRead
  <2> QED
    BY <1>7, <2>1, <2>4 DEF PlInv, CountRead
<1>8. CASE Answered /\ UNCHANGED <<today, ledger, log>>
  BY <1>0, <1>8, PnlAssumption DEF Answered, Blank, PlInv
<1>9. CASE UNCHANGED plVars
  BY <1>9 DEF plVars, PlInv, TotalRead, DailyRead, CountRead
<1> QED
  BY <1>2, <1>3, <1>4, <1>5, <1>6, <1>7, <1>8, <1>9 DEF PlNext, get_summary

\* A summary of GET /pnl is read from moments in order, for any amounts, days and
\* length of the log, however many processes record and reset while it is read.
THEOREM SummaryReadsForward == PlSpec => []SummaryInOrder
<1>1. PlInv => SummaryInOrder
  BY DEF PlInv, SummaryInOrder, CountRead
<1> QED
  BY LedgerStarts, LedgerSteps, <1>1, PTL DEF PlSpec
=============================================================================
