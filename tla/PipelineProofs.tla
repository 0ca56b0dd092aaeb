--------------------------- MODULE PipelineProofs ---------------------------
(* How far the signal lags behind what the collector announced, for any number of
   symbols, window and market: the type invariant of the pipeline, that the newest
   candle of the window never goes back, and the lag that follows. *)
EXTENDS Pipeline, FiniteSetTheorems, SequenceTheorems, NaturalLemmas

IsRows(rows) ==
    DOMAIN rows \in SUBSET (0 .. LastTick) /\ rows \in [DOMAIN rows -> Revision]

\* The open times among `times` of a query for the whole table.
Oldest(times) == {t \in times : Cardinality({u \in times : u < t}) < Window}

\* Every candle of `new` is at least as recent as each of `old` that is not younger.
Supersedes(new, old) ==
    /\ DOMAIN old \subseteq DOMAIN new
    /\ \A s \in DOMAIN old : \A t \in DOMAIN new : s <= t => old[s] <= new[t]

\* The revision of a stored candle is a tick at which it was open, and no candle
\* within the exchange's reach is missing between two that are stored.
Kept(rows) ==
    /\ \A t \in DOMAIN rows : /\ t * Revisions <= rows[t] /\ rows[t] <= now
                              /\ rows[t] <= t * Revisions + Revisions - 1
    /\ \A u \in DOMAIN rows : \A t \in 0 .. u :
           t > now \div Revisions - FetchLimit => t \in DOMAIN rows
-----------------------------------------------------------------------------
\* What the assumption of Pipeline says of its constants, one by one.
LEMMA PipelineConstants ==
    /\ MinCandles \in Nat \ {0} /\ Window \in Nat /\ FetchLimit \in Nat
    /\ MinCandles <= Window /\ Window <= FetchLimit
    /\ Revisions \in Nat \ {0} /\ MaxQueue \in Nat
    /\ FirstTick \in Nat /\ LastTick \in Nat /\ FirstTick <= LastTick
    /\ Revision \subseteq Nat /\ None = -1
BY PipelineAssumption DEF Revision, None

\* A table maps natural times to natural revisions.
LEMMA RowsAreNumbers ==
    ASSUME NEW rows, IsRows(rows)
    PROVE  \A t \in DOMAIN rows : t \in Nat /\ rows[t] \in Nat
<1>1. DOMAIN rows \subseteq 0 .. LastTick /\ \A t \in DOMAIN rows : rows[t] \in Revision
  BY DEF IsRows
<1>2. \A t \in DOMAIN rows : t \in Nat
  BY <1>1
<1>3. Revision \subseteq Nat
  BY PipelineConstants
<1> QED
  BY <1>1, <1>2, <1>3

\* Sets of open times are finite, and so are their parts.
LEMMA TimesAreFinite ==
    ASSUME NEW times \in SUBSET (0 .. LastTick)
    PROVE  IsFiniteSet(times) /\ Cardinality(times) \in Nat
<1>1. IsFiniteSet(0 .. LastTick)
  BY PipelineConstants, FS_Interval
<1> QED
  BY <1>1, FS_Subset, FS_CardinalityType

\* The newest row of a table with rows is the last one.
LEMMA NewestIsLast ==
    ASSUME NEW rows, IsRows(rows), DOMAIN rows # {}
    PROVE  Newest(rows) \in DOMAIN rows /\ \A u \in DOMAIN rows : u <= Newest(rows)
<1>1. DOMAIN rows \in SUBSET Nat /\ \A t \in DOMAIN rows : t <= LastTick
  BY PipelineConstants DEF IsRows
<1>2. \E t \in DOMAIN rows : \A u \in DOMAIN rows : u <= t
  BY <1>1, PipelineConstants, GreatestNatural
<1> QED
  BY <1>2 DEF Newest

\* The oldest rows of a table stay its oldest rows while later ones are added.
LEMMA OldestStay ==
    ASSUME NEW more \in SUBSET (0 .. LastTick), NEW times \in SUBSET more,
           \A t \in times : \A u \in more \ times : t < u
    PROVE  Oldest(times) \subseteq Oldest(more)
<1> SUFFICES ASSUME NEW t \in Oldest(times) PROVE t \in Oldest(more)
  OBVIOUS
<1>1. t \in times /\ t \in more /\ more \subseteq Int
  BY PipelineConstants DEF Oldest
<1>2. ASSUME NEW u \in more, u < t PROVE u \in times
  BY <1>1, <1>2
<1>3. {u \in more : u < t} = {u \in times : u < t}
  BY <1>2
<1> QED
  BY <1>1, <1>3 DEF Oldest

\* query returns the oldest rows, as they are.
LEMMA QueryReturnsOldest ==
    ASSUME NEW rows, IsRows(rows)
    PROVE  /\ query(rows, 0, Window) = [t \in Oldest(DOMAIN rows) |-> rows[t]]
           /\ IsRows(query(rows, 0, Window))
<1>1. {t \in DOMAIN rows : t >= 0} = DOMAIN rows
  BY PipelineConstants DEF IsRows
<1>2. query(rows, 0, Window) = [t \in Oldest(DOMAIN rows) |-> rows[t]]
  BY <1>1 DEF query, Oldest
<1>3. Oldest(DOMAIN rows) \subseteq DOMAIN rows
  BY DEF Oldest
<1> QED
  BY <1>2, <1>3 DEF IsRows

\* compute returns a revision or None, even for an empty window.
LEMMA ComputeTyped ==
    ASSUME NEW rows, IsRows(rows)
    PROVE  compute(rows) \in Revision \cup {None}
<1>1. CASE Cardinality(DOMAIN rows) < MinCandles
  BY <1>1 DEF compute
<1>2. CASE ~(Cardinality(DOMAIN rows) < MinCandles)
  <2>1. DOMAIN rows # {}
    BY <1>2, PipelineConstants, FS_EmptySet
  <2>2. rows[Newest(rows)] \in Revision
    BY <2>1, NewestIsLast DEF IsRows
  <2> QED
    BY <1>2, <2>2 DEF compute
<1> QED
  BY <1>1, <1>2

\* What is computed of a window is never older than what was computed of a part.
LEMMA ComputeGrows ==
    ASSUME NEW old, NEW new, IsRows(old), IsRows(new), Supersedes(new, old)
    PROVE  compute(old) <= compute(new)
<1>1. /\ compute(old) \in Revision \cup {None} /\ compute(new) \in Revision \cup {None}
      /\ Revision \subseteq Nat /\ None = -1
  BY ComputeTyped, PipelineConstants
<1>2. CASE Cardinality(DOMAIN old) < MinCandles
  <2>1. compute(old) = -1
    BY <1>1, <1>2 DEF compute
  <2>2. compute(new) \in Nat \cup {-1}
    BY <1>1, Zenon
  <2> QED
    BY <2>1, <2>2
<1>3. CASE ~(Cardinality(DOMAIN old) < MinCandles)
  <2>1. DOMAIN new \in SUBSET (0 .. LastTick) /\ DOMAIN old \in SUBSET DOMAIN new
    BY DEF IsRows, Supersedes
  <2>2. /\ IsFiniteSet(DOMAIN new) /\ Cardinality(DOMAIN new) \in Nat
        /\ Cardinality(DOMAIN old) \in Nat
    BY <2>1, TimesAreFinite DEF IsRows
  <2>3. Cardinality(DOMAIN old) <= Cardinality(DOMAIN new)
    BY <2>1, <2>2, FS_Subset
  <2>4. ~(Cardinality(DOMAIN new) < MinCandles) /\ DOMAIN old # {} /\ DOMAIN new # {}
    BY <1>3, <2>2, <2>3, PipelineConstants, FS_EmptySet
  <2>5. /\ Newest(old) \in DOMAIN old /\ Newest(new) \in DOMAIN new
        /\ Newest(old) <= Newest(new)
    BY <2>1, <2>4, NewestIsLast
  <2>6. old[Newest(old)] <= new[Newest(new)]
    BY <2>5 DEF Supersedes
  <2> QED
    BY <1>3, <2>4, <2>6 DEF compute
<1> QED
  BY <1>2, <1>3

\* A table that gained only later rows answers the engine's query with as recent a
\* newest candle as before.
LEMMA WindowGrows ==
    ASSUME NEW old, NEW new, IsRows(old), IsRows(new), Supersedes(new, old),
           \A t \in DOMAIN old : \A u \in DOMAIN new \ DOMAIN old : t < u
    PROVE  compute(query(old, 0, Window)) <= compute(query(new, 0, Window))
<1> DEFINE v == query(old, 0, Window)
           w == query(new, 0, Window)
<1>1. /\ v = [t \in Oldest(DOMAIN old) |-> old[t]] /\ IsRows(v)
      /\ w = [t \in Oldest(DOMAIN new) |-> new[t]] /\ IsRows(w)
  BY QueryReturnsOldest
<1>2. Oldest(DOMAIN old) \subseteq Oldest(DOMAIN new)
  BY OldestStay DEF IsRows, Supersedes
<1>3. Oldest(DOMAIN old) \subseteq DOMAIN old /\ Oldest(DOMAIN new) \subseteq DOMAIN new
  BY DEF Oldest
<1> HIDE DEF v, w
<1>4. Supersedes(w, v)
  BY <1>1, <1>2, <1>3 DEF Supersedes
<1>5. compute(v) <= compute(w)
  BY <1>1, <1>4, ComputeGrows
<1> QED
  BY <1>5 DEF v, w

\* What the exchange answers: its last candles, each at its latest revision.
LEMMA Fetched ==
    ASSUME now \in Revision
    PROVE  LET last == now \div Revisions
           IN /\ IsRows(fetch_ohlcv) /\ now \in Nat /\ last \in Nat
              /\ DOMAIN fetch_ohlcv = {u \in 0 .. last : u > last - FetchLimit}
              /\ \A t \in DOMAIN fetch_ohlcv :
                    /\ t * Revisions \in Nat /\ fetch_ohlcv[t] \in Nat
                    /\ t * Revisions <= fetch_ohlcv[t] /\ fetch_ohlcv[t] <= now
                    /\ fetch_ohlcv[t] <= t * Revisions + Revisions - 1
                    /\ fetch_ohlcv[t] \in {now, t * Revisions + Revisions - 1}
<1> DEFINE last == now \div Revisions
           reach == {u \in 0 .. last : u > last - FetchLimit}
           Closing(t) == t * Revisions + Revisions - 1
<1>1. now \in Nat /\ now <= LastTick /\ Revisions \in Nat \ {0} /\ LastTick \in Nat
  BY PipelineConstants DEF Revision
<1>2. last \in Nat /\ last <= now /\ last * Revisions <= now
  BY <1>1, DivBounds
<1>3. fetch_ohlcv = [t \in reach |-> IF now < Closing(t) THEN now ELSE Closing(t)]
  BY DEF fetch_ohlcv
<1> HIDE DEF last
<1>4. ASSUME NEW t \in reach
      PROVE  /\ t \in Nat /\ t * Revisions \in Nat /\ t * Revisions <= now
             /\ Closing(t) \in Nat /\ t * Revisions <= Closing(t)
  <2>1. t \in Nat /\ t <= last
    BY <1>2
  <2>2. t * Revisions <= last * Revisions /\ t * Revisions \in Nat
    <3>1. CASE t = last
      BY <2>1, <1>1, <1>2, <3>1
    <3>2. CASE t < last
      <4>1. t * Revisions \in Nat /\ t * Revisions + Revisions <= last * Revisions
        BY <2>1, <1>1, <1>2, <3>2, TimesMonotone
      <4>2. last * Revisions \in Nat
        BY <1>1, <1>2
      <4> QED
        BY <4>1, <4>2, <1>1
    <3> QED
      BY <2>1, <1>2, <3>1, <3>2
  <2>3. last * Revisions \in Nat
    BY <1>1, <1>2
  <2> QED
    BY <1>1, <1>2, <2>1, <2>2, <2>3
<1>5. \A t \in reach : /\ fetch_ohlcv[t] \in {now, Closing(t)} /\ fetch_ohlcv[t] \in Nat
                       /\ t * Revisions <= fetch_ohlcv[t] /\ fetch_ohlcv[t] <= now
                       /\ fetch_ohlcv[t] <= Closing(t)
  <2> HIDE DEF reach
  <2> QED
    BY <1>1, <1>3, <1>4
<1>6. DOMAIN fetch_ohlcv = reach
  BY <1>3
<1>7. IsRows(fetch_ohlcv)
  <2>1. reach \in SUBSET (0 .. LastTick)
    BY <1>1, <1>2
  <2>2. \A t \in reach : fetch_ohlcv[t] \in Revision
    BY <1>1, <1>5 DEF Revision
  <2>3. fetch_ohlcv = [t \in reach |-> fetch_ohlcv[t]]
    BY <1>3
  <2> QED
    BY <1>6, <2>1, <2>2, <2>3 DEF IsRows
<1> QED
  BY <1>1, <1>2, <1>4, <1>5, <1>6, <1>7 DEF last

\* Storing what was fetched adds only later candles and makes none older.
LEMMA StoredSupersedes ==
    ASSUME now \in Revision, NEW rows, IsRows(rows), Kept(rows)
    PROVE  LET new == upsert(rows, fetch_ohlcv)
           IN /\ IsRows(new) /\ Kept(new) /\ Supersedes(new, rows)
              /\ \A t \in DOMAIN rows : \A u \in DOMAIN new \ DOMAIN rows : t < u
<1> DEFINE last == now \div Revisions
           got == fetch_ohlcv
           new == upsert(rows, got)
<1>1. /\ now \in Nat /\ last \in Nat /\ Revisions \in Nat \ {0} /\ LastTick \in Nat
      /\ FetchLimit \in Nat
  BY Fetched, PipelineConstants
<1>2. /\ IsRows(got) /\ DOMAIN got = {u \in 0 .. last : u > last - FetchLimit}
      /\ \A t \in DOMAIN got : /\ t * Revisions \in Nat /\ got[t] \in Nat
                               /\ t * Revisions <= got[t] /\ got[t] <= now
                               /\ got[t] <= t * Revisions + Revisions - 1
                               /\ got[t] \in {now, t * Revisions + Revisions - 1}
  BY Fetched
<1>3. /\ DOMAIN rows \subseteq 0 .. LastTick /\ DOMAIN got \subseteq 0 .. LastTick
      /\ \A t \in DOMAIN rows : rows[t] \in Revision /\ rows[t] \in Nat
      /\ \A t \in DOMAIN got : got[t] \in Revision
  BY <1>2, PipelineConstants DEF IsRows
<1>4. /\ \A t \in DOMAIN rows : /\ t * Revisions <= rows[t] /\ rows[t] <= now
                                /\ rows[t] <= t * Revisions + Revisions - 1
      /\ \A u \in DOMAIN rows : \A t \in 0 .. u : t > last - FetchLimit => t \in DOMAIN rows
  BY DEF Kept
<1>5. /\ DOMAIN new = DOMAIN rows \cup DOMAIN got
      /\ new = [t \in DOMAIN rows \cup DOMAIN got |->
                    IF t \in DOMAIN got THEN got[t] ELSE rows[t]]
      /\ \A t \in DOMAIN got : new[t] = got[t]
      /\ \A t \in DOMAIN rows \ DOMAIN got : new[t] = rows[t]
  BY DEF upsert
<1> HIDE DEF last, got, new
<1>6. IsRows(new)
  <2>1. \A t \in DOMAIN new : new[t] \in Revision
    BY <1>3, <1>5
  <2> QED
    BY <1>3, <1>5, <2>1 DEF IsRows
<1>7. \A t \in DOMAIN new : /\ t * Revisions <= new[t] /\ new[t] <= now /\ new[t] \in Nat
                            /\ new[t] <= t * Revisions + Revisions - 1
  BY <1>2, <1>3, <1>4, <1>5
<1>8. \A u \in DOMAIN new : \A t \in 0 .. u : t > last - FetchLimit => t \in DOMAIN new
  <2> SUFFICES ASSUME NEW u \in DOMAIN new, NEW t \in 0 .. u, t > last - FetchLimit
               PROVE  t \in DOMAIN new
    OBVIOUS
  <2>1. CASE u \in DOMAIN got
    BY <2>1, <1>1, <1>2, <1>5
  <2>2. CASE u \in DOMAIN rows
    BY <2>2, <1>4, <1>5
  <2> QED
    BY <2>1, <2>2, <1>5
<1>9. \A t \in DOMAIN rows : \A u \in DOMAIN new \ DOMAIN rows : t < u
  <2> SUFFICES ASSUME NEW t \in DOMAIN rows, NEW u \in DOMAIN new \ DOMAIN rows, ~(t < u)
               PROVE  FALSE
    OBVIOUS
  <2>1. u \in DOMAIN got /\ u \in 0 .. last /\ u > last - FetchLimit /\ t \in Nat
    BY <1>2, <1>3, <1>5
  <2>2. u \in 0 .. t
    BY <2>1
  <2> QED
    BY <1>4, <2>1, <2>2
<1>10. Supersedes(new, rows)
  <2>1. ASSUME NEW s \in DOMAIN rows, NEW t \in DOMAIN new, s <= t
        PROVE  rows[s] <= new[t]
    <3>1. s \in Nat /\ t \in Nat
      BY <1>3, <1>5
    <3>2. CASE s = t
      BY <3>1, <3>2, <1>1, <1>2, <1>3, <1>4, <1>5
    <3>3. CASE s < t
      <4>1. s * Revisions \in Nat /\ s * Revisions + Revisions <= t * Revisions
        BY <3>1, <3>3, <1>1, TimesMonotone
      <4>2. t * Revisions \in Nat
        BY <3>1, <1>1
      <4>3. rows[s] <= s * Revisions + Revisions - 1 /\ t * Revisions <= new[t]
        BY <1>4, <1>7
      <4> QED
        BY <4>1, <4>2, <4>3, <1>1, <1>3, <1>7
    <3> QED
      BY <3>1, <3>2, <3>3, <2>1
  <2> QED
    BY <1>5, <2>1 DEF Supersedes
<1> QED
  BY <1>6, <1>7, <1>8, <1>9, <1>10 DEF Kept, last, new, got
-----------------------------------------------------------------------------
Past == Revision \cup {None}

MarketTyped ==
    /\ now \in Revision
    /\ task \in [Key -> {"idle", "fetch", "publish"}]
    /\ DOMAIN table = Key /\ \A k \in Key : IsRows(table[k])
    /\ announced \in [Key -> Seq(Past)] /\ \A k \in Key : Len(announced[k]) = 3
    /\ calm \in [Key -> 0 .. 3]

CacheTyped ==
    /\ indicator \in [Key -> Past] /\ regime \in [Key -> Past]
    /\ signal \in [Key -> [ind : Past, reg : Past]]

EngineTyped ==
    /\ mode \in [Engine -> {"start", "cold", "listen", "away"}]
    /\ todo \in [Engine -> SUBSET Key]
    /\ inbox \in [Engine -> Seq(Key)] /\ \A e \in Engine : Len(inbox[e]) <= MaxQueue
    /\ hand \in [Engine -> Handling \cup {Idle}]
    /\ \A e \in Engine : hand[e] # Idle => mode[e] \in {"cold", "listen"}

PlTyped == MarketTyped /\ CacheTyped /\ EngineTyped

EngineActs(e) ==
    \/ StartCold(e) \/ NextCold(e) \/ Subscribe(e) \/ Receive(e)
    \/ Disconnect(e) \/ Restart(e) \/ HandlerFails(e)

HandlerActs ==
    \/ IndicatorReads \/ IndicatorWrites \/ RegimeReads \/ RegimeWrites
    \/ StrategyReadsIndicator \/ StrategyReadsRegime \/ StrategyWrites

\* What an engine keeps of a revision can be compared; None is below them all.
LEMMA PastNumbers ==
    ASSUME NEW x \in Past
    PROVE  x \in Int /\ x <= x /\ -1 <= x /\ x <= LastTick /\ (x # None <=> 0 <= x)
<1>1. CASE x \in Revision
  <2>1. x \in 0 .. LastTick /\ LastTick \in Nat
    BY <1>1, PipelineConstants DEF Revision
  <2> QED
    BY <2>1 DEF None
<1>2. CASE x = None
  <2>1. x = -1 /\ LastTick \in Nat
    BY <1>2, PipelineConstants
  <2> QED
    BY <2>1 DEF None
<1> QED
  BY <1>1, <1>2 DEF Past

\* The steps of Next, by who takes them.
LEMMA NextCases ==
    ASSUME Next
    PROVE  \/ Tick \/ collect_once \/ HandlerActs
           \/ \E k \in Key : Stored(k) \/ Published(k) \/ TaskFails(k)
           \/ \E e \in Engine : EngineActs(e)
BY DEF Next, _fetch_and_store, IndicatorMain, IndicatorHandles, RegimeMain, RegimeHandles,
       StrategyMain, StrategyHandles, cold_start, run, HandlerActs, EngineActs, Engine

\* What would be computed now is a revision or None, and so it is after a step.
LEMMA ComputedTyped ==
    ASSUME MarketTyped, NEW k \in Key
    PROVE  Computed(k) \in Past
BY QueryReturnsOldest, ComputeTyped DEF MarketTyped, Computed, Past

\* What is appended to a sequence leaves its elements where they are.
LEMMA AppendKeeps ==
    ASSUME NEW S, NEW s \in Seq(S), NEW x \in S
    PROVE  \A i \in 1 .. Len(s) : Append(s, x)[i] = s[i]
  OBVIOUS

\* A pair with one more element is a triple.
LEMMA AppendToPair ==
    ASSUME NEW S, NEW s \in Seq(S), Len(s) = 2, NEW x \in S
    PROVE  /\ Append(s, x) \in Seq(S) /\ Len(Append(s, x)) = 3
           /\ Append(s, x)[1] = s[1] /\ Append(s, x)[2] = s[2] /\ Append(s, x)[3] = x
<1>1. Append(s, x) \in Seq(S) /\ Len(Append(s, x)) = Len(s) + 1
  BY AppendProperties
<1>2. Append(s, x)[1] = s[1] /\ Append(s, x)[2] = s[2]
  <2>1. \A i \in 1 .. Len(s) : Append(s, x)[i] = s[i]
    BY AppendKeeps, Zenon
  <2>2. 1 \in 1 .. Len(s) /\ 2 \in 1 .. Len(s)
    OBVIOUS
  <2> QED
    BY <2>1, <2>2, Zenon
<1>3. Append(s, x)[3] = x
  <2>1. Append(s, x)[Len(s) + 1] = x
    BY AppendProperties
  <2>2. Len(s) + 1 = 3
    OBVIOUS
  <2> QED
    BY <2>1, <2>2, Zenon
<1>4. Len(Append(s, x)) = 3
  BY <1>1
<1> QED
  BY <1>1, <1>2, <1>3, <1>4

\* A triple of announcements with one more has lost its first.
LEMMA TripleShifts ==
    ASSUME NEW a \in Seq(Past), Len(a) = 3, NEW x \in Past
    PROVE  LET b == Append(Tail(a), x)
           IN /\ b \in Seq(Past) /\ Len(b) = 3
              /\ b[1] = a[2] /\ b[2] = a[3] /\ b[3] = x
              /\ a[1] \in Past /\ a[2] \in Past /\ a[3] \in Past
<1> DEFINE t == Tail(a)
<1>1. t \in Seq(Past) /\ Len(t) = 2 /\ t[1] = a[2] /\ t[2] = a[3]
  <2>1. a # <<>>
    BY EmptySeq
  <2>2. Tail(a) \in Seq(Past) /\ Len(Tail(a)) = Len(a) - 1
        /\ \A i \in 1 .. Len(Tail(a)) : Tail(a)[i] = a[i + 1]
    BY <2>1, HeadTailProperties, Zenon
  <2> QED
    BY <2>2
<1>2. a[1] \in Past /\ a[2] \in Past /\ a[3] \in Past
  BY ElementOfSeq
<1> HIDE DEF t
<1>3. /\ Append(t, x) \in Seq(Past) /\ Len(Append(t, x)) = 3
      /\ Append(t, x)[1] = t[1] /\ Append(t, x)[2] = t[2] /\ Append(t, x)[3] = x
  BY <1>1, AppendToPair
<1> QED
  BY <1>1, <1>2, <1>3, Zenon DEF t

\* What a busy engine holds.
LEMMA HandFields ==
    ASSUME EngineTyped, NEW e \in Engine, Busy(e)
    PROVE  /\ hand[e] \in Handling /\ hand[e].key \in Key
           /\ hand[e].ind \in Past /\ hand[e].reg \in Past
           /\ hand[e].step \in {"read", "read2", "write"}
           /\ mode[e] \in {"cold", "listen"}
BY DEF EngineTyped, Busy, Handling, Past

\* A step of a handler changes the step and one value of the engine's hand.
LEMMA HandMoves ==
    ASSUME EngineTyped, NEW e \in Engine, Busy(e), NEW v \in Past,
           NEW step \in {"read", "read2", "write"}
    PROVE  /\ [hand EXCEPT ![e].step = step, ![e].ind = v]
                = [hand EXCEPT ![e] = [key |-> hand[e].key, step |-> step,
                                       ind |-> v, reg |-> hand[e].reg]]
           /\ [hand EXCEPT ![e].step = step, ![e].reg = v]
                = [hand EXCEPT ![e] = [key |-> hand[e].key, step |-> step,
                                       ind |-> hand[e].ind, reg |-> v]]
<1>1. hand \in [Engine -> Handling \cup {Idle}] /\ hand[e] \in Handling
  BY HandFields DEF EngineTyped
<1>2. ASSUME NEW h \in Handling
      PROVE  /\ [h EXCEPT !.step = step, !.ind = v]
                    = [key |-> h.key, step |-> step, ind |-> v, reg |-> h.reg]
             /\ [h EXCEPT !.step = step, !.reg = v]
                    = [key |-> h.key, step |-> step, ind |-> h.ind, reg |-> v]
  <2> DEFINE g == [h EXCEPT !.step = step]
  <2>1. PICK k \in Key, s \in {"read", "read2", "write"}, i \in Past, r \in Past :
            h = [key |-> k, step |-> s, ind |-> i, reg |-> r]
    BY DEF Handling, Past
  <2>2. g = [key |-> k, step |-> step, ind |-> i, reg |-> r]
    BY <2>1
  <2>3. /\ [g EXCEPT !.ind = v] = [key |-> k, step |-> step, ind |-> v, reg |-> r]
        /\ [g EXCEPT !.reg = v] = [key |-> k, step |-> step, ind |-> i, reg |-> v]
    <3> HIDE DEF g
    <3> QED
      BY <2>2
  <2>4. /\ [h EXCEPT !.step = step, !.ind = v] = [g EXCEPT !.ind = v]
        /\ [h EXCEPT !.step = step, !.reg = v] = [g EXCEPT !.reg = v]
    OBVIOUS
  <2>5. h.key = k /\ h.ind = i /\ h.reg = r
    BY <2>1
  <2> QED
    BY <2>3, <2>4, <2>5
<1> QED
  BY <1>1, <1>2

\* What upsert leaves in the table is a table.
LEMMA UpsertTyped ==
    ASSUME now \in Revision, NEW rows, IsRows(rows)
    PROVE  IsRows(upsert(rows, fetch_ohlcv))
BY Fetched DEF IsRows, upsert

\* An engine that begins with a key has it in hand.
LEMMA BeginTyped ==
    ASSUME EngineTyped, NEW e \in Engine, NEW k \in Key, Begin(e, k)
    PROVE  /\ hand' \in [Engine -> Handling \cup {Idle}]
           /\ hand'[e] = [key |-> k, step |-> "read", ind |-> None, reg |-> None]
           /\ \A f \in Engine \ {e} : hand'[f] = hand[f]
<1>1. [key |-> k, step |-> "read", ind |-> None, reg |-> None] \in Handling
  BY DEF Handling
<1> QED
  BY <1>1 DEF Begin, EngineTyped

\* What the steps of the handlers do to the hand of their engine.
LEMMA HandChanges ==
    ASSUME EngineTyped, NEW e \in Engine, NEW h \in Handling \cup {Idle},
           h # Idle => mode[e] \in {"cold", "listen"},
           hand' = [hand EXCEPT ![e] = h], UNCHANGED <<mode, todo, inbox>>
    PROVE  EngineTyped' /\ hand'[e] = h /\ \A f \in Engine \ {e} : hand'[f] = hand[f]
BY DEF EngineTyped

\* A step that reads `value` into the hand, or drops the event if there is none.
ReadsInd(e, value, step) ==
    hand' = [hand EXCEPT ![e] = IF value = None THEN Idle
                                ELSE [key |-> hand[e].key, step |-> step,
                                      ind |-> value, reg |-> hand[e].reg]]

\* What each read of a handler takes into the hand of its engine.
LEMMA IndicatorReadsMoves ==
    ASSUME PlTyped, IndicatorReads
    PROVE  /\ At("indicator", "read") /\ Computed(hand["indicator"].key) \in Past
           /\ ReadsInd("indicator", Computed(hand["indicator"].key), "write")
<1>1. Busy("indicator") /\ "indicator" \in Engine
  BY DEF IndicatorReads, At, Engine
<1>2. Computed(hand["indicator"].key) \in Past
  BY <1>1, HandFields, ComputedTyped DEF PlTyped
<1> QED
  BY <1>1, <1>2, HandMoves DEF IndicatorReads, Finish, ReadsInd, PlTyped

LEMMA RegimeReadsMoves ==
    ASSUME PlTyped, RegimeReads
    PROVE  /\ At("regime", "read") /\ indicator[hand["regime"].key] \in Past
           /\ ReadsInd("regime", indicator[hand["regime"].key], "write")
<1>1. Busy("regime") /\ "regime" \in Engine
  BY DEF RegimeReads, At, Engine
<1>2. indicator[hand["regime"].key] \in Past
  BY <1>1, HandFields DEF PlTyped, CacheTyped
<1> QED
  BY <1>1, <1>2, HandMoves DEF RegimeReads, Finish, ReadsInd, PlTyped

LEMMA StrategyReadsIndicatorMoves ==
    ASSUME PlTyped, StrategyReadsIndicator
    PROVE  /\ At("strategy", "read") /\ indicator[hand["strategy"].key] \in Past
           /\ ReadsInd("strategy", indicator[hand["strategy"].key], "read2")
<1>1. Busy("strategy") /\ "strategy" \in Engine
  BY DEF StrategyReadsIndicator, At, Engine
<1>2. indicator[hand["strategy"].key] \in Past
  BY <1>1, HandFields DEF PlTyped, CacheTyped
<1> QED
  BY <1>1, <1>2, HandMoves DEF StrategyReadsIndicator, Finish, ReadsInd, PlTyped

LEMMA StrategyReadsRegimeMoves ==
    ASSUME PlTyped, StrategyReadsRegime
    PROVE  LET e == "strategy"
               cached == regime[hand[e].key]
           IN /\ At(e, "read2") /\ cached \in Past
              /\ hand' = [hand EXCEPT ![e] =
                     IF cached = None THEN Idle
                     ELSE [key |-> hand[e].key, step |-> "write",
                           ind |-> hand[e].ind, reg |-> cached]]
<1>1. Busy("strategy") /\ "strategy" \in Engine
  BY DEF StrategyReadsRegime, At, Engine
<1>2. regime[hand["strategy"].key] \in Past
  BY <1>1, HandFields DEF PlTyped, CacheTyped
<1> QED
  BY <1>1, <1>2, HandMoves DEF StrategyReadsRegime, Finish, PlTyped

\* Every step of a handler keeps the engines typed.
LEMMA HandlersTyped ==
    ASSUME PlTyped, HandlerActs
    PROVE  EngineTyped' /\ CacheTyped'
<1>1. UNCHANGED <<mode, todo, inbox>>
  BY DEF HandlerActs, IndicatorReads, IndicatorWrites, RegimeReads, RegimeWrites,
         StrategyReadsIndicator, StrategyReadsRegime, StrategyWrites, HandlerFrame
<1>2. {"indicator", "regime", "strategy"} = Engine
  BY DEF Engine
<1>3. ASSUME NEW e \in Engine, Busy(e), NEW value \in Past, NEW step \in {"read2", "write"},
             ReadsInd(e, value, step)
      PROVE  EngineTyped'
  <2>1. [key |-> hand[e].key, step |-> step, ind |-> value, reg |-> hand[e].reg] \in Handling
    BY <1>3, HandFields DEF PlTyped, Handling, Past
  <2> QED
    BY <1>1, <1>3, <2>1, HandFields, HandChanges DEF PlTyped, ReadsInd
<1>4. ASSUME NEW e \in Engine, Finish(e) PROVE EngineTyped'
  BY <1>1, <1>4, HandChanges DEF PlTyped, Finish
<1>5. CASE IndicatorReads
  BY <1>2, <1>3, <1>5, IndicatorReadsMoves DEF At, IndicatorReads, cacheVars, PlTyped, CacheTyped
<1>6. CASE RegimeReads
  BY <1>2, <1>3, <1>6, RegimeReadsMoves DEF At, RegimeReads, cacheVars, PlTyped, CacheTyped
<1>7. CASE StrategyReadsIndicator
  BY <1>2, <1>3, <1>7, StrategyReadsIndicatorMoves
     DEF At, StrategyReadsIndicator, cacheVars, PlTyped, CacheTyped
<1>8. CASE StrategyReadsRegime
  <2> DEFINE cached == regime[hand["strategy"].key]
             h == [key |-> hand["strategy"].key, step |-> "write",
                   ind |-> hand["strategy"].ind, reg |-> cached]
  <2>1. /\ Busy("strategy") /\ cached \in Past
        /\ hand' = [hand EXCEPT !["strategy"] = IF cached = None THEN Idle ELSE h]
    BY <1>8, StrategyReadsRegimeMoves DEF At
  <2>2. h \in Handling /\ mode["strategy"] \in {"cold", "listen"}
    BY <1>2, <2>1, HandFields DEF PlTyped, Handling, Past
  <2> HIDE DEF h, cached
  <2>3. EngineTyped'
    BY <1>1, <1>2, <2>1, <2>2, HandChanges DEF PlTyped
  <2> QED
    BY <1>8, <2>3 DEF StrategyReadsRegime, cacheVars, PlTyped, CacheTyped
<1>9. CASE IndicatorWrites
  <2>1. hand["indicator"].key \in Key /\ hand["indicator"].ind \in Past
    BY <1>2, <1>9, HandFields DEF IndicatorWrites, At, PlTyped
  <2> QED
    BY <1>2, <1>4, <1>9, <2>1 DEF IndicatorWrites, PlTyped, CacheTyped
<1>10. CASE RegimeWrites
  <2>1. hand["regime"].key \in Key /\ hand["regime"].ind \in Past
    BY <1>2, <1>10, HandFields DEF RegimeWrites, At, PlTyped
  <2> QED
    BY <1>2, <1>4, <1>10, <2>1 DEF RegimeWrites, PlTyped, CacheTyped
<1>11. CASE StrategyWrites
  <2>1. /\ hand["strategy"].key \in Key
        /\ [ind |-> hand["strategy"].ind, reg |-> hand["strategy"].reg]
               \in [ind : Past, reg : Past]
    BY <1>2, <1>11, HandFields DEF StrategyWrites, At, PlTyped
  <2> QED
    BY <1>2, <1>4, <1>11, <2>1 DEF StrategyWrites, PlTyped, CacheTyped
<1> QED
  BY <1>5, <1>6, <1>7, <1>8, <1>9, <1>10, <1>11 DEF HandlerActs

\* Before the first fetch nothing is stored, queued or in hand, and what the collector
\* and the engines keep has its type.
THEOREM PipelineStarts == Init => PlTyped
<1> SUFFICES ASSUME Init PROVE PlTyped
  OBVIOUS
<1>1. now \in Revision /\ None \in Past /\ 0 \in 0 .. 3
  BY PipelineConstants DEF Init, Revision, Past
<1>2. IsRows(NoRows)
  BY DEF IsRows, NoRows
<1>3. <<None, None, None>> \in Seq(Past) /\ Len(<<None, None, None>>) = 3
  BY <1>1
<1>4. MarketTyped
  BY <1>1, <1>2, <1>3 DEF Init, MarketTyped
<1>5. CacheTyped
  BY <1>1 DEF Init, CacheTyped
<1>6. EngineTyped
  BY PipelineConstants DEF Init, EngineTyped
<1> QED
  BY <1>4, <1>5, <1>6 DEF PlTyped

\* Every step of the collector, of the engines' loops and of their handlers keeps the
\* types, failures and restarts of pipeline.py included.
THEOREM PipelineSteps == PlTyped /\ [Next]_vars => PlTyped'
<1> SUFFICES ASSUME PlTyped, [Next]_vars PROVE PlTyped'
  OBVIOUS
<1> USE DEF PlTyped
<1>1. CASE Tick
  <2>1. now' \in Revision
    BY <1>1, PipelineConstants DEF Tick, MarketTyped, Revision
  <2> QED
    BY <1>1, <2>1 DEF Tick, MarketTyped, CacheTyped, EngineTyped, engineVars, cacheVars
<1>2. CASE collect_once
  BY <1>2 DEF collect_once, MarketTyped, CacheTyped, EngineTyped, engineVars, cacheVars
<1>3. ASSUME NEW k \in Key, Stored(k) PROVE PlTyped'
  <2>1. table' = [table EXCEPT ![k] = upsert(table[k], fetch_ohlcv)] /\ now' = now
    BY <1>3 DEF Stored
  <2>2. IsRows(table'[k])
    BY <2>1, UpsertTyped DEF MarketTyped
  <2>3. DOMAIN table' = Key /\ \A j \in Key : IsRows(table'[j])
    BY <2>1, <2>2 DEF MarketTyped
  <2> QED
    BY <1>3, <2>3 DEF Stored, MarketTyped, CacheTyped, EngineTyped, engineVars, cacheVars
<1>4. ASSUME NEW k \in Key, Published(k) PROVE PlTyped'
  <2>1. announced' = [announced EXCEPT ![k] = Append(Tail(announced[k]), Computed(k))]
    BY <1>4 DEF Published, Deliver
  <2>2. announced'[k] \in Seq(Past) /\ Len(announced'[k]) = 3
    BY <2>1, ComputedTyped, TripleShifts DEF MarketTyped
  <2>3. calm' \in [Key -> 0 .. 3]
    <3>1. calm[k] \in 0 .. 3
      BY DEF MarketTyped
    <3>2. (IF calm[k] < 3 THEN calm[k] + 1 ELSE 3) \in 0 .. 3
      BY <3>1
    <3>3. PICK c \in 0 .. 3 : calm' = [calm EXCEPT ![k] = c]
      <4>1. \/ calm' = [calm EXCEPT ![k] = IF calm[k] < 3 THEN calm[k] + 1 ELSE 3]
            \/ calm' = [calm EXCEPT ![k] = 1] \/ calm' = [calm EXCEPT ![k] = 0]
        BY <1>4 DEF Published, Deliver
      <4> QED
        BY <3>2, <4>1
    <3> QED
      BY <3>3 DEF MarketTyped
  <2>4. MarketTyped'
    BY <1>4, <2>1, <2>2, <2>3 DEF Published, MarketTyped
  <2>5. inbox' = [e \in Engine |-> IF mode[e] = "listen" THEN Append(inbox[e], k)
                                                        ELSE inbox[e]]
    BY <1>4 DEF Published, Deliver
  <2>6. ASSUME NEW e \in Engine
        PROVE  inbox'[e] \in Seq(Key) /\ Len(inbox'[e]) <= MaxQueue
    <3>1. inbox[e] \in Seq(Key) /\ Len(inbox[e]) < MaxQueue
      BY <1>4 DEF Published, Deliver, EngineTyped
    <3>2. /\ Append(inbox[e], k) \in Seq(Key)
          /\ Len(Append(inbox[e], k)) = Len(inbox[e]) + 1
      BY <3>1, AppendProperties
    <3> QED
      BY <2>5, <3>1, <3>2, PipelineConstants
  <2>7. EngineTyped'
    BY <1>4, <2>5, <2>6 DEF Published, EngineTyped
  <2> QED
    BY <1>4, <2>4, <2>7 DEF Published, CacheTyped, cacheVars
<1>5. ASSUME NEW k \in Key, TaskFails(k) PROVE PlTyped'
  BY <1>5 DEF TaskFails, MarketTyped, CacheTyped, EngineTyped, engineVars, cacheVars
<1>6. ASSUME NEW e \in Engine, EngineActs(e) PROVE PlTyped'
  <2>1. MarketTyped' /\ CacheTyped'
    BY <1>6 DEF EngineActs, StartCold, NextCold, Subscribe, Receive, Disconnect, Restart,
                HandlerFails, MarketTyped, CacheTyped, marketVars, cacheVars
  <2>2. CASE StartCold(e)
    <3>1. ColdKeys(e) \subseteq Key
      BY DEF ColdKeys, get_symbols, MarketTyped
    <3> QED
      BY <2>1, <2>2, <3>1 DEF StartCold, EngineTyped
  <2>3. CASE NextCold(e)
    <3>1. PICK k \in todo[e] : Begin(e, k) /\ todo' = [todo EXCEPT ![e] = @ \ {k}]
      BY <2>3 DEF NextCold
    <3>2. k \in Key
      BY <3>1 DEF EngineTyped
    <3> QED
      BY <2>1, <2>3, <3>1, <3>2, BeginTyped DEF NextCold, EngineTyped
  <2>4. CASE Subscribe(e)
    BY <2>1, <2>4 DEF Subscribe, EngineTyped
  <2>5. CASE Receive(e)
    <3>1. inbox[e] \in Seq(Key) /\ inbox[e] # <<>> /\ Len(inbox[e]) <= MaxQueue
      BY <2>5 DEF Receive, EngineTyped
    <3>2. /\ Head(inbox[e]) \in Key /\ Tail(inbox[e]) \in Seq(Key)
          /\ Len(Tail(inbox[e])) <= MaxQueue
      BY <3>1, HeadTailProperties, PipelineConstants
    <3> QED
      BY <2>1, <2>5, <3>2, BeginTyped DEF Receive, EngineTyped
  <2>6. CASE Disconnect(e)
    BY <2>1, <2>6, PipelineConstants DEF Disconnect, EngineTyped, Busy
  <2>7. CASE Restart(e)
    BY <2>1, <2>7, PipelineConstants DEF Restart, Finish, EngineTyped
  <2>8. CASE HandlerFails(e)
    BY <2>1, <2>8 DEF HandlerFails, Finish, EngineTyped
  <2> QED
    BY <1>6, <2>2, <2>3, <2>4, <2>5, <2>6, <2>7, <2>8 DEF EngineActs
<1>7. CASE HandlerActs
  <2>1. MarketTyped'
    BY <1>7 DEF HandlerActs, IndicatorReads, IndicatorWrites, RegimeReads, RegimeWrites,
                StrategyReadsIndicator, StrategyReadsRegime, StrategyWrites, HandlerFrame,
                MarketTyped, marketVars
  <2> QED
    BY <1>7, <2>1, HandlersTyped
<1>8. CASE UNCHANGED vars
  BY <1>8 DEF vars, MarketTyped, CacheTyped, EngineTyped
<1> QED
  BY <1>1, <1>2, <1>3, <1>4, <1>5, <1>6, <1>7, <1>8, NextCases

\* The pipeline is well typed in every run, whatever fails.
THEOREM PipelineTypes == Spec => []PipelineTypeOK
<1>1. PlTyped => PipelineTypeOK
  <2> SUFFICES ASSUME PlTyped PROVE PipelineTypeOK
    OBVIOUS
  <2>1. \A k \in Key : \A t \in DOMAIN table[k] : table[k][t] \in Revision
    BY DEF PlTyped, MarketTyped, IsRows
  <2>2. \A k \in Key : {indicator[k], regime[k], signal[k].ind, signal[k].reg} \subseteq Past
    BY DEF PlTyped, CacheTyped
  <2> QED
    BY <2>1, <2>2 DEF PlTyped, MarketTyped, EngineTyped, PipelineTypeOK, Busy, Past
<1> QED
  BY PipelineStarts, PipelineSteps, <1>1, PTL DEF Spec
-----------------------------------------------------------------------------
(* The lag.  An engine is told of k before it reads for k, and what it read is no
   older than what its last turn wrote, because nothing it reads ever goes back. *)

Handles(e, k, step) == At(e, step) /\ hand[e].key = k
Told(e, k) == \E i \in 1 .. Len(inbox[e]) : inbox[e][i] = k
Awaits(e, k) == Handles(e, k, "read") \/ Told(e, k)

\* What is known of k is known in the order it is handed on.
Ordered(k) ==
    /\ announced[k][1] <= announced[k][2] /\ announced[k][2] <= announced[k][3]
    /\ announced[k][3] <= Computed(k)
    /\ regime[k] <= indicator[k] /\ indicator[k] <= Computed(k)
    /\ Handles("indicator", k, "write") =>
           indicator[k] <= hand["indicator"].ind /\ hand["indicator"].ind <= Computed(k)
    /\ Handles("regime", k, "write") =>
           regime[k] <= hand["regime"].ind /\ hand["regime"].ind <= indicator[k]
    /\ signal[k].ind # None \/ Handles("strategy", k, "write") => regime[k] # None

\* From the last, the last but one and the last but two announcement on, if each
\* found the one before handled.
IndicatorFollows(k) ==
    calm[k] >= 1 /\ ~Awaits("indicator", k) =>
        IF Handles("indicator", k, "write") THEN hand["indicator"].ind >= announced[k][3]
                                            ELSE indicator[k] >= announced[k][3]

RegimeFollows(k) ==
    /\ calm[k] >= 2 => indicator[k] >= announced[k][2]
    /\ calm[k] >= 2 /\ ~Awaits("regime", k) =>
           IF Handles("regime", k, "write") THEN hand["regime"].ind >= announced[k][2]
                                            ELSE regime[k] >= announced[k][2]

SignalFollows(k) ==
    LET e == "strategy" IN
    /\ calm[k] >= 2 /\ ~Awaits(e, k) =>
           IF Handles(e, k, "read2") \/ Handles(e, k, "write")
           THEN hand[e].ind >= announced[k][2]
           ELSE signal[k].ind \in {None} \cup announced[k][2] .. LastTick
    /\ calm[k] >= 3 => regime[k] >= announced[k][1]
    /\ calm[k] >= 3 /\ ~Awaits(e, k) /\ ~Handles(e, k, "read2") =>
           IF Handles(e, k, "write") THEN hand[e].reg >= announced[k][1]
                                     ELSE signal[k].reg >= announced[k][1]

Lag(k) ==
    /\ calm[k] >= 1 => \A e \in Engine : mode[e] = "listen"
    /\ IndicatorFollows(k) /\ RegimeFollows(k) /\ SignalFollows(k)

LagInv == PlTyped /\ \A k \in Key : Kept(table[k]) /\ Ordered(k) /\ Lag(k)
-----------------------------------------------------------------------------
\* The table keeps its order; time passing makes no candle missing.
LEMMA TablesKept ==
    ASSUME PlTyped, [Next]_vars, \A k \in Key : Kept(table[k]), NEW k \in Key
    PROVE  Kept(table[k])' /\ Computed(k) <= Computed(k)'
<1>1. CASE table' = table /\ now' = now
  <2>1. Computed(k)' = Computed(k) /\ Computed(k) \in Past
    BY <1>1, ComputedTyped DEF Computed, PlTyped
  <2>2. Computed(k) <= Computed(k)
    BY <2>1, PastNumbers
  <2> QED
    BY <1>1, <2>1, <2>2 DEF Kept
<1>2. CASE Tick
  <2>1. table' = table /\ now' = now + 1
    BY <1>2 DEF Tick
  <2>2. Computed(k)' = Computed(k) /\ Computed(k) \in Past
    BY <2>1, ComputedTyped DEF Computed, PlTyped
  <2>3. Computed(k) <= Computed(k)
    BY <2>2, PastNumbers
  <2>4. now \in Nat /\ now + 1 \in Nat /\ Revisions \in Nat \ {0} /\ FetchLimit \in Nat
    BY PipelineConstants DEF PlTyped, MarketTyped
  <2>5. /\ now \div Revisions \in Nat /\ (now + 1) \div Revisions \in Nat
        /\ now \div Revisions <= (now + 1) \div Revisions
    BY <2>4, DivBounds, DivMonotone
  <2>6. \A t \in DOMAIN table[k] : t \in Nat /\ table[k][t] \in Nat
    BY RowsAreNumbers DEF PlTyped, MarketTyped
  <2>7. Kept(table[k])'
    <3>1. Kept(table[k])
      OBVIOUS
    <3>2. ASSUME NEW t \in DOMAIN table[k]
          PROVE  /\ t * Revisions <= table[k][t] /\ table[k][t] <= now + 1
                 /\ table[k][t] <= t * Revisions + Revisions - 1
      BY <3>1, <2>4, <2>6 DEF Kept
    <3>3. ASSUME NEW u \in DOMAIN table[k], NEW t \in 0 .. u,
                 t > (now + 1) \div Revisions - FetchLimit
          PROVE  t \in DOMAIN table[k]
      <4>1. t > now \div Revisions - FetchLimit
        BY <3>3, <2>4, <2>5, <2>6
      <4> QED
        BY <3>1, <4>1 DEF Kept
    <3> QED
      BY <2>1, <3>2, <3>3 DEF Kept
  <2> QED
    BY <2>2, <2>3, <2>7
<1>3. ASSUME NEW j \in Key, Stored(j) PROVE Kept(table[k])' /\ Computed(k) <= Computed(k)'
  <2>1. table' = [table EXCEPT ![j] = upsert(table[j], fetch_ohlcv)] /\ now' = now
    BY <1>3 DEF Stored
  <2>2. CASE k # j
    <3>1. table'[k] = table[k]
      BY <2>1, <2>2
    <3>2. Computed(k)' = Computed(k) /\ Computed(k) \in Past
      BY <3>1, ComputedTyped DEF Computed, PlTyped
    <3>3. Computed(k) <= Computed(k)
      BY <3>2, PastNumbers
    <3> QED
      BY <2>1, <3>1, <3>2, <3>3 DEF Kept
  <2>3. CASE k = j
    <3> DEFINE new == upsert(table[k], fetch_ohlcv)
    <3>1. table'[k] = new
      BY <2>1, <2>3 DEF PlTyped, MarketTyped
    <3>2. now \in Revision /\ IsRows(table[k]) /\ Kept(table[k])
      BY DEF PlTyped, MarketTyped
    <3>3. /\ IsRows(new) /\ Kept(new) /\ Supersedes(new, table[k])
          /\ \A t \in DOMAIN table[k] : \A u \in DOMAIN new \ DOMAIN table[k] : t < u
      BY <3>2, StoredSupersedes
    <3> HIDE DEF new
    <3>4. compute(query(table[k], 0, Window)) <= compute(query(new, 0, Window))
      BY <3>2, <3>3, WindowGrows
    <3>5. Computed(k)' = compute(query(new, 0, Window))
      BY <3>1 DEF Computed
    <3>6. Kept(table[k])'
      BY <2>1, <3>1, <3>3 DEF Kept
    <3> QED
      BY <3>4, <3>5, <3>6 DEF Computed
  <2> QED
    BY <2>2, <2>3
<1>4. \/ Tick \/ \E j \in Key : Stored(j)
      \/ table' = table /\ now' = now
  <2>1. ASSUME NEW e \in Engine, EngineActs(e) PROVE UNCHANGED marketVars
    BY <2>1 DEF EngineActs, StartCold, NextCold, Subscribe, Receive, Disconnect, Restart,
                HandlerFails
  <2>2. HandlerActs => UNCHANGED marketVars
    BY DEF HandlerActs, IndicatorReads, IndicatorWrites, RegimeReads, RegimeWrites,
           StrategyReadsIndicator, StrategyReadsRegime, StrategyWrites, HandlerFrame
  <2> QED
    BY <2>1, <2>2, NextCases DEF collect_once, Published, TaskFails, vars, marketVars
<1> QED
  BY <1>1, <1>2, <1>3, <1>4

\* An engine whose hand does not change handles what it did.
LEMMA StillHandles ==
    ASSUME hand' = hand, NEW e, NEW k, NEW step
    PROVE  Handles(e, k, step)' <=> Handles(e, k, step)
BY DEF Handles, At, Busy

\* What Ordered and Lag compare are numbers.
LEMMA PipelineNumbers ==
    ASSUME PlTyped, NEW k \in Key
    PROVE  /\ indicator[k] \in Past /\ regime[k] \in Past
           /\ signal[k].ind \in Past /\ signal[k].reg \in Past /\ Computed(k) \in Past
           /\ announced[k][1] \in Past /\ announced[k][2] \in Past
           /\ announced[k][3] \in Past /\ calm[k] \in 0 .. 3
<1>1. announced[k] \in Seq(Past) /\ Len(announced[k]) = 3
  BY DEF PlTyped, MarketTyped
<1>2. announced[k][1] \in Past /\ announced[k][2] \in Past /\ announced[k][3] \in Past
  BY <1>1, ElementOfSeq
<1>3. signal[k] \in [ind : Past, reg : Past]
  BY DEF PlTyped, CacheTyped
<1> QED
  BY <1>2, <1>3, ComputedTyped DEF PlTyped, MarketTyped, CacheTyped

LEMMA ComputedTypedNext ==
    ASSUME PlTyped', NEW k \in Key
    PROVE  Computed(k)' \in Past
BY QueryReturnsOldest, ComputeTyped DEF PlTyped, MarketTyped, Computed, Past

\* A step that takes nothing into a hand for k and changes no key of k.
NothingNew(k) ==
    /\ announced'[k] = announced[k] /\ indicator'[k] = indicator[k]
    /\ regime'[k] = regime[k] /\ signal'[k] = signal[k]
    /\ \A e \in Engine :
           Handles(e, k, "write")' => Handles(e, k, "write") /\ hand'[e] = hand[e]

\* Steps that take nothing up and keep nothing new leave what is known in order.
LEMMA OrderedWithNothingNew ==
    ASSUME PlTyped, PlTyped', NEW k \in Key, Ordered(k), NothingNew(k),
           Computed(k) <= Computed(k)'
    PROVE  Ordered(k)'
<1>1. {"indicator", "regime", "strategy"} = Engine
  BY DEF Engine
<1>2. ASSUME NEW x \in Past, x <= Computed(k) PROVE x <= Computed(k)'
  BY <1>2, PipelineNumbers, ComputedTypedNext, PastNumbers
<1>3. announced[k][3] <= Computed(k)' /\ indicator[k] <= Computed(k)'
  BY <1>2, PipelineNumbers DEF Ordered
<1>4. Handles("indicator", k, "write") =>
          /\ indicator[k] <= hand["indicator"].ind /\ hand["indicator"].ind <= Computed(k)'
  <2>1. Handles("indicator", k, "write") => hand["indicator"].ind \in Past
    BY <1>1, HandFields DEF Handles, At, PlTyped
  <2> QED
    BY <1>2, <2>1 DEF Ordered
<1> QED
  BY <1>1, <1>3, <1>4 DEF Ordered, NothingNew

\* The loop of an engine (subscribe, receive, restart, fail) takes no new value.
LEMMA EngineActsNothingNew ==
    ASSUME PlTyped, NEW e \in Engine, EngineActs(e), NEW k \in Key
    PROVE  NothingNew(k) /\ table' = table
<1>1. UNCHANGED <<marketVars, cacheVars>>
  BY DEF EngineActs, StartCold, NextCold, Subscribe, Receive, Disconnect, Restart, HandlerFails
<1>2. CASE hand' = hand
  BY <1>1, <1>2, StillHandles DEF NothingNew, marketVars, cacheVars
<1>3. ASSUME NEW h, hand' = [hand EXCEPT ![e] = h], h = Idle \/ h.step = "read"
      PROVE  NothingNew(k)
  BY <1>1, <1>3 DEF Handles, At, Busy, NothingNew, marketVars, cacheVars, PlTyped, EngineTyped
<1>4. ASSUME NEW j, Begin(e, j) PROVE NothingNew(k)
  <2> DEFINE h == [key |-> j, step |-> "read", ind |-> None, reg |-> None]
  <2>1. hand' = [hand EXCEPT ![e] = h] /\ h.step = "read"
    BY <1>4 DEF Begin
  <2> HIDE DEF h
  <2> QED
    BY <2>1, <1>3
<1>5. Finish(e) => NothingNew(k)
  BY <1>3 DEF Finish
<1> QED
  BY <1>1, <1>2, <1>4, <1>5 DEF EngineActs, StartCold, NextCold, Subscribe, Receive,
     Disconnect, Restart, HandlerFails, marketVars

\* What each step of a handler does to the order of what is known of k.
LEMMA OrderedIndicatorReads ==
    ASSUME PlTyped, NEW k \in Key, Ordered(k), IndicatorReads
    PROVE  Ordered(k)'
<1> DEFINE e == "indicator"
           j == hand[e].key
           new == Computed(j)
           h == IF new = None THEN Idle
                ELSE [key |-> j, step |-> "write", ind |-> new, reg |-> hand[e].reg]
<1>1. /\ hand' = [hand EXCEPT ![e] = h] /\ e \in Engine /\ Engine = {e, "regime", "strategy"}
      /\ UNCHANGED <<marketVars, cacheVars>>
  BY IndicatorReadsMoves DEF IndicatorReads, HandlerFrame, Engine, ReadsInd
<1>2. Handles(e, k, "write")' => hand'[e].ind = Computed(k)
  BY <1>1 DEF Handles, At, Busy, PlTyped, EngineTyped
<1>3. /\ Handles("regime", k, "write")' <=> Handles("regime", k, "write")
      /\ Handles("strategy", k, "write")' <=> Handles("strategy", k, "write")
      /\ hand'["regime"] = hand["regime"]
  BY <1>1 DEF Handles, At, Busy, PlTyped, EngineTyped
<1>4. Computed(k)' = Computed(k) /\ Computed(k) <= Computed(k)
  BY <1>1, PipelineNumbers, PastNumbers DEF Computed, marketVars
<1> HIDE DEF h
<1> QED
  BY <1>1, <1>2, <1>3, <1>4 DEF Ordered, marketVars, cacheVars

LEMMA OrderedIndicatorWrites ==
    ASSUME PlTyped, NEW k \in Key, Ordered(k), IndicatorWrites
    PROVE  Ordered(k)' /\ indicator[k] <= indicator'[k]
<1> DEFINE e == "indicator"
           j == hand[e].key
<1>1. /\ hand' = [hand EXCEPT ![e] = Idle] /\ e \in Engine /\ At(e, "write") /\ Busy(e)
      /\ Engine = {e, "regime", "strategy"}
      /\ UNCHANGED <<marketVars, regime, signal>>
      /\ indicator' = [indicator EXCEPT ![j] = hand[e].ind]
  BY DEF IndicatorWrites, HandlerFrame, Engine, Finish, At
<1>2. ~ Handles(e, k, "write")'
  BY <1>1 DEF Handles, At, Busy, PlTyped, EngineTyped
<1>3. /\ Handles("regime", k, "write")' <=> Handles("regime", k, "write")
      /\ Handles("strategy", k, "write")' <=> Handles("strategy", k, "write")
      /\ hand'["regime"] = hand["regime"]
  BY <1>1 DEF Handles, At, Busy, PlTyped, EngineTyped
<1>4. Computed(k)' = Computed(k)
  BY <1>1 DEF Computed, marketVars
<1>5. indicator[k] <= indicator'[k] /\ indicator'[k] <= Computed(k) /\ indicator'[k] \in Past
  <2>1. CASE j = k
    <3>1. indicator'[k] = hand[e].ind /\ hand[e].ind \in Past
      BY <1>1, <2>1, HandFields DEF PlTyped, CacheTyped
    <3> QED
      BY <1>1, <2>1, <3>1 DEF Ordered, Handles
  <2>2. CASE j # k
    <3>1. indicator'[k] = indicator[k]
      BY <1>1, <2>2
    <3> QED
      BY <3>1, PipelineNumbers, PastNumbers DEF Ordered
  <2> QED
    BY <2>1, <2>2
<1>6. regime[k] <= indicator'[k]
  BY <1>5, PipelineNumbers, PastNumbers DEF Ordered
<1>7. Handles("regime", k, "write") =>
          regime[k] <= hand["regime"].ind /\ hand["regime"].ind <= indicator'[k]
  <2> SUFFICES ASSUME Handles("regime", k, "write")
               PROVE  regime[k] <= hand["regime"].ind /\ hand["regime"].ind <= indicator'[k]
    OBVIOUS
  <2>1. hand["regime"].ind \in Past
    BY <1>1, HandFields DEF Handles, At, PlTyped
  <2> QED
    BY <1>5, <2>1, PipelineNumbers, PastNumbers DEF Ordered
<1> QED
  BY <1>1, <1>2, <1>3, <1>4, <1>5, <1>6, <1>7 DEF Ordered, marketVars

LEMMA OrderedRegimeReads ==
    ASSUME PlTyped, NEW k \in Key, Ordered(k), RegimeReads
    PROVE  Ordered(k)'
<1> DEFINE e == "regime"
           j == hand[e].key
           cached == indicator[j]
           h == IF cached = None THEN Idle
                ELSE [key |-> j, step |-> "write", ind |-> cached, reg |-> hand[e].reg]
<1>1. /\ hand' = [hand EXCEPT ![e] = h] /\ e \in Engine /\ Engine = {e, "indicator", "strategy"}
      /\ UNCHANGED <<marketVars, cacheVars>>
  BY RegimeReadsMoves DEF RegimeReads, HandlerFrame, Engine, ReadsInd
<1>2. Handles(e, k, "write")' => hand'[e].ind = indicator[k]
  BY <1>1 DEF Handles, At, Busy, PlTyped, EngineTyped
<1>3. /\ Handles("indicator", k, "write")' <=> Handles("indicator", k, "write")
      /\ Handles("strategy", k, "write")' <=> Handles("strategy", k, "write")
      /\ hand'["indicator"] = hand["indicator"]
  BY <1>1 DEF Handles, At, Busy, PlTyped, EngineTyped
<1>4. Computed(k)' = Computed(k) /\ indicator[k] <= indicator[k]
  BY <1>1, PipelineNumbers, PastNumbers DEF Computed, marketVars
<1> HIDE DEF h
<1> QED
  BY <1>1, <1>2, <1>3, <1>4 DEF Ordered, marketVars, cacheVars

LEMMA OrderedRegimeWrites ==
    ASSUME PlTyped, NEW k \in Key, Ordered(k), RegimeWrites
    PROVE  Ordered(k)' /\ regime[k] <= regime'[k] /\ regime'[k] \in Past
<1> DEFINE e == "regime"
           j == hand[e].key
<1>1. /\ hand' = [hand EXCEPT ![e] = Idle] /\ e \in Engine /\ At(e, "write") /\ Busy(e)
      /\ Engine = {e, "indicator", "strategy"}
      /\ UNCHANGED <<marketVars, indicator, signal>>
      /\ regime' = [regime EXCEPT ![j] = hand[e].ind]
  BY DEF RegimeWrites, HandlerFrame, Engine, Finish, At
<1>2. ~ Handles(e, k, "write")'
  BY <1>1 DEF Handles, At, Busy, PlTyped, EngineTyped
<1>3. /\ Handles("indicator", k, "write")' <=> Handles("indicator", k, "write")
      /\ Handles("strategy", k, "write")' <=> Handles("strategy", k, "write")
      /\ hand'["indicator"] = hand["indicator"]
  BY <1>1 DEF Handles, At, Busy, PlTyped, EngineTyped
<1>4. Computed(k)' = Computed(k)
  BY <1>1 DEF Computed, marketVars
<1>5. regime[k] <= regime'[k] /\ regime'[k] <= indicator[k] /\ regime'[k] \in Past
  <2>1. CASE j = k
    <3>1. regime'[k] = hand[e].ind /\ hand[e].ind \in Past
      BY <1>1, <2>1, HandFields DEF PlTyped, CacheTyped
    <3> QED
      BY <1>1, <2>1, <3>1 DEF Ordered, Handles
  <2>2. CASE j # k
    <3>1. regime'[k] = regime[k]
      BY <1>1, <2>2
    <3> QED
      BY <3>1, PipelineNumbers, PastNumbers DEF Ordered
  <2> QED
    BY <2>1, <2>2
<1>6. regime[k] # None => regime'[k] # None
  BY <1>5, PipelineNumbers, PastNumbers
<1> QED
  BY <1>1, <1>2, <1>3, <1>4, <1>5, <1>6 DEF Ordered, marketVars

LEMMA OrderedStrategyReads ==
    ASSUME PlTyped, NEW k \in Key, Ordered(k), StrategyReadsIndicator \/ StrategyReadsRegime
    PROVE  Ordered(k)'
<1> DEFINE e == "strategy"
<1>1. /\ e \in Engine /\ Engine = {e, "indicator", "regime"}
      /\ UNCHANGED <<marketVars, cacheVars>>
      /\ \E h : hand' = [hand EXCEPT ![e] = h]
  BY StrategyReadsIndicatorMoves, StrategyReadsRegimeMoves
     DEF StrategyReadsIndicator, StrategyReadsRegime, HandlerFrame, Engine, ReadsInd
<1>2. /\ Handles("indicator", k, "write")' <=> Handles("indicator", k, "write")
      /\ Handles("regime", k, "write")' <=> Handles("regime", k, "write")
      /\ hand'["indicator"] = hand["indicator"] /\ hand'["regime"] = hand["regime"]
  BY <1>1 DEF Handles, At, Busy, PlTyped, EngineTyped
<1>3. Handles(e, k, "write")' => regime[k] # None
  <2>1. CASE StrategyReadsIndicator
    <3> DEFINE h == IF indicator[hand[e].key] = None THEN Idle
                    ELSE [key |-> hand[e].key, step |-> "read2",
                          ind |-> indicator[hand[e].key], reg |-> hand[e].reg]
    <3>1. hand' = [hand EXCEPT ![e] = h]
      BY <2>1, StrategyReadsIndicatorMoves DEF ReadsInd
    <3>2. h # Idle => h.step = "read2"
      OBVIOUS
    <3> HIDE DEF h
    <3> QED
      BY <1>1, <3>1, <3>2 DEF Handles, At, Busy, PlTyped, EngineTyped
  <2>2. CASE StrategyReadsRegime
    <3> DEFINE h == IF regime[hand[e].key] = None THEN Idle
                    ELSE [key |-> hand[e].key, step |-> "write",
                          ind |-> hand[e].ind, reg |-> regime[hand[e].key]]
    <3>1. hand' = [hand EXCEPT ![e] = h]
      BY <2>2, StrategyReadsRegimeMoves
    <3>2. h # Idle => regime[h.key] # None
      OBVIOUS
    <3> HIDE DEF h
    <3> QED
      BY <1>1, <3>1, <3>2 DEF Handles, At, Busy, PlTyped, EngineTyped
  <2> QED
    BY <2>1, <2>2
<1>4. Computed(k)' = Computed(k)
  BY <1>1 DEF Computed, marketVars
<1> QED
  BY <1>1, <1>2, <1>3, <1>4 DEF Ordered, marketVars, cacheVars

LEMMA OrderedStrategyWrites ==
    ASSUME PlTyped, NEW k \in Key, Ordered(k), StrategyWrites
    PROVE  Ordered(k)'
<1> DEFINE e == "strategy"
           j == hand[e].key
           s == [ind |-> hand[e].ind, reg |-> hand[e].reg]
<1>1. /\ hand' = [hand EXCEPT ![e] = Idle] /\ e \in Engine /\ At(e, "write") /\ Busy(e)
      /\ Engine = {e, "indicator", "regime"}
      /\ UNCHANGED <<marketVars, indicator, regime>>
      /\ signal' = [signal EXCEPT ![j] = s]
  BY DEF StrategyWrites, HandlerFrame, Engine, Finish, At
<1>2. ~ Handles(e, k, "write")'
  BY <1>1 DEF Handles, At, Busy, PlTyped, EngineTyped
<1>3. /\ Handles("indicator", k, "write")' <=> Handles("indicator", k, "write")
      /\ Handles("regime", k, "write")' <=> Handles("regime", k, "write")
      /\ hand'["indicator"] = hand["indicator"] /\ hand'["regime"] = hand["regime"]
  BY <1>1 DEF Handles, At, Busy, PlTyped, EngineTyped
<1>4. Computed(k)' = Computed(k)
  BY <1>1 DEF Computed, marketVars
<1>5. signal'[k].ind # None => regime[k] # None
  <2>1. CASE j = k
    BY <1>1, <2>1 DEF Ordered, Handles
  <2>2. CASE j # k
    <3>1. signal'[k] = signal[k]
      BY <1>1, <2>2
    <3> QED
      BY <3>1 DEF Ordered
  <2> QED
    BY <2>1, <2>2
<1> QED
  BY <1>1, <1>2, <1>3, <1>4, <1>5 DEF Ordered, marketVars

\* An announcement is no newer than what can be computed.
LEMMA OrderedPublished ==
    ASSUME PlTyped, NEW k \in Key, Ordered(k), Published(k)
    PROVE  Ordered(k)'
<1>1. /\ announced' = [announced EXCEPT ![k] = Append(Tail(announced[k]), Computed(k))]
      /\ UNCHANGED <<table, hand, cacheVars>>
  BY DEF Published, Deliver
<1>2. announced[k] \in Seq(Past) /\ Len(announced[k]) = 3
  BY DEF PlTyped, MarketTyped
<1>3. /\ announced'[k][1] = announced[k][2] /\ announced'[k][2] = announced[k][3]
      /\ announced'[k][3] = Computed(k)
  <2>1. announced'[k] = Append(Tail(announced[k]), Computed(k))
    BY <1>1 DEF PlTyped, MarketTyped
  <2>2. Computed(k) \in Past
    BY PipelineNumbers
  <2> QED
    BY <1>2, <2>1, <2>2, TripleShifts
<1>4. Computed(k)' = Computed(k) /\ Computed(k) <= Computed(k)
  BY <1>1, PipelineNumbers, PastNumbers DEF Computed
<1>5. \A e, step : Handles(e, k, step)' <=> Handles(e, k, step)
  BY <1>1 DEF Handles, At, Busy
<1> QED
  BY <1>1, <1>3, <1>4, <1>5 DEF Ordered, cacheVars

\* What is known of k stays in order, whatever happens.
LEMMA OrderedKept ==
    ASSUME PlTyped, PlTyped', [Next]_vars, NEW k \in Key, Ordered(k),
           Computed(k) <= Computed(k)'
    PROVE  Ordered(k)'
<1>1. (announced'[k] = announced[k] /\ UNCHANGED <<hand, cacheVars>>) => Ordered(k)'
  <2>1. ASSUME announced'[k] = announced[k], UNCHANGED <<hand, cacheVars>>
        PROVE  NothingNew(k)
    BY <2>1 DEF NothingNew, Handles, At, Busy, cacheVars
  <2> QED
    BY <2>1, OrderedWithNothingNew
<1>2. CASE Tick \/ collect_once \/ UNCHANGED vars
  BY <1>1, <1>2 DEF Tick, collect_once, vars, engineVars, cacheVars
<1>3. ASSUME NEW j \in Key, Stored(j) \/ TaskFails(j) PROVE Ordered(k)'
  BY <1>1, <1>3 DEF Stored, TaskFails, engineVars
<1>4. ASSUME NEW j \in Key, Published(j) PROVE Ordered(k)'
  <2>1. CASE j = k
    BY <1>4, <2>1, OrderedPublished
  <2>2. CASE j # k
    BY <1>1, <1>4, <2>2 DEF Published, Deliver, PlTyped, MarketTyped
  <2> QED
    BY <2>1, <2>2
<1>5. ASSUME NEW e \in Engine, EngineActs(e) PROVE Ordered(k)'
  BY <1>5, EngineActsNothingNew, OrderedWithNothingNew
<1>6. CASE HandlerActs
  BY <1>6, OrderedIndicatorReads, OrderedIndicatorWrites, OrderedRegimeReads,
     OrderedRegimeWrites, OrderedStrategyReads, OrderedStrategyWrites DEF HandlerActs
<1> QED
  BY <1>2, <1>3, <1>4, <1>5, <1>6, NextCases
-----------------------------------------------------------------------------
\* A queue with one more message, and one with its first message taken.
LEMMA AppendTells ==
    ASSUME NEW q \in Seq(Key), NEW j \in Key, NEW k
    PROVE  (\E i \in 1 .. Len(Append(q, j)) : Append(q, j)[i] = k)
               <=> (\E i \in 1 .. Len(q) : q[i] = k) \/ j = k
<1>1. /\ Len(Append(q, j)) = Len(q) + 1 /\ Append(q, j)[Len(q) + 1] = j /\ Len(q) \in Nat
      /\ \A i \in 1 .. Len(q) : Append(q, j)[i] = q[i]
  BY AppendProperties
<1>2. ASSUME NEW i \in 1 .. Len(q) + 1 PROVE i \in 1 .. Len(q) \/ i = Len(q) + 1
  BY <1>1
<1>3. Len(q) + 1 \in 1 .. Len(q) + 1 /\ 1 .. Len(q) \subseteq 1 .. Len(q) + 1
  BY <1>1
<1> QED
  BY <1>1, <1>2, <1>3

\* Taking a message from the queue leaves the announcements behind it.
LEMMA TailTells ==
    ASSUME NEW q \in Seq(Key), q # <<>>, NEW k
    PROVE  (\E i \in 1 .. Len(q) : q[i] = k)
               <=> Head(q) = k \/ \E i \in 1 .. Len(Tail(q)) : Tail(q)[i] = k
<1>1. /\ Len(Tail(q)) = Len(q) - 1 /\ Len(q) \in Nat \ {0} /\ Head(q) = q[1]
      /\ \A i \in 1 .. Len(Tail(q)) : Tail(q)[i] = q[i + 1]
  BY HeadTailProperties
<1>2. ASSUME NEW i \in 1 .. Len(q), q[i] = k
      PROVE  q[1] = k \/ \E l \in 1 .. Len(Tail(q)) : Tail(q)[l] = k
  <2>1. CASE i = 1
    BY <1>2, <2>1
  <2>2. CASE i # 1
    <3>1. i - 1 \in 1 .. Len(Tail(q)) /\ (i - 1) + 1 = i
      BY <1>1, <2>2
    <3> QED
      BY <1>1, <1>2, <3>1
  <2> QED
    BY <2>1, <2>2
<1>3. ASSUME NEW i \in 1 .. Len(Tail(q)), Tail(q)[i] = k
      PROVE  \E l \in 1 .. Len(q) : q[l] = k
  <2>1. i + 1 \in 1 .. Len(q)
    BY <1>1
  <2> QED
    BY <1>1, <1>3, <2>1
<1>4. 1 \in 1 .. Len(q)
  BY <1>1
<1> QED
  BY <1>1, <1>2, <1>3, <1>4

\* Engine e is where it was with k: as much told, and the same in hand.
SameFor(e, k) ==
    /\ Awaits(e, k)' <=> Awaits(e, k)
    /\ \A step \in {"read2", "write"} : /\ Handles(e, k, step)' <=> Handles(e, k, step)
                                        /\ Handles(e, k, step) => hand'[e] = hand[e]

\* A step that leaves an engine alone leaves what it is told and handles.
LEMMA SameForOthers ==
    ASSUME NEW e, NEW k, hand'[e] = hand[e], inbox'[e] = inbox[e]
    PROVE  SameFor(e, k)
BY DEF SameFor, Awaits, Told, Handles, At, Busy

\* An engine that works on another key is the same for k.
LEMMA SameForOtherKeys ==
    ASSUME NEW e, NEW k, inbox'[e] = inbox[e], hand[e].key # k,
           hand'[e] = Idle \/ hand'[e].key # k
    PROVE  SameFor(e, k)
BY DEF SameFor, Awaits, Told, Handles, At, Busy

\* The lag of k as before: nothing of k has changed for any engine.
LEMMA LagUnaffected ==
    ASSUME NEW k, Lag(k), calm'[k] = calm[k], announced'[k] = announced[k], mode' = mode,
           indicator'[k] = indicator[k], regime'[k] = regime[k], signal'[k] = signal[k],
           \A e \in Engine : SameFor(e, k)
    PROVE  Lag(k)'
<1>1. {"indicator", "regime", "strategy"} = Engine
  BY DEF Engine
<1>2. SameFor("indicator", k) /\ SameFor("regime", k) /\ SameFor("strategy", k)
  BY <1>1
<1>3. IndicatorFollows(k)'
  BY <1>2 DEF Lag, IndicatorFollows, SameFor
<1>4. RegimeFollows(k)'
  BY <1>2 DEF Lag, RegimeFollows, SameFor
<1>5. SignalFollows(k)'
  BY <1>2 DEF Lag, SignalFollows, SameFor
<1> QED
  BY <1>3, <1>4, <1>5 DEF Lag

\* After a failure the count of announcements begins again.
LEMMA LagAfterFailure ==
    ASSUME NEW k, calm'[k] = 0
    PROVE  Lag(k)'
BY DEF Lag, IndicatorFollows, RegimeFollows, SignalFollows

\* What an engine takes from its queue it has in hand: the lag stays.
LEMMA LagEngineActs ==
    ASSUME PlTyped, NEW e \in Engine, EngineActs(e), NEW k \in Key, Lag(k)
    PROVE  Lag(k)'
<1>1. CASE Disconnect(e) \/ Restart(e) \/ HandlerFails(e)
  BY <1>1, LagAfterFailure DEF Disconnect, Restart, HandlerFails
<1>2. CASE StartCold(e) \/ NextCold(e) \/ Subscribe(e)
  <2>1. mode[e] # "listen" /\ calm' = calm
    BY <1>2 DEF StartCold, NextCold, Subscribe
  <2>2. calm[k] = 0
    BY <2>1 DEF Lag, PlTyped, MarketTyped
  <2> QED
    BY <2>1, <2>2, LagAfterFailure
<1>3. CASE Receive(e)
  <2> DEFINE q == inbox[e]
             h == [key |-> Head(q), step |-> "read", ind |-> None, reg |-> None]
  <2>1. /\ q \in Seq(Key) /\ q # <<>> /\ ~Busy(e) /\ h.step = "read" /\ h.key = Head(q)
        /\ hand' = [hand EXCEPT ![e] = h] /\ inbox' = [inbox EXCEPT ![e] = Tail(q)]
        /\ UNCHANGED <<marketVars, calm, mode, cacheVars>>
    BY <1>3 DEF Receive, Begin, PlTyped, EngineTyped
  <2>2. h # Idle
    BY DEF Idle
  <2>3. (\E i \in 1 .. Len(q) : q[i] = k)
            <=> Head(q) = k \/ \E i \in 1 .. Len(Tail(q)) : Tail(q)[i] = k
    BY <2>1, TailTells
  <2> HIDE DEF h
  <2>4. hand'[e] = h /\ inbox'[e] = Tail(q)
    BY <2>1 DEF PlTyped, EngineTyped
  <2>5. SameFor(e, k)
    BY <2>1, <2>2, <2>3, <2>4 DEF SameFor, Awaits, Told, Handles, At, Busy
  <2>6. ASSUME NEW f \in Engine \ {e} PROVE SameFor(f, k)
    <3>1. hand'[f] = hand[f] /\ inbox'[f] = inbox[f]
      BY <2>1 DEF PlTyped, EngineTyped
    <3> QED
      BY <3>1, SameForOthers
  <2> QED
    BY <2>1, <2>5, <2>6, LagUnaffected DEF marketVars, cacheVars
<1> QED
  BY <1>1, <1>2, <1>3 DEF EngineActs

\* An announcement of another symbol tells nobody of k; one of k tells everybody.
LEMMA LagPublished ==
    ASSUME PlTyped, NEW j \in Key, Published(j), NEW k \in Key, Ordered(k), Lag(k)
    PROVE  Lag(k)'
<1>1. /\ UNCHANGED <<table, mode, hand, cacheVars>>
      /\ inbox' = [e \in Engine |-> IF mode[e] = "listen" THEN Append(inbox[e], j)
                                                          ELSE inbox[e]]
      /\ announced' = [announced EXCEPT ![j] = Append(Tail(announced[j]), Computed(j))]
  BY DEF Published, Deliver
<1>2. ASSUME NEW e \in Engine
      PROVE  Told(e, k)' <=> Told(e, k) \/ (mode[e] = "listen" /\ j = k)
  <2>1. CASE mode[e] = "listen"
    <3>1. inbox[e] \in Seq(Key) /\ inbox'[e] = Append(inbox[e], j)
      BY <1>1, <2>1 DEF PlTyped, EngineTyped
    <3>2. (\E i \in 1 .. Len(Append(inbox[e], j)) : Append(inbox[e], j)[i] = k)
              <=> (\E i \in 1 .. Len(inbox[e]) : inbox[e][i] = k) \/ j = k
      BY <3>1, AppendTells
    <3> QED
      BY <2>1, <3>1, <3>2 DEF Told
  <2>2. CASE mode[e] # "listen"
    <3>1. inbox'[e] = inbox[e]
      BY <1>1, <2>2
    <3> QED
      BY <2>2, <3>1 DEF Told
  <2> QED
    BY <2>1, <2>2
<1>3. CASE j # k
  <2>1. calm'[k] = calm[k] /\ announced'[k] = announced[k]
    BY <1>3 DEF Published, Deliver, PlTyped, MarketTyped
  <2>2. ASSUME NEW e \in Engine PROVE SameFor(e, k)
    BY <1>1, <1>2, <1>3 DEF SameFor, Awaits, Handles, At, Busy
  <2> QED
    BY <1>1, <2>1, <2>2, LagUnaffected DEF cacheVars
<1>4. CASE j = k
  <2>1. announced[k] \in Seq(Past) /\ Len(announced[k]) = 3 /\ Computed(k) \in Past
    BY ComputedTyped DEF PlTyped, MarketTyped
  <2>2. announced'[k] = Append(Tail(announced[k]), Computed(k))
    BY <1>1, <1>4 DEF PlTyped, MarketTyped
  <2>3. announced'[k][1] = announced[k][2] /\ announced'[k][2] = announced[k][3]
    BY <2>1, <2>2, TripleShifts
  <2>4. calm[k] \in 0 .. 3
    BY DEF PlTyped, MarketTyped
  <2>5. CASE ~ \A e \in Engine : Settled(e, k)
    <3>1. calm'[k] = IF \A e \in Engine : mode[e] = "listen" THEN 1 ELSE 0
      BY <1>4, <2>5 DEF Published, Deliver, PlTyped, MarketTyped
    <3>2. CASE \A e \in Engine : mode[e] = "listen"
      <4>1. calm'[k] = 1
        BY <3>1, <3>2
      <4>2. Awaits("indicator", k)'
        BY <1>2, <1>4, <3>2 DEF Awaits, Engine
      <4> QED
        BY <1>1, <3>2, <4>1, <4>2 DEF Lag, IndicatorFollows, RegimeFollows, SignalFollows
    <3>3. CASE ~ \A e \in Engine : mode[e] = "listen"
      BY <3>1, <3>3, LagAfterFailure
    <3> QED
      BY <3>2, <3>3
  <2>6. CASE \A e \in Engine : Settled(e, k)
    <3>1. calm'[k] = (IF calm[k] < 3 THEN calm[k] + 1 ELSE 3)
      BY <1>4, <2>6 DEF Published, Deliver, PlTyped, MarketTyped
    <3>2. ASSUME NEW e \in Engine
          PROVE  /\ mode[e] = "listen" /\ ~Awaits(e, k) /\ Awaits(e, k)'
                 /\ ~Handles(e, k, "write")
      BY <1>2, <1>4, <2>6 DEF Settled, Awaits, Told, Handles
    <3>3. {"indicator", "regime", "strategy"} = Engine
      BY DEF Engine
    <3>4. calm'[k] >= 2 => indicator[k] >= announced[k][3]
      BY <2>4, <3>1, <3>2, <3>3 DEF Lag, IndicatorFollows
    <3>5. calm'[k] >= 3 => regime[k] >= announced[k][2]
      BY <2>4, <3>1, <3>2, <3>3 DEF Lag, RegimeFollows
    <3>6. IndicatorFollows(k)' /\ RegimeFollows(k)' /\ SignalFollows(k)'
      BY <1>1, <2>3, <3>2, <3>3, <3>4, <3>5
         DEF IndicatorFollows, RegimeFollows, SignalFollows, cacheVars
    <3> QED
      BY <1>1, <3>2, <3>6 DEF Lag
  <2> QED
    BY <2>5, <2>6
<1> QED
  BY <1>3, <1>4

\* The indicator engine reads a table that is no older than the last announcement.
LEMMA LagIndicatorReads ==
    ASSUME PlTyped, IndicatorReads, NEW k \in Key, Ordered(k), Lag(k)
    PROVE  Lag(k)'
<1> DEFINE e == "indicator"
           j == hand[e].key
           new == Computed(j)
           h == IF new = None THEN Idle
                ELSE [key |-> j, step |-> "write", ind |-> new, reg |-> hand[e].reg]
<1>1. /\ hand' = [hand EXCEPT ![e] = h] /\ e \in Engine /\ Engine = {e, "regime", "strategy"}
      /\ UNCHANGED <<marketVars, calm, mode, inbox, cacheVars>> /\ At(e, "read")
  BY IndicatorReadsMoves DEF IndicatorReads, HandlerFrame, Engine, ReadsInd
<1>2. hand'[e] = h /\ hand'["regime"] = hand["regime"] /\ hand'["strategy"] = hand["strategy"]
  BY <1>1 DEF PlTyped, EngineTyped
<1>3. SameFor("regime", k) /\ SameFor("strategy", k)
  BY <1>1, <1>2, SameForOthers
<1>4. CASE j # k
  <2>1. hand'[e] = Idle \/ hand'[e].key # k
    BY <1>2, <1>4
  <2>2. SameFor(e, k)
    BY <1>1, <1>4, <2>1, SameForOtherKeys
  <2> QED
    BY <1>1, <1>3, <2>2, LagUnaffected DEF marketVars, cacheVars
<1>5. CASE j = k
  <2>1. Handles(e, k, "write")' => hand'[e].ind = Computed(k)
    BY <1>2, <1>5 DEF Handles, At, Busy
  <2>2. ~Handles(e, k, "write")' => Computed(k) = None
    BY <1>2, <1>5 DEF Handles, At, Busy, Idle
  <2>3. announced[k][3] <= Computed(k) /\ Computed(k) >= announced[k][3]
    BY PipelineNumbers, PastNumbers DEF Ordered
  <2>4. Computed(k) = None => indicator[k] >= announced[k][3]
    <3>1. ASSUME Computed(k) = None PROVE announced[k][3] <= -1 /\ -1 <= indicator[k]
      BY <2>3, <3>1, PipelineNumbers, PastNumbers DEF None
    <3> QED
      BY <3>1, PipelineNumbers, PastNumbers
  <2>5. IndicatorFollows(k)'
    BY <1>1, <2>1, <2>2, <2>3, <2>4 DEF IndicatorFollows, marketVars, cacheVars
  <2>6. RegimeFollows(k)'
    BY <1>1, <1>3 DEF Lag, RegimeFollows, SameFor, marketVars, cacheVars
  <2>7. SignalFollows(k)'
    BY <1>1, <1>3 DEF Lag, SignalFollows, SameFor, marketVars, cacheVars
  <2> QED
    BY <1>1, <2>5, <2>6, <2>7 DEF Lag
<1> QED
  BY <1>4, <1>5

\* The lag of k is kept by each remaining step of the handlers.
LEMMA LagIndicatorWrites ==
    ASSUME PlTyped, IndicatorWrites, NEW k \in Key, Ordered(k), Lag(k)
    PROVE  Lag(k)'
<1> DEFINE e == "indicator"
           j == hand[e].key
<1>1. /\ hand' = [hand EXCEPT ![e] = Idle] /\ e \in Engine /\ Engine = {e, "regime", "strategy"}
      /\ UNCHANGED <<marketVars, calm, mode, inbox, regime, signal>>
      /\ At(e, "write") /\ Busy(e) /\ indicator' = [indicator EXCEPT ![j] = hand[e].ind]
  BY DEF IndicatorWrites, HandlerFrame, Engine, Finish, At
<1>2. hand'[e] = Idle /\ hand'["regime"] = hand["regime"] /\ hand'["strategy"] = hand["strategy"]
  BY <1>1 DEF PlTyped, EngineTyped
<1>3. SameFor("regime", k) /\ SameFor("strategy", k)
  BY <1>1, <1>2, SameForOthers
<1>4. CASE j # k
  <2>1. SameFor(e, k)
    BY <1>1, <1>2, <1>4, SameForOtherKeys
  <2>2. indicator'[k] = indicator[k]
    BY <1>1, <1>4
  <2> QED
    BY <1>1, <1>3, <2>1, <2>2, LagUnaffected DEF marketVars
<1>5. CASE j = k
  <2>1. indicator'[k] = hand[e].ind /\ hand[e].ind \in Past
    BY <1>1, <1>5, HandFields DEF PlTyped, CacheTyped
  <2>2. /\ ~Handles(e, k, "write")' /\ Handles(e, k, "write") /\ ~Handles(e, k, "read")
        /\ Awaits(e, k)' <=> Awaits(e, k)
    BY <1>1, <1>2, <1>5 DEF Handles, At, Busy, Awaits, Told
  <2>3. IndicatorFollows(k)'
    BY <1>1, <2>1, <2>2 DEF Lag, IndicatorFollows, marketVars
  <2>4. indicator[k] <= indicator'[k]
    BY OrderedIndicatorWrites
  <2>5. calm[k] >= 2 => indicator'[k] >= announced[k][2]
    BY <2>1, <2>4, PipelineNumbers, PastNumbers DEF Lag, RegimeFollows
  <2>6. RegimeFollows(k)'
    BY <1>1, <1>3, <2>5 DEF Lag, RegimeFollows, SameFor, marketVars
  <2>7. SignalFollows(k)'
    BY <1>1, <1>3 DEF Lag, SignalFollows, SameFor, marketVars
  <2> QED
    BY <1>1, <2>3, <2>6, <2>7 DEF Lag
<1> QED
  BY <1>4, <1>5

LEMMA LagRegimeReads ==
    ASSUME PlTyped, RegimeReads, NEW k \in Key, Ordered(k), Lag(k)
    PROVE  Lag(k)'
<1> DEFINE e == "regime"
           j == hand[e].key
           cached == indicator[j]
           h == IF cached = None THEN Idle
                ELSE [key |-> j, step |-> "write", ind |-> cached, reg |-> hand[e].reg]
<1>1. /\ hand' = [hand EXCEPT ![e] = h] /\ e \in Engine /\ Engine = {e, "indicator", "strategy"}
      /\ UNCHANGED <<marketVars, calm, mode, inbox, cacheVars>> /\ At(e, "read")
  BY RegimeReadsMoves DEF RegimeReads, HandlerFrame, Engine, ReadsInd
<1>2. /\ hand'[e] = h /\ hand'["indicator"] = hand["indicator"]
      /\ hand'["strategy"] = hand["strategy"]
  BY <1>1 DEF PlTyped, EngineTyped
<1>3. SameFor("indicator", k) /\ SameFor("strategy", k)
  BY <1>1, <1>2, SameForOthers
<1>4. CASE j # k
  <2>1. hand'[e] = Idle \/ hand'[e].key # k
    BY <1>2, <1>4
  <2>2. SameFor(e, k)
    BY <1>1, <1>4, <2>1, SameForOtherKeys
  <2> QED
    BY <1>1, <1>3, <2>2, LagUnaffected DEF marketVars, cacheVars
<1>5. CASE j = k
  <2>1. Handles(e, k, "write")' => hand'[e].ind = indicator[k]
    BY <1>2, <1>5 DEF Handles, At, Busy
  <2>2. ~Handles(e, k, "write")' => indicator[k] = None
    BY <1>2, <1>5 DEF Handles, At, Busy, Idle
  <2>3. calm[k] >= 2 => indicator[k] >= announced[k][2]
    BY DEF Lag, RegimeFollows
  <2>4. calm[k] >= 2 /\ indicator[k] = None => regime[k] >= announced[k][2]
    <3>1. ASSUME calm[k] >= 2, indicator[k] = None
          PROVE  announced[k][2] <= -1 /\ -1 <= regime[k]
      BY <2>3, <3>1, PipelineNumbers, PastNumbers DEF None
    <3> QED
      BY <3>1, PipelineNumbers, PastNumbers
  <2>5. RegimeFollows(k)'
    BY <1>1, <2>1, <2>2, <2>3, <2>4 DEF RegimeFollows, marketVars, cacheVars
  <2>6. IndicatorFollows(k)'
    BY <1>1, <1>3 DEF Lag, IndicatorFollows, SameFor, marketVars, cacheVars
  <2>7. SignalFollows(k)'
    BY <1>1, <1>3 DEF Lag, SignalFollows, SameFor, marketVars, cacheVars
  <2> QED
    BY <1>1, <2>5, <2>6, <2>7 DEF Lag
<1> QED
  BY <1>4, <1>5

LEMMA LagRegimeWrites ==
    ASSUME PlTyped, RegimeWrites, NEW k \in Key, Ordered(k), Lag(k)
    PROVE  Lag(k)'
<1> DEFINE e == "regime"
           j == hand[e].key
<1>1. /\ hand' = [hand EXCEPT ![e] = Idle] /\ e \in Engine /\ Engine = {e, "indicator", "strategy"}
      /\ UNCHANGED <<marketVars, calm, mode, inbox, indicator, signal>>
      /\ At(e, "write") /\ Busy(e) /\ regime' = [regime EXCEPT ![j] = hand[e].ind]
  BY DEF RegimeWrites, HandlerFrame, Engine, Finish, At
<1>2. /\ hand'[e] = Idle /\ hand'["indicator"] = hand["indicator"]
      /\ hand'["strategy"] = hand["strategy"]
  BY <1>1 DEF PlTyped, EngineTyped
<1>3. SameFor("indicator", k) /\ SameFor("strategy", k)
  BY <1>1, <1>2, SameForOthers
<1>4. CASE j # k
  <2>1. SameFor(e, k)
    BY <1>1, <1>2, <1>4, SameForOtherKeys
  <2>2. regime'[k] = regime[k]
    BY <1>1, <1>4
  <2> QED
    BY <1>1, <1>3, <2>1, <2>2, LagUnaffected DEF marketVars
<1>5. CASE j = k
  <2>1. regime'[k] = hand[e].ind /\ hand[e].ind \in Past
    BY <1>1, <1>5, HandFields DEF PlTyped, CacheTyped
  <2>2. /\ ~Handles(e, k, "write")' /\ Handles(e, k, "write") /\ ~Handles(e, k, "read")
        /\ Awaits(e, k)' <=> Awaits(e, k)
    BY <1>1, <1>2, <1>5 DEF Handles, At, Busy, Awaits, Told
  <2>3. RegimeFollows(k)'
    BY <1>1, <2>1, <2>2 DEF Lag, RegimeFollows, marketVars
  <2>4. calm[k] >= 3 => regime'[k] >= announced[k][1]
    <3>1. regime[k] <= regime'[k] /\ regime'[k] \in Past
      BY OrderedRegimeWrites
    <3> QED
      BY <3>1, PipelineNumbers, PastNumbers DEF Lag, SignalFollows
  <2>5. IndicatorFollows(k)'
    BY <1>1, <1>3 DEF Lag, IndicatorFollows, SameFor, marketVars
  <2>6. SignalFollows(k)'
    BY <1>1, <1>3, <2>4 DEF Lag, SignalFollows, SameFor, marketVars
  <2> QED
    BY <1>1, <2>3, <2>5, <2>6 DEF Lag
<1> QED
  BY <1>4, <1>5

LEMMA LagStrategyReadsIndicator ==
    ASSUME PlTyped, StrategyReadsIndicator, NEW k \in Key, Ordered(k), Lag(k)
    PROVE  Lag(k)'
<1> DEFINE e == "strategy"
           j == hand[e].key
           cached == indicator[j]
           h == IF cached = None THEN Idle
                ELSE [key |-> j, step |-> "read2", ind |-> cached, reg |-> hand[e].reg]
<1>1. /\ hand' = [hand EXCEPT ![e] = h] /\ e \in Engine /\ Engine = {e, "indicator", "regime"}
      /\ UNCHANGED <<marketVars, calm, mode, inbox, cacheVars>> /\ At(e, "read")
  BY StrategyReadsIndicatorMoves DEF StrategyReadsIndicator, HandlerFrame, Engine, ReadsInd
<1>2. /\ hand'[e] = h /\ hand'["indicator"] = hand["indicator"]
      /\ hand'["regime"] = hand["regime"]
  BY <1>1 DEF PlTyped, EngineTyped
<1>3. SameFor("indicator", k) /\ SameFor("regime", k)
  BY <1>1, <1>2, SameForOthers
<1>4. CASE j # k
  <2>1. hand'[e] = Idle \/ hand'[e].key # k
    BY <1>2, <1>4
  <2>2. SameFor(e, k)
    BY <1>1, <1>4, <2>1, SameForOtherKeys
  <2> QED
    BY <1>1, <1>3, <2>2, LagUnaffected DEF marketVars, cacheVars
<1>5. CASE j = k
  <2>1. ~Handles(e, k, "write")'
    BY <1>2, <1>5 DEF Handles, At, Busy
  <2>2. Handles(e, k, "read2")' => hand'[e].ind = indicator[k]
    BY <1>2, <1>5 DEF Handles, At, Busy
  <2>3. ~Handles(e, k, "read2")' => indicator[k] = None
    BY <1>2, <1>5 DEF Handles, At, Busy, Idle
  <2>4. calm[k] >= 2 => indicator[k] >= announced[k][2]
    BY DEF Lag, RegimeFollows
  <2>5. ASSUME calm[k] >= 2, indicator[k] = None
        PROVE  /\ signal[k].ind \in {None} \cup announced[k][2] .. LastTick
               /\ signal[k].reg >= announced[k][1]
    <3>1. announced[k][2] <= -1 /\ announced[k][1] <= announced[k][2]
      BY <2>4, <2>5, PipelineNumbers, PastNumbers DEF None, Ordered
    <3>2. /\ announced[k][1] \in Int /\ announced[k][2] \in Int /\ LastTick \in Int
          /\ signal[k].ind \in Int /\ -1 <= signal[k].ind /\ signal[k].ind <= LastTick
          /\ signal[k].reg \in Int /\ -1 <= signal[k].reg
      BY PipelineNumbers, PastNumbers, PipelineConstants
    <3> QED
      BY <3>1, <3>2
  <2>6. SignalFollows(k)'
    <3>1. calm[k] \in 0 .. 3
      BY PipelineNumbers
    <3>2. calm[k] >= 3 => calm[k] >= 2 /\ regime[k] >= announced[k][1]
      BY <3>1 DEF Lag, SignalFollows
    <3> QED
      BY <1>1, <2>1, <2>2, <2>3, <2>4, <2>5, <3>2 DEF SignalFollows, marketVars, cacheVars
  <2>7. IndicatorFollows(k)' /\ RegimeFollows(k)'
    BY <1>1, <1>3 DEF Lag, IndicatorFollows, RegimeFollows, SameFor, marketVars, cacheVars
  <2> QED
    BY <1>1, <2>6, <2>7 DEF Lag
<1> QED
  BY <1>4, <1>5

LEMMA LagStrategyReadsRegime ==
    ASSUME PlTyped, StrategyReadsRegime, NEW k \in Key, Ordered(k), Lag(k)
    PROVE  Lag(k)'
<1> DEFINE e == "strategy"
           j == hand[e].key
           cached == regime[j]
           h == IF cached = None THEN Idle
                ELSE [key |-> j, step |-> "write", ind |-> hand[e].ind, reg |-> cached]
<1>1. /\ hand' = [hand EXCEPT ![e] = h] /\ e \in Engine /\ Engine = {e, "indicator", "regime"}
      /\ UNCHANGED <<marketVars, calm, mode, inbox, cacheVars>> /\ At(e, "read2")
  BY StrategyReadsRegimeMoves DEF StrategyReadsRegime, HandlerFrame, Engine
<1>2. /\ hand'[e] = h /\ hand'["indicator"] = hand["indicator"]
      /\ hand'["regime"] = hand["regime"]
  BY <1>1 DEF PlTyped, EngineTyped
<1>3. SameFor("indicator", k) /\ SameFor("regime", k)
  BY <1>1, <1>2, SameForOthers
<1>4. CASE j # k
  <2>1. hand'[e] = Idle \/ hand'[e].key # k
    BY <1>2, <1>4
  <2>2. SameFor(e, k)
    BY <1>1, <1>4, <2>1, SameForOtherKeys
  <2> QED
    BY <1>1, <1>3, <2>2, LagUnaffected DEF marketVars, cacheVars
<1>5. CASE j = k
  <2>1. /\ ~Handles(e, k, "read2")' /\ Handles(e, k, "read2")
        /\ Awaits(e, k)' <=> Awaits(e, k)
    BY <1>1, <1>2, <1>5 DEF Handles, At, Busy, Awaits, Told
  <2>2. Handles(e, k, "write")' => hand'[e].ind = hand[e].ind /\ hand'[e].reg = regime[k]
    BY <1>2, <1>5 DEF Handles, At, Busy
  <2>3. ~Handles(e, k, "write")' => regime[k] = None
    BY <1>2, <1>5 DEF Handles, At, Busy, Idle
  <2>4. regime[k] = None => signal[k].ind = None
    BY DEF Ordered
  <2>5. calm[k] >= 3 => regime[k] >= announced[k][1]
    BY DEF Lag, SignalFollows
  <2>6. ASSUME calm[k] >= 3, regime[k] = None PROVE signal[k].reg >= announced[k][1]
    <3>1. /\ announced[k][1] <= -1 /\ announced[k][1] \in Int
          /\ signal[k].reg \in Int /\ -1 <= signal[k].reg
      BY <2>5, <2>6, PipelineNumbers, PastNumbers DEF None
    <3> QED
      BY <3>1
  <2>7. SignalFollows(k)'
    BY <1>1, <2>1, <2>2, <2>3, <2>4, <2>5, <2>6
       DEF Lag, SignalFollows, marketVars, cacheVars
  <2>8. IndicatorFollows(k)' /\ RegimeFollows(k)'
    BY <1>1, <1>3 DEF Lag, IndicatorFollows, RegimeFollows, SameFor, marketVars, cacheVars
  <2> QED
    BY <1>1, <2>7, <2>8 DEF Lag
<1> QED
  BY <1>4, <1>5

LEMMA LagStrategyWrites ==
    ASSUME PlTyped, StrategyWrites, NEW k \in Key, Ordered(k), Lag(k)
    PROVE  Lag(k)'
<1> DEFINE e == "strategy"
           j == hand[e].key
<1>1. /\ hand' = [hand EXCEPT ![e] = Idle] /\ e \in Engine /\ Engine = {e, "indicator", "regime"}
      /\ UNCHANGED <<marketVars, calm, mode, inbox, indicator, regime>>
      /\ At(e, "write") /\ Busy(e)
      /\ signal' = [signal EXCEPT ![j] = [ind |-> hand[e].ind, reg |-> hand[e].reg]]
  BY DEF StrategyWrites, HandlerFrame, Engine, Finish, At
<1>2. /\ hand'[e] = Idle /\ hand'["indicator"] = hand["indicator"]
      /\ hand'["regime"] = hand["regime"]
  BY <1>1 DEF PlTyped, EngineTyped
<1>3. SameFor("indicator", k) /\ SameFor("regime", k)
  BY <1>1, <1>2, SameForOthers
<1>4. CASE j # k
  <2>1. SameFor(e, k)
    BY <1>1, <1>2, <1>4, SameForOtherKeys
  <2>2. signal'[k] = signal[k]
    BY <1>1, <1>4
  <2> QED
    BY <1>1, <1>3, <2>1, <2>2, LagUnaffected DEF marketVars
<1>5. CASE j = k
  <2>1. /\ signal'[k].ind = hand[e].ind /\ signal'[k].reg = hand[e].reg
        /\ hand[e].ind \in Past
    BY <1>1, <1>5, HandFields DEF PlTyped, CacheTyped
  <2>2. /\ ~Handles(e, k, "write")' /\ Handles(e, k, "write") /\ ~Handles(e, k, "read")
        /\ ~Handles(e, k, "read2") /\ ~Handles(e, k, "read2")'
        /\ Awaits(e, k)' <=> Awaits(e, k)
    BY <1>1, <1>2, <1>5 DEF Handles, At, Busy, Awaits, Told
  <2>3. hand[e].ind >= announced[k][2] => hand[e].ind \in {None} \cup announced[k][2] .. LastTick
    BY <2>1, PipelineNumbers, PastNumbers, PipelineConstants
  <2>4. SignalFollows(k)'
    BY <1>1, <2>1, <2>2, <2>3 DEF Lag, SignalFollows, marketVars
  <2>5. IndicatorFollows(k)' /\ RegimeFollows(k)'
    BY <1>1, <1>3 DEF Lag, IndicatorFollows, RegimeFollows, SameFor, marketVars
  <2> QED
    BY <1>1, <2>4, <2>5 DEF Lag
<1> QED
  BY <1>4, <1>5
-----------------------------------------------------------------------------
\* At the start nothing has been announced: the lag is nobody's.
THEOREM LagStarts == Init => LagInv
<1> SUFFICES ASSUME Init PROVE LagInv
  OBVIOUS
<1>1. PlTyped
  BY PipelineStarts
<1>2. ASSUME NEW k \in Key PROVE Kept(table[k]) /\ Ordered(k) /\ Lag(k)
  <2>1. /\ table[k] = NoRows /\ indicator[k] = None /\ regime[k] = None
        /\ signal[k] = [ind |-> None, reg |-> None] /\ calm[k] = 0
        /\ announced[k] = <<None, None, None>>
        /\ \A e \in Engine : hand[e] = Idle
    BY DEF Init
  <2>2. Kept(table[k])
    BY <2>1 DEF Kept, NoRows
  <2>3. Lag(k)
    BY <2>1 DEF Lag, IndicatorFollows, RegimeFollows, SignalFollows
  <2>4. Ordered(k)
    <3>1. /\ None <= Computed(k) /\ None <= None
      BY <1>1, PipelineNumbers, PastNumbers DEF None
    <3>2. /\ announced[k][1] = None /\ announced[k][2] = None /\ announced[k][3] = None
          /\ signal[k].ind = None
      BY <2>1
    <3>3. \A e \in Engine : ~Handles(e, k, "write")
      BY <2>1 DEF Handles, At, Busy
    <3> QED
      BY <2>1, <3>1, <3>2, <3>3 DEF Ordered, Engine
  <2> QED
    BY <2>2, <2>3, <2>4
<1> QED
  BY <1>1, <1>2 DEF LagInv

\* Every step of the pipeline keeps the tables complete, the values in order and the
\* lag within what the queue and the handlers account for.
THEOREM LagSteps == LagInv /\ [Next]_vars => LagInv'
<1> SUFFICES ASSUME LagInv, [Next]_vars PROVE LagInv'
  OBVIOUS
<1>1. PlTyped /\ PlTyped' /\ \A k \in Key : Kept(table[k])
  BY PipelineSteps DEF LagInv
<1>2. ASSUME NEW k \in Key PROVE Kept(table[k])' /\ Ordered(k)' /\ Lag(k)'
  <2>1. Ordered(k) /\ Lag(k)
    BY DEF LagInv
  <2>2. Kept(table[k])' /\ Computed(k) <= Computed(k)'
    BY <1>1, TablesKept
  <2>3. Ordered(k)'
    BY <1>1, <2>1, <2>2, OrderedKept
  <2>4. Lag(k)'
    <3>1. (UNCHANGED <<announced, calm, mode, inbox, hand, cacheVars>>) => Lag(k)'
      <4>1. ASSUME UNCHANGED <<announced, calm, mode, inbox, hand, cacheVars>>
            PROVE  \A e \in Engine : SameFor(e, k)
        BY <4>1, SameForOthers
      <4> QED
        BY <2>1, <4>1, LagUnaffected DEF cacheVars
    <3>2. CASE Tick \/ collect_once \/ UNCHANGED vars
      BY <3>1, <3>2 DEF Tick, collect_once, vars, engineVars, cacheVars
    <3>3. ASSUME NEW j \in Key, Stored(j) PROVE Lag(k)'
      BY <3>1, <3>3 DEF Stored, engineVars
    <3>4. ASSUME NEW j \in Key, TaskFails(j) PROVE Lag(k)'
      <4>1. /\ calm' = [calm EXCEPT ![j] = 0]
            /\ UNCHANGED <<announced, mode, inbox, hand, cacheVars>>
        BY <3>4 DEF TaskFails, engineVars
      <4>2. CASE j = k
        <5>1. calm'[k] = 0
          BY <4>1, <4>2, <1>1 DEF PlTyped, MarketTyped
        <5> QED
          BY <5>1, LagAfterFailure
      <4>3. CASE j # k
        <5>1. calm'[k] = calm[k]
          BY <4>1, <4>3, <1>1 DEF PlTyped, MarketTyped
        <5>2. \A e \in Engine : SameFor(e, k)
          BY <4>1, SameForOthers
        <5> QED
          BY <2>1, <4>1, <5>1, <5>2, LagUnaffected DEF cacheVars
      <4> QED
        BY <4>2, <4>3
    <3>5. ASSUME NEW j \in Key, Published(j) PROVE Lag(k)'
      BY <1>1, <2>1, <3>5, LagPublished
    <3>6. ASSUME NEW e \in Engine, EngineActs(e) PROVE Lag(k)'
      BY <1>1, <2>1, <3>6, LagEngineActs
    <3>7. CASE HandlerActs
      BY <1>1, <2>1, <3>7, LagIndicatorReads, LagIndicatorWrites, LagRegimeReads,
         LagRegimeWrites, LagStrategyReadsIndicator, LagStrategyReadsRegime,
         LagStrategyWrites DEF HandlerActs
    <3> QED
      BY <3>2, <3>3, <3>4, <3>5, <3>6, <3>7, NextCases
  <2> QED
    BY <2>2, <2>3, <2>4
<1> QED
  BY <1>1, <1>2 DEF LagInv

\* The lag of the signal is bounded as its comment says, for every number of
\* symbols, window and clock and whatever fails: what indicators.py, regime.py and
\* the strategy engine hand on through Redis is at most two announcements behind.
THEOREM PipelineLag == Spec => []BoundedLag
<1>1. LagInv => BoundedLag
  <2> SUFFICES ASSUME LagInv, NEW k \in Key, \A e \in Engine : Settled(e, k)
               PROVE  /\ calm[k] >= 1 => indicator[k] >= announced[k][3]
                      /\ calm[k] >= 2 =>
                            /\ regime[k] >= announced[k][2]
                            /\ signal[k].ind \in {None} \cup announced[k][2] .. LastTick
                      /\ calm[k] >= 3 => signal[k].reg >= announced[k][1]
    BY DEF BoundedLag
  <2>1. \A e \in Engine : /\ ~Awaits(e, k) /\ ~Handles(e, k, "write")
                          /\ ~Handles(e, k, "read2")
    BY DEF Settled, Awaits, Told, Handles
  <2>2. {"indicator", "regime", "strategy"} = Engine
    BY DEF Engine
  <2>3. Lag(k)
    BY DEF LagInv
  <2> QED
    BY <2>1, <2>2, <2>3 DEF Lag, IndicatorFollows, RegimeFollows, SignalFollows
<1> QED
  BY LagStarts, LagSteps, <1>1, PTL DEF Spec

\* No refetch, restart or message takes back what the next indicator will include:
\* the newest candle that indicators.py computes from only ever moves forward.
THEOREM NewestNeverGoesBack == Spec => [][\A k \in Key : Computed(k) <= Computed(k)']_vars
<1>1. LagInv /\ [Next]_vars => [\A k \in Key : Computed(k) <= Computed(k)']_vars
  BY TablesKept DEF LagInv
<1> QED
  BY LagStarts, LagSteps, <1>1, PTL DEF Spec
=============================================================================
