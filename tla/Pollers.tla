------------------------------- MODULE Pollers -------------------------------
(* The supplemental pollers: three processes, each of which alone asks one source
   and caches its answer under a key without a TTL.  What a source says is
   abstracted to the number of times its answer has changed.  The OpenClaw bridge
   stores its scores under keys of its own (hydra:openclaw:sentiment:s). *)
EXTENDS Integers

CONSTANTS Symbol,     \* (market, symbol) pairs that may have an indicator
          Served,     \* those whose market is the name of a ccxt class (hl is not)
          BaseOf,     \* the coin of a pair: news are scored once per coin
          MaxNews,    \* bounds of the model: changes of the sources, failed fetches
          MaxFailed

ASSUME PollersAssumption == Served \subseteq Symbol /\ {MaxNews, MaxFailed} \subseteq Nat

VARIABLES
    hasKey,  \* the environment has COINMARKETCAL_API_KEY; the compose file's default is none
    news,    \* what the sources say now
    listed,  \* symbols with an indicator key
    book,    \* hydra:orderbook:s
    events,  \* hydra:events:upcoming
    score,   \* hydra:sentiment:b of a coin b
    failed   \* fetches that failed so far

poVars == <<hasKey, news, listed, book, events, score, failed>>

Absent == -1   \* no such key
Nothing == -2  \* [] for the events, score 0.0 of 0 articles for the sentiment
Base == {BaseOf[s] : s \in Symbol}

NewsChanges ==
    /\ news < MaxNews /\ news' = news + 1
    /\ UNCHANGED <<hasKey, listed, book, events, score, failed>>

\* _get_active_symbols reads the indicator keys; they are never deleted.
Listed ==
    /\ \E s \in Symbol \ listed : listed' = listed \cup {s}
    /\ UNCHANGED <<hasKey, news, book, events, score, failed>>

Fails == failed < MaxFailed /\ failed' = failed + 1

\* slip: a cached book is left alone
BookKept(s) ==
    /\ s \in listed \cap Served /\ book[s] = Absent
    /\ book' = [book EXCEPT ![s] = news]
    /\ UNCHANGED <<hasKey, news, listed, events, score, failed>>

BookFetched(s) ==
    /\ s \in listed \cap Served
    /\ book' = [book EXCEPT ![s] = news]
    /\ UNCHANGED <<hasKey, news, listed, events, score, failed>>

\* _fetch_one returns None: the book cached before stays, however old.
BookFails(s) ==
    /\ s \in listed /\ Fails
    /\ UNCHANGED <<hasKey, news, listed, book, events, score>>

\* Without a key _fetch asks nobody and returns [].
EventsFetched ==
    /\ events' = IF hasKey THEN news ELSE Nothing
    /\ UNCHANGED <<hasKey, news, listed, book, score, failed>>

\* _fetch returns [], and [] is cached like an answer.
EventsFail ==
    /\ hasKey /\ Fails /\ events' = Nothing
    /\ UNCHANGED <<hasKey, news, listed, book, score>>

_get_active_bases == {BaseOf[s] : s \in listed}

SentimentScored(b) ==
    /\ b \in _get_active_bases
    /\ score' = [score EXCEPT ![b] = news]
    /\ UNCHANGED <<hasKey, news, listed, book, events, failed>>

\* No articles are scored 0.0, whether there are none or the fetch failed.
SentimentFails(b) ==
    /\ b \in _get_active_bases /\ Fails
    /\ score' = [score EXCEPT ![b] = Nothing]
    /\ UNCHANGED <<hasKey, news, listed, book, events>>

PoInit ==
    /\ hasKey \in BOOLEAN /\ news = 0 /\ listed = {} /\ failed = 0 /\ events = Absent
    /\ book = [s \in Symbol |-> Absent] /\ score = [b \in Base |-> Absent]

PoNext ==
    \/ NewsChanges \/ Listed \/ EventsFetched \/ EventsFail
    \/ \E s \in Symbol : BookFetched(s) \/ BookFails(s)
    \/ \E b \in Base : SentimentScored(b) \/ SentimentFails(b)

PoSpec == PoInit /\ [][PoNext]_poVars
-----------------------------------------------------------------------------
(* When the sources settle and the failures end, no failure leaves a trace: the
   events, the books and the scores are and stay what the sources say.  Without a key
   there are never any events, whatever the source says. *)
PollersRecover ==
    /\ hasKey => <>[](events = news)
    /\ ~hasKey => <>[](events = Nothing)
    /\ \A s \in Symbol : <>[](s \in listed \cap Served => book[s] = news)
    /\ \A b \in Base : <>[](b \in _get_active_bases => score[b] = news)
=============================================================================
