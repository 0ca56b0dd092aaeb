------------------------------ MODULE PnlLedger ------------------------------
(* PnlTracker: one MULTI/EXEC per trade, and a summary for GET /pnl that reads
   the keys one after the other while other processes record. *)
EXTENDS Integers, Sequences

CONSTANTS Amount,     \* realized_pnl of a trade
          LastDay,    \* bounds of the model: days, and entries of the log
          MaxEntries

ASSUME PnlAssumption == Amount \subseteq Int /\ {LastDay, MaxEntries} \subseteq Nat

VARIABLES
    today,
    ledger,    \* hydra:pnl:realized:total, :trade_count and :daily:<day>
    asking,    \* what get_summary reads next
    summary,   \* what it has read, and the day its daily value is of
    log        \* history: the trades and resets, in order

plVars == <<today, ledger, asking, summary, log>>

Blank == [total |-> 0, daily |-> 0, count |-> 0, day |-> 0]
Logged(kind, pnl) == /\ Len(log) < MaxEntries
                     /\ log' = Append(log, [kind |-> kind, pnl |-> pnl, day |-> today])

\* slip: the key of the day is made once, when the module is imported
record_tradeStaleDay(pnl) ==
    /\ Logged("trade", pnl)
    /\ ledger' = [total |-> ledger.total + pnl, count |-> ledger.count + 1,
                  daily |-> [ledger.daily EXCEPT ![0] = ledger.daily[0] + pnl]]
    /\ UNCHANGED <<today, asking, summary>>

record_trade(pnl) ==
    /\ Logged("trade", pnl)
    /\ ledger' = [total |-> ledger.total + pnl, count |-> ledger.count + 1,
                  daily |-> [ledger.daily EXCEPT ![today] = ledger.daily[today] + pnl]]
    /\ UNCHANGED <<today, asking, summary>>

\* POST /pnl/reset-daily deletes the key of the day.
reset_daily ==
    /\ Logged("reset", 0)
    /\ ledger' = [ledger EXCEPT !.daily = [ledger.daily EXCEPT ![today] = 0]]
    /\ UNCHANGED <<today, asking, summary>>

Midnight ==
    /\ today < LastDay /\ today' = today + 1
    /\ UNCHANGED <<ledger, asking, summary, log>>

\* get_summary: three GETs.
get_realized_total ==
    /\ asking = "total" /\ asking' = "daily"
    /\ summary' = [Blank EXCEPT !.total = ledger.total]

get_daily_realized ==
    /\ asking = "daily" /\ asking' = "count"
    /\ summary' = [summary EXCEPT !.daily = ledger.daily[today], !.day = today]

get_trade_count ==
    /\ asking = "count" /\ asking' = "answer"
    /\ summary' = [summary EXCEPT !.count = ledger.count]

Answered == asking = "answer" /\ asking' = "total" /\ summary' = Blank

get_summary ==
    /\ get_realized_total \/ get_daily_realized \/ get_trade_count \/ Answered
    /\ UNCHANGED <<today, ledger, log>>

PlInit ==
    /\ today = 0 /\ asking = "total" /\ summary = Blank /\ log = <<>>
    /\ ledger = [total |-> 0, count |-> 0, daily |-> [d \in 0 .. LastDay |-> 0]]

PlNext == (\E pnl \in Amount : record_trade(pnl)) \/ reset_daily \/ Midnight \/ get_summary

PlSpec == PlInit /\ [][PlNext]_plVars
-----------------------------------------------------------------------------
EmptyBooks == [total |-> 0, daily |-> 0, count |-> 0]

\* What the books of day d say after one more entry.
Posted(before, e, d) ==
    IF e.kind = "reset"
    THEN [before EXCEPT !.daily = IF e.day = d THEN 0 ELSE before.daily]
    ELSE [total |-> before.total + e.pnl, count |-> before.count + 1,
          daily |-> before.daily + (IF e.day = d THEN e.pnl ELSE 0)]

\* What the first n entries of a log amount to, on day d.
Books(entries, d) ==
    LET books[n \in 0 .. Len(entries)] ==
            IF n = 0 THEN EmptyBooks ELSE Posted(books[n - 1], entries[n], d)
    IN books

(* A summary is not of one moment, but its parts are of moments in order: the
   total is of some prefix of the trades, the daily value of that one or a longer
   one, and the trade count includes all the trades either of them contains. *)
SummaryInOrder ==
    asking = "answer" =>
        LET books == Books(log, summary.day) IN
        \E n \in 0 .. Len(log) : \E m \in n .. Len(log) : \E c \in m .. Len(log) :
            /\ summary.total = books[n].total
            /\ summary.daily = books[m].daily
            /\ summary.count = books[c].count
=============================================================================
