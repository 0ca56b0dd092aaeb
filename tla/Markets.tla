------------------------------- MODULE Markets -------------------------------
(* config/markets.yaml and the processes that edit it.  Every process loads the
   whole document once and writes the whole document back: the workers of
   hydra-core when they start (and keep their copy), `hydra market` and the setup
   wizard for each command line.  open("w") empties the file before the new
   document is written; a process that reads in between finds no markets. *)
EXTENDS Integers, FiniteSets

CONSTANTS Market,      \* VALID_MARKETS
          KisMarket,   \* kr and us, whose connectors need stored keys
          Worker,      \* workers of hydra-core (uvicorn --workers)
          Command,     \* processes of the command line
          MaxCommands  \* bound of the model

ASSUME MarketsAssumption == /\ KisMarket \subseteq Market /\ Worker \cap Command = {}
                            /\ MaxCommands \in Nat

VARIABLES
    file,       \* markets.yaml: market |-> state; no markets while it is truncated
    copy,       \* copy[p]: MarketManager._data of process p
    step,       \* step[p]: "out", "loaded", or "save" with the file truncated
    keys,       \* KIS markets with their keys stored
    connected,  \* connected[w]: the markets worker w made a connector for
    commands,   \* commands given so far
    asked,      \* history: the state of each market after the commands given
    behind,     \* history: behind[p]: markets commanded elsewhere since p loaded
    mangled,    \* history: the markets a late or torn copy may have set back
    dropped     \* history: the markets whose last command was to disable them, given
                \* to a process with a late or torn copy that did not have them

mkVars == <<file, copy, step, keys, connected, commands, asked, behind, mangled, dropped>>

Process == Worker \cup Command
State == {"off", "paper", "live"}
NoMarkets == [m \in {} |-> "off"]
AllOff == [m \in Market |-> "off"]

Truncated == \E p \in Process : step[p] = "save"
get_active_markets(data) == {m \in DOMAIN data : data[m] # "off"}
-----------------------------------------------------------------------------
(* MarketManager *)

\* A missing market in the copy is one the file did not have when it was read.
_load(p) ==
    /\ step[p] = "out"
    /\ copy' = [copy EXCEPT ![p] = file]
    /\ step' = [step EXCEPT ![p] = "loaded"]
    /\ behind' = [behind EXCEPT ![p] = IF Truncated THEN Market ELSE mangled]

\* The edit and the truncation of the file; nothing interrupts a process there.
Edit(p, m, data, state) ==
    /\ step[p] = "loaded" /\ commands < MaxCommands
    /\ copy' = [copy EXCEPT ![p] = data]
    /\ step' = [step EXCEPT ![p] = "save"]
    /\ file' = NoMarkets
    /\ commands' = commands + 1
    /\ asked' = [asked EXCEPT ![m] = state]
    /\ behind' = [q \in Process |-> IF q = p THEN behind[p] \ {m} ELSE behind[q] \cup {m}]
    /\ dropped' = dropped \ {m}
    /\ UNCHANGED <<keys, connected, mangled>>

With(data, m, state) == [n \in DOMAIN data \cup {m} |-> IF n = m THEN state ELSE data[n]]

\* slip: the mode of a market that is already enabled is kept
enableKeepsMode(p, m, mode) ==
    LET kept == IF m \in get_active_markets(copy[p]) THEN copy[p][m] ELSE mode
    IN Edit(p, m, With(copy[p], m, kept), mode)

enable(p, m, mode) == Edit(p, m, With(copy[p], m, mode), mode)

\* slip: the file is not written
disableUnsaved(p, m) ==
    /\ step[p] = "loaded" /\ commands < MaxCommands
    /\ m \in DOMAIN copy[p]
    /\ copy' = [copy EXCEPT ![p] = With(copy[p], m, "off")]
    /\ commands' = commands + 1
    /\ asked' = [asked EXCEPT ![m] = "off"]
    /\ behind' = [q \in Process |-> IF q = p THEN behind[p] \ {m} ELSE behind[q] \cup {m}]
    /\ UNCHANGED <<file, step, keys, connected, mangled, dropped>>

\* A market the copy does not have is not disabled and nothing is written, but
\* disable() returns all the same, and the caller reports the market as disabled.
Drop(p, m) ==
    /\ step[p] = "loaded" /\ commands < MaxCommands
    /\ commands' = commands + 1
    /\ asked' = [asked EXCEPT ![m] = "off"]
    /\ dropped' = IF m \in behind[p] THEN dropped \cup {m} ELSE dropped
    /\ UNCHANGED <<file, copy, step, keys, connected, behind, mangled>>

disable(p, m) ==
    \/ m \in DOMAIN copy[p] /\ Edit(p, m, With(copy[p], m, "off"), "off")
    \/ m \notin DOMAIN copy[p] /\ Drop(p, m)

\* Two saves may overlap: the later one to finish decides.  (That its document may
\* be the shorter one and leave a tail of the other behind is not modelled.)
_save(p) ==
    /\ step[p] = "save"
    /\ file' = copy[p]
    /\ step' = [step EXCEPT ![p] = "loaded"]
    /\ mangled' = behind[p]
    /\ UNCHANGED <<copy, keys, connected, commands, asked, behind, dropped>>
-----------------------------------------------------------------------------
(* The processes. *)

\* lifespan: a worker loads, and makes a connector for every active market; one
\* whose keys are missing is logged and left out, for as long as the worker lives.
create_exchanges(data) == {m \in get_active_markets(data) : m \in KisMarket => m \in keys}

lifespan(w) ==
    /\ _load(w)
    /\ connected' = [connected EXCEPT ![w] = create_exchanges(file)]
    /\ UNCHANGED <<file, keys, commands, asked, mangled, dropped>>

\* POST /markets/{id}/enable knows no mode: it is always paper.
enable_market(w, m) == enable(w, m, "paper")
disable_market(w, m) == disable(w, m)

CommandBegins(c) ==
    /\ _load(c)
    /\ UNCHANGED <<file, keys, connected, commands, asked, mangled, dropped>>

CommandEnds(c) ==
    /\ step[c] = "loaded" /\ step' = [step EXCEPT ![c] = "out"]
    /\ copy' = [copy EXCEPT ![c] = NoMarkets]
    /\ behind' = [behind EXCEPT ![c] = {}]
    /\ UNCHANGED <<file, keys, connected, commands, asked, mangled, dropped>>

\* run_setup asks for the keys only after it has enabled the market.
StoreKeys(c) ==
    /\ step[c] = "loaded"
    /\ \E m \in KisMarket \ keys : m \in get_active_markets(copy[c]) /\ keys' = keys \cup {m}
    /\ UNCHANGED <<file, copy, step, connected, commands, asked, behind, mangled, dropped>>

\* A process that dies while it saves leaves the file empty.
Dies(p) ==
    /\ step[p] # "out" /\ step' = [step EXCEPT ![p] = "out"]
    /\ copy' = [copy EXCEPT ![p] = NoMarkets]
    /\ behind' = [behind EXCEPT ![p] = {}]
    /\ connected' = [q \in Worker |-> IF q = p THEN {} ELSE connected[q]]
    /\ mangled' = IF step[p] = "save" THEN Market ELSE mangled
    /\ UNCHANGED <<file, keys, commands, asked, dropped>>

MkInit ==
    /\ file = AllOff
    /\ copy = [p \in Process |-> NoMarkets] /\ step = [p \in Process |-> "out"]
    /\ keys = {} /\ connected = [w \in Worker |-> {}]
    /\ commands = 0 /\ asked = AllOff
    /\ behind = [p \in Process |-> {}] /\ mangled = {} /\ dropped = {}

MkNext ==
    \/ \E w \in Worker :
        lifespan(w) \/ \E m \in Market : enable_market(w, m) \/ disable_market(w, m)
    \/ \E c \in Command :
        \/ CommandBegins(c) \/ CommandEnds(c) \/ StoreKeys(c)
        \/ \E m \in Market : disable(c, m) \/ \E mode \in {"paper", "live"} : enable(c, m, mode)
    \/ \E p \in Process : _save(p) \/ Dies(p)

MkSpec == MkInit /\ [][MkNext]_mkVars
-----------------------------------------------------------------------------
(* A command stands until a process overwrites it that had loaded the file before
   the command, or while it was truncated, or that dies while it saves.  With none
   of these, the file says of every market what was last asked for; but for a market
   that such a process was asked to disable and did not have in its copy. *)
CommandsSurvive ==
    ~Truncated => \A m \in Market \ (mangled \cup dropped) :
                      m \in DOMAIN file /\ file[m] = asked[m]

(* A market that was disabled stays out: a worker that starts makes no connector
   for one whose last command was to disable it, or that nobody enabled, unless
   such a process has set it back or dropped the command. *)
DisabledStaysOut ==
    [][\A w \in Worker : connected'[w] # connected[w] =>
           \A m \in connected'[w] : asked[m] # "off" \/ m \in behind'[w] \cup dropped]_mkVars
=============================================================================
