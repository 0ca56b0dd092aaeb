--------------------------- MODULE AdmissionGate ---------------------------
(***************************************************************************)
(* What OrderQueue promises the rest of Hydra, with locks, leverage, time  *)
(* and the idempotency cache left out: a turnstile in front of the         *)
(* exchange.  A caller enters only while the gate is open, places at most  *)
(* one order per visit, and a gate that was closed never opens again.      *)
(***************************************************************************)
EXTENDS Naturals

CONSTANT Caller

VARIABLES
    gate,       \* "open", "paused" (shutdown or daily loss) or "closed" (kill)
    inside,     \* callers that were let in and have not left
    spent,      \* those of them that have placed their order
    landings    \* orders placed so far

gateVars == <<gate, inside, spent, landings>>

GateInit ==
    /\ gate \in {"open", "paused"}
    /\ inside = {}
    /\ spent = {}
    /\ landings = 0

(* Closing is for good; pausing is not. *)
Operate ==
    /\ gate' \in IF gate = "closed" THEN {"closed"} ELSE {"open", "paused", "closed"}
    /\ UNCHANGED <<inside, spent, landings>>

Enter(p) ==
    /\ gate = "open"
    /\ p \notin inside
    /\ inside' = inside \cup {p}
    /\ UNCHANGED <<gate, spent, landings>>

Land(p) ==
    /\ p \in inside \ spent
    /\ spent' = spent \cup {p}
    /\ landings' = landings + 1
    /\ UNCHANGED <<gate, inside>>

Exit(p) ==
    /\ p \in inside
    /\ inside' = inside \ {p}
    /\ spent' = spent \ {p}
    /\ UNCHANGED <<gate, landings>>

(* The process restarts: everybody is out, and a pause is forgotten. *)
Restart ==
    /\ gate' \in IF gate = "closed" THEN {"closed"} ELSE {"open", "paused"}
    /\ inside' = {}
    /\ spent' = {}
    /\ UNCHANGED landings

GateNext ==
    \/ Operate \/ Restart
    \/ \E p \in Caller : Enter(p) \/ Land(p) \/ Exit(p)

GateSpec == GateInit /\ [][GateNext]_gateVars
=============================================================================
