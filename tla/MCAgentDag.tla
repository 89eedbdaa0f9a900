----------------------------- MODULE MCAgentDag -----------------------------
\* Fan-outs of three nodes, for TLC.
EXTENDS AgentDag, TLC

CONSTANTS a, b, c

Dag(w, i) == [deps |-> w, isolate |-> i]
Join == a :> {} @@ b :> {} @@ c :> {a, b}
Chain == a :> {} @@ b :> {a} @@ c :> {b}

ThreeNodes == {Dag(Join, {}), Dag(Join, {a}), Dag(Chain, {}), Dag(Chain, {a, b}), Dag(Chain, {b})}
OneJoin == {Dag(Join, {})}
\* Bound: an aborted parent meets no fault.
Bounded == abort.at = "ready" \/ faults = 0
=============================================================================
