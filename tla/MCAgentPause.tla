---------------------------- MODULE MCAgentPause ----------------------------
\* A run that may withhold two calls, for TLC.
EXTENDS AgentPause, TLC

CONSTANTS c1, c2

\* Of two calls the first to be withheld is called c1 (calls are interchangeable).
InOrder == c1 \in fresh => c2 \in fresh

\* Bounds: a second fault is for a run that meets no abort, no repeated response and
\* no late act; a late act for one that meets no repeated response; and once both calls
\* are withheld, one of the gate, the repeated response and a fault may happen.
Bounded ==
  /\ faults = 2 => abort = "ready" /\ retries = 0 /\ ~late
  /\ late => retries = 0
  /\ fresh = {} => ~late /\ abort = "ready" /\ faults + retries + gates.met <= 1
=============================================================================
