--------------------------- MODULE MCJobCreation ---------------------------
\* Job creation on small instances, for TLC.
EXTENDS JobCreation, TLC

CONSTANT Key

\* Songs are of a sync kind, clips are not.
Ask(k, b, c) == [key |-> k, body |-> b, sync |-> b = "song", cost |-> c]

\* One key with two different bodies, a keyless request, and unenforced credits.
KeyedAsks == {Ask(Key, "song", 2), Ask(Key, "clip", 3), Ask(NoKey, "clip", 3),
              Ask(Key, "song", 0)}
\* Requests that only compete for the balance.
RacingAsks == {Ask(NoKey, "song", 2), Ask(NoKey, "clip", 5)}

\* Bound: three requests only where all just compete for the balance and at most
\* one call fails; else the one that has not asked yet never does.
Bounded ==
  \/ faults <= 1 /\ \A r \in Requests : ask[r] \in RacingAsks
  \/ \E r \in Requests : At(r, "lookup") /\ ask[r] = Ask(NoKey, "clip", 3)

AllAsks == KeyedAsks \cup RacingAsks
RequestSymmetry == Permutations(Requests)
=============================================================================
