------------------------- MODULE MCSessionRotation -------------------------
\* Session rotation on small instances, for TLC.
EXTENDS SessionRotation, TLC

\* Not for runs with liveness properties.
SessionSymmetry ==
  UNION {Permutations(S) : S \in {Secrets, Calls, Locks, Clients \ Locks}}

\* Bounds: three calls at once and three faults are for one browser whose
\* account and session nothing else has touched; two of each otherwise.  Two
\* browsers, or one whose account or session is touched, have Web Locks.
Touched == Cardinality(Holders) > 1 \/ account # "usable" \/ row.expired
Bounded ==
  /\ Touched => Holders \subseteq Locks
  /\ Touched \/ row.revoked => faults < 3 /\ \E k \in Calls : ~Active(k)
=============================================================================
