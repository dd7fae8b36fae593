----------------------------- MODULE MCCrewJobs -----------------------------
EXTENDS CrewJobs, TLC

Bounds(d, b, a, m, u) ==
  [dead |-> d, doubled |-> b, aged |-> a, removed |-> m, unsure |-> u]
Symmetry == Permutations(Request)

OneOfEach == Bounds(1, 1, 1, 1, 1)
DeadRemoved == Bounds(1, 0, 0, 1, 0)
Aged == Bounds(0, 0, 1, 0, 0)

\* A DELETE counts as one of two faults.
DeleteIsAFault ==
  trip.status \in {"deleting", "gone"} => FoldFunction(+, 0, faults) <= 1
=============================================================================
