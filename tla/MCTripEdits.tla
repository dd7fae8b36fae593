---------------------------- MODULE MCTripEdits ----------------------------
EXTENDS TripEdits, TLC
Symmetry == Permutations(Request) \cup Permutations(Event) \cup Permutations(Editor)

\* At most three requests, Events and DELETEs are under way at once.
ThreeAtOnce ==
  Cardinality({ r \in Request : req[r].pc # "idle" })
    + Cardinality({ e \in Event : ev[e].pc # "idle" })
    + Cardinality({ w \in Editor : edit[w].pc # "idle" }) <= 3
=============================================================================
