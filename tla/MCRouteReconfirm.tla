-------------------------- MODULE MCRouteReconfirm --------------------------
EXTENDS RouteReconfirm, TLC
CONSTANTS A, B      \* two cities

\* The order of the cities, and their nights.
AAB == <<A, A, B>>
BBA == <<B, B, A>>
ABB == <<A, B, B>>
TwoCities == {A, B}
TwoRoutes == {AAB, BBA}
ThreeRoutes == {AAB, BBA, ABB}
Symmetry == Permutations(Confirm) \cup Permutations(Worker)
=============================================================================
