----------------------------- MODULE MCPlanDay -----------------------------
EXTENDS PlanDay, TLC
Symmetry == Permutations(Request) \cup Permutations(Event)
=============================================================================
