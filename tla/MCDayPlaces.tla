---------------------------- MODULE MCDayPlaces ----------------------------
EXTENDS DayPlaces, TLC

Symmetry == Permutations(Key) \cup Permutations(Suggester)

\* One edit beside suggestions and an asynchronous run; suggestions whose claims are
\* lost; synchronous requests, which look at no claim, beside an edit.
MCTogether == { Editor \cup Suggester \cup Planner, Editor \cup Suggester \cup {Loss},
                Editor \cup SyncPlanner }
\* What is left out: two edits, ...
TwoEdits == { Editor \cup Suggester }
\* ... a synchronous request beside suggestions or another run, ...
SyncSuggest == { Suggester \cup SyncPlanner }
SyncPlan == { Planner \cup SyncPlanner }
\* ... a run whose claim is lost.
LostPlan == { Editor \cup Planner \cup {Loss} }
=============================================================================
