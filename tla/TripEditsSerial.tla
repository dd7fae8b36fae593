-------------------------- MODULE TripEditsSerial --------------------------
(***************************************************************************)
(* TripEdits for a traveler with one tab who waits: a request or a DELETE  *)
(* starts only when no other one and no worker is running.  Everything may *)
(* still fail, and claims may be left behind.  CalmSpec is the quiet case  *)
(* of it, in which nothing fails.                                          *)
(***************************************************************************)
EXTENDS TripEdits

Quiet ==
  /\ \A r \in Request : req[r].pc = "idle"
  /\ \A w \in Editor : edit[w].pc = "idle"
  /\ \A e \in Event : ev[e].pc = "idle"

SerialStep ==
  \/ \E r \in Request : (req[r].pc = "idle" => Quiet) /\ RequestStep(r) /\ UNCHANGED edit
  \/ \E w \in Editor : (edit[w].pc = "idle" => Quiet) /\ EditStep(w)
  \/ \E e \in Event : WorkerStep(e) /\ UNCHANGED edit

SerialFault ==
  \/ /\ \/ \E r \in Request : RequestDies(r)
        \/ \E e \in Event : WorkerFault(e) \/ WriteLost(e) \/ WorkerDies(e)
        \/ \E e, f \in Event : Duplicate(e, f)
        \/ Age \/ JobClaims \/ JobEnds
     /\ UNCHANGED edit
  \/ \E w \in Editor : EditorDies(w)

SerialNext == SerialStep \/ SerialFault

SerialSpec == EditsInit /\ [][SerialNext]_editVars

\* A request is charged and its Event accepted, and its worker's crew delivers.
Delivers ==
  /\ \A r \in Request : req'[r].pc # "abort"
  /\ \A e \in Event : ev[e].pc = "crew" => ev'[e].pc \in {"crew", "recheck"}

CalmSpec == EditsInit /\ [][SerialStep /\ Delivers]_editVars

-----------------------------------------------------------------------------
\* "Cursor update first (fails if a claim appears) - then delete the DAY row"
\* (day_mutations.py:258): wherever a deletion, a request or a worker stops, the
\* cursor is not left past a missing day, and no trip is left complete with one.
CursorStaysInOrder ==
  trip.status \notin {"deleting", "gone"} => NoSkippedDay /\ CompleteMeansPlanned

\* "Repeat until the trip is complete" (README.md:200): at rest a trip that has
\* all its days is complete, whatever was deleted and planned again before.
FilledTripIsComplete ==
  Quiet /\ trip.pdi = 0 /\ trip.status \notin {"deleting", "gone"} /\ WrittenDays = Day
    => trip.status = "complete"
=============================================================================
