----------------------------- MODULE TripEdits -----------------------------
(***************************************************************************)
(* Planning (PlanDay) together with the traveler's deletions: DELETE of a  *)
(* day (trips/day_mutations.py) and DELETE of the trip (trips/crud.py,     *)
(* db/repository/trips.py).  Both act in several DynamoDB calls on a       *)
(* snapshot, and neither is a transaction: a day is deleted cursors first  *)
(* and DAY row second, a trip is locked by its status and then deleted row *)
(* by row, the TRIP row first.                                             *)
(***************************************************************************)
EXTENDS PlanDay

CONSTANT Editor       \* concurrent DELETE requests

VARIABLE edit         \* edit[w]: where DELETE request w is, and what it has read

editVars == <<trip, row, req, ev, edit>>

\* A DELETE of day n will store the cursor and status it has computed; a DELETE
\* of the trip has still to delete the DAY rows in left.
EditType == [ pc : { "idle", "apply", "look", "remove",
                     "lock", "query", "trip", "days" },
              day : 0..DayCount, ndi : 1..(DayCount + 1), status : Status,
              left : SUBSET Day ]

NoEdit == [pc |-> "idle", day |-> 0, ndi |-> 1, status |-> "drafting", left |-> {}]

EditsTypeOK == TypeOK /\ edit \in [Editor -> EditType]

EditsInit == Init /\ edit = [w \in Editor |-> NoEdit]

WGo(w, pc) == edit' = [edit EXCEPT ![w].pc = pc]
WEnd(w) == edit' = [edit EXCEPT ![w] = NoEdit]

-----------------------------------------------------------------------------
(* delete_day                                                              *)

\* The bundle is read, the guards are checked and the new cursor computed.
LoadDay(w) ==
  /\ edit[w].pc = "idle"
  /\ trip.status \notin {"deleting", "gone"}
  /\ trip.pdi = 0
  /\ ~trip.job
  /\ \E d \in WrittenDays, n \in 1..(DayCount + 1), st \in Status :
       /\ StatusAfterDayEdit(WrittenDays \ {d}, trip.status, n, st)
       /\ edit' = [edit EXCEPT ![w] = [NoEdit EXCEPT !.pc = "apply", !.day = d,
                                                     !.ndi = n, !.status = st]]
  /\ UNCHANGED <<trip, row, req, ev>>

\* apply_itinerary_edit: refused while a day is planned or the trip deleted.
ApplyEdit(w) ==
  /\ edit[w].pc = "apply"
  /\ IF CanEditItinerary(trip)
     THEN trip' = EditItinerary(trip, edit[w].ndi, edit[w].status) /\ WGo(w, "look")
     ELSE UNCHANGED trip /\ WEnd(w)
  /\ UNCHANGED <<row, req, ev>>

\* repo.delete_day: a read, then an unconditional delete.
LookDay(w) ==
  /\ edit[w].pc = "look"
  /\ IF Written(edit[w].day) THEN WGo(w, "remove") ELSE WEnd(w)
  /\ UNCHANGED <<trip, row, req, ev>>

RemoveDay(w) ==
  /\ edit[w].pc = "remove"
  /\ row' = [row EXCEPT ![edit[w].day] = NoRow]
  /\ WEnd(w)
  /\ UNCHANGED <<trip, req, ev>>

-----------------------------------------------------------------------------
(* delete_trip                                                             *)

RequireTrip(w) ==
  /\ edit[w].pc = "idle"
  /\ Exists(trip)
  /\ edit' = [edit EXCEPT ![w] = [NoEdit EXCEPT !.pc = "lock"]]
  /\ UNCHANGED <<trip, row, req, ev>>

\* begin_trip_delete: refused while a day is planned.
LockTrip(w) ==
  /\ edit[w].pc = "lock"
  /\ IF CanBeginDelete(trip)
     THEN trip' = BeginDelete(trip) /\ WGo(w, "query")
     ELSE UNCHANGED trip /\ WEnd(w)
  /\ UNCHANGED <<row, req, ev>>

\* delete_trip_bundle: the rows there are now ...
QueryRows(w) ==
  /\ edit[w].pc = "query"
  /\ edit' = [edit EXCEPT ![w].pc = IF Exists(trip) THEN "trip" ELSE "days",
                          ![w].left = WrittenDays]
  /\ UNCHANGED <<trip, row, req, ev>>

\* ... are deleted in key order, the TRIP row ...
DeleteTrip(w) ==
  /\ edit[w].pc = "trip"
  /\ trip' = DeleteTripRow(trip)
  /\ WGo(w, "days")
  /\ UNCHANGED <<row, req, ev>>

\* ... before the DAY rows.
DeleteDays(w) ==
  /\ edit[w].pc = "days"
  /\ \/ edit[w].left = {} /\ WEnd(w) /\ UNCHANGED row
     \/ \E d \in edit[w].left :
          /\ \A e \in edit[w].left : d <= e
          /\ row' = [row EXCEPT ![d] = NoRow]
          /\ edit' = [edit EXCEPT ![w].left = @ \ {d}]
  /\ UNCHANGED <<trip, req, ev>>

\* The API Lambda of the DELETE dies, or a DynamoDB call raises.
EditorDies(w) ==
  /\ edit[w].pc # "idle"
  /\ WEnd(w)
  /\ UNCHANGED <<trip, row, req, ev>>

EditStep(w) ==
  \/ LoadDay(w) \/ ApplyEdit(w) \/ LookDay(w) \/ RemoveDay(w)
  \/ RequireTrip(w) \/ LockTrip(w) \/ QueryRows(w) \/ DeleteTrip(w) \/ DeleteDays(w)

EditsNext ==
  \/ Next /\ UNCHANGED edit
  \/ \E w \in Editor : EditStep(w) \/ EditorDies(w)

EditsSpec == EditsInit /\ [][EditsNext]_editVars

-----------------------------------------------------------------------------
\* "Acts as a delete lock": from begin_trip_delete on no planning claim is held,
\* though claims are taken and completed by steps that look at the status only
\* in a snapshot or not at all.
DeletedHoldsNoClaim == trip.status \in {"deleting", "gone"} => trip.pdi = 0

\* Nobody brings a trip back that is being deleted: not a worker, a heal, an
\* itinerary edit or another delete that read the row before the lock.
DeletingIsFinal ==
  [][ /\ trip.status = "deleting" => trip'.status \in {"deleting", "gone"}
      /\ trip.status = "gone" => trip'.status = "gone" ]_trip

\* A DAY changes hands only through its deletion, deletions of both kinds
\* included: a refilled day is never overwritten by the worker of the old one.
DayReplacedWhenDeleted ==
  [][\A d \in Day : Written(d) => row'[d] \in {row[d], NoRow}]_row

\* "Remove trip meta, route, and all day-plan rows" (delete_trip): when the TRIP
\* row is gone and no DELETE is at work, no DAY row is left.
DeletedTripIsEmpty ==
  trip.status = "gone" /\ (\A w \in Editor : edit[w].pc = "idle") => WrittenDays = {}
=============================================================================
