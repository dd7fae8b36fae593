------------------------------ MODULE TripRow ------------------------------
(***************************************************************************)
(* The TRIP row of the single DynamoDB table, and the conditional writes   *)
(* that db/repository/planning.py, crew_jobs.py and trips.py make to it.   *)
(*                                                                         *)
(* A DynamoDB update with a ConditionExpression is atomic on one row, so   *)
(* each write is a pair of operators: Can... is the condition and the      *)
(* operator of the write is the row it stores.  The modules of the         *)
(* handlers decide who writes when.                                        *)
(*                                                                         *)
(*   status  the status attribute; "gone" when the row does not exist      *)
(*   ndi     next_day_index                                                *)
(*   pdi     planning_day_index, 0 when the attribute is absent            *)
(*   aged    planning_started_at is older than PLANNING_STALE_SECONDS      *)
(*   job     crew_job_kind is present                                      *)
(***************************************************************************)
EXTENDS Naturals

CONSTANT DayCount       \* day_count of the trip

ASSUME DayCountAssumption == DayCount \in Nat \ {0}

Day == 1..DayCount

Status == { "drafting", "awaiting_city_confirm", "routing_confirmed",
            "planning", "complete", "failed", "deleting", "gone" }

TripType == [ status : Status, ndi : 1..(DayCount + 1), pdi : 0..DayCount,
              aged : BOOLEAN, job : BOOLEAN ]

Exists(t) == t.status # "gone"

NoClaim(t) == [t EXCEPT !.pdi = 0, !.aged = FALSE]

\* A trip whose route is confirmed and none of whose days is planned.
FreshTrip == [ status |-> "routing_confirmed", ndi |-> 1, pdi |-> 0,
               aged |-> FALSE, job |-> FALSE ]

-----------------------------------------------------------------------------
(* The planning claim.  CompletePlanning, FailPlanning and ClearStaleClaim *)
(* are conditional on planning_day_index alone.                            *)

HoldsClaim(t, n) == Exists(t) /\ n # 0 /\ t.pdi = n

\* Mutant: the crew job is not looked at.
MutCanClaimPlanning(t, n) ==
  t.status \notin {"deleting", "gone"} /\ t.ndi = n /\ t.pdi = 0

CanClaimPlanning(t, n) ==
  /\ t.status \notin {"deleting", "gone"}
  /\ t.ndi = n
  /\ t.pdi = 0
  /\ ~t.job

ClaimPlanning(t, n) ==
  [t EXCEPT !.pdi = n, !.aged = FALSE, !.status = "planning"]

\* Mutant: off by one.
MutStatusAfterPlanning(n) == IF n + 1 >= DayCount THEN "complete" ELSE "planning"

StatusAfterPlanning(n) == IF n + 1 > DayCount THEN "complete" ELSE "planning"

\* Mutant: the cursor passes the planned day twice.
MutCompletePlanning(t, n) ==
  [NoClaim(t) EXCEPT !.ndi = n + 2, !.status = StatusAfterPlanning(n)]

CompletePlanning(t, n) ==
  [NoClaim(t) EXCEPT !.ndi = n + 1, !.status = StatusAfterPlanning(n)]

FailPlanning(t) == [NoClaim(t) EXCEPT !.status = "failed"]

ClearStaleClaim(t) == [NoClaim(t) EXCEPT !.status = "planning"]

SetNextDay(t, n) == [t EXCEPT !.ndi = n]

-----------------------------------------------------------------------------
(* The other writers of the row.                                           *)

CanClaimJob(t) ==
  /\ t.status \notin {"deleting", "gone"}
  /\ ~t.job
  /\ t.pdi = 0

\* Mutant: the delete lock is not looked at.
MutCanEditItinerary(t) == Exists(t) /\ t.pdi = 0

CanEditItinerary(t) == t.status \notin {"deleting", "gone"} /\ t.pdi = 0

EditItinerary(t, n, st) == [t EXCEPT !.ndi = n, !.status = st]

\* Mutant: the planning claim is not looked at.
MutCanBeginDelete(t) == Exists(t)

CanBeginDelete(t) == Exists(t) /\ t.pdi = 0

BeginDelete(t) == [t EXCEPT !.status = "deleting"]

DeleteTripRow(t) == [NoClaim(t) EXCEPT !.status = "gone", !.job = FALSE]

-----------------------------------------------------------------------------
(* resolve_plan_day_index / first_missing_day_index: d is the lowest day   *)
(* of the trip that has no DAY row in S.                                   *)

\* Mutant: any missing day.
MutIsFirstMissing(d, S) == d \in Day \ S

IsFirstMissing(d, S) == d \in Day \ S /\ \A e \in Day : e < d => e \in S

\* Mutant: the status of the trip is kept.
MutStatusAfterDayEdit(S, st, n, new) ==
  /\ new = st
  /\ IF Day \subseteq S THEN n = DayCount + 1 ELSE IsFirstMissing(n, S)

\* status_after_day_edit(remaining_days = S, previous_status = st) returns (n, new).
StatusAfterDayEdit(S, st, n, new) ==
  \/ /\ Day \subseteq S
     /\ n = DayCount + 1
     /\ new = "complete"
  \/ /\ ~(Day \subseteq S)
     /\ S = {}
     /\ n = 1
     /\ new = IF st \in {"planning", "complete", "failed"}
              THEN "routing_confirmed" ELSE st
  \/ /\ S # {}
     /\ IsFirstMissing(n, S)
     /\ new = "planning"
=============================================================================
