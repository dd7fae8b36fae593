--------------------------- MODULE RouteReconfirm ---------------------------
(***************************************************************************)
(* POST /trips/{id}/confirm-cities (trips/city_route.py, confirm_cities)   *)
(* and the move of the planned days onto the confirmed route               *)
(* (trips/route_reconfirm.py): the kept days are staged under DAYREMAP     *)
(* keys, the DAY rows deleted, the staged days promoted to DAY rows and    *)
(* the staging rows dropped, one DynamoDB call at a time.  A confirm may   *)
(* die between any two calls and the next one resumes from what it left.   *)
(*                                                                         *)
(* Next to the confirms run the plan-day workers of PlanDay, reduced to    *)
(* the calls that touch what a confirm touches, and the first two writes   *)
(* of a trip's deletion (all of it is in TripEdits).                       *)
(***************************************************************************)
EXTENDS TripRow, Sequences

CONSTANTS
  Confirm,      \* concurrent confirm-cities requests
  Worker,       \* plan-next-day runs; each plans one day, its plan is named by it
  City,         \* overnight cities
  Routes,       \* the routes travelers confirm, as overnight schedules
  MaxDeaths,    \* bound on the confirms that die, or whose calls outside staging raise
  MaxFails,     \* bound on the calls that raise while a confirm stages
  Deletes       \* whether the trip may be deleted

\* A confirmed route has one overnight city for every day (assert_route_fits_window).
ASSUME RouteReconfirmAssumption ==
  /\ Routes \subseteq [Day -> City]
  /\ MaxDeaths \in Nat
  /\ MaxFails \in Nat

Plan == Day \cup Worker     \* the plan a day had at the start, or a worker's

R == INSTANCE DayRemap WITH Days <- DayCount

Slots == R!Slot
IsRows(f, S) == DOMAIN f \subseteq Day /\ \A d \in DOMAIN f : f[d] \in S
Staged == [plan : Plan, city : City, fp : Routes]   \* fp: remap_route_fp

VARIABLES
  trip,      \* the TRIP row
  route,     \* the ROUTE row
  days,      \* the DAY rows
  staging,   \* the DAY_REMAP rows
  conf,      \* conf[c]: where confirm c is, and what it has read
  work,      \* work[w]: where plan-day run w is, and what it has read
  faults,    \* the deaths and the failed stagings so far
  overtaken  \* the runs that a confirm has overtaken, for the properties to read

vars == <<trip, route, days, staging, conf, work, faults, overtaken>>

Drop(rows, n) == [d \in DOMAIN rows \ {n} |-> rows[d]]
Put(rows, n, r) == [d \in DOMAIN rows \cup {n} |-> IF d = n THEN r ELSE rows[d]]
Payload(rows) == [d \in DOMAIN rows |-> [plan |-> rows[d].plan, city |-> rows[d].city]]
Plans(rows) == { rows[d].plan : d \in DOMAIN rows }

-----------------------------------------------------------------------------
(* A confirm knows the route it was sent, the status it loaded, the        *)
(* payloads it is moving (pay), the indexes it has still to visit in the   *)
(* current loop (todo), and those it will delete afterwards: DAY rows not  *)
(* covered by staging (trim), old DAY rows (old).                          *)

ConfirmPc == { "idle", "bundle", "direct", "unclaim", "read", "recover", "unstage",
               "trim", "stage", "readback", "unwind", "clean", "drop", "promote",
               "query", "sweep", "finish", "route" }

IsConfirm(x) ==
  /\ x.pc \in ConfirmPc
  /\ x.route \in Routes
  /\ x.status \in Status
  /\ {x.moved, x.same} \subseteq BOOLEAN
  /\ IsRows(x.pay, Slots)
  /\ {x.todo, x.trim, x.old} \subseteq SUBSET Day

NoConfirm == [ pc |-> "idle", route |-> CHOOSE r \in Routes : TRUE, status |-> "drafting",
               moved |-> FALSE, pay |-> R!NoRows, todo |-> {}, trim |-> {},
               old |-> {}, same |-> FALSE ]

WorkType == [ pc : {"idle", "heal", "probe", "claim", "adopt", "prepare", "crew", "put",
                    "complete", "done"},
              day : 0..DayCount, city : City ]

\* torn: a confirm has died, and none has since moved the days to its end.
FaultType == [dead : 0..MaxDeaths, failed : 0..MaxFails, torn : BOOLEAN]

TypeOK ==
  /\ trip \in TripType
  /\ route \in Routes
  /\ IsRows(days, Slots)
  /\ IsRows(staging, Staged)
  /\ \A c \in Confirm : IsConfirm(conf[c])
  /\ work \in [Worker -> WorkType]
  /\ faults \in FaultType
  /\ overtaken \subseteq Worker

\* A trip whose route is confirmed and whose first k days are planned along it.
Init ==
  /\ route \in Routes
  /\ \E k \in 0..DayCount :
       /\ days = [d \in 1..k |-> [plan |-> d, city |-> route[d]]]
       /\ trip = [FreshTrip EXCEPT !.ndi = k + 1,
                    !.status = IF k = 0 THEN "routing_confirmed"
                               ELSE IF k = DayCount THEN "complete" ELSE "planning"]
  /\ staging = R!NoRows
  /\ conf = [c \in Confirm |-> NoConfirm]
  /\ work = [w \in Worker |-> [pc |-> "idle", day |-> 0, city |-> CHOOSE x \in City : TRUE]]
  /\ faults = [dead |-> 0, failed |-> 0, torn |-> FALSE]
  /\ overtaken = {}

-----------------------------------------------------------------------------
(* confirm_cities                                                          *)

Go(c, pc) == conf' = [conf EXCEPT ![c].pc = pc]
Stop(c) == conf' = [conf EXCEPT ![c] = NoConfirm]

\* The payloads to move next, from the given rows onto c's route.
Moving(c, rows) == R!Remap(rows, conf[c].route)

\* A run that has claimed its day and has not yet put it.
UnderWay(w) == work[w].pc \in {"prepare", "crew", "put"}

\* The claim is removed from the row: the other runs that relied on it are overtaken.
Overtakes(others) ==
  overtaken' = overtaken \cup
    { w \in others : UnderWay(w) /\ trip.pdi = work[w].day }

\* The trip is loaded, its status checked and the route validated.  The row may
\* have kept visited_place_keys of days that are no longer there (keys).
LoadTrip(c) ==
  /\ conf[c].pc = "idle"
  /\ trip.status \notin {"deleting", "gone"}
  /\ ~trip.job
  /\ \E r \in Routes, keys \in BOOLEAN :
       conf' = [conf EXCEPT ![c] =
                  [NoConfirm EXCEPT !.pc = "bundle", !.route = r, !.status = trip.status,
                     !.moved = \/ trip.status \in {"planning", "failed", "complete"}
                               \/ trip.pdi # 0
                               \/ trip.ndi > 1
                               \/ keys]]
  /\ UNCHANGED <<trip, route, days, staging, work, faults, overtaken>>

\* The bundle is read: does the itinerary need a remap?
LoadBundle(c) ==
  /\ conf[c].pc = "bundle"
  /\ Go(c, IF DOMAIN days # {} \/ conf[c].moved THEN "unclaim" ELSE "direct")
  /\ UNCHANGED <<trip, route, days, staging, work, faults, overtaken>>

\* It does not: update_trip, which asks only that the row exists.
Direct(c) ==
  /\ conf[c].pc = "direct"
  /\ IF Exists(trip)
     THEN trip' = [trip EXCEPT !.status = "routing_confirmed"] /\ Go(c, "route")
     ELSE UNCHANGED trip /\ Stop(c)
  /\ UNCHANGED <<route, days, staging, work, faults, overtaken>>

PutRoute(c) ==
  /\ conf[c].pc = "route"
  /\ route' = conf[c].route
  /\ Stop(c)
  /\ UNCHANGED <<trip, days, staging, work, faults, overtaken>>

-----------------------------------------------------------------------------
(* remap_itinerary_for_route_reconfirm                                     *)

\* Mutant: the claim is left to its run.
MutUnclaim(c) ==
  /\ conf[c].pc = "unclaim"
  /\ IF trip.status \notin {"deleting", "gone"} THEN Go(c, "read") ELSE Stop(c)
  /\ UNCHANGED <<trip, route, days, staging, work, faults, overtaken>>

\* The planning claim is removed, whoever holds it.
Unclaim(c) ==
  /\ conf[c].pc = "unclaim"
  /\ IF trip.status \notin {"deleting", "gone"}
     THEN trip' = NoClaim(trip) /\ Overtakes(Worker) /\ Go(c, "read")
     ELSE UNCHANGED <<trip, overtaken>> /\ Stop(c)
  /\ UNCHANGED <<route, days, staging, work, faults>>

\* Staging rows, when there are any, are what an interrupted confirm has left.
ReadBundle(c) ==
  /\ conf[c].pc = "read"
  /\ IF DOMAIN staging # {}
     THEN conf' = [conf EXCEPT
            ![c].pc = "recover", ![c].pay = Payload(staging), ![c].todo = DOMAIN staging,
            ![c].trim = DOMAIN days \ DOMAIN staging,
            ![c].same = \A d \in DOMAIN staging : staging[d].fp = conf[c].route]
     ELSE LET pay == Moving(c, days) IN
          conf' = [conf EXCEPT ![c].pc = "stage", ![c].pay = pay,
                               ![c].todo = DOMAIN pay, ![c].old = DOMAIN days]
  /\ UNCHANGED <<trip, route, days, staging, work, faults, overtaken>>

\* One step of a loop over c's todo: d is the index it visits.
Visits(c, d) == d \in conf[c].todo /\ \A e \in conf[c].todo : d <= e
Visited(c, d) == conf' = [conf EXCEPT ![c].todo = @ \ {d}]

\* A loop over todo has ended: on to pc with a new todo.
LoopEnds(c, here, pc, todo) ==
  /\ conf[c].pc = here
  /\ conf[c].todo = {}
  /\ conf' = [conf EXCEPT ![c].pc = pc, ![c].todo = todo]
  /\ UNCHANGED <<trip, route, days, staging, work, faults, overtaken>>

\* Put the payload of the next index as a DAY row, whatever is there (put_day).
PutDay(c, here) ==
  /\ conf[c].pc = here
  /\ \E d \in Day : Visits(c, d) /\ days' = Put(days, d, conf[c].pay[d]) /\ Visited(c, d)
  /\ UNCHANGED <<trip, route, staging, work, faults, overtaken>>

DeleteDay(c, here) ==
  /\ conf[c].pc = here
  /\ \E d \in Day : Visits(c, d) /\ days' = Drop(days, d) /\ Visited(c, d)
  /\ UNCHANGED <<trip, route, staging, work, faults, overtaken>>

DeleteStaging(c, here) ==
  /\ conf[c].pc = here
  /\ \E d \in Day : Visits(c, d) /\ staging' = Drop(staging, d) /\ Visited(c, d)
  /\ UNCHANGED <<trip, route, days, work, faults, overtaken>>

QueryStaging(c, here, pc) ==
  /\ conf[c].pc = here
  /\ conf' = [conf EXCEPT ![c].pc = pc, ![c].todo = DOMAIN staging]
  /\ UNCHANGED <<trip, route, days, staging, work, faults, overtaken>>

\* Resume: the staged days are promoted, unstaged, and other DAY rows dropped.
Recover(c) ==
  \/ PutDay(c, "recover")
  \/ LoopEnds(c, "recover", "unstage", DOMAIN conf[c].pay)

Unstage(c) ==
  \/ DeleteStaging(c, "unstage")
  \/ LoopEnds(c, "unstage", "trim", conf[c].trim)

\* Staged for this very route they are the result, else they are remapped.
TrimEnds(c) ==
  /\ conf[c].pc = "trim"
  /\ conf[c].todo = {}
  /\ LET pay == Moving(c, conf[c].pay) IN
       conf' = [conf EXCEPT
         ![c].pc = IF conf[c].same THEN "finish" ELSE "stage",
         ![c].pay = IF conf[c].same THEN @ ELSE pay,
         ![c].todo = IF conf[c].same THEN {} ELSE DOMAIN pay,
         ![c].old = DOMAIN conf[c].pay]
  /\ UNCHANGED <<trip, route, days, staging, work, faults, overtaken>>

Trim(c) == DeleteDay(c, "trim") \/ TrimEnds(c)

\* _stage_all: put, then read back.
StagePut(c) ==
  /\ conf[c].pc = "stage"
  /\ \E d \in Day :
       /\ Visits(c, d)
       /\ staging' = Put(staging, d, [plan |-> conf[c].pay[d].plan,
                                      city |-> conf[c].pay[d].city, fp |-> conf[c].route])
  /\ Go(c, "readback")
  /\ UNCHANGED <<trip, route, days, work, faults, overtaken>>

ReadBack(c) ==
  /\ conf[c].pc = "readback"
  /\ \E d \in Day :
       /\ Visits(c, d)
       /\ conf' = IF d \in DOMAIN staging
                  THEN [conf EXCEPT ![c].pc = "stage", ![c].todo = @ \ {d}]
                  ELSE [conf EXCEPT ![c].pc = "unwind"]
  /\ UNCHANGED <<trip, route, days, staging, work, faults, overtaken>>

\* Mutant: the old DAY rows are deleted before the new ones are staged.
MutStage(c) ==
  \/ StagePut(c)
  \/ ReadBack(c)
  \/ DeleteDay(c, "stage")
  \/ LoopEnds(c, "stage", "drop", conf[c].old)

Stage(c) ==
  \/ StagePut(c)
  \/ ReadBack(c)
  \/ LoopEnds(c, "stage", "drop", conf[c].old)

\* An exception while staging: every staging row there is is deleted.
StageFails(c) ==
  /\ conf[c].pc \in {"stage", "readback"}
  /\ conf[c].todo # {}
  /\ faults.failed < MaxFails
  /\ faults' = [faults EXCEPT !.failed = @ + 1]
  /\ Go(c, "unwind")
  /\ UNCHANGED <<trip, route, days, staging, work, overtaken>>

CleanEnds(c) ==
  /\ conf[c].pc = "clean"
  /\ conf[c].todo = {}
  /\ Stop(c)
  /\ UNCHANGED <<trip, route, days, staging, work, faults, overtaken>>

\* Mutant: what was staged is left behind.
MutUnwind(c) ==
  /\ conf[c].pc = "unwind"
  /\ Stop(c)
  /\ UNCHANGED <<trip, route, days, staging, work, faults, overtaken>>

Unwind(c) ==
  \/ QueryStaging(c, "unwind", "clean")
  \/ DeleteStaging(c, "clean")
  \/ CleanEnds(c)

DropOld(c) ==
  \/ DeleteDay(c, "drop")
  \/ LoopEnds(c, "drop", "promote", DOMAIN conf[c].pay)

Promote(c) ==
  \/ PutDay(c, "promote")
  \/ LoopEnds(c, "promote", "query", {})

\* Mutant: the staging rows are left where they are.
MutSweep(c) == LoopEnds(c, "query", "finish", {})

Sweep(c) ==
  \/ QueryStaging(c, "query", "sweep")
  \/ DeleteStaging(c, "sweep")
  \/ LoopEnds(c, "sweep", "finish", {})

\* Mutant: the cursor keeps the place it had.
MutFinish(c) ==
  /\ conf[c].pc = "finish"
  /\ IF trip.status \notin {"deleting", "gone"}
     THEN /\ trip' = [NoClaim(trip) EXCEPT !.status = "planning"]
          /\ Overtakes(Worker)
          /\ faults' = [faults EXCEPT !.torn = FALSE]
          /\ Go(c, "route")
     ELSE UNCHANGED <<trip, faults, overtaken>> /\ Stop(c)
  /\ UNCHANGED <<route, days, staging, work>>

\* The cursor and status of the days kept, and once more no claim.
Finish(c) ==
  /\ conf[c].pc = "finish"
  /\ IF trip.status \notin {"deleting", "gone"}
     THEN /\ \E n \in 1..(DayCount + 1), st \in Status :
               /\ StatusAfterDayEdit(DOMAIN conf[c].pay, conf[c].status, n, st)
               /\ trip' = [NoClaim(trip) EXCEPT
                    !.ndi = n,
                    !.status = CASE DOMAIN conf[c].pay = {} -> "routing_confirmed"
                                 [] st = "complete" -> "complete"
                                 [] OTHER -> "planning"]
          /\ Overtakes(Worker)
          /\ faults' = [faults EXCEPT !.torn = FALSE]
          /\ Go(c, "route")
     ELSE UNCHANGED <<trip, faults, overtaken>> /\ Stop(c)
  /\ UNCHANGED <<route, days, staging, work>>

\* The API Lambda of a confirm dies, or one of its other calls raises.
ConfirmDies(c) ==
  /\ conf[c].pc \notin {"idle", "bundle"}
  /\ faults.dead < MaxDeaths
  /\ faults' = [faults EXCEPT !.dead = @ + 1, !.torn = TRUE]
  /\ Stop(c)
  /\ UNCHANGED <<trip, route, days, staging, work, overtaken>>

ConfirmStep(c) ==
  \/ LoadTrip(c) \/ LoadBundle(c) \/ Direct(c) \/ PutRoute(c) \/ Unclaim(c)
  \/ ReadBundle(c) \/ Recover(c) \/ Unstage(c) \/ Trim(c) \/ Stage(c) \/ Unwind(c)
  \/ DropOld(c) \/ Promote(c) \/ Sweep(c) \/ Finish(c)

-----------------------------------------------------------------------------
(* A plan-day run: the first missing day is looked for, the cursor healed, *)
(* the day claimed, its city read from the ROUTE, the crew run, the claim  *)
(* looked at again, the DAY put if it is absent, and the claim completed.  *)
(* A request that finds a claim, and whatever fails, is PlanDay's.         *)

\* start_plan_next_day reads the trip, the route and the days.
StartDay(w) ==
  /\ work[w].pc = "idle"
  /\ trip.status \in {"routing_confirmed", "planning", "failed"}
  /\ trip.pdi = 0
  /\ \E d \in Day :
       /\ IsFirstMissing(d, DOMAIN days)
       /\ work' = [work EXCEPT ![w].pc = IF trip.ndi = d THEN "probe" ELSE "heal",
                               ![w].day = d]
  /\ UNCHANGED <<trip, route, days, staging, conf, faults, overtaken>>

\* update_trip(next_day_index): it asks only that the row exists.
HealCursor(w) ==
  /\ work[w].pc = "heal"
  /\ trip' = IF Exists(trip) THEN SetNextDay(trip, work[w].day) ELSE trip
  /\ work' = [work EXCEPT ![w].pc = IF Exists(trip) THEN "probe" ELSE "done"]
  /\ UNCHANGED <<route, days, staging, conf, faults, overtaken>>

\* A DAY that has come meanwhile is adopted: claimed, and completed at once.
ProbeDay(w) ==
  /\ work[w].pc = "probe"
  /\ work' = [work EXCEPT ![w].pc = IF work[w].day \in DOMAIN days THEN "adopt" ELSE "claim"]
  /\ UNCHANGED <<trip, route, days, staging, conf, faults, overtaken>>

ClaimDay(w) ==
  /\ work[w].pc \in {"claim", "adopt"}
  /\ IF CanClaimPlanning(trip, work[w].day)
     THEN /\ trip' = ClaimPlanning(trip, work[w].day)
          /\ work' = [work EXCEPT ![w].pc = IF @ = "claim" THEN "prepare" ELSE "complete"]
     ELSE UNCHANGED trip /\ work' = [work EXCEPT ![w].pc = "done"]
  /\ UNCHANGED <<route, days, staging, conf, faults, overtaken>>

\* The city comes from the ROUTE row, which a confirm under way is replacing.
Prepare(w) ==
  /\ work[w].pc = "prepare"
  /\ work' = [work EXCEPT ![w].pc = "crew", ![w].city = route[work[w].day]]
  /\ overtaken' = IF \E c \in Confirm : conf[c].pc # "idle"
                  THEN overtaken \cup {w} ELSE overtaken
  /\ UNCHANGED <<trip, route, days, staging, conf, faults>>

Recheck(w) ==
  /\ work[w].pc = "crew"
  /\ work' = [work EXCEPT ![w].pc = IF HoldsClaim(trip, work[w].day) THEN "put" ELSE "done"]
  /\ UNCHANGED <<trip, route, days, staging, conf, faults, overtaken>>

PutPlanned(w) ==
  /\ work[w].pc = "put"
  /\ days' = IF work[w].day \in DOMAIN days THEN days
             ELSE Put(days, work[w].day, [plan |-> w, city |-> work[w].city])
  /\ work' = [work EXCEPT ![w].pc = "complete"]
  /\ UNCHANGED <<trip, route, staging, conf, faults, overtaken>>

\* The claim is known by its day alone: it may be another run's by now.
CompleteDay(w) ==
  /\ work[w].pc = "complete"
  /\ IF HoldsClaim(trip, work[w].day)
     THEN trip' = CompletePlanning(trip, work[w].day) /\ Overtakes(Worker \ {w})
     ELSE UNCHANGED <<trip, overtaken>>
  /\ work' = [work EXCEPT ![w].pc = "done"]
  /\ UNCHANGED <<route, days, staging, conf, faults>>

WorkStep(w) ==
  \/ StartDay(w) \/ HealCursor(w) \/ ProbeDay(w) \/ ClaimDay(w)
  \/ Prepare(w) \/ Recheck(w) \/ PutPlanned(w) \/ CompleteDay(w)

\* delete_trip: the lock, then the TRIP row.
LockTrip ==
  /\ Deletes
  /\ trip.status # "deleting"
  /\ CanBeginDelete(trip)
  /\ trip' = BeginDelete(trip)
  /\ UNCHANGED <<route, days, staging, conf, work, faults, overtaken>>

RemoveTrip ==
  /\ trip.status = "deleting"
  /\ trip' = DeleteTripRow(trip)
  /\ UNCHANGED <<route, days, staging, conf, work, faults, overtaken>>

Next ==
  \/ \E c \in Confirm : ConfirmStep(c) \/ StageFails(c) \/ ConfirmDies(c)
  \/ \E w \in Worker : WorkStep(w)
  \/ LockTrip
  \/ RemoveTrip

Spec == Init /\ [][Next]_vars

-----------------------------------------------------------------------------
(* Properties                                                              *)

\* WRITE BEFORE DELETE.  While a confirm moves days, every plan it keeps is
\* in a DAY row or in a staging row, wherever it is stopped: that is what the
\* next confirm can recover.
Moves(c) == conf[c].pc \in {"recover", "unstage", "trim", "drop", "promote", "query",
                            "sweep", "finish", "route"}
KeptPlansAreStored ==
  \A c \in Confirm : Moves(c) =>
    Plans(conf[c].pay) \subseteq Plans(days) \cup Plans(staging)

\* A confirm that no plan-day run and no DELETE disturbs leaves an itinerary that fits its
\* route, also when it resumes what another has left: overnight cities as
\* confirmed, no staging row, and the cursor and status of the days that are
\* there.  Said where put_route is due.
Undisturbed(c) ==
  /\ conf[c].pc = "route"
  /\ \A w \in Worker : work[w].pc = "idle"
  /\ trip.status \notin {"deleting", "gone"}
ConfirmedDaysFitRoute ==
  \A c \in Confirm : Undisturbed(c) =>
    /\ \A d \in DOMAIN days : days[d].city = conf[c].route[d]
    /\ staging = R!NoRows
    /\ IF DOMAIN days = Day THEN trip.ndi = DayCount + 1 /\ trip.status = "complete"
       ELSE /\ IsFirstMissing(trip.ndi, DOMAIN days)
            /\ trip.status = IF DOMAIN days = {} THEN "routing_confirmed" ELSE "planning"

\* remap_day_plans takes the next unused prior day: no plan stands on two days of a
\* confirmed itinerary.  So it is as long as at most one confirm dies: a resume that
\* is itself cut off may leave a plan under its old and its new index.
NoPlanTwice ==
  \A c \in Confirm : Undisturbed(c) =>
    \A d, e \in DOMAIN days : days[d].plan = days[e].plan => d = e

\* "Partial staging must not trigger resume that deletes surviving DAY rows":
\* a resume deletes no DAY row whose plan is stored nowhere else.
SurvivingDaysKept ==
  [][\A c \in Confirm : conf[c].pc = "trim" =>
       Plans(days) \subseteq Plans(days') \cup Plans(staging')]_vars

\* A staging that fails by an exception is undone: unless a confirm was killed and
\* none has moved the days since, no resume deletes a DAY row whose plan is stored
\* nowhere else.
FailedStagingIsUndone ==
  [][\A c \in Confirm : conf[c].pc = "trim" /\ ~faults.torn =>
       Plans(days) \subseteq Plans(days') \cup Plans(staging')]_vars

\* With no confirm and no plan-day run under way, every planned day is spent
\* in the city that the ROUTE row gives it.
RestingDaysFitRoute ==
  (\A c \in Confirm : conf[c].pc = "idle") /\ (\A w \in Worker : work[w].pc \in {"idle", "done"})
    => \A d \in DOMAIN days : days[d].city = route[d]

\* When no confirm is under way, every planned day is spent in the city that the ROUTE
\* row gives it, but for the days of runs that a confirm has overtaken: those that read
\* the ROUTE while a confirm was under way, and those whose claim was removed before
\* their put.  A confirm that dies may leave others, until one moves the days again.
OnlyOvertakenMisfit ==
  /\ \A c \in Confirm : conf[c].pc = "idle"
  /\ ~faults.torn
  /\ trip.status \notin {"deleting", "gone"}
  => \A d \in DOMAIN days : days[d].city = route[d] \/ days[d].plan \in overtaken

\* begin_trip_delete "acts as a delete lock": deleting ends only with the TRIP row.
DeleteLockHolds ==
  [][trip.status = "deleting" => trip'.status \in {"deleting", "gone"}]_vars
=============================================================================
