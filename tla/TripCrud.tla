------------------------------ MODULE TripCrud ------------------------------
(***************************************************************************)
(* trips/crud.py: trips are created up to the plan's limit                 *)
(* (limits/trips.py), and the details of a trip are edited until its days  *)
(* are planned, which drops its ROUTE and starts over.  Beside them, as    *)
(* far as they write the TRIP's status, its ROUTE or a DAY: the proposal   *)
(* and the confirmation of cities, the planning of a day, and deletion.    *)
(*                                                                         *)
(* The dates of a trip stand for its day_count as well; a ROUTE keeps the  *)
(* dates it was made for, a DAY those it was planned for.  How a claim goes *)
(* stale and is taken over is in PlanDay and CrewJobs.                     *)
(***************************************************************************)
EXTENDS Integers, FiniteSets

CONSTANTS
  Trips,        \* the ids of the trips that requests create
  MaxTrips,     \* FREE_PLAN_MAX_TRIPS: 1
  Dates         \* what a trip's dates may be

ASSUME CrudAssumption == MaxTrips \in Nat

VARIABLES
  trip,         \* the TRIP rows
  route,        \* the ROUTE rows
  days,         \* the dates that its DAY rows were planned for
  creator,      \* one request for each trip that is created
  actor,        \* the requests and workers that change a created trip, one of each kind
  crossed,      \* ghost: the creations that counted the trips between the count and the
                \* put of another
  mixed         \* ghost: the trips on which two writers overlapped or one died, and no PUT
                \* or confirm has gone through alone since

crudVars == <<trip, route, days, creator, actor, crossed, mixed>>

Kind == {"put", "propose", "confirm", "plan", "delete"}

NoTrip == [status |-> "none", city |-> FALSE, dates |-> 0, pdi |-> FALSE, job |-> FALSE]
NoRoute == [dates |-> 0, confirmed |-> FALSE]
Idle == [pc |-> "idle", city |-> FALSE, dates |-> 0]
Busy(t) == { k \in Kind : actor[t][k].pc # "idle" }

CrudInit ==
  /\ trip = [t \in Trips |-> NoTrip]
  /\ route = [t \in Trips |-> NoRoute]
  /\ days = [t \in Trips |-> {}]
  /\ creator = [t \in Trips |-> "new"]
  /\ actor = [t \in Trips |-> [k \in Kind |-> Idle]]
  /\ crossed = {}
  /\ mixed = {}

Exists(t) == trip[t].status # "none"

-----------------------------------------------------------------------------
(* create_trip                                                             *)

Created(t, pc) == creator' = [creator EXCEPT ![t] = pc]

\* Mutant: the limit is reached with one more.
MutList(t) ==
  LET trips == { u \in Trips : Exists(u) } IN
  /\ creator[t] = "new"
  /\ IF Cardinality(trips) > MaxTrips THEN Created(t, "done") ELSE Created(t, "listed")
  /\ crossed' = IF \E u \in Trips : creator[u] = "listed" THEN crossed \cup {t} ELSE crossed
  /\ UNCHANGED <<trip, route, days, actor, mixed>>

\* list_trip_meta_for_user, assert_can_create_trip: trips being deleted count.
List(t) ==
  LET trips == { u \in Trips : Exists(u) } IN
  /\ creator[t] = "new"
  /\ IF Cardinality(trips) >= MaxTrips THEN Created(t, "done") ELSE Created(t, "listed")
  /\ crossed' = IF \E u \in Trips : creator[u] = "listed" THEN crossed \cup {t} ELSE crossed
  /\ UNCHANGED <<trip, route, days, actor, mixed>>

Invalid(t) == /\ creator[t] = "listed" /\ Created(t, "done")
              /\ UNCHANGED <<trip, route, days, actor, crossed, mixed>>

PutTrip(t) ==
  /\ creator[t] = "listed"
  /\ \E city \in BOOLEAN, ds \in Dates :
       /\ trip' = [trip EXCEPT ![t] = [NoTrip EXCEPT !.city = city, !.dates = ds,
                     !.status = IF city THEN "routing_confirmed" ELSE "drafting"]]
       /\ Created(t, IF city THEN "route" ELSE "done")
  /\ UNCHANGED <<route, days, actor, crossed, mixed>>

\* A trip to one city gets its synthetic ROUTE, unless the request dies here.
PutFirstRoute(t) ==
  /\ creator[t] = "route"
  /\ \/ /\ route' = [route EXCEPT ![t] = [dates |-> trip[t].dates, confirmed |-> TRUE]]
        /\ UNCHANGED mixed
     \/ mixed' = mixed \cup {t} /\ UNCHANGED route
  /\ Created(t, "done")
  /\ UNCHANGED <<trip, days, actor, crossed>>

-----------------------------------------------------------------------------
(* The writers of a trip.  Each begins with a read.                        *)

\* A PUT or a confirm of a trip without a claim writes its status and its ROUTE anew.
StartsOver(t, k) == k \in {"put", "confirm"} /\ ~trip[t].job /\ ~trip[t].pdi

Begin(t, k, a) ==
  /\ creator[t] = "done" /\ actor[t][k].pc = "idle" /\ Exists(t)
  /\ actor' = [actor EXCEPT ![t][k] = a]
  /\ mixed' = CASE Busy(t) # {} -> mixed \cup {t}
               [] Busy(t) = {} /\ StartsOver(t, k) -> mixed \ {t}
               [] OTHER -> mixed
  /\ UNCHANGED <<trip, route, days, creator, crossed>>

At(t, k, pc) == actor[t][k].pc = pc
Go(t, k, pc) == actor' = [actor EXCEPT ![t][k].pc = pc]
Done(t, k) == actor' = [actor EXCEPT ![t][k] = Idle]
SetTrip(t, row) == trip' = [trip EXCEPT ![t] = row]
SetRoute(t, r) == route' = [route EXCEPT ![t] = r]

Put(t) == actor[t]["put"]

\* Mutant: a trip whose days are planned may be edited.
MutLoadPut(t) ==
  /\ trip[t].status \notin {"complete", "planning"}
  /\ \E city \in BOOLEAN, ds \in Dates :
       Begin(t, "put", [pc |-> "loaded", city |-> city, dates |-> ds])

\* update_trip: refused once a day is planned or being planned.
LoadPut(t) ==
  /\ days[t] = {} /\ trip[t].status \notin {"complete", "planning"}
  /\ \E city \in BOOLEAN, ds \in Dates :
       Begin(t, "put", [pc |-> "loaded", city |-> city, dates |-> ds])

DropRoute(t) ==
  /\ At(t, "put", "loaded")
  /\ SetRoute(t, NoRoute)
  /\ Go(t, "put", IF Put(t).city THEN "route" ELSE "save")
  /\ UNCHANGED <<trip, days, creator, crossed, mixed>>

PutCityRoute(t) ==
  /\ At(t, "put", "route")
  /\ SetRoute(t, [dates |-> Put(t).dates, confirmed |-> TRUE])
  /\ Go(t, "put", "save")
  /\ UNCHANGED <<trip, days, creator, crossed, mixed>>

\* The row has to exist; a deleted trip's ROUTE stays.
SavePut(t) ==
  /\ At(t, "put", "save")
  /\ IF Exists(t)
     THEN SetTrip(t, [trip[t] EXCEPT !.city = Put(t).city, !.dates = Put(t).dates,
                       !.status = IF Put(t).city THEN "routing_confirmed" ELSE "drafting"])
     ELSE UNCHANGED trip
  /\ Done(t, "put")
  /\ UNCHANGED <<route, days, creator, crossed, mixed>>

\* start_propose_cities claims the job; the worker reads the trip again.
LoadPropose(t) ==
  /\ trip[t].status \in {"drafting", "awaiting_city_confirm"} /\ ~trip[t].city
  /\ ~trip[t].pdi
  /\ Begin(t, "propose", [Idle EXCEPT !.pc = "claim"])

ClaimPropose(t) ==
  /\ At(t, "propose", "claim")
  /\ IF Exists(t) /\ ~trip[t].job /\ ~trip[t].pdi /\ trip[t].status # "deleting"
     THEN SetTrip(t, [trip[t] EXCEPT !.job = TRUE]) /\ Go(t, "propose", "run")
     ELSE Done(t, "propose") /\ UNCHANGED trip
  /\ UNCHANGED <<route, days, creator, crossed, mixed>>

RunPropose(t) ==
  /\ At(t, "propose", "run")
  /\ IF trip[t].job /\ ~trip[t].city
     THEN /\ actor' = [actor EXCEPT ![t]["propose"] =
                         [pc |-> "route", city |-> FALSE, dates |-> trip[t].dates]]
          /\ UNCHANGED trip
     ELSE Done(t, "propose") /\ SetTrip(t, [trip[t] EXCEPT !.job = FALSE])
  /\ UNCHANGED <<route, days, creator, crossed, mixed>>

\* The crew's route fits the trip as the worker read it, or the job fails.
PutProposal(t) ==
  /\ At(t, "propose", "route")
  /\ \/ /\ SetRoute(t, [dates |-> actor[t]["propose"].dates, confirmed |-> FALSE])
        /\ Go(t, "propose", "complete") /\ UNCHANGED trip
     \/ /\ Done(t, "propose") /\ SetTrip(t, [trip[t] EXCEPT !.job = FALSE])
        /\ UNCHANGED route
  /\ UNCHANGED <<days, creator, crossed, mixed>>

CompletePropose(t) ==
  /\ At(t, "propose", "complete")
  /\ IF trip[t].job
     THEN SetTrip(t, [trip[t] EXCEPT !.job = FALSE, !.status = "awaiting_city_confirm"])
     ELSE UNCHANGED trip
  /\ Done(t, "propose")
  /\ UNCHANGED <<route, days, creator, crossed, mixed>>

\* confirm_cities, without a remap: a route that fits the dates of the trip it read.
LoadConfirm(t) ==
  /\ ~trip[t].job /\ days[t] = {} /\ ~trip[t].pdi
  /\ trip[t].status \in {"awaiting_city_confirm", "drafting", "routing_confirmed"}
  /\ Begin(t, "confirm", [pc |-> "status", city |-> FALSE, dates |-> trip[t].dates])

SetConfirmed(t) ==
  /\ At(t, "confirm", "status")
  /\ IF Exists(t)
     THEN SetTrip(t, [trip[t] EXCEPT !.status = "routing_confirmed"]) /\ Go(t, "confirm", "route")
     ELSE Done(t, "confirm") /\ UNCHANGED trip
  /\ UNCHANGED <<route, days, creator, crossed, mixed>>

PutConfirmed(t) ==
  /\ At(t, "confirm", "route")
  /\ SetRoute(t, [dates |-> actor[t]["confirm"].dates, confirmed |-> TRUE])
  /\ Done(t, "confirm")
  /\ UNCHANGED <<trip, days, creator, crossed, mixed>>

\* start_plan_next_day and its worker, for one day after the other.
LoadPlan(t) ==
  /\ trip[t].status \in {"routing_confirmed", "planning", "failed"}
  /\ trip[t].city \/ route[t].confirmed
  /\ ~trip[t].pdi
  /\ Begin(t, "plan", [Idle EXCEPT !.pc = "claim"])

ClaimPlan(t) ==
  /\ At(t, "plan", "claim")
  /\ IF Exists(t) /\ ~trip[t].job /\ ~trip[t].pdi /\ trip[t].status # "deleting"
     THEN SetTrip(t, [trip[t] EXCEPT !.pdi = TRUE, !.status = "planning"]) /\ Go(t, "plan", "run")
     ELSE Done(t, "plan") /\ UNCHANGED trip
  /\ UNCHANGED <<route, days, creator, crossed, mixed>>

\* The worker and its failure path look at the claim.
RunPlan(t) ==
  /\ At(t, "plan", "run")
  /\ \/ /\ trip[t].pdi
        /\ actor' = [actor EXCEPT ![t]["plan"] =
                       [pc |-> "put", city |-> FALSE, dates |-> trip[t].dates]]
        /\ UNCHANGED trip
     \/ /\ Done(t, "plan")
        /\ IF trip[t].pdi
           THEN SetTrip(t, [trip[t] EXCEPT !.pdi = FALSE, !.status = "failed"])
           ELSE UNCHANGED trip
  /\ UNCHANGED <<route, days, creator, crossed, mixed>>

PutDay(t) ==
  /\ At(t, "plan", "put")
  /\ days' = [days EXCEPT ![t] = @ \cup {actor[t]["plan"].dates}]
  /\ Go(t, "plan", "complete")
  /\ UNCHANGED <<trip, route, creator, crossed, mixed>>

CompletePlan(t) ==
  /\ At(t, "plan", "complete")
  /\ IF trip[t].pdi
     THEN \E st \in {"planning", "complete"} :
            SetTrip(t, [trip[t] EXCEPT !.pdi = FALSE, !.status = st])
     ELSE UNCHANGED trip
  /\ Done(t, "plan")
  /\ UNCHANGED <<route, days, creator, crossed, mixed>>

\* begin_trip_delete, refused while a day is being planned, then the rows.
LoadDelete(t) == Begin(t, "delete", [Idle EXCEPT !.pc = "lock"])

LockDelete(t) ==
  /\ At(t, "delete", "lock")
  /\ IF Exists(t) /\ ~trip[t].pdi
     THEN SetTrip(t, [trip[t] EXCEPT !.status = "deleting"]) /\ Go(t, "delete", "rows")
     ELSE Done(t, "delete") /\ UNCHANGED trip
  /\ UNCHANGED <<route, days, creator, crossed, mixed>>

RemoveRows(t) ==
  /\ At(t, "delete", "rows")
  /\ SetTrip(t, NoTrip) /\ SetRoute(t, NoRoute)
  /\ days' = [days EXCEPT ![t] = {}]
  /\ Done(t, "delete")
  /\ UNCHANGED <<creator, crossed, mixed>>

\* A request or a worker stops.
Stops(t, k) ==
  /\ actor[t][k].pc # "idle"
  /\ Done(t, k)
  /\ mixed' = mixed \cup {t}
  /\ UNCHANGED <<trip, route, days, creator, crossed>>

Creates(t) == List(t) \/ Invalid(t) \/ PutTrip(t) \/ PutFirstRoute(t)

Deletes(t) == LoadDelete(t) \/ LockDelete(t) \/ RemoveRows(t)

Changes(t) ==
  \/ LoadPut(t) \/ DropRoute(t) \/ PutCityRoute(t) \/ SavePut(t)
  \/ LoadPropose(t) \/ ClaimPropose(t) \/ RunPropose(t) \/ PutProposal(t) \/ CompletePropose(t)
  \/ LoadConfirm(t) \/ SetConfirmed(t) \/ PutConfirmed(t)
  \/ LoadPlan(t) \/ ClaimPlan(t) \/ RunPlan(t) \/ PutDay(t) \/ CompletePlan(t)

CrudNext ==
  \E t \in Trips : Creates(t) \/ Deletes(t) \/ Changes(t) \/ \E k \in Kind : Stops(t, k)

CrudSpec == CrudInit /\ [][CrudNext]_crudVars

-----------------------------------------------------------------------------
(* Properties                                                              *)

Count == Cardinality({ t \in Trips : Exists(t) })

\* A plan's limit on trips is passed only by creations that counted the trips while
\* another was between its count and its put, one trip by each: the put has no
\* condition on the number.
TripsWithinLimit == Cardinality({ t \in Trips : Exists(t) } \ crossed) <= MaxTrips

\* "Free plan allows a limited number of trips".
TripLimit == Count <= MaxTrips

\* Whatever is done to a trip one thing after the other, its status, its ROUTE and its
\* planned days tell of the same dates: a confirmed trip has a confirmed ROUTE for them, one that
\* waits for the traveler a proposal for them, a draft none, and a planned day is of them
\* and of a confirmed ROUTE.  Two writers at once, or the death of one between its writes,
\* may break that, until a PUT or a confirm of a trip without a claim goes through alone.
RouteInStep ==
  \A t \in Trips \ mixed :
    Exists(t) /\ creator[t] = "done" /\ Busy(t) = {} =>
      LET fits == route[t].dates = trip[t].dates IN
      /\ trip[t].status = "routing_confirmed" => fits /\ route[t].confirmed
      /\ trip[t].status = "awaiting_city_confirm" => fits /\ ~route[t].confirmed
      /\ trip[t].status = "drafting" => route[t] = NoRoute
      /\ days[t] # {} => days[t] = {trip[t].dates} /\ fits /\ route[t].confirmed

\* A trip that is being deleted is not edited back into a draft.
DeletingStays ==
  [][\A t \in Trips : trip[t].status = "deleting" => trip'[t].status \in {"deleting", "none"}]_crudVars
=============================================================================
