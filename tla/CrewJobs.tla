------------------------------ MODULE CrewJobs ------------------------------
(***************************************************************************)
(* The asynchronous crew jobs of a trip: propose-cities, suggest-city and  *)
(* suggest-place.  A request claims crew_job_kind on the TRIP row, charges *)
(* the user's GenAI quota and sends an event (db/repository/crew_jobs.py,  *)
(* start_... in trips/city_route.py, city_suggest.py, suggest_place.py); a *)
(* Lambda run of the event does the work and releases the claim            *)
(* (execute_..., handler.py).  Events are delivered at least once and      *)
(* retried, runs die, and a claim can go stale.                            *)
(*                                                                         *)
(* A claim carries no identity but its kind: whatever run finds the kind   *)
(* it expects acts for the claim it finds.                                 *)
(***************************************************************************)
EXTENDS Integers, Sequences, SequencesExt, FiniteSets

CONSTANTS
  Request,      \* requests; a request also names what its runs produce
  Kinds,        \* the job kinds they ask for
  Day,          \* day indexes of the trip
  Traveler,     \* stands for what the traveler wrote: a confirmed route, own places
  None,
  MaxPlaces,    \* MAX_PLACES_PER_DAY
  Tries,        \* how often Lambda tries an event: 3
  Faults,       \* a bound for every kind of fault below ...
  MaxFaults,    \* ... and for all of them
  Deletes       \* whether the trip may be deleted

\* A run or a request dies; an event is delivered twice; a claim grows stale; the
\* traveler removes a place; an enqueue raises though its event was accepted.
FaultKinds == { "dead", "doubled", "aged", "removed", "unsure" }

ASSUME CrewJobsAssumption ==
  /\ Kinds \subseteq {"propose", "city", "place"}
  /\ Traveler \notin Request /\ None \notin Request \cup {"propose", "city", "place"}
  /\ Day # {}
  /\ MaxPlaces \in Nat \ {0} /\ Tries \in Nat \ {0}
  /\ Faults \in [FaultKinds -> Nat] /\ MaxFaults \in Nat
  /\ Deletes \in BOOLEAN

Run == Request \X {1, 2}       \* the runs of a request's event, and of its duplicate

VARIABLES
  trip,     \* the TRIP row
  places,   \* places[d]: who contributed the places of DAY d, in order
  route,    \* who wrote the ROUTE row
  req,      \* req[r]: where request r is, and what it has read
  run,      \* run[w]: where run w is, and what it has read
  user,     \* the traveler's own request: confirm-cities, or removing a place
  crossed,  \* whether propose-cities was claimed next to a confirm: it began before, or it
            \* ended after the job was asked for
  faults    \* the faults so far

vars == <<trip, places, route, req, run, user, crossed, faults>>

\* kind, day, base: crew_job_kind, _day_index and _baseline_place_count; aged: started
\* longer ago than PLANNING_STALE_SECONDS; plan: planning_day_index is present.  owner is
\* not in the row: it says whose claim this is.  (crew_job_error and
\* suggest_city_candidates, which no write depends on, are left out.)
TripType == [ status : {"drafting", "awaiting_city_confirm", "routing_confirmed",
                        "complete", "deleting", "gone"},
              plan : BOOLEAN, kind : Kinds \cup {None}, day : Day \cup {None},
              base : 0..MaxPlaces, aged : BOOLEAN, owner : Request \cup {None} ]

ReqPc == {"idle", "stale", "clear", "claim", "enqueue", "fail", "done"}
RunPc == {"none", "sent", "recover", "finish", "load", "put", "complete",
          "fail", "undo", "raise", "lost", "done"}

ReqType == [ pc : ReqPc, kind : Kinds, day : Day, base : 0..MaxPlaces,
             saw : Kinds \cup {None}, won : BOOLEAN ]   \* won: it has claimed the job
RunType == [ pc : RunPc, base : 0..MaxPlaces, n : 0..MaxPlaces, try : 0..Tries ]

TypeOK ==
  /\ trip \in TripType
  /\ \A d \in DOMAIN places :
       d \in Day /\ Range(places[d]) \subseteq Request \cup {Traveler} /\ Len(places[d]) <= MaxPlaces
  /\ route \in Request \cup {Traveler, None}
  /\ req \in [Request -> ReqType]
  /\ run \in [Run -> RunType]
  /\ user \in [pc : {"idle", "update", "route", "remove"}, day : Day, n : 0..MaxPlaces]
  /\ crossed \in BOOLEAN
  /\ \A k \in FaultKinds : faults[k] \in 0..Faults[k]

NewTrip == [ status |-> "drafting", plan |-> FALSE, kind |-> None, day |-> None, base |-> 0,
             aged |-> FALSE, owner |-> None ]

\* Either the route is still open, or it is confirmed and the days are planned.
Init ==
  /\ \/ /\ trip = NewTrip
        /\ places = [d \in {} |-> <<>>]
        /\ route = None
     \/ /\ trip = [NewTrip EXCEPT !.status = "complete"]
        /\ places = [d \in Day |-> <<Traveler>>]
        /\ route = Traveler
  /\ req \in [Request -> { [ pc |-> "idle", kind |-> k, day |-> d, base |-> 0, saw |-> None,
                             won |-> FALSE ] :
                           k \in Kinds, d \in Day }]
  /\ run = [w \in Run |-> [pc |-> "none", base |-> 0, n |-> 0, try |-> 0]]
  /\ user = [pc |-> "idle", day |-> CHOOSE d \in Day : TRUE, n |-> 0]
  /\ crossed = FALSE
  /\ faults = [k \in FaultKinds |-> 0]

Fault(k) ==
  /\ faults[k] < Faults[k]
  /\ FoldFunction(+, 0, faults) < MaxFaults
  /\ faults' = [faults EXCEPT ![k] = @ + 1]

-----------------------------------------------------------------------------
(* The conditional writes of db/repository/crew_jobs.py.                   *)

NoJob(t) == [t EXCEPT !.kind = None, !.day = None, !.base = 0, !.aged = FALSE, !.owner = None]

\* Mutant: a claim may replace another.
MutCanClaim(t) == ~t.plan /\ t.status # "deleting"

\* attribute_not_exists(kind, planning_day_index), status <> deleting: a missing row passes.
CanClaim(t) == t.kind = None /\ ~t.plan /\ t.status # "deleting"

Claim(t, r) ==
  [t EXCEPT !.kind = req[r].kind, !.owner = r, !.aged = FALSE,
            !.day = IF req[r].kind = "place" THEN req[r].day ELSE None,
            !.base = IF req[r].kind = "place" THEN req[r].base ELSE 0]

\* complete_crew_job, with the status that a proposal sets.
Completed(t, r) ==
  [NoJob(t) EXCEPT !.status = IF req[r].kind = "propose" /\ @ # "gone"
                              THEN "awaiting_city_confirm" ELSE @]

FailJob(r) == trip' = IF trip.kind = req[r].kind THEN NoJob(trip) ELSE trip

-----------------------------------------------------------------------------
(* A request                                                               *)

ReqGo(r, pc) == req' = [req EXCEPT ![r].pc = pc]

\* The guards of start_propose_cities, start_suggest_city and start_suggest_place.
MayPropose(r) ==
  req[r].kind = "propose" /\ trip.status \in {"drafting", "awaiting_city_confirm"}

MaySuggestCity(r) == req[r].kind = "city" /\ trip.status # "deleting"

MaySuggestPlace(r) ==
  /\ req[r].kind = "place"
  /\ req[r].day \in DOMAIN places
  /\ Len(places[req[r].day]) < MaxPlaces

Ask(r) ==
  /\ req[r].pc = "idle"
  /\ trip.status # "gone" /\ ~trip.plan
  /\ MayPropose(r) \/ MaySuggestCity(r) \/ MaySuggestPlace(r)
  /\ req' = [req EXCEPT ![r].pc = "stale",
                        ![r].base = IF req[r].kind = "place" THEN Len(places[req[r].day]) ELSE 0]
  /\ UNCHANGED <<trip, places, route, run, user, crossed, faults>>

\* clear_stale_crew_job reads the trip: when the claim there is not stale (and
\* nothing depends on what was read) the request goes on to its own claim ...
ReadStale(r) ==
  /\ req[r].pc = "stale"
  /\ trip.status # "gone" /\ trip.kind # None /\ trip.aged
  /\ req' = [req EXCEPT ![r].pc = "clear", ![r].saw = trip.kind]
  /\ UNCHANGED <<trip, places, route, run, user, crossed, faults>>

\* ... else it clears the claim there, if it is still of the same kind.
ClearStale(r) ==
  /\ req[r].pc = "clear"
  /\ trip' = IF trip.kind = req[r].saw THEN NoJob(trip) ELSE trip
  /\ req' = [req EXCEPT ![r].pc = "claim", ![r].saw = None]
  /\ UNCHANGED <<places, route, run, user, crossed, faults>>

ClaimJob(r) ==
  /\ req[r].pc \in {"stale", "claim"}
  /\ IF CanClaim(trip)
     THEN /\ trip' = Claim(trip, r)
          /\ req' = [req EXCEPT ![r].pc = "enqueue", ![r].won = TRUE]
          /\ crossed' = \/ crossed
                        \/ req[r].kind = "propose" /\ (user.pc # "idle" \/ route = Traveler)
     ELSE ReqGo(r, "done") /\ UNCHANGED <<trip, crossed>>
  /\ UNCHANGED <<places, route, run, user, faults>>

Send(r) == run' = [run EXCEPT ![<<r, 1>>].pc = "sent", ![<<r, 1>>].try = 1]

\* The quota is charged and the event sent.  Either may raise, and sending also
\* when the event was accepted.
Enqueue(r) ==
  /\ req[r].pc = "enqueue"
  /\ \/ Send(r) /\ ReqGo(r, "done") /\ UNCHANGED faults
     \/ ReqGo(r, "fail") /\ UNCHANGED <<run, faults>>
     \/ Send(r) /\ ReqGo(r, "fail") /\ Fault("unsure")
  /\ UNCHANGED <<trip, places, route, user, crossed>>

\* Charging or sending has failed: fail_crew_job.
FailRequest(r) ==
  /\ req[r].pc = "fail"
  /\ FailJob(r)
  /\ ReqGo(r, "done")
  /\ UNCHANGED <<places, route, run, user, crossed, faults>>

RequestDies(r) ==
  /\ req[r].pc \in {"enqueue", "fail"}
  /\ Fault("dead")
  /\ ReqGo(r, "done")
  /\ UNCHANGED <<trip, places, route, run, user, crossed>>

RequestStep(r) == ReadStale(r) \/ ClearStale(r) \/ ClaimJob(r) \/ Enqueue(r)
                  \/ FailRequest(r)

-----------------------------------------------------------------------------
(* A run of the event of request w[1]                                      *)

NoRun == [pc |-> "none", base |-> 0, n |-> 0, try |-> 0]
RunGo(w, pc) == run' = [run EXCEPT ![w] = IF pc = "done" THEN [NoRun EXCEPT !.pc = "done"]
                                          ELSE [@ EXCEPT !.pc = pc]]
Job(w) == req[w[1]]
DayOf(w) == IF Job(w).day \in DOMAIN places THEN places[Job(w).day] ELSE <<>>
Full(w) == Job(w).day \notin DOMAIN places \/ Len(DayOf(w)) >= MaxPlaces

\* The claim is looked for; without it the run ends, and it is not tried again.
Check(w) ==
  /\ run[w].pc = "sent"
  /\ IF /\ trip.status # "gone"
        /\ trip.kind = Job(w).kind
        /\ Job(w).kind = "place" => trip.day = Job(w).day
     THEN run' = [run EXCEPT ![w].pc = IF Job(w).kind = "place" THEN "recover" ELSE "load",
                             ![w].base = trip.base]
     ELSE RunGo(w, "done")
  /\ UNCHANGED <<trip, places, route, req, user, crossed, faults>>

\* Mutant: no recovery, the place is always looked for.
MutRecover(w) ==
  /\ run[w].pc = "recover"
  /\ RunGo(w, "load")
  /\ UNCHANGED <<trip, places, route, req, user, crossed, faults>>

\* _recover_suggest_place_if_persisted: has the day grown since the claim?
Recover(w) ==
  /\ run[w].pc = "recover"
  /\ RunGo(w, IF Len(DayOf(w)) > run[w].base THEN "finish" ELSE "load")
  /\ UNCHANGED <<trip, places, route, req, user, crossed, faults>>

\* It has: the claim is completed, outside of the error handling.
Finish(w) ==
  /\ run[w].pc = "finish"
  /\ IF trip.kind = "place"
     THEN trip' = Completed(trip, w[1]) /\ RunGo(w, "done")
     ELSE UNCHANGED trip /\ RunGo(w, "raise")
  /\ UNCHANGED <<places, route, req, user, crossed, faults>>

\* Safety gates, the crew and the checks of its answer end well, with an error,
\* or with one that is worth another try.
Ends(w, well) ==
  /\ \/ run' = [run EXCEPT ![w].pc = well, ![w].n = Len(DayOf(w))]
     \/ RunGo(w, "fail")
     \/ RunGo(w, "raise")
  /\ UNCHANGED <<trip, places, route, req, user, crossed, faults>>

ProposeCities(w) ==
  /\ run[w].pc = "load" /\ Job(w).kind = "propose"
  /\ Ends(w, "put")

\* Suggestions read the trip again.
Reject(w) ==
  /\ RunGo(w, "fail")
  /\ UNCHANGED <<trip, places, route, req, user, crossed, faults>>

SuggestCity(w) ==
  /\ run[w].pc = "load" /\ Job(w).kind = "city"
  /\ IF trip.status \in {"deleting", "gone"} THEN Reject(w) ELSE Ends(w, "complete")

SuggestPlace(w) ==
  /\ run[w].pc = "load" /\ Job(w).kind = "place"
  /\ IF trip.status = "gone" \/ Full(w) THEN Reject(w) ELSE Ends(w, "put")

\* put_route, with no condition.
PutRoute(w) ==
  /\ run[w].pc = "put"
  /\ Job(w).kind = "propose"
  /\ route' = w[1]
  /\ RunGo(w, "complete")
  /\ UNCHANGED <<trip, places, req, user, crossed, faults>>

\* persist_suggested_place, locked by the number of places; both of its ways
\* to write read the trip afterwards, and raise when it is gone.
Persist(w) ==
  /\ run[w].pc = "put"
  /\ Job(w).kind = "place"
  /\ IF Job(w).day \in DOMAIN places /\ Len(DayOf(w)) = run[w].n
     THEN /\ \/ places' = [places EXCEPT ![Job(w).day] = Append(@, w[1])]
             \/ trip.status = "gone" /\ UNCHANGED places
          /\ RunGo(w, IF trip.status = "gone" THEN "fail" ELSE "complete")
     ELSE UNCHANGED places /\ RunGo(w, "fail")
  /\ UNCHANGED <<trip, route, req, user, crossed, faults>>

\* complete_crew_job: another claim of the kind will do.  Without one it raises.
Complete(w) ==
  /\ run[w].pc = "complete"
  /\ IF trip.kind = Job(w).kind
     THEN trip' = Completed(trip, w[1]) /\ RunGo(w, "done")
     ELSE UNCHANGED trip /\ RunGo(w, "undo")
  /\ UNCHANGED <<places, route, req, user, crossed, faults>>

\* Mutant: the claim is left as it is.
MutFailRun(w) ==
  /\ run[w].pc \in {"fail", "undo"}
  /\ UNCHANGED trip
  /\ RunGo(w, IF run[w].pc = "fail" THEN "done" ELSE "raise")
  /\ UNCHANGED <<places, route, req, user, crossed, faults>>

\* fail_crew_job; an ApiError that is not retryable ends the run, any other
\* exception goes on to the handler.
FailRun(w) ==
  /\ run[w].pc \in {"fail", "undo"}
  /\ FailJob(w[1])
  /\ RunGo(w, IF run[w].pc = "fail" THEN "done" ELSE "raise")
  /\ UNCHANGED <<places, route, req, user, crossed, faults>>

Again(w) ==
  LET n == run[w].try IN
  run' = [run EXCEPT ![w].pc = IF n < Tries THEN "sent" ELSE "lost",
                     ![w].try = IF n < Tries THEN n + 1 ELSE n]

\* _handle_crew_job_worker raises to Lambda only while a claim of the kind is held.
Raise(w) ==
  /\ run[w].pc = "raise"
  /\ IF trip.status # "gone" /\ trip.kind = Job(w).kind THEN Again(w) ELSE RunGo(w, "done")
  /\ UNCHANGED <<trip, places, route, req, user, crossed, faults>>

RunDies(w) ==
  /\ run[w].pc \notin {"none", "sent", "lost", "done"}
  /\ Fault("dead")
  /\ Again(w)
  /\ UNCHANGED <<trip, places, route, req, user, crossed>>

\* Lambda delivers the event a second time.
Double(r) ==
  /\ run[<<r, 1>>].pc # "none" /\ run[<<r, 2>>].pc = "none"
  /\ Fault("doubled")
  /\ run' = [run EXCEPT ![<<r, 2>>].pc = "sent", ![<<r, 2>>].try = 1]
  /\ UNCHANGED <<trip, places, route, req, user, crossed>>

RunStep(w) == Check(w) \/ Recover(w) \/ Finish(w) \/ ProposeCities(w) \/ SuggestCity(w)
              \/ SuggestPlace(w) \/ PutRoute(w) \/ Persist(w) \/ Complete(w) \/ FailRun(w) \/ Raise(w)

-----------------------------------------------------------------------------
(* What else happens to the trip                                           *)

Age ==
  /\ trip.kind # None /\ ~trip.aged
  /\ Fault("aged")
  /\ trip' = [trip EXCEPT !.aged = TRUE]
  /\ UNCHANGED <<places, route, req, run, user, crossed>>

UserGo(pc) == user' = [user EXCEPT !.pc = pc, !.n = 0]

\* Mutant: a confirm does not look for a job.
MutLoadConfirm ==
  /\ user.pc = "idle" /\ DOMAIN places = {}
  /\ trip.status \in {"drafting", "awaiting_city_confirm"}
  /\ UserGo("update")
  /\ UNCHANGED <<trip, places, route, req, run, crossed, faults>>

\* confirm_cities of a trip without days: the guards, update_trip, put_route.
LoadConfirm ==
  /\ user.pc = "idle" /\ DOMAIN places = {}
  /\ trip.status \in {"drafting", "awaiting_city_confirm"}
  /\ trip.kind = None
  /\ UserGo("update")
  /\ UNCHANGED <<trip, places, route, req, run, crossed, faults>>

UpdateTrip ==
  /\ user.pc = "update"
  /\ IF trip.status # "gone"
     THEN trip' = [trip EXCEPT !.status = "routing_confirmed"] /\ UserGo("route")
     ELSE UNCHANGED trip /\ UserGo("idle")
  /\ UNCHANGED <<places, route, req, run, crossed, faults>>

ConfirmRoute ==
  /\ user.pc = "route"
  /\ route' = Traveler
  /\ UserGo("idle")
  /\ UNCHANGED <<trip, places, req, run, crossed, faults>>

\* remove_place: the guards, then replace_day_places locked by the number of places.
LoadRemove ==
  /\ user.pc = "idle"
  /\ trip.status \notin {"deleting", "gone"} /\ ~trip.plan /\ trip.kind = None
  /\ \E d \in DOMAIN places :
       places[d] # <<>> /\ user' = [pc |-> "remove", day |-> d, n |-> Len(places[d])]
  /\ Fault("removed")
  /\ UNCHANGED <<trip, places, route, req, run, crossed>>

RemovePlace ==
  /\ user.pc = "remove"
  /\ IF user.day \in DOMAIN places /\ Len(places[user.day]) = user.n
     THEN \E i \in 1..user.n : places' = [places EXCEPT ![user.day] = RemoveAt(@, i)]
     ELSE UNCHANGED places
  /\ UserGo("idle")
  /\ UNCHANGED <<trip, route, req, run, crossed, faults>>

\* A plan-day run of PlanDay, as far as crew jobs see it.
PlanDayClaim ==
  /\ trip.status \in {"routing_confirmed", "complete"} /\ ~trip.plan /\ trip.kind = None
  /\ trip' = [trip EXCEPT !.plan = TRUE]
  /\ UNCHANGED <<places, route, req, run, user, crossed, faults>>

PlanDayEnds ==
  /\ trip.plan
  /\ trip' = [trip EXCEPT !.plan = FALSE]
  /\ UNCHANGED <<places, route, req, run, user, crossed, faults>>

\* delete_trip does not look at crew_job_kind.
LockTrip ==
  /\ Deletes
  /\ trip.status \notin {"deleting", "gone"} /\ ~trip.plan
  /\ trip' = [trip EXCEPT !.status = "deleting"]
  /\ UNCHANGED <<places, route, req, run, user, crossed, faults>>

RemoveTrip ==
  /\ trip.status = "deleting"
  /\ trip' = [NewTrip EXCEPT !.status = "gone"]
  /\ UNCHANGED <<places, route, req, run, user, crossed, faults>>

RemoveDay ==
  /\ trip.status = "gone"
  /\ \E d \in DOMAIN places : places' = [e \in DOMAIN places \ {d} |-> places[e]]
  /\ UNCHANGED <<trip, route, req, run, user, crossed, faults>>

Next ==
  \/ \E r \in Request : Ask(r) \/ RequestStep(r) \/ RequestDies(r) \/ Double(r)
  \/ \E w \in Run : RunStep(w) \/ RunDies(w)
  \/ Age \/ LoadConfirm \/ UpdateTrip \/ ConfirmRoute \/ LoadRemove \/ RemovePlace
  \/ PlanDayClaim \/ PlanDayEnds \/ LockTrip \/ RemoveTrip \/ RemoveDay

Spec == Init /\ [][Next]_vars

-----------------------------------------------------------------------------
(* Properties                                                              *)

Quiet(S) == \A k \in S : faults[k] = 0

\* "Lambda Event retry must not append again" (suggest_place.py:276): the runs of
\* the suggest-place jobs append no more places than jobs were claimed, however
\* often runs die or are tried again ...
Slots == UNION { {d} \X { i \in DOMAIN places[d] : places[d][i] \in Request } : d \in DOMAIN places }
Won == { r \in Request : req[r].won }

AppendsAreClaimed == Cardinality(Slots) <= Cardinality(Won)

\* ... but for an event delivered twice, or accepted although its enqueue failed, a
\* place removed since the count that the claim carries was taken, and a run that is
\* tried again under the claim of another request, after its own was cleared.
AppendsAreClaimedOnce == Quiet({"aged", "doubled", "unsure", "removed"}) => AppendsAreClaimed

\* GenAI work on a trip is one at a time: one crew run or one plan-day run, as
\* long as no claim grows stale, no event is doubled and no failed enqueue was
\* accepted after all.
Working == { w \in Run : run[w].pc \in {"recover", "finish", "load", "put", "complete"} }
OneCrewAtATime ==
  Quiet({"aged", "doubled", "unsure"}) =>
    /\ Cardinality(Working) <= 1
    /\ trip.plan => Working = {}

\* Under the same conditions a job is completed by a run of its own: candidates,
\* route and place are those that were asked for.
JobsCompleteThemselves ==
  [][Quiet({"aged", "doubled", "unsure"}) /\ trip.status # "gone" =>
       \A w \in Run : run[w].pc \in {"finish", "complete"} /\ run'[w].pc = "done"
                        => trip.owner = w[1]]_vars

\* A ROUTE that the traveler has confirmed is overwritten by a proposal only
\* after its claim was lost, or when confirm and request have crossed: each had
\* looked at the trip before the other wrote to it.
ConfirmedRouteIsKept ==
  [][route = Traveler /\ route' \in Request => crossed \/ trip.owner # route']_vars

\* A stale claim is cleared by its kind: "Concurrent claimants lose"
\* (claim_crew_job) asks that a claim that is not stale is left alone.
FreshClaimsStay ==
  [][\A r \in Request : req[r].pc = "clear" /\ trip.kind # None /\ ~trip.aged
                          => trip'.kind = trip.kind \/ req'[r] = req[r]]_vars

\* A claim does not outlast its job: where no request and no run goes on, no job is
\* claimed, unless one of them died or an event used up its tries.  (Then the
\* claim blocks confirm, edits and planning until another job is asked for.)
NoJobLingers ==
  /\ \A r \in Request : req[r].pc \notin {"enqueue", "fail"}
  /\ \A w \in Run : run[w].pc \in {"none", "done"}
  /\ faults.dead = 0
  => trip.kind = None \/ trip.status = "gone"
=============================================================================
