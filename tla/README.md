# Vacation planner: TLA+ models and proofs

The program is a serverless trip planner. A single-page client calls an API Lambda; the Lambda
keeps everything in one DynamoDB table and runs LLM crews, the long ones in a second, asynchronous
invocation of itself (an *Event*). There is no queue, no transaction around a handler and no lock
server: the only synchronisation is the `ConditionExpression` of single-row updates, and one transaction
over two rows (a suggested place and its key). This directory
models the protocols that live on those rows and the algorithms that decide what is stored in them,
checks both with TLC on small instances, and proves with TLAPS every safety property that the runs check: of day
planning and deletions, of crew jobs, of the quota and the life of a trip, of route reconfirmation, of the places of
a day and of the functions, for every number of days, requests and workers and every size of their inputs.
Liveness is checked by TLC only.

Paths below are relative to `src/`; `backend/src/` is dropped from Python files where no confusion
is possible.

## 1. Inventory

### Components, their state, and who calls whom

| component | state it keeps | operations | talks to |
| --- | --- | --- | --- |
| plan-next-day (asynchronous: `trips/plan_day_jobs.py`, `trips/plan_day_agent_pipeline.py`, `db/repository/planning.py`, `ops/plan_day_worker.py`, `handler.py`) | TRIP attributes `status`, `next_day_index`, `planning_day_index`, `planning_started_at`; DAY rows | request: recover / clear stale claim / heal cursor / claim / charge / send Event; worker: check claim / run crew / put DAY / complete or fail the claim | quota, crew runner, Lambda Events, TRIP and DAY rows |
| plan-next-day, synchronous (`plan_next_day_sync`, `persist_planned_day`) | the same, claimed by moving the cursor | claim slot / put / finish, with roll back | used by fake and local crew modes |
| deletions (`trips/day_mutations.py`, `trips/crud.py`) | TRIP cursor and `status = deleting`; DAY rows | `delete_day`, `delete_trip` | race with planning and with each other |
| places of a day (`remove_place`, `reorder_place`, `suggest_place`) | `places` of a DAY, `visited_place_keys` of the TRIP | replace / append under a count lock; append and prune keys | suggest-place is a crew job |
| crew jobs (`db/repository/crew_jobs.py`, `trips/city_route.py`, `trips/city_suggest.py`, `trips/suggest_place.py`) | `crew_job_kind` and friends on the TRIP row | claim / complete / fail / clear stale, like planning | excluded with the planning claim |
| route (`trips/city_route.py`, `trips/route_reconfirm.py`, `trips/day_remap.py`, `shared/route_windows.py`) | ROUTE row, DAY rows, DAY_REMAP staging rows | propose, confirm, remap the itinerary to a new route | force-clears planning claims |
| trip rows (`trips/crud.py`) | TRIP and ROUTE rows | create under a cap, PUT, list, read | - |
| quota (`db/repository/usage.py`, `limits/`) | hour and day counters | consume, compensate, refund | called between claim and Event |
| client (`frontend/src/lib`) | poll loops, resume on load | GET until a DAY or an error appears, ask again | the API |
| planning quality (`planning_quality/`, the attempt loops of `plan_day_agent_pipeline.py` and `suggest_place.py`) | none: the attempt and its bans live in one invocation | filter, dedupe, trim, balance, retry | places search, crew |
| prompt budget and retry hints (`crew_io/`) | none | cut the fields of a prompt, add a hint | crew |
| places search and enrichment (`places/`) | photo cache | choose a hit, take over its fields | Google, Amap |
| crews, safety, profile, metrics, agent, infrastructure | none that planning decisions share | - | - |

All rows of a trip share a partition: `TRIP#id`, `TRIP#id#DAY#nn`, `TRIP#id#ROUTE`. Requests and
workers never call each other; they meet in the TRIP row, and in the Event that carries only
`(user, trip, day number)`. A planning claim is just that number with a start time: it has no
owner and no token. Everything hard follows from this.

### What is hard, and what must hold

* **Interleaving.** Any number of requests and workers take single steps in any order between two
  calls. Wanted: the cursor never passes a missing day, a complete trip has all its days, a DAY is
  written once, planning and crew jobs exclude each other.
* **Failure.** Lambdas die or time out anywhere; a DynamoDB call raises, or is done and its answer
  lost; an Event is lost, refused, doubled or delivered again after a failure. Wanted: no claim
  blocks a trip for ever, no written day is forgotten, all days get written.
* **Time.** A claim older than six minutes may be cleared by anybody, although its worker may still
  be on its way. Wanted: a late worker does no harm.
* **Multi-row changes without transactions.** delete_day, delete_trip, route reconfirm, PUT.
  Wanted: a crash or a reader between two of their writes finds a state that can be carried on from.
* **Locks by value.** The count of places, the list of visited keys, the day number of a claim:
  a value that comes back (ABA) passes the condition.

`PROJECT.json` lists each hazard with its line and the properties that cover it.

## 2. Modules

```
TripRow              the TRIP row: one operator per conditional write (no variables)
  PlanDay            requests, workers, clock, crew-job claims     -- implements --> Itinerary
    MCPlanDay        symmetry for TLC
    PlanDayLive      the same steps, finitely many faults, fairness: liveness
    TripEdits        PlanDay and DELETE of a day or of the trip
      MCTripEdits    symmetry and a bound for TLC
      TripEditsSerial  one API call at a time
        PlanningProofs  planning: the inductive invariant, safety and refinement; deletion
                        excludes planning and is final; one call at a time, cursor and
                        status stay behind the days; proved
  RouteReconfirm     confirm-cities: staging, deletion, promotion and resume (uses DayRemap)
    MCRouteReconfirm
    RouteReconfirmProofs  plans are stored, days fit the route, proved
Itinerary            abstract specification of what planning promises
CrewJobs             propose-cities, suggest-city, suggest-place: claims and runs
  MCCrewJobs
  CrewJobsProofs     whose claim is whose, one crew at a time, one place a claim, proved
DayPlaces            the places of a day and visited_place_keys, all writers; synchronous planning
  MCDayPlaces
  DayPlacesProofs    no key forgotten or placed twice, no place lost by an edit, proved
Lists                what loops build of lists: a selection, a sum (no variables)
PlaceRules           the checks on the places a crew returns (no variables)
  CrewResults        the attempt loops of plan-day and suggest-place
    CrewResultsProofs  saved days and places are usable, bans are deserved, proved
DayRemap             remap_day_plans (no variables)
  DayRemapProofs     days are dealt out by city, in order, each once, proved
CrewInputs           a prompt cut to its budget (no variables)
PlaceLookup          which search hit is the venue; opening days (no variables)
RouteWindows         the day windows of a proposed route; suggested cities (no variables)
  MCFunctions        CrewResults, and the four function modules on bounded inputs
    FunctionsProofs  what the functions promise, for every input, proved
Quota                hour and day counters: charge, undo, refund, reclaim
TripCrud             creation under the limit, PUT, proposal, confirm, plan, delete of a trip
  MCAccount          Quota and TripCrud side by side
    AccountProofs    runs within the caps, hours and days in step; the limit on trips;
                     status, ROUTE and days in step, proved
```

The protocol modules share one style: a record per actor with a program counter and the snapshot it
carries, one action per DynamoDB call (with the local code up to the next call), faults as actions of
their own or as disjuncts of the call that fails, each counted against a named bound. What one module
treats in full, its neighbours reduce to the calls that touch the same rows: `CrewJobs` and
`DayPlaces` know of a planning claim only that it is there, `RouteReconfirm` has plan-day runs that meet
no failure, `TripCrud` has proposals and confirms of three. So each pair of components that meet in a row
meets in some module, without a product of everything.

### TripRow

The row is a record: `status`, `ndi` (`next_day_index`), `pdi` (`planning_day_index`, 0 when
absent), `aged` (the claim's `planning_started_at` is older than `PLANNING_STALE_SECONDS`) and `job`
(`crew_job_kind` is present). `status = "gone"` is a missing row. A DynamoDB update with a
condition is atomic, so each is two operators: `Can...`/`HoldsClaim` for the condition and the row
that is stored. `prior_days_summary`, error texts and timestamps other than `aged` are left out: no guard of the
modelled handlers reads them. `visited_place_keys` is in `DayPlaces`; one guard elsewhere reads it, confirm's
`needs_itinerary_remap` (`city_route.py:491`), for which `RouteReconfirm` lets it be empty or not at each confirm.

### PlanDay

`trip` is the row, `row[d]` the worker whose Put made DAY d (or `NoRow`), `req[r]` a request and
`ev[e]` a slot for an Event, each with a program counter and the snapshot it carries. One action is
one DynamoDB call with the local code up to the next one, so two actors interleave between any
two calls.

| code | actions |
| --- | --- |
| `start_plan_next_day` | `Start`, `Recover`, `StaleRead`, `StaleClear`, `Reload`, `Resolve` (operator), `Heal`, `Probe`, `Claim`, `Conflict`, `Reprobe`, `Finish`, `Charge`, `Enqueue`, `Abort` |
| `execute_plan_next_day`, `_run_plan_day_and_persist`, `_persist_async_planned_day` | `Deliver`, `ProbeDay`, `FinishDay`, `ClaimLost`, `Crew`, `Recheck`, `Reread`, `PutDay`, `Raced`, `CompleteDay`, `Verify`, `FailDay` |
| `_handle_plan_next_day_worker` | `Raised`, `SafetyNet`, `Redeliver` |
| environment | `RequestDies`, `WorkerDies`, `WorkerFault`, `WriteLost`, `Duplicate`, `Age`, `JobClaims`, `JobEnds` |

The crew run with its quality gates and retries (`Crew`) is one step to a plan or to an error of one of
three kinds (terminal ApiError, retryable ApiError, anything else), because the code treats those
three differently and nothing else about the plan matters to the protocol. The bundle query is one
read (a trip of 14 days is one page). The trip starts with a confirmed route; its confirmation,
the ROUTE row and the profile are not in this module. The destination is a city or has a confirmed
route, so that guard is always passed.

### Itinerary

What a client may rely on, in two actions: `WriteDay` (the first missing day appears) and `Report`
(cursor and completeness change, never beyond what is written). A trip may report less than there
is. `PlanDay` maps `cursor` to `trip.ndi` and `complete` to `trip.status = "complete"`;
everything else a request or worker does is a stutter.

### TripEdits, TripEditsSerial

`edit[w]` is a DELETE request. `delete_day`: `LoadDay` (snapshot, guards, new cursor by
`StatusAfterDayEdit`), `ApplyEdit` (`apply_itinerary_edit`), `LookDay` and `RemoveDay`
(`repo.delete_day`). `delete_trip`: `RequireTrip`, `LockTrip` (`begin_trip_delete`), `QueryRows`,
`DeleteTrip`, `DeleteDays` (`delete_trip_bundle`, in key order). `EditorDies` may end either
anywhere. Everything of PlanDay goes on meanwhile. The ROUTE row, deleted last, is in `TripCrud`, the pruning
of `visited_place_keys` in `DayPlaces`. A crew job that is claimed on a row that is gone would create a
row without `entity_type`, which every read ignores; it stays "gone" in the model.

`TripEditsSerial` restricts when API calls start: only when no other call and no worker runs.
`SerialSpec` keeps all failures, `CalmSpec` has none. They separate what needs a race from what
does not.

### DayRemap, RouteReconfirm

`DayRemap.Remap` is `remap_day_plans`: the days of the old itinerary are pooled by overnight city and
dealt out to the slots of the new schedule, first in first out. What is left of the code's queues is a set of
days, whose earliest of a city is the head of that city's queue. `RouteReconfirm` is `confirm_cities`
around it. `conf[c]` is a confirm request: `LoadTrip` (the guards of the first snapshot; `keys` is whether the
row has `visited_place_keys`, perhaps of days that are gone), then either `LoadBundle`, `Direct` and `PutRoute` (no day planned yet) or `Unclaim`, `ReadBundle`, and the loops of
`apply_reconfirm_route_days`: `Recover`/`Unstage`/`Trim` when staging rows of an earlier confirm are
found, else `Stage` row by row with `ReadBack`; then `DropOld`, `Promote`, `Sweep`, `Finish`,
`PutRoute`. `StageFails` is an exception while staging, which the code undoes (`Unwind`);
`ConfirmDies` stops a confirm between any two calls. A staging row keeps the fingerprint of the
route it was made for, so that a resume under another route is told apart. `work[w]` is a plan-day
run: `StartDay` (the bundle read), `HealCursor`, `ProbeDay`, `ClaimDay` (which adopts a DAY that has come meanwhile),
`Prepare` (its city is read from the ROUTE), `Recheck`, `PutPlanned`, `CompleteDay`. Requests that find a claim, and failures of a
run, are in `PlanDay`. `LockTrip` and `RemoveTrip` are the first writes of a deletion. Two things are kept for the
properties only: `overtaken`, the runs that read the ROUTE while a confirm was under way or whose claim was removed
before their put, and `faults.torn`, that a confirm died and none has since moved the days to its end.

### CrewJobs

`req[r]` is a request for one of the three jobs (`Ask` with the guards of its kind, `ReadStale`,
`ClearStale`, `ClaimJob`, `Enqueue`, `FailRequest`), `run[w]` a run of its event or of the event's
duplicate (`Check`, `Recover` by the baseline count, `Finish`, the persist step of its kind,
`Complete`, `FailRun`, `Again`, `Raise`). `user` is the traveler who confirms the route, removes a
place or asks for a day meanwhile. A claim in the code has no identity but its kind; the field
`owner` in the model is not read by any action and serves the properties only.

### DayPlaces

`trip.visited` is `visited_place_keys`, `days[d]` the keys of DAY d. Writers: `Editor` (`LoadRemove`,
`LoadReorder`, `Replace` under the count lock; `LoadDelete`, `ApplyEdit`, `DeleteDay`; then
`ReadVisited` and `Prune` with its retries), `Suggester` (`ClaimSuggest`, `Suggest`, `Persist` as one
transaction, `Release`), `Planner` (asynchronous: `ClaimPlan`, `Execute`, `Recheck`, `PutPlanned`,
`Complete`, `FailPlan`) and `SyncPlanner` (`LoadSync`, `Heal`, `ClaimSlot`, `Live`, `WriteSync`,
`Undo`, `Rollback`, `CheckAlive`, `Unput`, `Cursors`), the trip's DELETE and the loss of a claim as
stale. `Together` says which of them act in one behaviour.

### PlaceRules, CrewResults

`PlaceRules` has what `planning_quality` and `shared/energy.py` compute of places: identity tokens,
dedupe, closed and visited filters, meals, energy budget and trimming, hint and balance rules. A place is
a record of what these tell apart; the words of a hint are a set of features. `CrewResults` is the loop
around them: `PlanDay(ps, missed)` is an attempt in which the crew returns `ps` and the lookups of
the names in `missed` fail, `SuggestPlace(p)` the same for one suggested place. The pipeline's order is kept:
dedupe, look up, dedupe again, filter, trim, meals, food-only, save. A lookup (`Applied`) sets the status, the weekdays when the
opening hours are known, and the id when the crew gave none or the provider is Amap (`amap`). The crew may return any
sequence over the catalogue, also what it was told not to. The loops of the code are recursive functions over a
bounded number of rounds: `Only` and `Dedupe` go over the places once, `Trim` repeats `TrimOne` once for each
place, which is as often as anything can be removed (`Trimmed` in `CrewResultsProofs` says that nothing is left to trim).

### CrewInputs, PlaceLookup, RouteWindows

Pure functions, with reference predicates that say what they are for rather than how they work:
`InputsFit` (the budget is kept, each field is cut only when it has to be and no further), `PicksVenue` and
`WeekdaysAgree`, `ProposalFits` and `SuggestionsFit`. Sizes stand for texts, sets of tokens for names.
Where the code loops until a condition, a recursive function counts the rounds up to a number that is never too
small: a binary search over n keys has at most n + 1 rounds, merging cities as many as there are cities. That the last round
leaves nothing to do is part of the proofs. Assumptions: the budget and the hint have sizes
(`BudgetAssumption`), a crew may suggest at least one city (`MaxCountAssumption`), and the sign for "no hit" is not a hit
(`MCAssumption`).

### Quota, TripCrud

`Quota`: `Consume` reads the clock once, `AddHour`, `AddDay` and `UndoHour` are the bucket updates,
`RunCrew`, `Enqueue` and `EnqueueFails` what follows, `RefundHour` and `RefundDay` read the clock anew. Each
update may fail, or be applied and its answer lost. Ghosts: `wrong` counts, by hour and by day, the refunds that
took a unit not their own (of a crew that runs after all, or of another hour or day); `unpaired` has the days on which one of the two
counters missed a step (a death in between, an answer lost, a decrement that failed or found a zero). `SumOf` adds up the hours of a day. `Reclaim` runs a crew without a charge, on the stale claim of another request.

`TripCrud`: one request creates a trip (`List`, `PutTrip`, `PutFirstRoute`); then one actor of each
kind may work on it: `put` (`LoadPut`, `DropRoute` or `PutCityRoute`, `SavePut`), `propose`, `confirm`,
`plan`, `delete`, each with the writes it does to the TRIP's status, the ROUTE and the DAY rows. Dates stand
for themselves and for `day_count`. Ghosts: `crossed` (the creations that counted the trips while another was between its
count and its put), `mixed` (the trips on which two writers overlapped or one died, until a PUT or a confirm
of a trip without a claim starts alone, `StartsOver`).

### MCFunctions, MCAccount

In `MCFunctions` a state is a crew's job or the call of one function; a call is answered in one step.
In `MCAccount` a behaviour is of the quota, of the creation and deletion of all trips, or of the whole life of
the watched one: quota and trips share no row, and neither do two trips.

## 3. Runs

Sizes are distinct states; every run with `pass` explores its whole state space.

| run (configuration) | instance | shows |
| --- | --- | --- |
| `plan` (`PlanDayTwoWorkers`) | 2 days, 1 request at a time, 2 Events of 2 attempts; 540k | `TypeOK`, `NoSkippedDay`, `CompleteMeansPlanned`, `OneOwner`, the inductive invariant `InOrder`, `DayWrittenOnce`, and that PlanDay implements Itinerary, with late, doubled and redelivered workers |
| `plan_live` | 2 days, 1 request, 2 Events, 2 faults; 46k | `ClaimIsReleased`, `EveryDayIsWritten`, `InnerDayIsCounted`: every claim ends, every day gets written, every day before the last is counted |
| `plan_last_day_lost` (`PlanDayLost`) | same | **violated:** `WrittenDayIsCounted`, a written last day is counted |
| `edits` (`TripEdits`) | 1 day, 1 request, 2 Events of 2 attempts, 2 DELETEs, three of them at once; 374k | `DayReplacedWhenDeleted`: a DAY changes hands only through its deletion; `DeletedHoldsNoClaim`, `DeletingIsFinal`: the delete lock excludes claims and no edit or worker takes it back |
| `edits_serial` (`TripEditsSerial`) | 2 days, 1 request, 2 Events, 1 DELETE, one API call at a time; 116k | `CursorStaysInOrder`: cursor and status stay behind the DAY rows wherever something stops |
| `edits_refill` (`TripEditsRefill`) | calm | **violated:** `FilledTripIsComplete`, a full trip at rest is complete |
| `reconfirm` (`RouteReconfirm`) | 3 days, 2 cities, 2 routes, confirm after confirm, 1 plan-day run, 1 death, 1 failed staging, a DELETE; 2.3M | `KeptPlansAreStored` (write before delete), `ConfirmedDaysFitRoute` and `NoPlanTwice` (what an undisturbed confirm leaves, resumes included), `FailedStagingIsUndone`, `OnlyOvertakenMisfit` (but for deaths, a day that does not fit the route is of a run that read the ROUTE during a confirm, or whose claim was removed before its put) |
| `reconfirm_partial` (`RoutePartial`) | the same with 3 routes and 1 death, nothing else | **violated:** `SurvivingDaysKept`, no resume deletes a day that is stored nowhere else |
| `crew_jobs` (`CrewJobs`) | 2 requests of any of the 3 kinds, their runs and duplicates, the traveler, any 2 of 5 faults, or 1 and a DELETE; 1.8M | `AppendsAreClaimedOnce` (no more places are suggested than claims were won, whatever dies and is repeated), `OneCrewAtATime`, `NoJobLingers`, `JobsCompleteThemselves`, `ConfirmedRouteIsKept` |
| `places` (`DayPlaces`) | 2 days, 4 keys, 1 edit, 2 suggestions, 1 run of each kind, in three groups; 763k | `PlacedIsVisited`, `NoKeyTwice`, `EditsKeepTheRest` (no lost update under the count lock), `GoneIsEmpty` |
| `functions` (`Functions`) | every input of the bounds below; 286k | `PlannedDayIsUsable`, `BannedWereRejected`, `SuggestionFits`, `HintIsSatisfiable` of the crew loops; `RemapIsFifo`, `PromptFits`, `LookupIsSound`, `ProposedRouteFits` of the functions |
| `account` (`Account`) | 3 charges over 3 hours; 2 trips against a limit of 1; the life of one trip; 406k | `RunsWithinQuota`: only refunds of a unit not their own let a crew more through; `CountersStayPaired`: at all times the hours of a day and its counter differ by what is under way; `TripsWithinLimit`: one trip too many by each creation that crossed another, and no more; `RouteInStep`: status, ROUTE and days tell of the same dates, after an overlap or a death again once a PUT or a confirm goes through alone |

The type invariants of the other modules are not among the INVARIANTS of their runs: those of `TripEdits`,
`RouteReconfirm`, `CrewJobs`, `DayPlaces`, `Quota` and `TripCrud` are theorems (section 4). Add them to the
configuration after a change of the module.

### Bounds, and why they are enough

* `DayCount = 2` in planning: a day with a predecessor and a last day. The code compares day numbers only for
  equality and order with the cursor and with `day_count`. `edits` asks who writes one DAY and what
  holds of the TRIP row: one day. The theorems below hold for every `DayCount`.
* `Request`, `Event`: a second worker matters because of late, doubled and reclaimed ones, a second request
  because snapshots of two can be stale against each other. Two of both
  do not finish in minutes; `plan` has one request at a time, and the proofs cover any number. `edits` has one request, two Events and two
  DELETEs, of which three may be under way at once (`ThreeAtOnce`): what takes four is not covered.
* `MaxAttempts = 2`: first delivery and one retry (Lambda makes two retries). The third delivery
  meets the same states as the second. Violations that need no retry use 1.
* `MaxFaults = 2` in `PlanDayLive` and `CrewJobs`: one fault strands something, the second hits its
  recovery. `CrewJobs` takes each kind of fault at most once, any two of the five.
* `RouteReconfirm`: three days over two cities, so that a city keeps, loses or gains a night; two routes,
  confirmed one after the other any number of times; one death and one failed staging.
* `CrewJobs`: two requests of any kinds on one DAY of at most four places, one more than are
  there when both have appended what they claimed, so that an append too many would show. A DELETE
  of the trip counts as one of the two faults (`CONSTRAINT DeleteIsAFault`): a trip under deletion
  is explored with one fault at most. The theorems of `CrewJobsProofs` have no such bound.
* `DayPlaces`: two days, four keys, at most three places a day; at most one claim is lost as stale, and
  a prune retries once. `MCTogether` names the groups of writers that act together.
* `CrewResults`: days of at most four places from a catalogue of seven, in which each rule has a place that
  breaks it, some with an id from the crew and one that the profile has visited; lookups of Google and of Amap; two attempts, so that every rule is met on a first and on a last attempt. Limits are scaled
  (3 places, 4 units of time) so that both are reached.
* Functions: `Remap` on every itinerary of up to four days over two cities and every route of one or two stops;
  prompts around a budget of 12; hits over five tokens; proposals of up to four stops of 0 to 3
  nights, and six of 0 or 5, for trips of 1 to 10 and 14 days; city lists of up to two names in three spellings.
* `Quota`: three requests, three hours of which two make a day, caps of one. A cap of one makes one wrong refund
  visible; `HoursPerDay = 2` makes a refund cross an hour within a day and a day.
* `TripCrud`: two trips against a limit of one; two dates; at most two writers of one trip at a
  time (`TwoWriters`), since the property is about requests that do not overlap, whatever overlapped
  before; a trip that saw an overlap or a death is left out until a PUT or a confirm of it starts alone.
* `CHECK_DEADLOCK FALSE` where the system may really stop: the trip is complete or gone, the requests are
  answered, the bounds on faults are used up, a function has returned.

### What the violations show

1. `plan_last_day_lost`: the last DAY is written and its claim lost before the completion. From then on
   `resolve_plan_day_index` raises "all days already planned" before the recovery that would count
   the day (`trips/plan_day_jobs.py:238` against `:250`); the trip stays `planning` or `failed` for ever.
2. `edits_refill`: the same dead end with no failure and no race: delete an inner day of a complete trip
   and plan it again. `new_status` looks at the day number only (`plan_day_agent_pipeline.py:546`).
3. `reconfirm_partial`: "Partial staging must not trigger resume that deletes surviving DAY rows"
   (`route_reconfirm.py:132`). It must not after an exception (`FailedStagingIsUndone` holds), but a confirm that
   is killed while it stages, or while it drops its staging rows, leaves part of them, and the next
   confirm deletes the DAY rows that the part does not cover.

### Configurations kept beside the runs

Each finds a property broken. They delimit what the runs show: the same property with its condition
removed, or with one more actor. `CrewResultsOff` and `AccountOff` have two; TLC stops at the first one that breaks:
name the other one alone to see it (for `AccountOff`, `-continue` reports both as well).

| configuration (module) | property | what happens |
| --- | --- | --- |
| `TripEditsGap` (TripEdits) | `CompleteMeansPlanned` | a plan-next-day between the two writes of `delete_day` heals the rewound cursor forward again: complete, and a day is missing |
| `TripEditsOrphans` (same) | `DeletedTripIsEmpty` | DAY rows that a worker puts after the query survive their trip |
| `RouteTwice` (MCRouteReconfirm) | `NoPlanTwice` | a second killed confirm leaves one plan on two days |
| `RouteMismatch` (same) | `RestingDaysFitRoute` | a confirm dies before `put_route` |
| `RouteConcurrent` (same) | `KeptPlansAreStored` | two confirms share one set of staging keys |
| `RouteUndeletes` (same) | `DeleteLockHolds` | a late confirm sets the status over `deleting` |
| `CrewRetry` (MCCrewJobs) | `AppendsAreClaimed` | "Lambda Event retry must not append again" (`suggest_place.py:276`): a `remove_place` that has read the trip before the claim writes after it, the run appends a place and dies, the number of places is that of the claim again, and the retry appends a second |
| `CrewFresh` (same) | `FreshClaimsStay` | a stale claim is cleared by its kind, a fresh claim of that kind with it |
| `DayPlacesTwoEdits` (MCDayPlaces) | `EditsKeepTheRest` | the number of places is the same again, the places are not |
| `DayPlacesSync` (same) | `NoKeyTwice` | a synchronous request looks at no crew-job claim and places a key suggested meanwhile |
| `DayPlacesLost` (same) | `PlacedIsVisited` | a run whose claim was lost keeps its DAY but not its keys |
| `CrewResultsOff` (CrewResults' loop, MCFunctions) | `NoFoodOnlyDay` | a day without its meals is saved with a tag before its balance is looked at |
| the same | `RefusedStaysOut` | a venue refused under one name is accepted under another |
| `AccountOff` (MCAccount) | `DeletingStays` | a PUT turns a trip under deletion into a draft |
| the same | `QuotaHolds` | a refund after the hour has turned frees a place in the later hour |

One more observation, no property's violation: a proposed stop of no nights may get more days than one of one
night (nights 0, 1, 3 over 7 days become 2, 1, 4 days), because remainders are dealt out by weight
after the minimum of one day each (`shared/route_windows.py:55`).

### Fairness and why the code justifies it

`PlanDayLive` splits the steps of PlanDay into smooth ones and bad luck (a death, an exception, a
lost answer, a failed crew, an exhausted quota, a claim that ages under its worker, a crew job in
the way, a client that does not wait). Bad luck may strike `MaxFaults` times, anywhere. Weak
fairness is assumed of

* a request's smooth steps, the first included: the client resumes an incomplete trip and its button
  asks again (`frontend/src/lib/liveTrip.ts`, `tripStatus.ts`). Without a client the system
  rightly does nothing;
* a worker's smooth steps: Lambda runs an Event it has accepted;
* `SmoothAge`: time passes. It is enabled only when the claim's request and Events are over, since the
  Lambda times out after 300 s (`infra/api/main.tf:111`) and a claim ages after 360 s
  (`planning.py:23`); ageing earlier, by a queued or retried Event, is bad luck;
* `JobEnds`: a crew job completes, fails or is cleared.

No fairness is assumed of any fault, nor of `Charge` or `Crew` choosing failure.

The safety runs assume no fairness: an actor may stop anywhere. The other modules have no liveness property,
because their liveness is that of a caller: a stale crew job or a half-done confirm is taken up by the next
request only, and `NoJobLingers` says where nothing may be left behind without one.

## 4. Proofs

Eight modules hold theorems, each for every value of the constants under the named assumptions of the
model (`DayCountAssumption`, `PlanDayAssumption`, `RouteReconfirmAssumption`, `CrewJobsAssumption`,
`DayPlacesAssumption`, `RulesAssumption`, `CrewAssumption`, `QuotaAssumption`, `CrudAssumption`,
`DayRemapAssumption`, `MaxCountAssumption`, `BudgetAssumption`, `MCAssumption`): positive numbers of days, places and attempts, a catalogue of places that have their types,
and model values that differ. `Request`, `Event`, `Editor`, `Key`, `Trips`, `Dates`, the caps and the bounds on
faults are arbitrary.

The layout is the same everywhere: types; one lemma per shape of step (a request goes on, a run ends, a row is
written); one lemma per action that it keeps the inductive invariant; a lemma that joins them over `Next`;
and theorems that add `PTL`. Every inductive invariant was an INVARIANT of a TLC run before it was proved.

### PlanningProofs: planning

| theorem | states |
| --- | --- |
| `InvariantInOrder` | `Spec => []InOrder` |
| `TypeCorrect` | `Spec => []TypeOK` |
| `CursorNeverSkips` | `Spec => []NoSkippedDay` |
| `CompleteTripIsPlanned` | `Spec => []CompleteMeansPlanned` |
| `ClaimsExclude` | `Spec => []OneOwner` |
| `DaysAreWrittenOnce` | `Spec => DayWrittenOnce` |
| `PlanDayImplementsItinerary` | `Spec => ImplementsItinerary` |

None of the safety properties is inductive. A request heals the cursor to the day number it has
read, whatever happened since; a worker completes whichever claim carries its day number. What
makes this safe is that DAY rows are only added: a number that was in order once stays so.
`InOrder` says that of every number anybody carries: all days before the cursor, before the
claim (`TripOK`), before a request's `n` (`RequestOK`) and before an Event's `day` (`EventOK`) are
written, and a request or worker about to complete a day has seen its DAY. `OneOwner` and
`CompleteMeansPlanned` then follow from the conditions of the writes: completion of day n is only
reached with the days up to n written, so status "complete", given for `n = DayCount`, is right.
`DaysAreWrittenOnce` needs only that `row` changes in `PutDay` and `WriteLost`. The refinement shows that
those two are `WriteDay` steps and that a change of cursor or completeness is a `Report`, both from
`InOrder` before and after the step.

`TripEditsGap.cfg` shows the other side of the argument: as soon as DAY rows can also be removed, a number that
was in order need not stay so, and `CompleteMeansPlanned` fails.

### PlanningProofs: deletions

| theorem | states |
| --- | --- |
| `InvariantEdits`, `EditsTypeCorrect` | `EditsSpec => []EditsInv`, `[]EditsTypeOK` |
| `DeleteLockExcludesClaims` | `EditsSpec => []DeletedHoldsNoClaim` |
| `EditsClaimsExclude` | `EditsSpec => []OneOwner` |
| `DeletionIsFinal` | `EditsSpec => DeletingIsFinal` |
| `DaysAreReplacedWhenDeleted` | `EditsSpec => DayReplacedWhenDeleted` |
| `CursorBehindDays` | `SerialSpec => []CursorStaysInOrder` |

With deletions `InOrder` is lost, and nothing that requests and workers remember of the days can be part of the
invariant. `EditsInv` is about the TRIP row alone: types, `OneOwner`, `DeletedHoldsNoClaim`, and that whoever is
under way carries the number of some day. The proof names the writes planning makes to the row
(`PlanningWrite`) and shows each of them harmless to a trip under deletion, by its condition.

One API call at a time brings the order back: `SerialInv` is `InOrder` while no deletion has begun, and of a
DELETE under way that nobody plans beside it and that what it is about to do moves the cursor back to a first
missing day (`DeleteOK`). Every failure is included, so a DELETE that dies between its two writes leaves a
cursor that is behind the days, never past a missing one.

### CrewJobsProofs

| theorem | states |
| --- | --- |
| `CrewInvariant`, `CrewTypeCorrect` | `Spec => []CrewInv`, `[]TypeOK` |
| `CrewsExclude` | `Spec => []OneCrewAtATime` |
| `NoClaimLingers` | `Spec => []NoJobLingers` |
| `OwnRunsComplete` | `Spec => JobsCompleteThemselves` |
| `RetriesAddOnce` | `Spec => []AppendsAreClaimedOnce` |
| `ProposalsSpareTheRoute` | `Spec => ConfirmedRouteIsKept` |

The claim of a crew job names its kind, not who made it, so nothing in the code says that the claim a run finds is
its own. `CrewInv` says when it is: without early ageing, doubled events and enqueues that were accepted after all
(`Orderly`), whoever is past its claim owns the one on the row until the trip is gone, and at most one actor works
(`HoldersOwn`); without a death every claim has somebody who will still release it (`ClaimIsServed`); a proposal
whose claim stands is alone with the route (`ProposalIsAlone`). `RetriesAddOnce` adds `OnceInv`: every suggested
place belongs to one request that won its claim and stands after the places that request had counted, and a run
that still looks for a place has added none. So a retry that finds the day longer than its count finds its own
place; the theorem maps the suggested places one to one to the claims. `CrewRetry.cfg` shows that
the condition on removed places is needed.

### AccountProofs: the quota

| theorem | states |
| --- | --- |
| `QuotaTypeCorrect` | `QuotaSpec => []QuotaTypeOK` |
| `QuotaBoundsRuns` | `QuotaSpec => []RunsWithinQuota` |
| `CountersPair` | `QuotaSpec => []CountersStayPaired` |

`QuotaInv`: a counter stays within its cap, and the runs charged to it together with the requests that still hold
one of its units are no more than the counter and the units wrongly taken from it (`wrong`; `HourKept`, `DayKept`). A step changes the state of
one request; `WeightedStep` reduces the invariant to what that request weighs on each counter before and after.

`PairInv` adds, for a day not in `unpaired`, that the sum of its hours and the requests that gave back an hour and not
yet the day (`Late`) equal the day's counter and the requests that charged an hour and not yet the day, or have
to undo it (`Mid`): each step is `Balanced`, in whichever hour it refunds. That a decrement never meets a zero, where the code would write zero again, comes from
`QuotaInv`: a unit that is held is counted. `SumOf` is a recursion over the hours; `SumAdds`, `SumChanges`
and `SumZero` say by induction what it does (see below).

### AccountProofs: the life of a trip

| theorem | states |
| --- | --- |
| `CrudTypeCorrect` | `CrudSpec => []CrudTypeOK` |
| `LimitHolds` | `CrudSpec => []TripsWithinLimit` |
| `StatusTellsOfRoute` | `CrudSpec => []RouteInStep` |

`LimitInv`: of the creations that crossed no other, at most one is between its count and its put, and the trips it
counted are below the limit. `StepInv` says of each trip not in `mixed` which of its actors may be at work and what status, ROUTE and days
have in common at each of that actor's program counters. A death or an overlap puts the trip into `mixed`, and nothing is
said of what they leave; what the theorem says is that a PUT or a confirm of a trip without a claim that then goes through alone puts the
three in step again, whatever it finds.

### DayRemapProofs

| theorem | states |
| --- | --- |
| `RemapDealsInOrder` | for any rows and any route: every slot filled by `Remap` takes a day of its city, two slots of one city take theirs in day order, none is taken twice, and a day is left out only when every slot of its city has an earlier one |

It is about `DayRemap` for any number of days; how its induction goes is said below.

### RouteReconfirmProofs

| theorem | states |
| --- | --- |
| `RouteTypeCorrect` | `Spec => []TypeOK` |
| `KeptPlans` | `OneConfirm /\ Spec => []KeptPlansAreStored` |
| `ConfirmFits` | `OneConfirm /\ Spec => []ConfirmedDaysFitRoute` |
| `PlansStandOnce` | `OneConfirm /\ MaxDeaths <= 1 /\ Spec => []NoPlanTwice` |
| `OnlyOvertakenMisfits` | `OneConfirm /\ Spec => []OnlyOvertakenMisfit` |
| `FailuresAreUndone` | `OneConfirm /\ Spec => FailedStagingIsUndone` |

`OneConfirm` says that `Confirm` has one member, which may confirm any number of routes one after the other; plan-day
runs and the DELETE go on beside it. It is needed: two confirms at once share one set of staging keys
(`RouteConcurrent.cfg`). So is `MaxDeaths <= 1` for `PlansStandOnce` (`RouteTwice.cfg`: the second death cuts off a
resume). The other theorems hold for any number of deaths and failed stagings. `RouteInv` says for each call of a
confirm where the payloads it keeps are stored (`Stored`: the DAY rows already promoted, the staging rows before
that), which staging rows there can be (`Swept`), which cities they carry (`Fits`), and which DAY rows may be
there besides (`Quiet` while no plan-day run has begun, `LateOnes`: those of overtaken runs,
`NoneTwice`). `WorkInv` and `Caught` say who is overtaken: a run that is not holds the claim and has its city of the ROUTE row, and
past the removal of the claim every run that has read the ROUTE is.

### DayPlacesProofs

| theorem | states |
| --- | --- |
| `TypeCorrect` | `Mixes /\ Spec => []TypeOK` |
| `NoKeyForgotten` | `Mixes /\ Spec => []PlacedIsVisited` |
| `KeysStandOnce` | `Mixes /\ Spec => []NoKeyTwice` |
| `GoneTripsAreEmpty` | `Mixes /\ Spec => []GoneIsEmpty` |
| `EditsKeepOthersPlaces` | `Mixes /\ Spec => EditsKeepTheRest` |

`Mixes` is about the constant `Together`: in one behaviour at most one edit acts, beside any number of suggestions and
asynchronous runs while no claim is lost, or beside any number of suggestions whose claims may be lost, or beside one
synchronous request. The DELETE of the trip may come in each of them. These are the groups of the run
(`MCTogether`), for any numbers of days, keys, places and tries. Each part of the condition is needed:
`DayPlacesTwoEdits.cfg`, `DayPlacesLost.cfg` and `DayPlacesSync.cfg` drop one and break a property.

The invariant `IInv` says what every writer carries between a read and its write:

* `Claims`: who holds the TRIP's claim, and that nobody plans beside a suggestion.
* `KeysKnown`: the keys on days are in `visited_place_keys`, except while a run stands between putting its day and
  completing, when the run itself carries them.
* `PruneSafe`: the key an edit removes stands on no other day, and since it stays in the list as long as anyone may
  choose keys, nobody places it again before `Prune` takes it out. This is what makes the late prune harmless.
* `WriteSafe`: with the number of places that was read, the day has the places that were read. The count lock alone does
  not say so; that only suggestions, which add, and no second edit come between, does.
* `Deletion`: a DAY row of a trip whose row is gone is still to be deleted by the DELETE, or its run is about to.

### CrewResultsProofs

| theorem | states |
| --- | --- |
| `JobsKeepInvariant` | `CrewSpec => []JobInv` |
| `SavedDaysAreUsable` | `CrewSpec => []PlannedDayIsUsable` |
| `BansAreDeserved` | `CrewSpec => []BannedWereRejected` |
| `SavedSuggestionsFit` | `CrewSpec => []SuggestionFits` |
| `HintsLeaveAChoice` | `CrewSpec => []HintIsSatisfiable` |

`CrewSpec` is the loop by itself. The run checks it over a catalogue of a few places and days of a few stops; the
theorems hold for any catalogue, any length of the day, any number of attempts, and any lookups that fail. They assume that
the catalogue has its types, that no visited name is an id, and at most three places as the minimum of a day.

The weight is in the lemmas about `PlaceRules`:

* `DedupeIs`: what `Dedupe` returns shares no token with what is visited, nor any two of its places with each other.
* `TrimIs`: trimming keeps, round by round, every property of `TrimmedFrom`. A meal is not lost because the stop that
  `Protected` keeps for it is the first of its label, and because the unlabelled stops that stand for the other
  meals are protected one by one: `MealsMissing` compares the two numbers before and after a removal. The only
  stop without food is protected unless the day is a food crawl. After as many rounds as there were places
  nothing is left to trim: a round that changes the day makes it shorter.
* `EnrichedIs`, `MetIs`: a lookup changes id, status and weekdays only, so a banned name is that of a place that was
  closed, off, visited or known already (`BansStayJust`: by the lookups of the job's one provider).

`JobInv` adds the types to the three properties: each is about what an attempt leaves in `job`, and an attempt looks at the
bans of the earlier ones only to add to them.

### FunctionsProofs

| theorem | states |
| --- | --- |
| `VenueIsPicked` | for any place a crew names and any hits: `PicksVenue` |
| `SuggestionsAreNew` | for any route, draft and answer: `SuggestionsFit` |
| `ProposalsFit` | for any non-empty list of nights and any positive number of days: `ProposalFits` |
| `PromptFitsTheBudget` | for any fields whose visited keys differ, and any budget: `InputsFit` |
| `LookupsAreSound` | `Spec => []LookupIsSound` |
| `RemapsAreFifo` | `Spec => []RemapIsFifo` |
| `ProposedRoutesFit` | `Spec => []ProposedRouteFits` |
| `PromptsFit` | `Spec => []PromptFits` |

The first four are about the functions and any input. The others are about the calls of `MCFunctions`: that a call
holds the answer of its function is its invariant (`CallInv`), and each property follows from the theorem about the
function (for `RemapsAreFifo` it is `RemapDealsInOrder`, with any number of days); that the inputs of the run are among
those of the theorem is the rest of the proof.

* `VenueIsPicked`: every hit has an integer score, so one position is the first among the best (`FirstBest`). That
  the order of the hits decides between equals only needs the picks from the hits and from the reversed hits compared.
  Its hypotheses: names are finite sets of tokens (`Names`), and the sign for "no hit" is not among the hits.
* `SuggestionsAreNew`: `DedupeCandidates` as an induction over the candidates; the cities kept differ by their normal
  form from one another and from those banned, and are no more than the limit.
* `ProposalsFit` follows `normalize_route_windows` through its stages. `ConsolidateIs`: no more cities are left than
  there is room for. `ScaleNightsIs`: the nights scaled to the trip are in the order of the nights proposed. `PartitionIs`:
  shares of at least one day, taken back where they are too many and filled up by largest remainder where they are too few, add
  up to the length of the trip. The windows are the prefix sums, and each day lies between two of them
  (`SumsOfDays`), so they hold every day once. `ProposalFits` orders the scaled
  nights, not the days: see the observation at the end of section 3.
* `PromptFitsTheBudget`: `SearchIs` is the invariant of both binary searches (what is below the lower end fits, what is
  above the upper end does not), `SelectIs` and `SelectGrows` say that `Select(keys, n)` are the n highest ranked keys
  in their order and that more keys take more room, which is what makes a binary search right. The four cuts follow one another, each made only when
  the one before took all it could. `SuggestionRetriesFit`: a suggestion's retry exceeds the budget by its
  hint and one ban for each failed attempt, a planned day's (`RetriesFit`) by its hint.

### Induction over data

The library's induction theorems take an operator as a parameter, which no installed prover can instantiate.
`RemapDealsInOrder` and the sums of `AccountProofs` use the least-number principle instead: the set of counter-examples
below a bound, if not empty, has a least element by `NatLessThanWellFounded` and `WFMin`, and the step from its
predecessor contradicts it. The existence of the recursive function (`[n \in 0..N |-> ...]`) is shown the same way
before anything is said of its values. `Climbs` and `Iterates` are the reusable form: a set of numbers that
holds 0 and the successor of each of its members holds them all, and a step function has its sequence of iterates; with them
the proofs about `Only`, `Total`, `Dedupe`, `Trim`, the searches and the merging of cities, and about `Without` in
`DayPlacesProofs`, show one step each. This works for recursive functions, so the modules define no RECURSIVE operator.

### Only model-checked

* Liveness (`ClaimIsReleased`, `EveryDayIsWritten`, `InnerDayIsCounted`): fairness and ENABLED are out of the prover's
  reach.
* That the configurations of the violations and those kept beside the runs break their properties.

## 5. Not modelled, and modelling assumptions

* Reads return the latest row. DynamoDB's default reads are eventually consistent; the models cover old
  snapshots (a read is never atomic with the write after it) but not a read that misses an earlier write.
* The size of DynamoDB pages, TTLs, throttling other than as an exception.
* `JobEnds` in `PlanDay` leaves `status` alone: the one job that sets it, propose-cities, starts only
  before a route is confirmed (`city_route.py:199`); its completion is in `CrewJobs` and `TripCrud`.
* What a crew computes. A run returns anything over a catalogue, or fails.
* Texts. The words by which a hint names a category, the slugs of names and the postal codes of addresses
  are features, tokens and sets; that the regular expressions find them is not checked.
* The HTTP clients of the places search and the photo cache, whose entries are written once under keys
  that never conflict.
* Safety gate, HTTP routing and authentication: stateless. Profile: one row, read and replaced by its owner.
  Metrics and observability: counters that no decision reads.
* The client's polling loops. Of the client only that it asks again for an incomplete trip is used, as
  the fairness of `PlanDayLive`.
* Agent prompts, crews and evals; infrastructure but for the Lambda timeout and the Event retries.

## 6. What is left

In this order:

1. An abstract specification of the remap (days kept by city, in order) that a whole confirm implements as one step;
   `RemapDealsInOrder` and `ConfirmFits` are the two halves of its proof.
2. The client's loop over `dayReady`, failure and timeout (`frontend/src/lib`), composed with `PlanDayLive` in
   place of the assumption that somebody asks again.
3. A bound on the runs that `Reclaim` starts without a charge, one for each stale claim at most.
