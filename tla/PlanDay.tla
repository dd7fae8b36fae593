------------------------------ MODULE PlanDay ------------------------------
(***************************************************************************)
(* Asynchronous plan-next-day of one trip (ADR 001): an API request claims *)
(* the next day on the TRIP row, charges the user's quota, sends a Lambda  *)
(* Event and answers 202; the Event worker runs the crew, writes the DAY   *)
(* row and completes the claim.  A claim is only a day number with a start *)
(* time, and whoever finds it older than six minutes may clear it.         *)
(*                                                                         *)
(* Every action is one DynamoDB call of one process together with the      *)
(* local computation up to the next call, so requests and workers          *)
(* interleave between any two calls, and any of them may die between two.  *)
(***************************************************************************)
EXTENDS TripRow, FiniteSets

CONSTANTS
  Request,      \* concurrent POST /trips/{id}/plan-next-day requests
  Event,        \* worker Events in flight (queued or running) at one time
  MaxAttempts,  \* deliveries of one Event: the first one and Lambda's retries
  NoRow         \* a DAY row that does not exist

ASSUME PlanDayAssumption ==
  /\ MaxAttempts \in Nat \ {0}
  /\ NoRow \notin Event

VARIABLES
  trip,     \* the TRIP row
  row,      \* row[d]: the worker that wrote DAY d, or NoRow
  req,      \* req[r]: where request r is, and what it has read
  ev        \* ev[e]: where Event e is, and what it carries

vars == <<trip, row, req, ev>>

Written(d) == row[d] # NoRow
WrittenDays == { d \in Day : Written(d) }

-----------------------------------------------------------------------------
(* Control points.  A request's pdi and days are the attributes of the     *)
(* snapshot it acts on; ret is where clear_stale_planning_claim returns to *)
(* and seen the planning_day_index that call has read.                     *)

RequestPc == { "idle", "recover", "stale", "clear", "reload", "heal", "probe",
               "claim", "conflict", "reprobe", "finish", "charge", "enqueue",
               "abort" }

RequestType == [ pc : RequestPc, n : 0..DayCount, pdi : 0..DayCount,
                 days : SUBSET Day, ret : {"start", "probe", "claim"},
                 seen : 0..DayCount, reclaim : 0..DayCount ]

NoRequest == [ pc |-> "idle", n |-> 0, pdi |-> 0, days |-> {},
               ret |-> "start", seen |-> 0, reclaim |-> 0 ]

\* An error is a terminal ApiError, a retryable one, or any other exception.
ErrorKind == {"none", "terminal", "retryable", "other"}

EventPc == { "idle", "queued", "probe", "finish", "lost", "crew", "recheck",
             "reread", "put", "raced", "complete", "verify", "fail", "raised", "net" }

EventType == [ pc : EventPc, day : 0..DayCount, try : 0..MaxAttempts,
               err : ErrorKind ]

NoEvent == [pc |-> "idle", day |-> 0, try |-> 0, err |-> "none"]

TypeOK ==
  /\ trip \in TripType
  /\ row \in [Day -> Event \cup {NoRow}]
  /\ req \in [Request -> RequestType]
  /\ ev \in [Event -> EventType]

Init ==
  /\ trip = FreshTrip
  /\ row = [d \in Day |-> NoRow]
  /\ req = [r \in Request |-> NoRequest]
  /\ ev = [e \in Event |-> NoEvent]

-----------------------------------------------------------------------------
(* start_plan_next_day                                                     *)

RGo(r, pc) == req' = [req EXCEPT ![r].pc = pc]
REnd(r) == req' = [req EXCEPT ![r] = NoRequest]

\* Mutant: the cursor is not healed.
MutResolve(r, days, reclaim) ==
  \/ Day \subseteq days /\ REnd(r)
  \/ \E d \in Day :
       /\ IsFirstMissing(d, days)
       /\ req' = [req EXCEPT ![r] = [NoRequest EXCEPT !.pc = "probe", !.n = d,
                                    !.pdi = trip.pdi, !.reclaim = reclaim]]

\* resolve_plan_day_index over the days of the first read, then the heal test.
Resolve(r, days, reclaim) ==
  \/ Day \subseteq days /\ REnd(r)
  \/ \E d \in Day :
       /\ IsFirstMissing(d, days)
       /\ req' = [req EXCEPT ![r] =
                    [NoRequest EXCEPT !.pc = IF trip.ndi = d THEN "probe" ELSE "heal",
                                      !.n = d, !.pdi = trip.pdi,
                                      !.reclaim = reclaim]]

\* _load_owned_bundle; a held claim is recovered before a gap is looked for.
Start(r) ==
  /\ req[r].pc = "idle"
  /\ trip.status \in {"routing_confirmed", "planning", "failed"}
  /\ IF trip.pdi = 0
     THEN Resolve(r, WrittenDays, 0)
     ELSE req' = [req EXCEPT ![r] =
                    [NoRequest EXCEPT !.pc = "recover", !.n = trip.pdi,
                                      !.pdi = trip.pdi, !.days = WrittenDays]]
  /\ UNCHANGED <<trip, row, ev>>

\* Mutant: the claimed day is completed without its DAY.
MutRecover(r) ==
  /\ req[r].pc = "recover"
  /\ RGo(r, "finish")
  /\ UNCHANGED <<trip, row, ev>>

\* _finalize_existing_planned_day of the claimed day: its get_day.
Recover(r) ==
  /\ req[r].pc = "recover"
  /\ IF Written(req[r].n)
     THEN RGo(r, "finish")
     ELSE req' = [req EXCEPT ![r].pc = "stale", ![r].ret = "start"]
  /\ UNCHANGED <<trip, row, ev>>

\* Where the caller of clear_stale_planning_claim goes with its result.
AfterClear(r, cleared) ==
  CASE req[r].ret = "start" /\ cleared ->
         req' = [req EXCEPT ![r].pc = "reload", ![r].reclaim = req[r].n]
    [] req[r].ret = "start" /\ ~cleared -> REnd(r)
    [] OTHER -> req' = [req EXCEPT ![r].pc = "claim", ![r].seen = 0]

\* clear_stale_planning_claim reads the row ...
StaleRead(r) ==
  /\ req[r].pc = "stale"
  /\ IF Exists(trip) /\ trip.pdi # 0 /\ trip.aged
     THEN req' = [req EXCEPT ![r].pc = "clear", ![r].seen = trip.pdi]
     ELSE AfterClear(r, FALSE)
  /\ UNCHANGED <<trip, row, ev>>

\* Mutant: the stale claim is left.
MutStaleClear(r) ==
  /\ req[r].pc = "clear"
  /\ AfterClear(r, FALSE)
  /\ UNCHANGED <<trip, row, ev>>

\* ... and removes the claim if it is still for the day it has read.
StaleClear(r) ==
  /\ req[r].pc = "clear"
  /\ LET held == HoldsClaim(trip, req[r].seen)
     IN /\ trip' = IF held THEN ClearStaleClaim(trip) ELSE trip
        /\ AfterClear(r, held)
  /\ UNCHANGED <<row, ev>>

Reload(r) ==
  /\ req[r].pc = "reload"
  /\ IF Exists(trip) THEN Resolve(r, req[r].days, req[r].reclaim) ELSE REnd(r)
  /\ UNCHANGED <<trip, row, ev>>

\* update_trip(next_day_index): unconditional once the row exists.
Heal(r) ==
  /\ req[r].pc = "heal"
  /\ IF Exists(trip)
     THEN /\ trip' = SetNextDay(trip, req[r].n)
          /\ req' = [req EXCEPT ![r].pc = "probe", ![r].pdi = trip.pdi]
     ELSE UNCHANGED trip /\ REnd(r)
  /\ UNCHANGED <<row, ev>>

\* _finalize_existing_planned_day(ensure_claim=True): its get_day.
Probe(r) ==
  /\ req[r].pc = "probe"
  /\ IF Written(req[r].n) /\ req[r].pdi = req[r].n
     THEN RGo(r, "finish")
     ELSE req' = [req EXCEPT ![r].pc = "stale",
                             ![r].ret = IF Written(req[r].n) /\ req[r].pdi = 0
                                        THEN "probe" ELSE "claim"]
  /\ UNCHANGED <<trip, row, ev>>

\* claim_planning_in_progress; a day whose stale claim this request cleared is
\* not charged a second time.
Claim(r) ==
  /\ req[r].pc = "claim"
  /\ LET n == req[r].n IN
     IF CanClaimPlanning(trip, n)
     THEN /\ trip' = ClaimPlanning(trip, n)
          /\ RGo(r, CASE req[r].ret = "probe"  -> "finish"
                      [] req[r].reclaim = n    -> "enqueue"
                      [] OTHER                 -> "charge")
     ELSE UNCHANGED trip /\ RGo(r, "conflict")
  /\ UNCHANGED <<row, ev>>

\* The claim was lost: the row is read again.
Conflict(r) ==
  /\ req[r].pc = "conflict"
  /\ CASE ~Exists(trip) -> REnd(r)
       [] Exists(trip) /\ req[r].ret = "claim" ->
            req' = [req EXCEPT ![r].pc = "reprobe", ![r].pdi = trip.pdi]
       [] Exists(trip) /\ req[r].ret # "claim" ->
            CASE trip.pdi = req[r].n -> RGo(r, "finish")
              [] trip.pdi # req[r].n /\ trip.ndi > req[r].n -> REnd(r)
              [] OTHER -> req' = [req EXCEPT ![r].pc = "stale", ![r].ret = "claim"]
  /\ UNCHANGED <<trip, row, ev>>

Reprobe(r) ==
  /\ req[r].pc = "reprobe"
  /\ IF Written(req[r].n) /\ req[r].pdi = req[r].n THEN RGo(r, "finish") ELSE REnd(r)
  /\ UNCHANGED <<trip, row, ev>>

\* complete_planning_after_day_write of a day somebody else wrote.
Finish(r) ==
  /\ req[r].pc = "finish"
  /\ trip' = IF HoldsClaim(trip, req[r].n)
             THEN CompletePlanning(trip, req[r].n) ELSE trip
  /\ REnd(r)
  /\ UNCHANGED <<row, ev>>

\* consume_genai_action: the quota may be used up or the counter unreachable.
Charge(r) ==
  /\ req[r].pc = "charge"
  /\ RGo(r, "enqueue") \/ RGo(r, "abort")
  /\ UNCHANGED <<trip, row, ev>>

\* The Event invoke: accepted, refused, or accepted with the answer lost.
Enqueue(r) ==
  /\ req[r].pc = "enqueue"
  /\ \/ \E e \in Event :
          /\ ev[e].pc = "idle"
          /\ ev' = [ev EXCEPT ![e] = [NoEvent EXCEPT !.pc = "queued", !.try = 1,
                                                     !.day = req[r].n]]
          /\ REnd(r) \/ RGo(r, "abort")
     \/ RGo(r, "abort") /\ UNCHANGED ev
  /\ UNCHANGED <<trip, row>>

\* fail_planning_in_progress after a failed charge or enqueue.
Abort(r) ==
  /\ req[r].pc = "abort"
  /\ trip' = IF HoldsClaim(trip, req[r].n) THEN FailPlanning(trip) ELSE trip
  /\ REnd(r)
  /\ UNCHANGED <<row, ev>>

\* The API Lambda dies, or a DynamoDB call raises: the request just ends.
RequestDies(r) ==
  /\ req[r].pc # "idle"
  /\ REnd(r)
  /\ UNCHANGED <<trip, row, ev>>

RequestStep(r) ==
  \/ Start(r) \/ Recover(r) \/ StaleRead(r) \/ StaleClear(r) \/ Reload(r)
  \/ Heal(r) \/ Probe(r) \/ Claim(r) \/ Conflict(r) \/ Reprobe(r) \/ Finish(r)
  \/ Charge(r) \/ Enqueue(r) \/ Abort(r)

-----------------------------------------------------------------------------
(* The Event worker: execute_plan_next_day inside the handler of the       *)
(* worker Event.                                                           *)

EGo(e, pc) == ev' = [ev EXCEPT ![e].pc = pc]
EEnd(e) == ev' = [ev EXCEPT ![e] = NoEvent]

\* An error inside the crew-and-persist call goes through its except clauses,
\* one outside goes straight to the handler.
Throw(e, pc, kind) == ev' = [ev EXCEPT ![e].pc = pc, ![e].err = kind]

\* Lambda delivers a failed Event again while attempts are left.
Redeliver(e) ==
  IF ev[e].try < MaxAttempts
  THEN ev' = [ev EXCEPT ![e] = [ev[e] EXCEPT !.pc = "queued", !.err = "none",
                                             !.try = ev[e].try + 1]]
  ELSE EEnd(e)

\* The Event is delivered: the bundle is read and the claim compared with it.
Deliver(e) ==
  /\ ev[e].pc = "queued"
  /\ IF /\ trip.status \notin {"deleting", "gone"}
        /\ trip.pdi = ev[e].day
        /\ trip.ndi = ev[e].day
     THEN EGo(e, "probe")
     ELSE Throw(e, "raised", "terminal")
  /\ UNCHANGED <<trip, row, req>>

\* _finalize_existing_planned_day: its get_day ...
ProbeDay(e) ==
  /\ ev[e].pc = "probe"
  /\ EGo(e, IF Written(ev[e].day) THEN "finish" ELSE "crew")
  /\ UNCHANGED <<trip, row, req>>

\* ... its complete_planning_after_day_write ...
FinishDay(e) ==
  /\ ev[e].pc = "finish"
  /\ IF HoldsClaim(trip, ev[e].day)
     THEN trip' = CompletePlanning(trip, ev[e].day) /\ EEnd(e)
     ELSE UNCHANGED trip /\ EGo(e, "lost")
  /\ UNCHANGED <<row, req>>

\* ... and, the claim lost, its second look: no harm if the cursor has passed.
ClaimLost(e) ==
  /\ ev[e].pc = "lost"
  /\ IF Exists(trip) /\ trip.ndi > ev[e].day
     THEN EEnd(e) ELSE Throw(e, "raised", "terminal")
  /\ UNCHANGED <<trip, row, req>>

\* The crew run, with its quality gates: a day plan or an error.
Crew(e) ==
  /\ ev[e].pc = "crew"
  /\ \/ EGo(e, "recheck")
     \/ Throw(e, "raised", "retryable")
     \/ \E kind \in {"terminal", "other"} : Throw(e, "verify", kind)
  /\ UNCHANGED <<trip, row, req>>

\* _persist_async_planned_day: get_trip_meta, get_day, put_day_if_absent.
Recheck(e) ==
  /\ ev[e].pc = "recheck"
  /\ IF trip.status # "deleting" /\ HoldsClaim(trip, ev[e].day)
     THEN EGo(e, "reread")
     ELSE Throw(e, "verify", "terminal")
  /\ UNCHANGED <<trip, row, req>>

Reread(e) ==
  /\ ev[e].pc = "reread"
  /\ EGo(e, IF Written(ev[e].day) THEN "complete" ELSE "put")
  /\ UNCHANGED <<trip, row, req>>

\* Mutant: put_day instead of put_day_if_absent.
MutPutDay(e) ==
  /\ ev[e].pc = "put"
  /\ row' = [row EXCEPT ![ev[e].day] = e]
  /\ EGo(e, "complete")
  /\ UNCHANGED <<trip, req>>

PutDay(e) ==
  /\ ev[e].pc = "put"
  /\ IF Written(ev[e].day)
     THEN UNCHANGED row /\ EGo(e, "raced")
     ELSE row' = [row EXCEPT ![ev[e].day] = e] /\ EGo(e, "complete")
  /\ UNCHANGED <<trip, req>>

\* Another writer finished the put: its DAY is used, if it is still there.
Raced(e) ==
  /\ ev[e].pc = "raced"
  /\ IF Written(ev[e].day) THEN EGo(e, "complete") ELSE Throw(e, "verify", "terminal")
  /\ UNCHANGED <<trip, row, req>>

CompleteDay(e) ==
  /\ ev[e].pc = "complete"
  /\ IF HoldsClaim(trip, ev[e].day)
     THEN trip' = CompletePlanning(trip, ev[e].day) /\ EEnd(e)
     ELSE UNCHANGED trip /\ Throw(e, "verify", "terminal")
  /\ UNCHANGED <<row, req>>

\* _day_exists in the except clauses, then fail_planning_in_progress.
Verify(e) ==
  /\ ev[e].pc = "verify"
  /\ EGo(e, IF Written(ev[e].day) THEN "raised" ELSE "fail")
  /\ UNCHANGED <<trip, row, req>>

FailDay(e) ==
  /\ ev[e].pc = "fail"
  /\ trip' = IF HoldsClaim(trip, ev[e].day) THEN FailPlanning(trip) ELSE trip
  /\ EGo(e, "raised")
  /\ UNCHANGED <<row, req>>

\* _handle_plan_next_day_worker: raise again while the claim is held, unless
\* the error is terminal.
Raised(e) ==
  /\ ev[e].pc = "raised"
  /\ CASE ~HoldsClaim(trip, ev[e].day) -> EEnd(e)
       [] HoldsClaim(trip, ev[e].day) /\ ev[e].err = "terminal" -> EGo(e, "net")
       [] OTHER -> Redeliver(e)
  /\ UNCHANGED <<trip, row, req>>

\* The handler's safety net.
SafetyNet(e) ==
  /\ ev[e].pc = "net"
  /\ trip' = IF HoldsClaim(trip, ev[e].day) THEN FailPlanning(trip) ELSE trip
  /\ EEnd(e)
  /\ UNCHANGED <<row, req>>

\* A DynamoDB call of the worker raises something that is not an ApiError;
\* fail_planning_in_progress swallows it.
WorkerFault(e) ==
  /\ \/ /\ ev[e].pc \in {"queued", "probe", "finish", "lost", "verify"}
        /\ Throw(e, "raised", "other")
     \/ /\ ev[e].pc \in {"recheck", "reread", "put", "raced", "complete"}
        /\ Throw(e, "verify", "other")
     \/ ev[e].pc = "fail" /\ EGo(e, "raised")
     \/ ev[e].pc = "net" /\ EEnd(e)
     \/ ev[e].pc = "raised" /\ Redeliver(e)
  /\ UNCHANGED <<trip, row, req>>

\* A write of the worker is made and its answer is lost; what botocore's own
\* retry then meets is the conflict, or the call just raises.
WriteLost(e) ==
  /\ \/ /\ ev[e].pc = "put" /\ ~Written(ev[e].day)
        /\ row' = [row EXCEPT ![ev[e].day] = e]
        /\ EGo(e, "raced") \/ Throw(e, "verify", "other")
        /\ UNCHANGED trip
     \/ /\ ev[e].pc \in {"finish", "complete"} /\ HoldsClaim(trip, ev[e].day)
        /\ trip' = CompletePlanning(trip, ev[e].day)
        /\ IF ev[e].pc = "finish"
           THEN EGo(e, "lost") \/ Throw(e, "raised", "other")
           ELSE \E kind \in {"terminal", "other"} : Throw(e, "verify", kind)
        /\ UNCHANGED row
  /\ UNCHANGED req

\* The worker Lambda times out or is killed between two calls.
WorkerDies(e) ==
  /\ ev[e].pc \notin {"idle", "queued"}
  /\ Redeliver(e)
  /\ UNCHANGED <<trip, row, req>>

\* Event delivery is at least once: a queued Event may be delivered twice.
Duplicate(e, f) ==
  /\ ev[e].pc = "queued"
  /\ ev[f].pc = "idle"
  /\ ev' = [ev EXCEPT ![f] = ev[e]]
  /\ UNCHANGED <<trip, row, req>>

WorkerStep(e) ==
  \/ Deliver(e) \/ ProbeDay(e) \/ FinishDay(e) \/ ClaimLost(e) \/ Crew(e)
  \/ Recheck(e) \/ Reread(e) \/ PutDay(e) \/ Raced(e) \/ CompleteDay(e) \/ Verify(e)
  \/ FailDay(e) \/ Raised(e) \/ SafetyNet(e)

-----------------------------------------------------------------------------
(* The clock, and the crew jobs (propose-cities, suggest-city and -place)  *)
(* that share the row with the planning claim.                             *)

\* Six minutes pass since planning_started_at.
Age ==
  /\ trip.pdi # 0
  /\ ~trip.aged
  /\ trip' = [trip EXCEPT !.aged = TRUE]
  /\ UNCHANGED <<row, req, ev>>

\* claim_crew_job of another request.
JobClaims ==
  /\ CanClaimJob(trip)
  /\ trip' = [trip EXCEPT !.job = TRUE]
  /\ UNCHANGED <<row, req, ev>>

\* complete_crew_job, fail_crew_job or clear_stale_crew_job.
JobEnds ==
  /\ trip.job
  /\ trip' = [trip EXCEPT !.job = FALSE]
  /\ UNCHANGED <<row, req, ev>>

Next ==
  \/ \E r \in Request : RequestStep(r) \/ RequestDies(r)
  \/ \E e \in Event : WorkerStep(e) \/ WorkerFault(e) \/ WriteLost(e) \/ WorkerDies(e)
  \/ \E e, f \in Event : Duplicate(e, f)
  \/ Age \/ JobClaims \/ JobEnds

Spec == Init /\ [][Next]_vars

-----------------------------------------------------------------------------
\* The cursor is never past a day that has no DAY row, though it is moved by
\* requests acting on old snapshots (the heal of start_plan_next_day is not
\* conditional) and by any worker that finds a claim for its day number.
NoSkippedDay == \A d \in Day : d < trip.ndi => Written(d)

\* A trip is never "complete" with a day missing (status_after_planning_day looks
\* only at the day number of the claim it completes).
CompleteMeansPlanned == trip.status = "complete" => \A d \in Day : Written(d)

\* "Only one of day-planning claim or a crew-job claim may be held at a time"
\* (README.md:132), although the two claims are taken by different writes and
\* the planning claim is also taken back by stale requests.
OneOwner == trip.pdi # 0 => ~trip.job

\* Two workers that run for the same day, because a claim was reclaimed under a
\* late one or the Event was delivered twice, do not overwrite each other's DAY.
DayWrittenOnce == [][\A d \in Day : Written(d) => row'[d] = row[d]]_row

-----------------------------------------------------------------------------
(* Why the days are in order: every day number that a claim, a request or  *)
(* an Event carries is that of a day whose predecessors are all written,   *)
(* and stays one because DAY rows are only added.                          *)

WrittenBefore(n) == \A d \in Day : d < n => Written(d)

TripOK ==
  /\ WrittenBefore(trip.ndi)
  /\ WrittenBefore(trip.pdi)
  /\ OneOwner
  /\ CompleteMeansPlanned

RequestOK(r) ==
  /\ WrittenBefore(req[r].n)
  /\ req[r].days \subseteq WrittenDays
  /\ req[r].pc # "idle" => req[r].n # 0
  /\ req[r].pc = "finish" => req[r].n \in WrittenDays
  /\ req[r].ret = "probe" => req[r].n \in WrittenDays
  /\ req[r].pc \in {"claim", "conflict"} => req[r].ret # "start"

EventOK(e) ==
  /\ WrittenBefore(ev[e].day)
  /\ ev[e].pc # "idle" => ev[e].day # 0
  /\ ev[e].pc \in {"finish", "complete"} => ev[e].day \in WrittenDays

\* The inductive invariant: whoever acts on a day number, on however old a
\* snapshot, acts on one that is in order (start_plan_next_day,
\* _finalize_existing_planned_day, execute_plan_next_day).
InOrder ==
  /\ TypeOK
  /\ TripOK
  /\ \A r \in Request : RequestOK(r)
  /\ \A e \in Event : EventOK(e)

\* All of it implements the itinerary that a client relies on.
Itin == INSTANCE Itinerary WITH Writer <- Event, cursor <- trip.ndi,
                                complete <- (trip.status = "complete")
ImplementsItinerary == Itin!Spec
=============================================================================
