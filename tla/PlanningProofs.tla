--------------------------- MODULE PlanningProofs ---------------------------
(***************************************************************************)
(* Proofs about PlanDay, TripEdits and TripEditsSerial for every number of *)
(* days, requests, Events, deliveries and DELETEs.                         *)
(*                                                                         *)
(* PlanDay: InOrder is inductive.  The lemmas say what a write to the TRIP *)
(* row, a step of one request and a step of one Event leave of it, and     *)
(* each action is then one or two of these.                                *)
(*                                                                         *)
(* TripEdits: DAY rows disappear, so the day numbers that requests and     *)
(* Events carry are no longer in order; what is left of the invariant is   *)
(* the TRIP row alone.  The proof names the writes that planning makes to  *)
(* that row, then those of a DELETE, and shows each of them harmless to a  *)
(* trip that is being deleted.                                             *)
(*                                                                         *)
(* TripEditsSerial: with one API call at a time, and every failure, more   *)
(* holds.  While requests and workers are under way no DAY disappears, and *)
(* InOrder holds step by step; while a DELETE is under way nobody plans,   *)
(* and it takes a DAY away only when the cursor is behind it.              *)
(***************************************************************************)
EXTENDS TripEditsSerial, TLAPS

-----------------------------------------------------------------------------
(* The writes to the TRIP row.                                             *)

\* Removing the claim attributes leaves the rest of the row alone.
LEMMA NoClaimFields ==
  ASSUME NEW t \in TripType
  PROVE  /\ NoClaim(t) \in TripType
         /\ NoClaim(t).ndi = t.ndi /\ NoClaim(t).pdi = 0
         /\ NoClaim(t).status = t.status /\ NoClaim(t).job = t.job
<1>1. 0 \in 0..DayCount
  BY DayCountAssumption
<1>2. QED
  BY <1>1 DEF TripType, NoClaim

\* complete_planning_after_day_write passes one day, and completes only the last.
LEMMA CompletePlanningFields ==
  ASSUME NEW t \in TripType, NEW n \in Day
  PROVE  /\ CompletePlanning(t, n) \in TripType
         /\ CompletePlanning(t, n).ndi = n + 1 /\ CompletePlanning(t, n).pdi = 0
         /\ CompletePlanning(t, n).status \in {"planning", "complete"}
         /\ CompletePlanning(t, n).status = "complete" => n = DayCount
<1>1. /\ n + 1 \in 1..(DayCount + 1)
      /\ StatusAfterPlanning(n) \in Status \cap {"planning", "complete"}
      /\ StatusAfterPlanning(n) = "complete" => n = DayCount
  BY DayCountAssumption DEF StatusAfterPlanning, Status, Day
<1>2. NoClaim(t) \in TripType /\ NoClaim(t).pdi = 0
  BY NoClaimFields
<1>3. QED
  BY <1>1, <1>2 DEF TripType, CompletePlanning

\* fail_planning_in_progress drops the claim and leaves the cursor.
LEMMA FailPlanningFields ==
  ASSUME NEW t \in TripType
  PROVE  /\ FailPlanning(t) \in TripType
         /\ FailPlanning(t).ndi = t.ndi /\ FailPlanning(t).pdi = 0
         /\ FailPlanning(t).status = "failed"
  BY NoClaimFields DEF TripType, Status, FailPlanning

\* clear_stale_planning_claim drops the claim and leaves the cursor.
LEMMA ClearStaleClaimFields ==
  ASSUME NEW t \in TripType
  PROVE  /\ ClearStaleClaim(t) \in TripType
         /\ ClearStaleClaim(t).ndi = t.ndi /\ ClearStaleClaim(t).pdi = 0
         /\ ClearStaleClaim(t).status = "planning"
  BY NoClaimFields DEF TripType, Status, ClearStaleClaim

TripKept == trip' \in TripType /\ TripOK'

\* A step that writes no row keeps the TRIP part of the invariant.
LEMMA UnchangedTrip ==
  ASSUME InOrder, UNCHANGED <<trip, row>> PROVE TripKept
  BY DEF TripKept, InOrder, TypeOK, TripOK, WrittenBefore, Written, OneOwner,
         CompleteMeansPlanned

\* DAY rows are only added.
LEMMA RowGrows ==
  ASSUME InOrder, UNCHANGED trip, NEW d \in Day, NEW e \in Event, row' = [row EXCEPT ![d] = e]
  PROVE  TripKept
  BY PlanDayAssumption
  DEF TripKept, InOrder, TypeOK, TripOK, WrittenBefore, Written, OneOwner,
      CompleteMeansPlanned

\* Completing a claim for a written day keeps the TRIP row in order.
LEMMA CompletePlanningKeeps ==
  ASSUME InOrder, NEW n \in WrittenDays, HoldsClaim(trip, n),
         trip' = CompletePlanning(trip, n), UNCHANGED row
  PROVE  TripKept
<1>1. /\ trip' \in TripType
      /\ trip'.ndi = n + 1 /\ trip'.pdi = 0
      /\ trip'.status = "complete" => n = DayCount
  BY CompletePlanningFields DEF InOrder, TypeOK, WrittenDays
<1>2. n \in Nat
  BY DEF WrittenDays, Day
<1>3. \A d \in Day : d < n + 1 => Written(d)'
  <2>1. \A d \in Day : d < n => Written(d)
    BY DEF InOrder, TripOK, HoldsClaim, WrittenBefore
  <2>2. \A d \in Day : d < n + 1 => d < n \/ d = n
    BY DayCountAssumption DEF WrittenDays, Day
  <2>3. QED
    BY <2>1, <2>2 DEF Written, WrittenDays
<1>4. QED
  BY <1>1, <1>2, <1>3, DayCountAssumption
  DEF TripKept, TripOK, WrittenBefore, OneOwner, CompleteMeansPlanned, Day

\* Failing a claim keeps the TRIP row in order.
LEMMA FailPlanningKeeps ==
  ASSUME InOrder, trip' = FailPlanning(trip), UNCHANGED row PROVE TripKept
<1>1. /\ trip' \in TripType
      /\ trip'.ndi = trip.ndi /\ trip'.pdi = 0 /\ trip'.status # "complete"
  BY FailPlanningFields DEF InOrder, TypeOK
<1>2. QED
  BY <1>1, DayCountAssumption
  DEF TripKept, InOrder, TripOK, WrittenBefore, Written, OneOwner,
      CompleteMeansPlanned, Day

\* Clearing a stale claim keeps the TRIP row in order.
LEMMA ClearStaleClaimKeeps ==
  ASSUME InOrder, trip' = ClearStaleClaim(trip), UNCHANGED row PROVE TripKept
<1>1. /\ trip' \in TripType
      /\ trip'.ndi = trip.ndi /\ trip'.pdi = 0 /\ trip'.status # "complete"
  BY ClearStaleClaimFields DEF InOrder, TypeOK
<1>2. QED
  BY <1>1, DayCountAssumption
  DEF TripKept, InOrder, TripOK, WrittenBefore, Written, OneOwner,
      CompleteMeansPlanned, Day

\* Claiming a day in order keeps the TRIP row in order, and excludes a crew job.
LEMMA ClaimPlanningKeeps ==
  ASSUME InOrder, NEW n \in 0..DayCount, CanClaimPlanning(trip, n), 
         trip' = ClaimPlanning(trip, n), UNCHANGED row
  PROVE  TripKept
  BY DayCountAssumption
  DEF TripKept, InOrder, TypeOK, TripType, Status, TripOK, WrittenBefore,
      Written, OneOwner, CompleteMeansPlanned, CanClaimPlanning, ClaimPlanning, Day

\* Healing the cursor to a day in order keeps the TRIP row in order.
LEMMA SetNextDayKeeps ==
  ASSUME InOrder, NEW n \in Day, WrittenBefore(n), 
         trip' = SetNextDay(trip, n), UNCHANGED row
  PROVE  TripKept
  BY DayCountAssumption
  DEF TripKept, InOrder, TypeOK, TripType, Status, TripOK, WrittenBefore,
      Written, OneOwner, CompleteMeansPlanned, SetNextDay, Day

-----------------------------------------------------------------------------
(* The steps of one request.                                               *)

RequestKept(r) ==
  /\ req' \in [Request -> RequestType]
  /\ \A s \in Request \ {r} : req'[s] = req[s]
  /\ RequestOK(r)'

\* A request's step that leaves rows and Events in order keeps InOrder.
LEMMA RequestTurn ==
  ASSUME InOrder, NEW r \in Request, TripKept, RequestKept(r), UNCHANGED <<row, ev>>
  PROVE  InOrder'
  BY DEF TripKept, RequestKept, InOrder, TypeOK, RequestOK, EventOK, WrittenBefore, Written,
         WrittenDays

\* A request ends.
LEMMA REndKeeps ==
  ASSUME InOrder, NEW r \in Request, REnd(r) PROVE RequestKept(r)
<1>1. NoRequest \in RequestType
  BY DayCountAssumption DEF NoRequest, RequestType, RequestPc, Day
<1>2. req' = [req EXCEPT ![r] = NoRequest]
  BY DEF REnd
<1>3. req'[r] = NoRequest
  BY <1>2 DEF InOrder, TypeOK
<1>4. RequestOK(r)'
  BY <1>3, DayCountAssumption DEF NoRequest, RequestOK, WrittenBefore, WrittenDays, Day
<1>5. QED
  BY <1>1, <1>2, <1>4 DEF RequestKept, InOrder, TypeOK

\* A request goes on for the same day with the same days.
LEMMA RequestGoesOn ==
  ASSUME InOrder, NEW r \in Request, UNCHANGED row, req[r].pc # "idle",
         NEW q \in RequestType, req' = [req EXCEPT ![r] = q],
         q.n = req[r].n, q.days = req[r].days,
         q.pc = "finish" \/ q.ret = "probe" => q.n \in WrittenDays,
         q.pc \in {"claim", "conflict"} => q.ret # "start"
  PROVE  RequestKept(r)
<1>1. req'[r] = q
  BY DEF InOrder, TypeOK
<1>2. RequestOK(r)'
  BY <1>1 DEF InOrder, RequestOK, WrittenBefore, Written, WrittenDays
<1>3. QED
  BY <1>2 DEF RequestKept, InOrder, TypeOK

\* A request only moves its program counter.
LEMMA RGoKeeps ==
  ASSUME InOrder, NEW r \in Request, UNCHANGED row, req[r].pc # "idle",
         NEW pc \in RequestPc, RGo(r, pc),
         pc = "finish" => req[r].n \in WrittenDays,
         pc \in {"claim", "conflict"} => req[r].ret # "start"
  PROVE  RequestKept(r)
<1> DEFINE q == [req[r] EXCEPT !.pc = pc]
<1>1. req[r] \in RequestType /\ req' = [req EXCEPT ![r] = q]
  BY DEF InOrder, TypeOK, RGo
<1>2. q \in RequestType /\ q.n = req[r].n /\ q.days = req[r].days
      /\ q.pc = pc /\ q.ret = req[r].ret
  BY <1>1 DEF RequestType
<1>3. req[r].ret = "probe" => req[r].n \in WrittenDays
  BY DEF InOrder, RequestOK
<1> HIDE DEF q
<1>4. QED
  BY <1>1, <1>2, <1>3, RequestGoesOn

\* The first day missing from a snapshot has all its predecessors written now.
LEMMA FirstMissingInOrder ==
  ASSUME NEW S \in SUBSET WrittenDays, NEW d \in Day, IsFirstMissing(d, S)
  PROVE  WrittenBefore(d)
  BY DEF IsFirstMissing, WrittenBefore, WrittenDays

\* resolve_plan_day_index gives a request a day in order.
LEMMA ResolveKeeps ==
  ASSUME InOrder, NEW r \in Request, NEW S \in SUBSET WrittenDays,
         NEW m \in 0..DayCount, Resolve(r, S, m), UNCHANGED row
  PROVE  RequestKept(r)
<1>1. CASE REnd(r)
  BY <1>1, REndKeeps
<1>2. ASSUME NEW d \in Day, IsFirstMissing(d, S),
             req' = [req EXCEPT ![r] =
                    [NoRequest EXCEPT !.pc = IF trip.ndi = d THEN "probe" ELSE "heal",
                                      !.n = d, !.pdi = trip.pdi, !.reclaim = m]]
      PROVE  RequestKept(r)
  <2> DEFINE q == [NoRequest EXCEPT !.pc = IF trip.ndi = d THEN "probe" ELSE "heal",
                                      !.n = d, !.pdi = trip.pdi, !.reclaim = m]
  <2>1. trip.pdi \in 0..DayCount /\ d \in 0..DayCount /\ 0 \in 0..DayCount /\ d # 0
    BY DayCountAssumption DEF InOrder, TypeOK, TripType, Day
  <2>2. /\ q \in RequestType
        /\ q.n = d /\ q.days = {} /\ q.ret = "start"
        /\ q.pc \notin {"finish", "claim", "conflict"}
    BY <2>1 DEF NoRequest, RequestType, RequestPc
  <2>3. req' = [req EXCEPT ![r] = q] /\ req'[r] = q
    BY <1>2 DEF InOrder, TypeOK
  <2> HIDE DEF q
  <2>4. RequestOK(r)'
    BY <1>2, <2>1, <2>2, <2>3, FirstMissingInOrder
    DEF RequestOK, WrittenBefore, Written, WrittenDays
  <2>5. QED
    BY <2>2, <2>3, <2>4 DEF RequestKept, InOrder, TypeOK
<1>3. QED
  BY <1>1, <1>2 DEF Resolve

\* A request starts: the held claim, or the first gap, is a day in order.
LEMMA StartKeeps ==
  ASSUME InOrder, NEW r \in Request, Start(r) PROVE InOrder'
<1>1. TripKept
  BY UnchangedTrip DEF Start
<1>2. CASE trip.pdi = 0
  <2>1. RequestKept(r)
    BY <1>2, ResolveKeeps, DayCountAssumption DEF Start
  <2>2. QED
    BY <1>1, <2>1, RequestTurn DEF Start
<1>3. CASE trip.pdi # 0
  <2> DEFINE q == [NoRequest EXCEPT !.pc = "recover", !.n = trip.pdi,
                                      !.pdi = trip.pdi, !.days = WrittenDays]
  <2>1. /\ trip.pdi \in 0..DayCount /\ 0 \in 0..DayCount
        /\ WrittenDays \in SUBSET Day /\ WrittenBefore(trip.pdi)
    BY DayCountAssumption DEF InOrder, TypeOK, TripType, TripOK, WrittenDays
  <2>2. /\ q \in RequestType
        /\ q.n = trip.pdi /\ q.days = WrittenDays /\ q.ret = "start" /\ q.pc = "recover"
    BY <2>1 DEF NoRequest, RequestType, RequestPc
  <2>3. req' = [req EXCEPT ![r] = q] /\ req'[r] = q
    BY <1>3 DEF Start, InOrder, TypeOK
  <2> HIDE DEF q
  <2>4. RequestOK(r)'
    BY <1>3, <2>1, <2>2, <2>3 DEF Start, RequestOK, WrittenBefore, Written, WrittenDays
  <2>5. RequestKept(r)
    BY <2>2, <2>3, <2>4 DEF RequestKept, InOrder, TypeOK
  <2>6. QED
    BY <1>1, <2>5, RequestTurn DEF Start
<1>4. QED
  BY <1>2, <1>3

\* Where clear_stale_planning_claim returns to keeps InOrder.
LEMMA AfterClearKeeps ==
  ASSUME InOrder, NEW r \in Request, UNCHANGED row, req[r].pc # "idle",
         NEW cleared \in BOOLEAN, AfterClear(r, cleared)
  PROVE  RequestKept(r)
<1>1. req[r] \in RequestType /\ 0 \in 0..DayCount
  BY DayCountAssumption DEF InOrder, TypeOK
<1>2. req[r].ret = "probe" => req[r].n \in WrittenDays
  BY DEF InOrder, RequestOK
<1>3. CASE req[r].ret = "start" /\ cleared
  <2> DEFINE q == [req[r] EXCEPT !.pc = "reload", !.reclaim = req[r].n]
  <2>1. req' = [req EXCEPT ![r] = q]
    BY <1>3 DEF AfterClear, InOrder, TypeOK
  <2>2. /\ q \in RequestType /\ q.n = req[r].n /\ q.days = req[r].days
        /\ q.pc = "reload" /\ q.ret = "start"
    BY <1>1, <1>3 DEF RequestType, RequestPc
  <2> HIDE DEF q
  <2>3. QED
    BY <2>1, <2>2, RequestGoesOn
<1>4. CASE req[r].ret = "start" /\ ~cleared
  BY <1>4, REndKeeps DEF AfterClear
<1>5. CASE req[r].ret # "start"
  <2> DEFINE q == [req[r] EXCEPT !.pc = "claim", !.seen = 0]
  <2>1. req' = [req EXCEPT ![r] = q]
    BY <1>5 DEF AfterClear, InOrder, TypeOK
  <2>2. /\ q \in RequestType /\ q.n = req[r].n /\ q.days = req[r].days
        /\ q.pc = "claim" /\ q.ret = req[r].ret
    BY <1>1 DEF RequestType, RequestPc
  <2> HIDE DEF q
  <2>3. QED
    BY <1>2, <1>5, <2>1, <2>2, RequestGoesOn
<1>6. QED
  BY <1>3, <1>4, <1>5

\* Recovering a claimed day is only tried with its DAY written.
LEMMA RecoverKeeps ==
  ASSUME InOrder, NEW r \in Request, Recover(r) PROVE InOrder'
<1>1. /\ TripKept
      /\ req[r] \in RequestType /\ req[r].n \in Day
  BY UnchangedTrip, DayCountAssumption
  DEF Recover, InOrder, TypeOK, RequestOK, RequestType, Day
<1>2. CASE Written(req[r].n)
  BY <1>1, <1>2, RGoKeeps, RequestTurn DEF Recover, RequestPc, WrittenDays
<1>3. CASE ~Written(req[r].n)
  <2> DEFINE q == [req[r] EXCEPT !.pc = "stale", !.ret = "start"]
  <2>1. req' = [req EXCEPT ![r] = q]
    BY <1>3 DEF Recover, InOrder, TypeOK
  <2>2. /\ q \in RequestType /\ q.n = req[r].n /\ q.days = req[r].days
        /\ q.pc = "stale" /\ q.ret = "start"
    BY <1>1 DEF RequestType, RequestPc
  <2> HIDE DEF q
  <2>3. QED
    BY <1>1, <2>1, <2>2, RequestGoesOn, RequestTurn DEF Recover
<1>4. QED
  BY <1>2, <1>3

\* Reading the row for a stale claim changes nothing that InOrder sees.
LEMMA StaleReadKeeps ==
  ASSUME InOrder, NEW r \in Request, StaleRead(r) PROVE InOrder'
<1>1. /\ TripKept
      /\ req[r] \in RequestType /\ trip.pdi \in 0..DayCount
      /\ req[r].ret = "probe" => req[r].n \in WrittenDays
  BY UnchangedTrip DEF StaleRead, InOrder, TypeOK, TripType, RequestOK
<1>2. CASE AfterClear(r, FALSE)
  BY <1>1, <1>2, AfterClearKeeps, RequestTurn DEF StaleRead
<1>3. CASE req' = [req EXCEPT ![r].pc = "clear", ![r].seen = trip.pdi]
  <2> DEFINE q == [req[r] EXCEPT !.pc = "clear", !.seen = trip.pdi]
  <2>1. req' = [req EXCEPT ![r] = q]
    BY <1>3 DEF InOrder, TypeOK
  <2>2. /\ q \in RequestType /\ q.n = req[r].n /\ q.days = req[r].days
        /\ q.pc = "clear" /\ q.ret = req[r].ret
    BY <1>1 DEF RequestType, RequestPc
  <2> HIDE DEF q
  <2>3. QED
    BY <1>1, <2>1, <2>2, RequestGoesOn, RequestTurn DEF StaleRead
<1>4. QED
  BY <1>2, <1>3 DEF StaleRead

\* Clearing the stale claim, or finding it changed, keeps InOrder.
LEMMA StaleClearKeeps ==
  ASSUME InOrder, NEW r \in Request, StaleClear(r) PROVE InOrder'
<1>1. TripKept
  BY UnchangedTrip, ClearStaleClaimKeeps DEF StaleClear
<1>2. RequestKept(r)
  BY AfterClearKeeps DEF StaleClear, HoldsClaim, Exists
<1>3. QED
  BY <1>1, <1>2, RequestTurn DEF StaleClear

\* A request that has cleared a claim resolves its day from the old snapshot.
LEMMA ReloadKeeps ==
  ASSUME InOrder, NEW r \in Request, Reload(r) PROVE InOrder'
<1>1. TripKept
  BY UnchangedTrip DEF Reload
<1>2. req[r].days \in SUBSET WrittenDays /\ req[r].reclaim \in 0..DayCount
  BY DEF InOrder, TypeOK, RequestOK, RequestType
<1>3. RequestKept(r)
  BY <1>2, ResolveKeeps, REndKeeps DEF Reload
<1>4. QED
  BY <1>1, <1>3, RequestTurn DEF Reload

\* The unconditional heal moves the cursor to a day in order.
LEMMA HealKeeps ==
  ASSUME InOrder, NEW r \in Request, Heal(r) PROVE InOrder'
<1>1. /\ req[r] \in RequestType /\ trip.pdi \in 0..DayCount
      /\ req[r].n \in Day /\ WrittenBefore(req[r].n)
      /\ req[r].ret = "probe" => req[r].n \in WrittenDays
  BY DayCountAssumption
  DEF Heal, InOrder, TypeOK, TripType, RequestOK, RequestType, Day
<1>2. CASE Exists(trip)
  <2> DEFINE q == [req[r] EXCEPT !.pc = "probe", !.pdi = trip.pdi]
  <2>1. req' = [req EXCEPT ![r] = q]
    BY <1>2 DEF Heal, InOrder, TypeOK
  <2>2. /\ q \in RequestType /\ q.n = req[r].n /\ q.days = req[r].days
        /\ q.pc = "probe" /\ q.ret = req[r].ret
    BY <1>1 DEF RequestType, RequestPc
  <2>3. TripKept
    BY <1>1, <1>2, SetNextDayKeeps DEF Heal
  <2> HIDE DEF q
  <2>4. QED
    BY <1>1, <2>1, <2>2, <2>3, RequestGoesOn, RequestTurn DEF Heal
<1>3. CASE ~Exists(trip)
  BY <1>3, UnchangedTrip, REndKeeps, RequestTurn DEF Heal
<1>4. QED
  BY <1>2, <1>3

\* Probing the day of a request keeps InOrder.
LEMMA ProbeKeeps ==
  ASSUME InOrder, NEW r \in Request, Probe(r) PROVE InOrder'
<1>1. /\ TripKept
      /\ req[r] \in RequestType /\ req[r].n \in Day
  BY UnchangedTrip, DayCountAssumption
  DEF Probe, InOrder, TypeOK, RequestOK, RequestType, Day
<1>2. CASE Written(req[r].n) /\ req[r].pdi = req[r].n
  BY <1>1, <1>2, RGoKeeps, RequestTurn DEF Probe, RequestPc, WrittenDays
<1>3. CASE ~(Written(req[r].n) /\ req[r].pdi = req[r].n)
  <2> DEFINE ret == IF Written(req[r].n) /\ req[r].pdi = 0 THEN "probe" ELSE "claim"
             q == [req[r] EXCEPT !.pc = "stale", !.ret = ret]
  <2>1. req' = [req EXCEPT ![r] = q]
    BY <1>3 DEF Probe, InOrder, TypeOK
  <2>2. /\ q \in RequestType /\ q.n = req[r].n /\ q.days = req[r].days
        /\ q.pc = "stale" /\ q.ret = "probe" => req[r].n \in WrittenDays
    BY <1>1 DEF RequestType, RequestPc, WrittenDays
  <2>3. q.pc = "stale"
    BY <1>1 DEF RequestType
  <2> HIDE DEF q
  <2>4. QED
    BY <1>1, <2>1, <2>2, <2>3, RequestGoesOn, RequestTurn DEF Probe
<1>4. QED
  BY <1>2, <1>3

\* claim_planning_in_progress, taken or lost, keeps InOrder.
LEMMA ClaimKeeps ==
  ASSUME InOrder, NEW r \in Request, Claim(r) PROVE InOrder'
<1>1. /\ req[r].n \in 0..DayCount
      /\ req[r].ret = "probe" => req[r].n \in WrittenDays
      /\ req[r].ret # "start"
  BY DEF Claim, InOrder, TypeOK, RequestOK, RequestType
<1>2. TripKept
  BY <1>1, UnchangedTrip, ClaimPlanningKeeps DEF Claim
<1>3. RequestKept(r)
  <2>1. PICK pc \in {"finish", "enqueue", "charge", "conflict"} :
          RGo(r, pc) /\ (pc = "finish" => req[r].ret = "probe")
    BY DEF Claim
  <2>2. QED
    BY <1>1, <2>1, RGoKeeps DEF Claim, RequestPc
<1>4. QED
  BY <1>2, <1>3, RequestTurn DEF Claim

\* A request that lost its claim reads the row again.
LEMMA ConflictKeeps ==
  ASSUME InOrder, NEW r \in Request, Conflict(r) PROVE InOrder'
<1>1. /\ TripKept
      /\ req[r] \in RequestType /\ trip.pdi \in 0..DayCount
      /\ req[r].ret \in {"probe", "claim"}
      /\ req[r].ret = "probe" => req[r].n \in WrittenDays
  BY UnchangedTrip DEF Conflict, InOrder, TypeOK, TripType, RequestOK, RequestType
<1>2. SUFFICES RequestKept(r)
  BY <1>1, RequestTurn DEF Conflict
<1>3. CASE REnd(r)
  BY <1>3, REndKeeps
<1>4. CASE req[r].ret = "claim" /\ req' = [req EXCEPT ![r].pc = "reprobe", ![r].pdi = trip.pdi]
  <2> DEFINE q == [req[r] EXCEPT !.pc = "reprobe", !.pdi = trip.pdi]
  <2>1. req' = [req EXCEPT ![r] = q]
    BY <1>4 DEF InOrder, TypeOK
  <2>2. /\ q \in RequestType /\ q.n = req[r].n /\ q.days = req[r].days
        /\ q.pc = "reprobe" /\ q.ret = "claim"
    BY <1>1, <1>4 DEF RequestType, RequestPc
  <2> HIDE DEF q
  <2>3. QED
    BY <1>1, <2>1, <2>2, RequestGoesOn DEF Conflict
<1>5. CASE req[r].ret = "probe" /\ RGo(r, "finish")
  BY <1>1, <1>5, RGoKeeps DEF Conflict, RequestPc
<1>6. CASE req[r].ret = "probe" /\ req' = [req EXCEPT ![r].pc = "stale", ![r].ret = "claim"]
  <2> DEFINE q == [req[r] EXCEPT !.pc = "stale", !.ret = "claim"]
  <2>1. req' = [req EXCEPT ![r] = q]
    BY <1>6 DEF InOrder, TypeOK
  <2>2. /\ q \in RequestType /\ q.n = req[r].n /\ q.days = req[r].days
        /\ q.pc = "stale" /\ q.ret = "claim"
    BY <1>1 DEF RequestType, RequestPc
  <2> HIDE DEF q
  <2>3. QED
    BY <1>1, <2>1, <2>2, RequestGoesOn DEF Conflict
<1>7. QED
  BY <1>1, <1>3, <1>4, <1>5, <1>6 DEF Conflict

\* ... and the DAY again.
LEMMA ReprobeKeeps ==
  ASSUME InOrder, NEW r \in Request, Reprobe(r) PROVE InOrder'
<1>1. TripKept /\ req[r].n \in Day
  BY UnchangedTrip, DayCountAssumption
  DEF Reprobe, InOrder, TypeOK, RequestOK, RequestType, Day
<1>2. RequestKept(r)
  BY <1>1, RGoKeeps, REndKeeps DEF Reprobe, RequestPc, WrittenDays
<1>3. QED
  BY <1>1, <1>2, RequestTurn DEF Reprobe

\* A request completes a day that somebody else wrote.
LEMMA FinishKeeps ==
  ASSUME InOrder, NEW r \in Request, Finish(r) PROVE InOrder'
<1>1. req[r].n \in WrittenDays
  BY DEF Finish, InOrder, RequestOK
<1>2. TripKept
  BY <1>1, UnchangedTrip, CompletePlanningKeeps DEF Finish
<1>3. QED
  BY <1>2, REndKeeps, RequestTurn DEF Finish

\* Charging the quota touches no row of the trip.
LEMMA ChargeKeeps ==
  ASSUME InOrder, NEW r \in Request, Charge(r) PROVE InOrder'
<1>1. TripKept
  BY UnchangedTrip DEF Charge
<1>2. RequestKept(r)
  BY RGoKeeps DEF Charge, RequestPc
<1>3. QED
  BY <1>1, <1>2, RequestTurn DEF Charge

\* A failed charge or enqueue fails the claim.
LEMMA AbortKeeps ==
  ASSUME InOrder, NEW r \in Request, Abort(r) PROVE InOrder'
<1>1. TripKept
  BY UnchangedTrip, FailPlanningKeeps DEF Abort
<1>2. QED
  BY <1>1, REndKeeps, RequestTurn DEF Abort

\* A request may die anywhere.
LEMMA RequestDiesKeeps ==
  ASSUME InOrder, NEW r \in Request, RequestDies(r) PROVE InOrder'
  BY UnchangedTrip, REndKeeps, RequestTurn DEF RequestDies

-----------------------------------------------------------------------------
(* The steps of one Event.                                                 *)

EventKept(e) ==
  /\ ev' \in [Event -> EventType]
  /\ \A f \in Event \ {e} : ev'[f] = ev[f]
  /\ EventOK(e)'

DaysKept ==
  /\ row' \in [Day -> Event \cup {NoRow}]
  /\ \A d \in Day : Written(d) => Written(d)'

\* With the DAY rows unchanged the written days are the same.
LEMMA UnchangedDays ==
  ASSUME InOrder, UNCHANGED row PROVE DaysKept
  BY DEF DaysKept, InOrder, TypeOK, Written

\* A step of one worker that leaves rows and requests in order keeps InOrder.
LEMMA EventTurn ==
  ASSUME InOrder, NEW e \in Event, TripKept, EventKept(e), DaysKept, UNCHANGED req
  PROVE  InOrder'
  BY DEF TripKept, EventKept, DaysKept, InOrder, TypeOK, RequestOK, EventOK,
         WrittenBefore, WrittenDays

\* What a worker may become without breaking InOrder.
LEMMA EventBecomes ==
  ASSUME InOrder, NEW e \in Event, DaysKept,
         NEW x \in EventType, ev' = [ev EXCEPT ![e] = x],
         WrittenBefore(x.day), x.pc # "idle" => x.day # 0,
         x.pc \in {"finish", "complete"} => x.day \in Day /\ row'[x.day] # NoRow
  PROVE  EventKept(e)
<1>1. ev'[e] = x
  BY DEF InOrder, TypeOK
<1>2. EventOK(e)'
  BY <1>1 DEF EventOK, DaysKept, WrittenBefore, WrittenDays, Written
<1>3. QED
  BY <1>2 DEF EventKept, InOrder, TypeOK

\* A worker goes on for the same day.
LEMMA EventGoesOn ==
  ASSUME InOrder, NEW e \in Event, DaysKept, ev[e].pc # "idle",
         NEW pc \in EventPc, NEW try \in 0..MaxAttempts, NEW err \in ErrorKind,
         ev' = [ev EXCEPT ![e] = [ev[e] EXCEPT !.pc = pc, !.err = err, !.try = try]],
         pc \in {"finish", "complete"} => row'[ev[e].day] # NoRow
  PROVE  EventKept(e)
<1> DEFINE x == [ev[e] EXCEPT !.pc = pc, !.err = err, !.try = try]
<1>1. ev[e] \in EventType /\ WrittenBefore(ev[e].day) /\ ev[e].day # 0
  BY DEF InOrder, TypeOK, EventOK
<1>2. x \in EventType /\ x.day = ev[e].day /\ x.pc = pc
  BY <1>1 DEF EventType
<1>3. ev[e].day \in Day
  BY <1>1, DayCountAssumption DEF EventType, Day
<1>4. ev' = [ev EXCEPT ![e] = x]
  OBVIOUS
<1> HIDE DEF x
<1>5. QED
  BY <1>1, <1>2, <1>3, <1>4, EventBecomes

\* A worker only moves its program counter.
LEMMA EGoKeeps ==
  ASSUME InOrder, NEW e \in Event, DaysKept, ev[e].pc # "idle",
         NEW pc \in EventPc, EGo(e, pc),
         pc \in {"finish", "complete"} => row'[ev[e].day] # NoRow
  PROVE  EventKept(e)
<1>1. ev[e] \in EventType /\ ev[e].try \in 0..MaxAttempts /\ ev[e].err \in ErrorKind
  BY DEF InOrder, TypeOK, EventType
<1>2. ev' = [ev EXCEPT ![e] = [ev[e] EXCEPT !.pc = pc, !.err = ev[e].err, !.try = ev[e].try]]
  BY <1>1 DEF EGo, InOrder, TypeOK
<1>3. QED
  BY <1>1, <1>2, EventGoesOn

\* A worker raises an error.
LEMMA ThrowKeeps ==
  ASSUME InOrder, NEW e \in Event, DaysKept, ev[e].pc # "idle",
         NEW pc \in {"raised", "verify"}, NEW kind \in ErrorKind, Throw(e, pc, kind)
  PROVE  EventKept(e)
<1>1. ev[e] \in EventType /\ ev[e].try \in 0..MaxAttempts
  BY DEF InOrder, TypeOK, EventType
<1>2. ev' = [ev EXCEPT ![e] = [ev[e] EXCEPT !.pc = pc, !.err = kind, !.try = ev[e].try]]
  BY <1>1 DEF Throw, InOrder, TypeOK, EventType
<1>3. QED
  BY <1>1, <1>2, EventGoesOn DEF EventPc

\* A worker ends.
LEMMA EEndKeeps ==
  ASSUME InOrder, NEW e \in Event, DaysKept, EEnd(e) PROVE EventKept(e)
<1>1. NoEvent \in EventType /\ NoEvent.day = 0 /\ NoEvent.pc = "idle"
  BY DayCountAssumption, PlanDayAssumption DEF NoEvent, EventType, EventPc, ErrorKind
<1>2. WrittenBefore(0)
  BY DayCountAssumption DEF WrittenBefore, Day
<1>3. QED
  BY <1>1, <1>2, EventBecomes DEF EEnd

\* Lambda delivers the Event of a failed worker again, or gives up.
LEMMA RedeliverKeeps ==
  ASSUME InOrder, NEW e \in Event, DaysKept, ev[e].pc # "idle", Redeliver(e)
  PROVE  EventKept(e)
<1>1. CASE ev[e].try < MaxAttempts
  <2>1. ev[e].try + 1 \in 0..MaxAttempts
    <3>1. ev[e].try \in 0..MaxAttempts
      BY DEF InOrder, TypeOK, EventType
    <3>2. QED
      BY <1>1, <3>1, PlanDayAssumption
  <2>2. ev' = [ev EXCEPT ![e] = [ev[e] EXCEPT !.pc = "queued", !.err = "none",
                                                !.try = ev[e].try + 1]]
    BY <1>1 DEF Redeliver
  <2>3. QED
    BY <2>1, <2>2, EventGoesOn DEF EventPc, ErrorKind
<1>2. CASE ~(ev[e].try < MaxAttempts)
  BY <1>2, EEndKeeps DEF Redeliver
<1>3. QED
  BY <1>1, <1>2
\* The request hands its day over to a new Event.
LEMMA EnqueueKeeps ==
  ASSUME InOrder, NEW r \in Request, Enqueue(r) PROVE InOrder'
<1>1. TripKept /\ DaysKept
  BY UnchangedTrip, UnchangedDays DEF Enqueue
<1>2. RequestKept(r)
  BY RGoKeeps, REndKeeps DEF Enqueue, RequestPc
<1>3. CASE UNCHANGED ev
  BY <1>1, <1>2, <1>3, RequestTurn DEF Enqueue
<1>4. ASSUME NEW e \in Event,
             ev' = [ev EXCEPT ![e] = [NoEvent EXCEPT !.pc = "queued", !.try = 1,
                                                     !.day = req[r].n]]
      PROVE  InOrder'
  <2> DEFINE x == [NoEvent EXCEPT !.pc = "queued", !.try = 1, !.day = req[r].n]
  <2>1. /\ req[r].n \in 0..DayCount /\ WrittenBefore(req[r].n) /\ req[r].n # 0
        /\ 1 \in 0..MaxAttempts
    BY PlanDayAssumption DEF Enqueue, InOrder, TypeOK, RequestOK, RequestType
  <2>2. x \in EventType /\ x.day = req[r].n /\ x.pc = "queued"
    BY <2>1 DEF NoEvent, EventType, EventPc, ErrorKind
  <2>3. ev' = [ev EXCEPT ![e] = x]
    BY <1>4
  <2> HIDE DEF x
  <2>4. EventKept(e)
    BY <1>1, <2>1, <2>2, <2>3, EventBecomes
  <2>5. UNCHANGED row
    BY DEF Enqueue
  <2>6. QED
    BY <1>1, <1>2, <2>4, <2>5
    DEF TripKept, RequestKept, EventKept, InOrder, TypeOK, RequestOK, EventOK,
        WrittenBefore, Written, WrittenDays
<1>5. QED
  BY <1>3, <1>4 DEF Enqueue

\* What every action of a worker starts from.
LEMMA EventFacts ==
  ASSUME InOrder, NEW e \in Event, ev[e].pc # "idle"
  PROVE  /\ ev[e] \in EventType /\ ev[e].day \in Day /\ WrittenBefore(ev[e].day)
         /\ ev[e].pc \in {"finish", "complete"} => ev[e].day \in WrittenDays
  BY DayCountAssumption DEF InOrder, TypeOK, EventOK, EventType, Day

\* An Event is delivered and compared with the claim.
LEMMA DeliverKeeps ==
  ASSUME InOrder, NEW e \in Event, Deliver(e) PROVE InOrder'
<1>1. TripKept /\ DaysKept
  BY UnchangedTrip, UnchangedDays DEF Deliver
<1>2. EventKept(e)
  BY <1>1, EGoKeeps, ThrowKeeps DEF Deliver, EventPc, ErrorKind
<1>3. QED
  BY <1>1, <1>2, EventTurn DEF Deliver

\* A worker completes at once only a DAY it has found.
LEMMA ProbeDayKeeps ==
  ASSUME InOrder, NEW e \in Event, ProbeDay(e) PROVE InOrder'
<1>1. TripKept /\ DaysKept
  BY UnchangedTrip, UnchangedDays DEF ProbeDay
<1>2. EventKept(e)
  BY <1>1, EGoKeeps DEF ProbeDay, EventPc, Written
<1>3. QED
  BY <1>1, <1>2, EventTurn DEF ProbeDay

\* A worker completes the claim for a DAY it has found, or has lost it.
LEMMA FinishDayKeeps ==
  ASSUME InOrder, NEW e \in Event, FinishDay(e) PROVE InOrder'
<1>1. DaysKept /\ ev[e].day \in WrittenDays
  BY EventFacts, UnchangedDays DEF FinishDay
<1>2. TripKept
  BY <1>1, UnchangedTrip, CompletePlanningKeeps DEF FinishDay
<1>3. EventKept(e)
  BY <1>1, EGoKeeps, EEndKeeps DEF FinishDay, EventPc
<1>4. QED
  BY <1>1, <1>2, <1>3, EventTurn DEF FinishDay

\* A worker that has lost the claim ends or raises.
LEMMA ClaimLostKeeps ==
  ASSUME InOrder, NEW e \in Event, ClaimLost(e) PROVE InOrder'
<1>1. TripKept /\ DaysKept
  BY UnchangedTrip, UnchangedDays DEF ClaimLost
<1>2. EventKept(e)
  BY <1>1, EEndKeeps, ThrowKeeps DEF ClaimLost, ErrorKind
<1>3. QED
  BY <1>1, <1>2, EventTurn DEF ClaimLost

\* The crew run touches no row.
LEMMA CrewKeeps ==
  ASSUME InOrder, NEW e \in Event, Crew(e) PROVE InOrder'
<1>1. TripKept /\ DaysKept
  BY UnchangedTrip, UnchangedDays DEF Crew
<1>2. EventKept(e)
  BY <1>1, EGoKeeps, ThrowKeeps DEF Crew, EventPc, ErrorKind
<1>3. QED
  BY <1>1, <1>2, EventTurn DEF Crew

\* The worker looks at its claim again.
LEMMA RecheckKeeps ==
  ASSUME InOrder, NEW e \in Event, Recheck(e) PROVE InOrder'
<1>1. TripKept /\ DaysKept
  BY UnchangedTrip, UnchangedDays DEF Recheck
<1>2. EventKept(e)
  BY <1>1, EGoKeeps, ThrowKeeps DEF Recheck, EventPc, ErrorKind
<1>3. QED
  BY <1>1, <1>2, EventTurn DEF Recheck

\* The worker looks for the DAY again.
LEMMA RereadKeeps ==
  ASSUME InOrder, NEW e \in Event, Reread(e) PROVE InOrder'
<1>1. TripKept /\ DaysKept
  BY UnchangedTrip, UnchangedDays DEF Reread
<1>2. EventKept(e)
  BY <1>1, EGoKeeps DEF Reread, EventPc, Written
<1>3. QED
  BY <1>1, <1>2, EventTurn DEF Reread

\* A worker adds the DAY of its claim.
LEMMA AddDay ==
  ASSUME InOrder, NEW e \in Event, ev[e].pc = "put", UNCHANGED trip,
         row' = [row EXCEPT ![ev[e].day] = e]
  PROVE  TripKept /\ DaysKept /\ row'[ev[e].day] # NoRow
<1>1. ev[e].day \in Day
  BY EventFacts
<1>2. TripKept
  BY <1>1, RowGrows
<1>3. QED
  BY <1>1, <1>2, PlanDayAssumption DEF DaysKept, InOrder, TypeOK, Written

\* put_day_if_absent keeps InOrder: the DAY it adds is in order.
LEMMA PutDayKeeps ==
  ASSUME InOrder, NEW e \in Event, PutDay(e) PROVE InOrder'
<1>1. CASE Written(ev[e].day)
  BY <1>1, UnchangedTrip, UnchangedDays, EGoKeeps, EventTurn DEF PutDay, EventPc
<1>2. CASE ~Written(ev[e].day)
  <2>1. TripKept /\ DaysKept /\ row'[ev[e].day] # NoRow
    BY <1>2, AddDay DEF PutDay
  <2>2. EventKept(e)
    BY <1>2, <2>1, EGoKeeps DEF PutDay, EventPc
  <2>3. QED
    BY <2>1, <2>2, EventTurn DEF PutDay
<1>3. QED
  BY <1>1, <1>2

\* The DAY of another worker is used only if it is there.
LEMMA RacedKeeps ==
  ASSUME InOrder, NEW e \in Event, Raced(e) PROVE InOrder'
<1>1. TripKept /\ DaysKept
  BY UnchangedTrip, UnchangedDays DEF Raced
<1>2. EventKept(e)
  BY <1>1, EGoKeeps, ThrowKeeps DEF Raced, EventPc, ErrorKind, Written
<1>3. QED
  BY <1>1, <1>2, EventTurn DEF Raced

\* A worker completes its claim with its DAY written.
LEMMA CompleteDayKeeps ==
  ASSUME InOrder, NEW e \in Event, CompleteDay(e) PROVE InOrder'
<1>1. DaysKept /\ ev[e].day \in WrittenDays
  BY EventFacts, UnchangedDays DEF CompleteDay
<1>2. TripKept
  BY <1>1, UnchangedTrip, CompletePlanningKeeps DEF CompleteDay
<1>3. EventKept(e)
  BY <1>1, EEndKeeps, ThrowKeeps DEF CompleteDay, ErrorKind
<1>4. QED
  BY <1>1, <1>2, <1>3, EventTurn DEF CompleteDay

\* After an error the worker looks for the DAY.
LEMMA VerifyKeeps ==
  ASSUME InOrder, NEW e \in Event, Verify(e) PROVE InOrder'
<1>1. TripKept /\ DaysKept
  BY UnchangedTrip, UnchangedDays DEF Verify
<1>2. EventKept(e)
  BY <1>1, EGoKeeps DEF Verify, EventPc
<1>3. QED
  BY <1>1, <1>2, EventTurn DEF Verify

\* fail_planning_in_progress of a worker keeps InOrder.
LEMMA FailDayKeeps ==
  ASSUME InOrder, NEW e \in Event, FailDay(e) PROVE InOrder'
<1>1. TripKept /\ DaysKept
  BY UnchangedTrip, FailPlanningKeeps, UnchangedDays DEF FailDay
<1>2. EventKept(e)
  BY <1>1, EGoKeeps DEF FailDay, EventPc
<1>3. QED
  BY <1>1, <1>2, EventTurn DEF FailDay

\* The handler retries, gives up or goes to its safety net.
LEMMA RaisedKeeps ==
  ASSUME InOrder, NEW e \in Event, Raised(e) PROVE InOrder'
<1>1. TripKept /\ DaysKept
  BY UnchangedTrip, UnchangedDays DEF Raised
<1>2. EventKept(e)
  <2>1. EEnd(e) \/ EGo(e, "net") \/ Redeliver(e)
    BY DEF Raised
  <2>2. QED
    BY <1>1, <2>1, EGoKeeps, EEndKeeps, RedeliverKeeps DEF Raised, EventPc
<1>3. QED
  BY <1>1, <1>2, EventTurn DEF Raised

\* The handler's safety net fails the claim that stands.
LEMMA SafetyNetKeeps ==
  ASSUME InOrder, NEW e \in Event, SafetyNet(e) PROVE InOrder'
<1>1. TripKept /\ DaysKept
  BY UnchangedTrip, FailPlanningKeeps, UnchangedDays DEF SafetyNet
<1>2. QED
  BY <1>1, EEndKeeps, EventTurn DEF SafetyNet

\* An exception anywhere in a worker keeps InOrder.
LEMMA WorkerFaultKeeps ==
  ASSUME InOrder, NEW e \in Event, WorkerFault(e) PROVE InOrder'
<1>1. TripKept /\ DaysKept
  BY UnchangedTrip, UnchangedDays DEF WorkerFault
<1>2. EventKept(e)
  BY <1>1, EGoKeeps, ThrowKeeps, EEndKeeps, RedeliverKeeps
  DEF WorkerFault, EventPc, ErrorKind
<1>3. QED
  BY <1>1, <1>2, EventTurn DEF WorkerFault

\* A write that is made and reported lost keeps InOrder.
LEMMA WriteLostKeeps ==
  ASSUME InOrder, NEW e \in Event, WriteLost(e) PROVE InOrder'
<1>1. CASE ev[e].pc = "put"
  <2>1. TripKept /\ DaysKept
    BY <1>1, AddDay DEF WriteLost
  <2>2. EventKept(e)
    BY <1>1, <2>1, EGoKeeps, ThrowKeeps DEF WriteLost, EventPc, ErrorKind
  <2>3. QED
    BY <2>1, <2>2, EventTurn DEF WriteLost
<1>2. CASE ev[e].pc \in {"finish", "complete"}
  <2>1. DaysKept /\ ev[e].day \in WrittenDays
    BY <1>2, EventFacts, UnchangedDays DEF WriteLost
  <2>2. TripKept
    BY <1>2, <2>1, CompletePlanningKeeps DEF WriteLost
  <2>3. EventKept(e)
    BY <1>2, <2>1, EGoKeeps, ThrowKeeps DEF WriteLost, EventPc, ErrorKind
  <2>4. QED
    BY <2>1, <2>2, <2>3, EventTurn DEF WriteLost
<1>3. QED
  BY <1>1, <1>2 DEF WriteLost

\* A worker may die anywhere.
LEMMA WorkerDiesKeeps ==
  ASSUME InOrder, NEW e \in Event, WorkerDies(e) PROVE InOrder'
<1>1. TripKept /\ DaysKept
  BY UnchangedTrip, UnchangedDays DEF WorkerDies
<1>2. QED
  BY <1>1, RedeliverKeeps, EventTurn DEF WorkerDies

\* An Event may be delivered twice.
LEMMA DuplicateKeeps ==
  ASSUME InOrder, NEW e \in Event, NEW f \in Event, Duplicate(e, f) PROVE InOrder'
<1>1. TripKept /\ DaysKept
  BY UnchangedTrip, UnchangedDays DEF Duplicate
<1>2. /\ ev[e] \in EventType /\ ev[e].pc = "queued"
      /\ WrittenBefore(ev[e].day) /\ ev[e].day # 0
  BY EventFacts, DayCountAssumption DEF Duplicate, Day
<1>3. ev' = [ev EXCEPT ![f] = ev[e]]
  BY DEF Duplicate
<1>4. EventKept(f)
  BY <1>1, <1>2, <1>3, EventBecomes
<1>5. QED
  BY <1>1, <1>4, EventTurn DEF Duplicate
-----------------------------------------------------------------------------
(* The clock and the crew jobs.                                            *)

\* The clock and the crew jobs keep InOrder.
LEMMA EnvironmentKeeps ==
  ASSUME InOrder, Age \/ JobClaims \/ JobEnds PROVE InOrder'
<1>1. /\ trip' \in TripType
      /\ trip'.ndi = trip.ndi /\ trip'.pdi = trip.pdi /\ trip'.status = trip.status
      /\ trip'.job => trip.job \/ trip.pdi = 0
  BY DEF Age, JobClaims, JobEnds, CanClaimJob, InOrder, TypeOK, TripType
<1>2. UNCHANGED <<row, req, ev>>
  BY DEF Age, JobClaims, JobEnds
<1>3. QED
  BY <1>1, <1>2
  DEF InOrder, TypeOK, TripOK, RequestOK, EventOK, WrittenBefore, Written,
      WrittenDays, OneOwner, CompleteMeansPlanned

-----------------------------------------------------------------------------
\* The invariant holds of a fresh trip.
LEMMA InitInOrder == Init => InOrder
  BY DayCountAssumption, PlanDayAssumption
  DEF Init, InOrder, TypeOK, TripOK, RequestOK, EventOK, WrittenBefore, Written,
      WrittenDays, OneOwner, CompleteMeansPlanned, FreshTrip, TripType, Status,
      NoRequest, RequestType, RequestPc, NoEvent, EventType, EventPc, ErrorKind, Day

\* Every step keeps the invariant: one lemma per action.
LEMMA StepInOrder == InOrder /\ [Next]_vars => InOrder'
<1> SUFFICES ASSUME InOrder, [Next]_vars PROVE InOrder'
  OBVIOUS
<1>1. ASSUME NEW r \in Request, RequestStep(r) PROVE InOrder'
  BY <1>1, StartKeeps, RecoverKeeps, StaleReadKeeps, StaleClearKeeps, ReloadKeeps,
     HealKeeps, ProbeKeeps, ClaimKeeps, ConflictKeeps, ReprobeKeeps, FinishKeeps,
     ChargeKeeps, EnqueueKeeps, AbortKeeps
  DEF RequestStep
<1>2. ASSUME NEW e \in Event, WorkerStep(e) PROVE InOrder'
  BY <1>2, DeliverKeeps, ProbeDayKeeps, FinishDayKeeps, ClaimLostKeeps, CrewKeeps,
     RecheckKeeps, RereadKeeps, PutDayKeeps, RacedKeeps, CompleteDayKeeps,
     VerifyKeeps, FailDayKeeps, RaisedKeeps, SafetyNetKeeps
  DEF WorkerStep
<1>3. CASE UNCHANGED vars
  BY <1>3 DEF vars, InOrder, TypeOK, TripOK, RequestOK, EventOK, WrittenBefore,
              Written, WrittenDays, OneOwner, CompleteMeansPlanned
<1>4. QED
  BY <1>1, <1>2, <1>3, RequestDiesKeeps, WorkerFaultKeeps, WriteLostKeeps,
     WorkerDiesKeeps, DuplicateKeeps, EnvironmentKeeps
  DEF Next

\* Every day number that anybody acts on is that of a day whose predecessors
\* are written.
THEOREM InvariantInOrder == Spec => []InOrder
  BY InitInOrder, StepInOrder, PTL DEF Spec

\* The rows and what every request and run has read keep their types.
THEOREM TypeCorrect == Spec => []TypeOK
  BY InvariantInOrder, PTL DEF InOrder

\* The cursor of start_plan_next_day, execute_plan_next_day and
\* complete_planning_after_day_write never passes a missing day.
THEOREM CursorNeverSkips == Spec => []NoSkippedDay
<1>1. InOrder => NoSkippedDay
  BY DEF InOrder, TripOK, WrittenBefore, NoSkippedDay
<1>2. QED
  BY <1>1, InvariantInOrder, PTL

\* A trip is complete only when it has all its DAY rows.
THEOREM CompleteTripIsPlanned == Spec => []CompleteMeansPlanned
<1>1. InOrder => CompleteMeansPlanned
  BY DEF InOrder, TripOK
<1>2. QED
  BY <1>1, InvariantInOrder, PTL

\* The planning claim and the crew-job claim exclude each other.
THEOREM ClaimsExclude == Spec => []OneOwner
<1>1. InOrder => OneOwner
  BY DEF InOrder, TripOK
<1>2. QED
  BY <1>1, InvariantInOrder, PTL
-----------------------------------------------------------------------------
(* The implementation of Itinerary.                                        *)

AddsDay(d, e) ==
  /\ ~Written(d)
  /\ WrittenBefore(d)
  /\ row' = [row EXCEPT ![d] = e]
  /\ UNCHANGED trip

\* Only the put of a worker touches the DAY rows, and it adds the first missing one.
LEMMA DayRowsChange ==
  ASSUME InOrder, [Next]_vars
  PROVE  UNCHANGED row \/ \E d \in Day, e \in Event : AddsDay(d, e)
<1>1. ASSUME NEW r \in Request, RequestStep(r) \/ RequestDies(r)
      PROVE  UNCHANGED row
  BY <1>1
  DEF RequestStep, Start, Recover, StaleRead, StaleClear, Reload, Heal, Probe, Claim,
      Conflict, Reprobe, Finish, Charge, Enqueue, Abort, RequestDies
<1>2. ASSUME NEW e \in Event, PutDay(e) \/ WriteLost(e)
      PROVE  UNCHANGED row \/ (AddsDay(ev[e].day, e) /\ ev[e].day \in Day)
  BY <1>2, EventFacts DEF PutDay, WriteLost, AddsDay
<1>3. ASSUME NEW e \in Event, WorkerStep(e), ~PutDay(e)
      PROVE  UNCHANGED row
  BY <1>3
  DEF WorkerStep, Deliver, ProbeDay, FinishDay, ClaimLost, Crew, Recheck, Reread, Raced,
      CompleteDay, Verify, FailDay, Raised, SafetyNet
<1>4. ASSUME NEW e \in Event, NEW f \in Event,
             WorkerFault(e) \/ WorkerDies(e) \/ Duplicate(e, f)
      PROVE  UNCHANGED row
  BY <1>4 DEF WorkerFault, WorkerDies, Duplicate
<1>5. ASSUME Age \/ JobClaims \/ JobEnds \/ UNCHANGED vars
      PROVE  UNCHANGED row
  BY <1>5 DEF Age, JobClaims, JobEnds, vars
<1>6. QED
  BY <1>1, <1>2, <1>3, <1>4, <1>5 DEF Next

\* Whoever writes a DAY writes it once (put_day_if_absent).
THEOREM DaysAreWrittenOnce == Spec => DayWrittenOnce
<1>1. InOrder /\ [Next]_vars => [\A d \in Day : Written(d) => row'[d] = row[d]]_row
  <2> SUFFICES ASSUME InOrder, [Next]_vars, NEW d \in Day, Written(d), row' # row
               PROVE  row'[d] = row[d]
    OBVIOUS
  <2>1. PICK c \in Day, e \in Event : AddsDay(c, e)
    BY DayRowsChange
  <2>2. QED
    BY <2>1 DEF AddsDay, Written, InOrder, TypeOK
<1>2. QED
  BY <1>1, InvariantInOrder, PTL DEF Spec, DayWrittenOnce

\* A fresh trip is an itinerary with nothing planned.
LEMMA InitItinerary == Init => Itin!Init
  BY DEF Init, Itin!Init, FreshTrip, Day, Itin!Day

\* Every step is an Itinerary step or a stutter.
LEMMA StepItinerary ==
  InOrder /\ InOrder' /\ [Next]_vars => [Itin!Next]_Itin!vars
<1> SUFFICES ASSUME InOrder, InOrder', [Next]_vars PROVE Itin!Next
  OBVIOUS
<1>1. CASE UNCHANGED row
  <2>1. trip'.ndi \in 1..(DayCount + 1) /\ (trip'.status = "complete") \in BOOLEAN
    BY DEF InOrder, TypeOK, TripType
  <2>2. Itin!AllWritten(1..(trip'.ndi - 1))
    BY <1>1, <2>1, DayCountAssumption
    DEF InOrder, TripOK, WrittenBefore, Written, Itin!AllWritten, Day
  <2>3. trip'.status = "complete" => Itin!AllWritten(Itin!Day)
    BY <1>1 DEF InOrder, TripOK, CompleteMeansPlanned, Written, Itin!AllWritten, Itin!Day, Day
  <2>4. Itin!Report(trip'.ndi, trip'.status = "complete")
    BY <1>1, <2>2, <2>3 DEF Itin!Report
  <2>5. QED
    BY <2>1, <2>4 DEF Itin!Next
<1>2. CASE \E d \in Day, e \in Event : AddsDay(d, e)
  <2>1. PICK d \in Day, e \in Event : AddsDay(d, e)
    BY <1>2
  <2>2. Itin!AllWritten(1..(d - 1))
    BY <2>1, DayCountAssumption
    DEF AddsDay, WrittenBefore, Written, Itin!AllWritten, Day
  <2>3. Itin!WriteDay(d, e)
    BY <2>1, <2>2 DEF AddsDay, Written, Itin!WriteDay
  <2>4. QED
    BY <2>1, <2>3 DEF Itin!Next, Itin!Day, Day
<1>3. QED
  BY <1>1, <1>2, DayRowsChange

\* Requests, workers, retries and crashes together do nothing that the
\* itinerary does not allow.
THEOREM PlanDayImplementsItinerary == Spec => ImplementsItinerary
<1>1. Spec => Itin!Init /\ [][Itin!Next]_Itin!vars
  BY InitItinerary, StepItinerary, InvariantInOrder, PTL DEF Spec
<1>2. QED
  BY <1>1 DEF ImplementsItinerary, Itin!Spec

-----------------------------------------------------------------------------
(* Planning and deletion                                                   *)

\* A request or Event that is under way carries the number of a day.
RequestState == { q \in RequestType : q.pc # "idle" /\ q.n # 0 } \cup {NoRequest}
EventState == { q \in EventType : q.pc # "idle" /\ q.day # 0 } \cup {NoEvent}

\* The inductive invariant of planning and deletion together.
EditsInv ==
  /\ trip \in TripType
  /\ row \in [Day -> Event \cup {NoRow}]
  /\ req \in [Request -> RequestState]
  /\ ev \in [Event -> EventState]
  /\ edit \in [Editor -> EditType]
  /\ OneOwner
  /\ DeletedHoldsNoClaim

-----------------------------------------------------------------------------
(* The writes of planning to the TRIP row.                                 *)

Deleted(t) == t.status \in {"deleting", "gone"}

PlanningWrite ==
  \/ UNCHANGED trip
  \/ \E n \in Day : HoldsClaim(trip, n) /\ trip' = CompletePlanning(trip, n)
  \/ /\ trip.pdi # 0
     /\ trip' \in {FailPlanning(trip), ClearStaleClaim(trip), [trip EXCEPT !.aged = TRUE]}
  \/ \E n \in Day : CanClaimPlanning(trip, n) /\ trip' = ClaimPlanning(trip, n)
  \/ \E n \in Day : Exists(trip) /\ trip' = SetNextDay(trip, n)
  \/ CanClaimJob(trip) /\ trip' = [trip EXCEPT !.job = TRUE]
  \/ trip.job /\ trip' = [trip EXCEPT !.job = FALSE]

\* The numbers that are acted on are days.
LEMMA RequestNumber ==
  ASSUME EditsInv, NEW r \in Request, req[r].pc # "idle"
  PROVE  req[r] \in RequestType /\ req[r].n \in Day
  BY DayCountAssumption DEF EditsInv, RequestState, RequestType, NoRequest, Day

\* An event that is under way has a day number.
LEMMA EventNumber ==
  ASSUME EditsInv, NEW e \in Event, ev[e].pc # "idle"
  PROVE  ev[e] \in EventType /\ ev[e].day \in Day
  BY DayCountAssumption DEF EditsInv, EventState, EventType, NoEvent, Day

\* A request writes the TRIP row as planning does.
LEMMA RequestWrites ==
  ASSUME EditsInv, NEW r \in Request, RequestStep(r) \/ RequestDies(r)
  PROVE  PlanningWrite /\ UNCHANGED row
<1>1. CASE UNCHANGED <<trip, row>>
  BY <1>1 DEF PlanningWrite
<1>2. CASE StaleClear(r)
  BY <1>2 DEF StaleClear, HoldsClaim, PlanningWrite
<1>3. CASE Heal(r) \/ Claim(r)
  BY <1>3, RequestNumber DEF Heal, Claim, PlanningWrite
<1>4. CASE Finish(r)
  BY <1>4, RequestNumber DEF Finish, PlanningWrite
<1>5. CASE Abort(r)
  BY <1>5 DEF Abort, HoldsClaim, PlanningWrite
<1>6. QED
  BY <1>1, <1>2, <1>3, <1>4, <1>5
  DEF RequestStep, RequestDies, Start, Recover, StaleRead, Reload, Probe, Conflict,
      Reprobe, Charge, Enqueue

\* So does a worker.
LEMMA WorkerWrites ==
  ASSUME EditsInv, NEW e \in Event,
         WorkerStep(e) \/ WorkerFault(e) \/ WriteLost(e) \/ WorkerDies(e)
  PROVE  PlanningWrite
<1>1. CASE UNCHANGED trip
  BY <1>1 DEF PlanningWrite
<1>2. CASE FinishDay(e) \/ CompleteDay(e) \/ WriteLost(e)
  BY <1>2, EventNumber DEF FinishDay, CompleteDay, WriteLost, PlanningWrite
<1>3. CASE FailDay(e) \/ SafetyNet(e)
  BY <1>3 DEF FailDay, SafetyNet, HoldsClaim, PlanningWrite
<1>4. QED
  BY <1>1, <1>2, <1>3
  DEF WorkerStep, Deliver, ProbeDay, ClaimLost, Crew, Recheck, Reread, PutDay, Raced,
      Verify, Raised, WorkerFault, WorkerDies

\* Whatever planning does to the TRIP row, it does through these writes.
LEMMA PlanningWrites ==
  ASSUME EditsInv, Next PROVE PlanningWrite
<1>1. ASSUME Age \/ JobClaims \/ JobEnds PROVE PlanningWrite
  BY <1>1 DEF Age, JobClaims, JobEnds, PlanningWrite
<1>2. ASSUME NEW e \in Event, NEW f \in Event, Duplicate(e, f) PROVE PlanningWrite
  BY <1>2 DEF Duplicate, PlanningWrite
<1>3. QED
  BY <1>1, <1>2, RequestWrites, WorkerWrites DEF Next

\* A trip under deletion holds no claim, so that no write of planning changes its
\* status; and planning deletes nothing.
LEMMA PlanningSparesDeleted ==
  ASSUME EditsInv, PlanningWrite
  PROVE  /\ trip' \in TripType
         /\ OneOwner' /\ DeletedHoldsNoClaim'
         /\ Deleted(trip) \/ Deleted(trip') => trip'.status = trip.status
<1>1. CASE UNCHANGED trip
  BY <1>1 DEF EditsInv, OneOwner, DeletedHoldsNoClaim
<1>2. ASSUME NEW n \in Day, HoldsClaim(trip, n), trip' = CompletePlanning(trip, n)
      PROVE  /\ trip' \in TripType /\ trip'.pdi = 0
             /\ ~Deleted(trip) /\ ~Deleted(trip')
  BY <1>2, CompletePlanningFields
  DEF EditsInv, DeletedHoldsNoClaim, Deleted, HoldsClaim, Day
<1>3. ASSUME trip.pdi # 0,
             trip' \in {FailPlanning(trip), ClearStaleClaim(trip)}
      PROVE  /\ trip' \in TripType /\ trip'.pdi = 0
             /\ ~Deleted(trip) /\ ~Deleted(trip')
  BY <1>3, FailPlanningFields, ClearStaleClaimFields
  DEF EditsInv, DeletedHoldsNoClaim, Deleted
<1>4. ASSUME NEW n \in Day, CanClaimPlanning(trip, n), trip' = ClaimPlanning(trip, n)
      PROVE  /\ trip' \in TripType /\ ~trip'.job
             /\ ~Deleted(trip) /\ ~Deleted(trip')
  <2>1. n \in 0..DayCount /\ "planning" \in Status
    BY DayCountAssumption DEF Day, Status
  <2>2. QED
    BY <1>4, <2>1
    DEF EditsInv, Deleted, CanClaimPlanning, ClaimPlanning, TripType
<1>5. ASSUME \/ trip' = [trip EXCEPT !.aged = TRUE]
             \/ CanClaimJob(trip) /\ trip' = [trip EXCEPT !.job = TRUE]
             \/ trip.job /\ trip' = [trip EXCEPT !.job = FALSE]
      PROVE  /\ trip' \in TripType
             /\ trip'.status = trip.status /\ trip'.pdi = trip.pdi
             /\ trip'.job => trip.job \/ trip.pdi = 0
  BY <1>5 DEF EditsInv, CanClaimJob, TripType
<1>6. ASSUME NEW n \in Day, trip' = SetNextDay(trip, n)
      PROVE  /\ trip' \in TripType
             /\ trip'.status = trip.status /\ trip'.pdi = trip.pdi
             /\ trip'.job => trip.job
  <2>1. n \in 1..(DayCount + 1)
    BY DayCountAssumption DEF Day
  <2>2. QED
    BY <1>6, <2>1 DEF EditsInv, SetNextDay, TripType
<1>7. CASE Deleted(trip)
  BY <1>1, <1>2, <1>3, <1>4, <1>5, <1>6, <1>7
  DEF PlanningWrite, EditsInv, OneOwner, DeletedHoldsNoClaim, Deleted
<1>8. CASE ~Deleted(trip)
  BY <1>1, <1>2, <1>3, <1>4, <1>5, <1>6, <1>8
  DEF PlanningWrite, EditsInv, OneOwner, DeletedHoldsNoClaim, Deleted
<1>9. QED
  BY <1>7, <1>8

-----------------------------------------------------------------------------
(* The records of requests and Events.                                     *)

RequestsKept == req' \in [Request -> RequestState]
EventsKept == ev' \in [Event -> EventState]

\* A request ends.
LEMMA RequestEnds ==
  ASSUME EditsInv, NEW r \in Request, REnd(r) PROVE RequestsKept
  BY DEF EditsInv, REnd, RequestsKept, RequestState

\* A request goes on with the day it has: some of its fields change, not n.
LEMMA RequestGoes ==
  ASSUME EditsInv, NEW r \in Request, req[r].pc # "idle",
         NEW q \in RequestType, q.n = req[r].n, q.pc # "idle",
         req' = [req EXCEPT ![r] = q]
  PROVE  RequestsKept
<1>1. q \in RequestState
  BY RequestNumber DEF RequestState, Day
<1>2. QED
  BY <1>1 DEF EditsInv, RequestsKept

LEMMA RGoGoes ==
  ASSUME EditsInv, NEW r \in Request, req[r].pc # "idle",
         NEW pc \in RequestPc \ {"idle"}, RGo(r, pc)
  PROVE  RequestsKept
<1> DEFINE q == [req[r] EXCEPT !.pc = pc]
<1>1. req[r] \in RequestType
  BY RequestNumber
<1>2. q \in RequestType /\ q.n = req[r].n /\ q.pc # "idle"
  BY <1>1 DEF RequestType
<1>3. req' = [req EXCEPT ![r] = q]
  BY DEF RGo
<1> HIDE DEF q
<1>4. QED
  BY <1>2, <1>3, RequestGoes

\* A request takes up a day.
LEMMA RequestTakes ==
  ASSUME EditsInv, NEW r \in Request, NEW q \in RequestType, q.n # 0, q.pc # "idle",
         req' = [req EXCEPT ![r] = q]
  PROVE  RequestsKept
  BY DEF EditsInv, RequestsKept, RequestState

\* Resolving a day writes a well-formed record of the request.
LEMMA ResolveTakes ==
  ASSUME EditsInv, NEW r \in Request, NEW S, NEW m \in 0..DayCount, Resolve(r, S, m)
  PROVE  RequestsKept
<1>1. ASSUME NEW d \in Day,
             req' = [req EXCEPT ![r] =
                    [NoRequest EXCEPT !.pc = IF trip.ndi = d THEN "probe" ELSE "heal",
                                      !.n = d, !.pdi = trip.pdi, !.reclaim = m]]
      PROVE  RequestsKept
  <2> DEFINE q == [NoRequest EXCEPT !.pc = IF trip.ndi = d THEN "probe" ELSE "heal",
                                    !.n = d, !.pdi = trip.pdi, !.reclaim = m]
  <2>1. d \in 0..DayCount /\ d # 0 /\ 0 \in 0..DayCount /\ trip.pdi \in 0..DayCount
    BY DayCountAssumption DEF EditsInv, TripType, Day
  <2>2. q \in RequestType /\ q.n # 0 /\ q.pc # "idle"
    BY <2>1 DEF NoRequest, RequestType, RequestPc
  <2>3. req' = [req EXCEPT ![r] = q]
    BY <1>1
  <2> HIDE DEF q
  <2>4. QED
    BY <2>2, <2>3, RequestTakes
<1>2. QED
  BY <1>1, RequestEnds DEF Resolve

\* A request keeps its record.
LEMMA RequestRecords ==
  ASSUME EditsInv, NEW r \in Request, RequestStep(r) \/ RequestDies(r)
  PROVE  RequestsKept
<1>1. /\ trip.pdi \in 0..DayCount /\ 0 \in 0..DayCount
      /\ req[r].pc # "idle" => req[r] \in RequestType
  BY RequestNumber, DayCountAssumption DEF EditsInv, TripType
<1>2. CASE Start(r) /\ trip.pdi = 0
  BY <1>1, <1>2, ResolveTakes DEF Start
<1>3. CASE Start(r) /\ trip.pdi # 0
  <2> DEFINE q == [NoRequest EXCEPT !.pc = "recover", !.n = trip.pdi,
                                    !.pdi = trip.pdi, !.days = WrittenDays]
  <2>1. WrittenDays \in SUBSET Day
    BY DEF WrittenDays
  <2>2. q \in RequestType /\ q.n # 0 /\ q.pc # "idle"
    BY <1>1, <1>3, <2>1 DEF NoRequest, RequestType, RequestPc
  <2>3. req' = [req EXCEPT ![r] = q]
    BY <1>3 DEF Start
  <2> HIDE DEF q
  <2>4. QED
    BY <2>2, <2>3, RequestTakes
<1>4. CASE Claim(r) \/ Reprobe(r) \/ Finish(r) \/ Charge(r) \/ Enqueue(r) \/ Abort(r)
             \/ RequestDies(r)
  BY <1>4, RequestEnds, RGoGoes
  DEF RequestPc, Claim, Reprobe, Finish, Charge, Enqueue, Abort, RequestDies
<1>5. CASE Recover(r) \/ Probe(r)
  BY <1>1, <1>5, RGoGoes, RequestGoes DEF Recover, Probe, RequestType, RequestPc
<1>6. CASE StaleRead(r) \/ StaleClear(r)
  BY <1>1, <1>6, RequestEnds, RequestGoes
  DEF StaleRead, StaleClear, AfterClear, RequestType, RequestPc
<1>7. CASE Reload(r)
  BY <1>1, <1>7, ResolveTakes, RequestEnds DEF Reload, RequestType
<1>8. CASE Heal(r)
  BY <1>1, <1>8, RequestEnds, RequestGoes DEF Heal, RequestType, RequestPc
<1>9. CASE Conflict(r)
  <2>1. req[r].pc # "idle" /\ req[r] \in RequestType
    BY <1>1, <1>9 DEF Conflict
  <2>2. CASE REnd(r) \/ RGo(r, "finish")
    BY <2>1, <2>2, RequestEnds, RGoGoes DEF RequestPc
  <2>3. ASSUME NEW q, q \in { [req[r] EXCEPT !.pc = "reprobe", !.pdi = trip.pdi],
                              [req[r] EXCEPT !.pc = "stale", !.ret = "claim"] }
        PROVE  q \in RequestType /\ q.n = req[r].n /\ q.pc # "idle"
    BY <1>1, <2>1, <2>3 DEF RequestType, RequestPc
  <2>4. CASE req' = [req EXCEPT ![r].pc = "reprobe", ![r].pdi = trip.pdi]
    BY <2>1, <2>3, <2>4, RequestGoes
  <2>5. CASE req' = [req EXCEPT ![r].pc = "stale", ![r].ret = "claim"]
    BY <2>1, <2>3, <2>5, RequestGoes
  <2>6. QED
    BY <1>9, <2>2, <2>4, <2>5 DEF Conflict
<1>10. QED
  BY <1>2, <1>3, <1>4, <1>5, <1>6, <1>7, <1>8, <1>9 DEF RequestStep

\* A request writes nothing of the Events but the one it sends.
LEMMA RequestEvents ==
  ASSUME EditsInv, NEW r \in Request, RequestStep(r) \/ RequestDies(r)
  PROVE  EventsKept
<1>1. CASE UNCHANGED ev
  BY <1>1 DEF EditsInv, EventsKept
<1>2. CASE Enqueue(r)
  <2>1. ASSUME NEW e \in Event,
               ev' = [ev EXCEPT ![e] = [NoEvent EXCEPT !.pc = "queued", !.try = 1,
                                                       !.day = req[r].n]]
        PROVE  EventsKept
    <3> DEFINE q == [NoEvent EXCEPT !.pc = "queued", !.try = 1, !.day = req[r].n]
    <3>1. req[r].n \in Day /\ 1 \in 0..MaxAttempts
      BY <1>2, RequestNumber, PlanDayAssumption DEF Enqueue
    <3>2. req[r].n \in 0..DayCount /\ req[r].n # 0
      BY <3>1, DayCountAssumption DEF Day
    <3>3. q \in EventType /\ q.pc # "idle" /\ q.day # 0
      BY <3>1, <3>2 DEF NoEvent, EventType, EventPc, ErrorKind
    <3>4. ev' = [ev EXCEPT ![e] = q]
      BY <2>1
    <3> HIDE DEF q
    <3>5. QED
      BY <3>3, <3>4 DEF EditsInv, EventsKept, EventState
  <2>2. QED
    BY <1>1, <1>2, <2>1 DEF Enqueue
<1>3. QED
  BY <1>1, <1>2
  DEF RequestStep, RequestDies, Start, Recover, StaleRead, StaleClear, Reload, Heal,
      Probe, Claim, Conflict, Reprobe, Finish, Charge, Abort

\* An Event goes on with the day it has, or ends.
LEMMA EventGoes ==
  ASSUME EditsInv, NEW e \in Event, ev[e].pc # "idle",
         NEW q \in EventType, q.day = ev[e].day, q.pc # "idle",
         ev' = [ev EXCEPT ![e] = q]
  PROVE  EventsKept
<1>1. q \in EventState
  BY EventNumber DEF EventState, Day
<1>2. QED
  BY <1>1 DEF EditsInv, EventsKept

LEMMA EGoGoes ==
  ASSUME EditsInv, NEW e \in Event, ev[e].pc # "idle",
         NEW pc \in EventPc \ {"idle"}, EGo(e, pc)
  PROVE  EventsKept
<1> DEFINE q == [ev[e] EXCEPT !.pc = pc]
<1>1. q \in EventType /\ q.day = ev[e].day /\ q.pc = pc
  BY EventNumber DEF EventType
<1>2. ev' = [ev EXCEPT ![e] = q]
  BY DEF EGo
<1> HIDE DEF q
<1>3. QED
  BY <1>1, <1>2, EventGoes

LEMMA ThrowGoes ==
  ASSUME EditsInv, NEW e \in Event, ev[e].pc # "idle",
         NEW pc \in EventPc \ {"idle"}, NEW kind \in ErrorKind, Throw(e, pc, kind)
  PROVE  EventsKept
<1> DEFINE q == [ev[e] EXCEPT !.pc = pc, !.err = kind]
<1>1. q \in EventType /\ q.day = ev[e].day /\ q.pc = pc
  BY EventNumber DEF EventType
<1>2. ev' = [ev EXCEPT ![e] = q]
  BY DEF Throw
<1> HIDE DEF q
<1>3. QED
  BY <1>1, <1>2, EventGoes

LEMMA EEndEnds ==
  ASSUME EditsInv, NEW e \in Event, EEnd(e) PROVE EventsKept
  BY DEF EditsInv, EEnd, EventsKept, EventState

LEMMA RedeliverGoes ==
  ASSUME EditsInv, NEW e \in Event, ev[e].pc # "idle", Redeliver(e)
  PROVE  EventsKept
<1>1. CASE EEnd(e)
  BY <1>1, EEndEnds
<1>2. CASE ev[e].try < MaxAttempts
  <2> DEFINE q == [ev[e] EXCEPT !.pc = "queued", !.err = "none", !.try = ev[e].try + 1]
  <2>1. ev[e] \in EventType
    BY EventNumber
  <2>2. ev[e].try + 1 \in 0..MaxAttempts
    BY <1>2, <2>1, PlanDayAssumption DEF EventType
  <2>3. q \in EventType /\ q.day = ev[e].day /\ q.pc # "idle"
    BY <2>1, <2>2 DEF EventType, EventPc, ErrorKind
  <2>4. ev' = [ev EXCEPT ![e] = q]
    BY <1>2 DEF Redeliver
  <2> HIDE DEF q
  <2>5. QED
    BY <2>3, <2>4, EventGoes
<1>3. QED
  BY <1>1, <1>2 DEF Redeliver

\* A worker keeps its Event's record.
LEMMA WorkerRecords ==
  ASSUME EditsInv, NEW e \in Event,
         WorkerStep(e) \/ WorkerFault(e) \/ WriteLost(e) \/ WorkerDies(e)
  PROVE  EventsKept
  BY EGoGoes, ThrowGoes, EEndEnds, RedeliverGoes
  DEF EventPc, ErrorKind, WorkerStep, WorkerFault, WriteLost, WorkerDies, Deliver,
      ProbeDay, FinishDay, ClaimLost, Crew, Recheck, Reread, PutDay, Raced, CompleteDay,
      Verify, FailDay, Raised, SafetyNet

-----------------------------------------------------------------------------
(* The DAY rows.                                                           *)

RowsKept ==
  /\ row' \in [Day -> Event \cup {NoRow}]
  /\ \A d \in Day : Written(d) => row'[d] \in {row[d], NoRow}

\* Planning writes a DAY only where there is none.
LEMMA PlanningRows ==
  ASSUME EditsInv, Next PROVE RowsKept
<1>1. CASE UNCHANGED row
  BY <1>1 DEF EditsInv, RowsKept
<1>2. ASSUME NEW e \in Event, PutDay(e) \/ WriteLost(e) PROVE RowsKept
  BY <1>1, <1>2 DEF PutDay, WriteLost, EditsInv, RowsKept, Written
<1>3. ASSUME NEW e \in Event, WorkerStep(e), ~PutDay(e) PROVE UNCHANGED row
  BY <1>3
  DEF WorkerStep, Deliver, ProbeDay, FinishDay, ClaimLost, Crew, Recheck, Reread, Raced,
      CompleteDay, Verify, FailDay, Raised, SafetyNet
<1>4. ASSUME NEW e \in Event, NEW f \in Event,
             WorkerFault(e) \/ WorkerDies(e) \/ Duplicate(e, f)
      PROVE  UNCHANGED row
  BY <1>4 DEF WorkerFault, WorkerDies, Duplicate
<1>5. ASSUME Age \/ JobClaims \/ JobEnds PROVE UNCHANGED row
  BY <1>5 DEF Age, JobClaims, JobEnds
<1>6. QED
  BY <1>1, <1>2, <1>3, <1>4, <1>5, RequestWrites DEF Next

\* A DELETE writes no DAY but removes some.
LEMMA DeletionRows ==
  ASSUME EditsInv, NEW w \in Editor, EditStep(w) \/ EditorDies(w)
  PROVE  RowsKept
<1>1. CASE UNCHANGED row
  BY <1>1 DEF EditsInv, RowsKept
<1>2. ASSUME NEW d, row' = [row EXCEPT ![d] = NoRow] PROVE RowsKept
  BY <1>2 DEF EditsInv, RowsKept
<1>3. QED
  BY <1>1, <1>2
  DEF EditStep, EditorDies, LoadDay, ApplyEdit, LookDay, RemoveDay, RequireTrip,
      LockTrip, QueryRows, DeleteTrip, DeleteDays

-----------------------------------------------------------------------------
(* The steps of planning and of a DELETE.                                  *)

\* Planning beside deletions keeps the invariant.
LEMMA PlanningKeepsEdits ==
  ASSUME EditsInv, Next, UNCHANGED edit PROVE EditsInv'
<1>1. RequestsKept /\ EventsKept
  <2>1. ASSUME NEW e \in Event, NEW f \in Event, Duplicate(e, f)
        PROVE  RequestsKept /\ EventsKept
    BY <2>1 DEF Duplicate, EditsInv, RequestsKept, EventsKept
  <2>2. ASSUME Age \/ JobClaims \/ JobEnds PROVE RequestsKept /\ EventsKept
    BY <2>2 DEF Age, JobClaims, JobEnds, EditsInv, RequestsKept, EventsKept
  <2>3. ASSUME NEW e \in Event,
               WorkerStep(e) \/ WorkerFault(e) \/ WriteLost(e) \/ WorkerDies(e)
        PROVE  UNCHANGED req
    BY <2>3
    DEF WorkerStep, Deliver, ProbeDay, FinishDay, ClaimLost, Crew, Recheck, Reread,
        PutDay, Raced, CompleteDay, Verify, FailDay, Raised, SafetyNet, WorkerFault,
        WriteLost, WorkerDies
  <2>4. UNCHANGED req => RequestsKept
    BY DEF EditsInv, RequestsKept
  <2>5. QED
    BY <2>1, <2>2, <2>3, <2>4, RequestRecords, RequestEvents, WorkerRecords DEF Next
<1>2. trip' \in TripType /\ OneOwner' /\ DeletedHoldsNoClaim'
  BY PlanningWrites, PlanningSparesDeleted
<1>3. QED
  BY <1>1, <1>2, PlanningRows DEF EditsInv, RowsKept, RequestsKept, EventsKept

\* A DELETE takes no claim, locks only a trip without one, and unlocks none.
LEMMA DeletionWrites ==
  ASSUME EditsInv, NEW w \in Editor, EditStep(w) \/ EditorDies(w)
  PROVE  /\ trip' \in TripType
         /\ OneOwner' /\ DeletedHoldsNoClaim'
         /\ Deleted(trip) => trip'.status \in {trip.status, "gone"}
<1>1. CASE UNCHANGED trip
  BY <1>1 DEF EditsInv, OneOwner, DeletedHoldsNoClaim
<1>2. CASE ApplyEdit(w) /\ CanEditItinerary(trip)
  <2>1. edit[w].ndi \in 1..(DayCount + 1) /\ edit[w].status \in Status
    BY DEF EditsInv, EditType
  <2>2. trip' = EditItinerary(trip, edit[w].ndi, edit[w].status)
    BY <1>2 DEF ApplyEdit
  <2>3. trip' \in TripType /\ trip'.pdi = 0
    BY <1>2, <2>1, <2>2 DEF EditsInv, CanEditItinerary, EditItinerary, TripType
  <2>4. QED
    BY <1>2, <2>3 DEF CanEditItinerary, OneOwner, DeletedHoldsNoClaim, Deleted
<1>3. CASE LockTrip(w) /\ CanBeginDelete(trip)
  BY <1>3
  DEF EditsInv, LockTrip, CanBeginDelete, BeginDelete, Exists, TripType, Status,
      OneOwner, DeletedHoldsNoClaim, Deleted
<1>4. CASE DeleteTrip(w)
  <2>1. NoClaim(trip) \in TripType /\ NoClaim(trip).pdi = 0
    BY NoClaimFields DEF EditsInv
  <2>2. QED
    BY <1>4, <2>1
    DEF DeleteTrip, DeleteTripRow, TripType, Status, OneOwner, DeletedHoldsNoClaim
<1>5. QED
  BY <1>1, <1>2, <1>3, <1>4
  DEF EditStep, EditorDies, LoadDay, ApplyEdit, LookDay, RemoveDay, RequireTrip,
      LockTrip, QueryRows, DeleteDays, Deleted

\* A DELETE keeps its record.
LEMMA DeletionRecords ==
  ASSUME EditsInv, NEW w \in Editor, EditStep(w) \/ EditorDies(w)
  PROVE  edit' \in [Editor -> EditType]
<1>1. NoEdit \in EditType
  BY DayCountAssumption DEF NoEdit, EditType, Status
<1>2. edit[w] \in EditType /\ WrittenDays \in SUBSET Day /\ Day \subseteq 0..DayCount
  BY DayCountAssumption DEF EditsInv, WrittenDays, Day
<1>3. CASE LoadDay(w)
  <2>1. ASSUME NEW d \in WrittenDays, NEW n \in 1..(DayCount + 1), NEW st \in Status
        PROVE  [NoEdit EXCEPT !.pc = "apply", !.day = d, !.ndi = n, !.status = st]
                 \in EditType
    BY <1>1, <1>2 DEF EditType
  <2>2. \E q \in EditType : edit' = [edit EXCEPT ![w] = q]
    BY <1>3, <2>1, Zenon DEF LoadDay
  <2>3. QED
    BY <2>2 DEF EditsInv
<1>4. CASE RequireTrip(w)
  BY <1>1, <1>4 DEF RequireTrip, EditsInv, EditType
<1>5. CASE QueryRows(w)
  <2> DEFINE q == [edit[w] EXCEPT !.pc = IF Exists(trip) THEN "trip" ELSE "days",
                                  !.left = WrittenDays]
  <2>1. q \in EditType
    BY <1>2 DEF EditType
  <2>2. edit' = [edit EXCEPT ![w] = q]
    BY <1>5 DEF QueryRows
  <2> HIDE DEF q
  <2>3. QED
    BY <2>1, <2>2 DEF EditsInv
<1>6. CASE DeleteDays(w)
  <2>1. \A d : [edit[w] EXCEPT !.left = @ \ {d}] \in EditType
    BY <1>2 DEF EditType
  <2>2. QED
    BY <1>1, <1>6, <2>1 DEF DeleteDays, WEnd, EditsInv
<1>7. ASSUME NEW pc \in {"look", "remove", "query", "days"}, WGo(w, pc)
      PROVE  edit' \in [Editor -> EditType]
  BY <1>2, <1>7 DEF WGo, EditsInv, EditType
<1>8. CASE WEnd(w)
  BY <1>1, <1>8 DEF WEnd, EditsInv
<1>9. QED
  BY <1>3, <1>4, <1>5, <1>6, <1>7, <1>8
  DEF EditStep, EditorDies, ApplyEdit, LookDay, RemoveDay, LockTrip, DeleteTrip

\* Every step of a day or trip deletion, and its death, keeps the invariant.
LEMMA DeletionKeepsEdits ==
  ASSUME EditsInv, NEW w \in Editor, EditStep(w) \/ EditorDies(w) PROVE EditsInv'
<1>1. UNCHANGED <<req, ev>>
  BY DEF EditStep, EditorDies, LoadDay, ApplyEdit, LookDay, RemoveDay, RequireTrip,
         LockTrip, QueryRows, DeleteTrip, DeleteDays
<1>2. QED
  BY <1>1, DeletionWrites, DeletionRecords, DeletionRows DEF EditsInv, RowsKept

-----------------------------------------------------------------------------
\* The invariant holds of a fresh trip.
LEMMA InitEdits == EditsInit => EditsInv
<1>1. NoEdit \in EditType
  BY DayCountAssumption DEF NoEdit, EditType, Status
<1>2. FreshTrip \in TripType
  BY DayCountAssumption DEF FreshTrip, TripType, Status
<1>3. QED
  BY <1>1, <1>2
  DEF EditsInit, Init, EditsInv, RequestState, EventState, FreshTrip, OneOwner,
      DeletedHoldsNoClaim

\* Every step keeps it, whoever takes it.
LEMMA StepEdits == EditsInv /\ [EditsNext]_editVars => EditsInv'
<1> SUFFICES ASSUME EditsInv, [EditsNext]_editVars PROVE EditsInv'
  OBVIOUS
<1>1. CASE UNCHANGED editVars
  BY <1>1 DEF editVars, EditsInv, OneOwner, DeletedHoldsNoClaim
<1>2. QED
  BY <1>1, PlanningKeepsEdits, DeletionKeepsEdits DEF EditsNext

\* Planning and deletion together keep the invariant.
THEOREM InvariantEdits == EditsSpec => []EditsInv
  BY InitEdits, StepEdits, PTL DEF EditsSpec

\* Planning and deletion together keep the types of the rows and of every snapshot.
THEOREM EditsTypeCorrect == EditsSpec => []EditsTypeOK
<1>1. NoRequest \in RequestType /\ NoEvent \in EventType
  BY DayCountAssumption, PlanDayAssumption
  DEF NoRequest, RequestType, RequestPc, NoEvent, EventType, EventPc, ErrorKind
<1>2. EditsInv => EditsTypeOK
  BY <1>1 DEF EditsInv, RequestState, EventState, EditsTypeOK, TypeOK
<1>3. QED
  BY <1>2, InvariantEdits, PTL

\* From begin_trip_delete on no planning claim is held, whatever the requests and
\* workers that have read the row before still do to it.
THEOREM DeleteLockExcludesClaims == EditsSpec => []DeletedHoldsNoClaim
<1>1. EditsInv => DeletedHoldsNoClaim
  BY DEF EditsInv
<1>2. QED
  BY <1>1, InvariantEdits, PTL

\* The planning claim and the crew-job claim exclude each other beside deletions too.
THEOREM EditsClaimsExclude == EditsSpec => []OneOwner
<1>1. EditsInv => OneOwner
  BY DEF EditsInv
<1>2. QED
  BY <1>1, InvariantEdits, PTL

\* A trip that is being deleted is never brought back, neither by the writes of
\* planning nor by a concurrent delete_day or delete_trip.
THEOREM DeletionIsFinal == EditsSpec => DeletingIsFinal
<1> DEFINE Final == /\ trip.status = "deleting" => trip'.status \in {"deleting", "gone"}
                    /\ trip.status = "gone" => trip'.status = "gone"
<1>1. EditsInv /\ [EditsNext]_editVars => [Final]_trip
  <2> SUFFICES ASSUME EditsInv, EditsNext PROVE Final
    BY DEF editVars
  <2>1. CASE Next
    BY <2>1, PlanningWrites, PlanningSparesDeleted DEF Deleted
  <2>2. ASSUME NEW w \in Editor, EditStep(w) \/ EditorDies(w) PROVE Final
    BY <2>2, DeletionWrites DEF Deleted
  <2>3. QED
    BY <2>1, <2>2 DEF EditsNext
<1>2. QED
  BY <1>1, InvariantEdits, PTL DEF EditsSpec, DeletingIsFinal

\* put_day_if_absent and repo.delete_day: a DAY changes hands only through its
\* deletion.
THEOREM DaysAreReplacedWhenDeleted == EditsSpec => DayReplacedWhenDeleted
<1> DEFINE Kept == \A d \in Day : Written(d) => row'[d] \in {row[d], NoRow}
<1>1. EditsInv /\ [EditsNext]_editVars => [Kept]_row
  <2> SUFFICES ASSUME EditsInv, EditsNext PROVE Kept
    BY DEF editVars
  <2>1. QED
    BY PlanningRows, DeletionRows DEF EditsNext, RowsKept
<1>2. QED
  BY <1>1, InvariantEdits, PTL DEF EditsSpec, DayReplacedWhenDeleted

-----------------------------------------------------------------------------
(* One API call at a time                                                  *)

NobodyPlans ==
  /\ \A r \in Request : req[r].pc = "idle"
  /\ \A e \in Event : ev[e].pc = "idle"

NobodyElseDeletes(w) == \A v \in Editor \ {w} : edit[v].pc = "idle"

\* A DELETE is about to move the cursor back to a first missing day.
Rewinds(q) == WrittenBefore(q.ndi) /\ q.ndi <= q.day /\ q.status # "complete"

\* What a DELETE under way has read and done so far.
DeleteOK(w) ==
  /\ edit[w].pc # "idle" => NobodyPlans /\ NobodyElseDeletes(w)
  /\ edit[w].pc = "apply" => Rewinds(edit[w])
  /\ edit[w].pc \in {"look", "remove"} => /\ trip.ndi <= edit[w].day
                                          /\ trip.status # "complete"
                                          /\ trip.pdi = 0
  /\ edit[w].pc \in {"query", "trip", "days"} => Deleted(trip)

\* The inductive invariant of one call at a time.
SerialInv ==
  /\ EditsInv
  /\ IF Deleted(trip) THEN NobodyPlans ELSE InOrder
  /\ \A w \in Editor : DeleteOK(w)

-----------------------------------------------------------------------------
(* Requests and workers.                                                   *)

\* Whoever takes a step of planning is under way, or starts when all is quiet.
LEMMA PlannerAlone ==
  ASSUME SerialInv,
         \/ \E r \in Request : /\ req[r].pc = "idle" => Quiet
                               /\ RequestStep(r) \/ RequestDies(r)
         \/ \E e \in Event : \/ WorkerStep(e) \/ WorkerFault(e) \/ WriteLost(e)
                             \/ WorkerDies(e)
                             \/ \E f \in Event : Duplicate(e, f)
  PROVE  ~Deleted(trip) /\ \A w \in Editor : edit[w].pc = "idle"
<1>1. ASSUME NEW e \in Event,
             \/ WorkerStep(e) \/ WorkerFault(e) \/ WriteLost(e) \/ WorkerDies(e)
             \/ \E f \in Event : Duplicate(e, f)
      PROVE  ev[e].pc # "idle"
  <2>1. CASE WorkerStep(e)
    <3>1. CASE Deliver(e) \/ ProbeDay(e) \/ FinishDay(e) \/ ClaimLost(e) \/ Crew(e) \/ Recheck(e)
      BY <3>1 DEF Deliver, ProbeDay, FinishDay, ClaimLost, Crew, Recheck
    <3>2. CASE Reread(e) \/ PutDay(e) \/ Raced(e) \/ CompleteDay(e)
      BY <3>2 DEF Reread, PutDay, Raced, CompleteDay
    <3>3. CASE Verify(e) \/ FailDay(e) \/ Raised(e) \/ SafetyNet(e)
      BY <3>3 DEF Verify, FailDay, Raised, SafetyNet
    <3>4. QED
      BY <2>1, <3>1, <3>2, <3>3 DEF WorkerStep
  <2>2. CASE WorkerFault(e) \/ WriteLost(e) \/ WorkerDies(e)
    <3>1. CASE WorkerFault(e)
      BY <3>1 DEF WorkerFault
    <3>2. CASE WriteLost(e)
      BY <3>2 DEF WriteLost
    <3>3. CASE WorkerDies(e)
      BY <3>3 DEF WorkerDies
    <3>4. QED
      BY <2>2, <3>1, <3>2, <3>3
  <2>3. CASE \E f \in Event : Duplicate(e, f)
    <3>1. PICK f \in Event : Duplicate(e, f)
      BY <2>3
    <3>2. ev[e].pc = "queued"
      BY <3>1 DEF Duplicate
    <3>3. QED
      BY <3>2
  <2>4. QED
    BY <1>1, <2>1, <2>2, <2>3
<1>2. ASSUME NEW r \in Request, RequestStep(r) \/ RequestDies(r), req[r].pc = "idle"
      PROVE  ~Deleted(trip)
  BY <1>2
  DEF RequestStep, RequestDies, Start, Recover, StaleRead, StaleClear, Reload, Heal,
      Probe, Claim, Conflict, Reprobe, Finish, Charge, Enqueue, Abort, Deleted
<1>3. NobodyPlans \/ (~Deleted(trip) /\ \A w \in Editor : edit[w].pc = "idle")
  BY DEF SerialInv, DeleteOK
<1>4. Quiet => \A w \in Editor : edit[w].pc = "idle"
  BY DEF Quiet
<1>5. QED
  BY <1>1, <1>2, <1>3, <1>4 DEF NobodyPlans

\* Planning by one traveler who waits keeps the invariant.
LEMMA PlanningKeepsSerial ==
  ASSUME SerialInv, Next, UNCHANGED edit,
         ~Deleted(trip), \A w \in Editor : edit[w].pc = "idle"
  PROVE  SerialInv'
<1>1. EditsInv'
  BY PlanningKeepsEdits DEF SerialInv
<1>2. InOrder'
  BY StepInOrder DEF SerialInv
<1>3. ~Deleted(trip)'
  BY PlanningWrites, PlanningSparesDeleted DEF SerialInv, Deleted
<1>4. \A w \in Editor : DeleteOK(w)'
  BY DEF DeleteOK
<1>5. QED
  BY <1>1, <1>2, <1>3, <1>4 DEF SerialInv

\* The clock and the crew jobs keep it beside a DELETE.
LEMMA EnvironmentKeepsSerial ==
  ASSUME SerialInv, Age \/ JobClaims \/ JobEnds, UNCHANGED edit
  PROVE  SerialInv'
<1>1. /\ trip'.ndi = trip.ndi /\ trip'.pdi = trip.pdi /\ trip'.status = trip.status
      /\ UNCHANGED <<row, req, ev>>
  BY DEF Age, JobClaims, JobEnds, SerialInv, EditsInv, TripType
<1>2. EditsInv'
  BY PlanningKeepsEdits DEF SerialInv, Next
<1>3. InOrder => InOrder'
  BY EnvironmentKeeps
<1>4. QED
  BY <1>1, <1>2, <1>3
  DEF SerialInv, Deleted, NobodyPlans, DeleteOK, Rewinds, NobodyElseDeletes,
      WrittenBefore, Written

-----------------------------------------------------------------------------
(* A DELETE.                                                               *)

\* The cursor that delete_day computes is not past the day it deletes, and its
\* status is not complete.
LEMMA CursorAfterDeletion ==
  ASSUME NEW d \in WrittenDays, NEW n \in 1..(DayCount + 1), NEW st, NEW new,
         StatusAfterDayEdit(WrittenDays \ {d}, st, n, new)
  PROVE  WrittenBefore(n) /\ n <= d /\ new # "complete"
<1>1. d \in Day /\ ~(Day \subseteq WrittenDays \ {d}) /\ d \in Day \ (WrittenDays \ {d})
  BY DEF WrittenDays
<1>2. CASE WrittenDays \ {d} = {} /\ n = 1
  BY <1>1, <1>2, DayCountAssumption DEF StatusAfterDayEdit, WrittenBefore, Day
<1>3. CASE IsFirstMissing(n, WrittenDays \ {d}) /\ new = "planning"
  <2>1. n \in Day /\ \A e \in Day : e < n => e \in WrittenDays \ {d}
    BY <1>3 DEF IsFirstMissing
  <2>2. ~(d < n)
    BY <1>1, <2>1
  <2>3. QED
    BY <1>1, <1>3, <2>1, <2>2, DayCountAssumption DEF WrittenBefore, WrittenDays, Day
<1>4. QED
  BY <1>1, <1>2, <1>3 DEF StatusAfterDayEdit

\* The frame of a DELETE: it is alone, and stays alone.
LEMMA DeletionAlone ==
  ASSUME SerialInv, NEW w \in Editor, EditStep(w) \/ EditorDies(w),
         edit[w].pc = "idle" => Quiet
  PROVE  /\ NobodyPlans /\ NobodyElseDeletes(w)
         /\ NobodyPlans' /\ NobodyElseDeletes(w)'
         /\ UNCHANGED <<req, ev>>
         /\ \A v \in Editor \ {w} : DeleteOK(v)'
<1>1. NobodyPlans /\ NobodyElseDeletes(w)
  BY DEF SerialInv, DeleteOK, Quiet, NobodyPlans, NobodyElseDeletes
<1>2. UNCHANGED <<req, ev>>
  BY DEF EditStep, EditorDies, LoadDay, ApplyEdit, LookDay, RemoveDay, RequireTrip,
         LockTrip, QueryRows, DeleteTrip, DeleteDays
<1>3. \A v \in Editor \ {w} : edit'[v] = edit[v]
  BY DEF EditStep, EditorDies, LoadDay, ApplyEdit, LookDay, RemoveDay, RequireTrip,
         LockTrip, QueryRows, DeleteTrip, DeleteDays, WGo, WEnd, SerialInv, EditsInv
<1>4. QED
  BY <1>1, <1>2, <1>3 DEF NobodyPlans, NobodyElseDeletes, DeleteOK

\* The invariant of planning when nobody plans is that of the TRIP row alone.
LEMMA IdleInOrder ==
  ASSUME EditsInv', NobodyPlans', TripOK'
  PROVE  InOrder'
<1>1. /\ \A r \in Request : req'[r] = NoRequest
      /\ \A e \in Event : ev'[e] = NoEvent
  BY DEF EditsInv, RequestState, EventState, NobodyPlans
<1>2. NoRequest \in RequestType /\ NoEvent \in EventType
  BY DayCountAssumption, PlanDayAssumption
  DEF NoRequest, RequestType, RequestPc, NoEvent, EventType, EventPc, ErrorKind
<1>3. TypeOK'
  BY <1>1, <1>2 DEF EditsInv, TypeOK
<1>4. \A r \in Request : RequestOK(r)'
  BY <1>1, DayCountAssumption DEF RequestOK, NoRequest, WrittenBefore, Day
<1>5. \A e \in Event : EventOK(e)'
  BY <1>1, DayCountAssumption DEF EventOK, NoEvent, WrittenBefore, Day
<1>6. QED
  BY <1>3, <1>4, <1>5 DEF InOrder

\* A step of a DELETE that writes no row leaves planning in order.
LEMMA DeletionLooks ==
  ASSUME SerialInv, UNCHANGED vars
  PROVE  IF Deleted(trip)' THEN NobodyPlans' ELSE InOrder'
<1>1. InOrder => InOrder'
  BY StepInOrder
<1>2. QED
  BY <1>1 DEF SerialInv, Deleted, NobodyPlans, vars

\* delete_day reads the bundle.
LEMMA LoadDayKeepsSerial ==
  ASSUME SerialInv, NEW w \in Editor, LoadDay(w), Quiet PROVE SerialInv'
<1>1. EditsInv' /\ EditsInv
  BY DeletionKeepsEdits DEF SerialInv, EditStep
<1>2. UNCHANGED vars
  BY DEF LoadDay, vars
<1> DEFINE Rewind == { q \in EditType : q.pc = "apply" /\ Rewinds(q) }
<1>3. PICK q \in Rewind : edit' = [edit EXCEPT ![w] = q]
  <2>1. ASSUME NEW d \in WrittenDays, NEW n \in 1..(DayCount + 1), NEW st \in Status,
               StatusAfterDayEdit(WrittenDays \ {d}, trip.status, n, st)
        PROVE  [NoEdit EXCEPT !.pc = "apply", !.day = d, !.ndi = n, !.status = st]
                 \in Rewind
    <3>1. NoEdit \in EditType /\ d \in 0..DayCount
      BY DayCountAssumption DEF NoEdit, EditType, Status, WrittenDays, Day
    <3>2. WrittenBefore(n) /\ n <= d /\ st # "complete"
      BY <2>1, CursorAfterDeletion
    <3>3. QED
      BY <3>1, <3>2 DEF EditType, Rewinds
  <2> HIDE DEF Rewind
  <2>2. QED
    BY <2>1, Zenon DEF LoadDay
<1>4. edit'[w] = q /\ q.pc = "apply" /\ Rewinds(q)
  BY <1>1, <1>3 DEF EditsInv
<1>5. DeleteOK(w)'
  BY <1>2, <1>4, DeletionAlone DEF EditStep, DeleteOK, Rewinds, WrittenBefore, Written, vars
<1>6. QED
  BY <1>1, <1>2, <1>5, DeletionAlone, DeletionLooks DEF SerialInv, EditStep

\* delete_day moves the cursor back ...
LEMMA ApplyEditKeepsSerial ==
  ASSUME SerialInv, NEW w \in Editor, ApplyEdit(w) PROVE SerialInv'
<1>1. EditsInv' /\ EditsInv
  BY DeletionKeepsEdits DEF SerialInv, EditStep
<1>2. \A v \in Editor \ {w} : DeleteOK(v)'
  BY DeletionAlone DEF EditStep, ApplyEdit
<1>3. NobodyPlans' /\ NobodyElseDeletes(w)'
  BY DeletionAlone DEF EditStep, ApplyEdit
<1>4. CASE ~CanEditItinerary(trip)
  <2>1. UNCHANGED vars /\ edit'[w].pc = "idle"
    BY <1>1, <1>4 DEF ApplyEdit, WEnd, NoEdit, EditsInv, vars
  <2>2. QED
    BY <1>1, <1>2, <2>1, DeletionLooks DEF SerialInv, DeleteOK
<1>5. CASE CanEditItinerary(trip)
  <2>1. /\ edit[w] \in EditType /\ edit'[w].pc = "look" /\ edit'[w].day = edit[w].day
        /\ edit[w].pc = "apply"
    BY <1>1, <1>5 DEF ApplyEdit, WGo, EditsInv, EditType
  <2>2. /\ trip'.ndi = edit[w].ndi /\ trip'.status = edit[w].status /\ trip'.pdi = 0
        /\ row' = row
    BY <1>1, <1>5 DEF ApplyEdit, CanEditItinerary, EditItinerary, EditsInv, TripType
  <2>3. /\ WrittenBefore(edit[w].ndi) /\ edit[w].ndi <= edit[w].day
        /\ edit[w].status # "complete"
    BY <2>1 DEF SerialInv, DeleteOK, Rewinds
  <2>4. DeleteOK(w)'
    BY <1>3, <2>1, <2>2, <2>3 DEF DeleteOK
  <2>5. TripOK'
    BY <1>1, <2>2, <2>3, DayCountAssumption
    DEF TripOK, WrittenBefore, Written, EditsInv, CompleteMeansPlanned, Day
  <2>6. QED
    BY <1>1, <1>2, <1>3, <2>4, <2>5, IdleInOrder DEF SerialInv
<1>6. QED
  BY <1>4, <1>5

\* ... and takes the DAY away behind it.
LEMMA RemoveDayKeepsSerial ==
  ASSUME SerialInv, NEW w \in Editor, RemoveDay(w) PROVE SerialInv'
<1>1. EditsInv' /\ EditsInv
  BY DeletionKeepsEdits DEF SerialInv, EditStep
<1>2. \A v \in Editor \ {w} : DeleteOK(v)'
  BY DeletionAlone DEF EditStep, RemoveDay
<1>3. NobodyPlans' /\ NobodyElseDeletes(w)'
  BY DeletionAlone DEF EditStep, RemoveDay
<1>4. edit'[w].pc = "idle"
  BY <1>1 DEF RemoveDay, WEnd, NoEdit, EditsInv
<1>5. /\ trip.ndi <= edit[w].day /\ trip.status # "complete" /\ trip.pdi = 0
      /\ row' = [row EXCEPT ![edit[w].day] = NoRow] /\ UNCHANGED trip
  BY DEF RemoveDay, SerialInv, DeleteOK
<1>6. CASE ~Deleted(trip)
  <2>1. WrittenBefore(trip.ndi)
    BY <1>6 DEF SerialInv, InOrder, TripOK
  <2>2. TripOK'
    BY <1>1, <1>5, <2>1, DayCountAssumption
    DEF TripOK, WrittenBefore, Written, EditsInv, EditType, TripType,
        CompleteMeansPlanned, OneOwner, Day
  <2>3. QED
    BY <1>1, <1>2, <1>3, <1>4, <2>2, IdleInOrder DEF SerialInv, DeleteOK
<1>7. CASE Deleted(trip)
  BY <1>1, <1>2, <1>3, <1>4, <1>5, <1>7 DEF SerialInv, DeleteOK, Deleted
<1>8. QED
  BY <1>6, <1>7

\* delete_trip locks the trip.
LEMMA LockTripKeepsSerial ==
  ASSUME SerialInv, NEW w \in Editor, LockTrip(w) PROVE SerialInv'
<1>1. EditsInv' /\ EditsInv
  BY DeletionKeepsEdits DEF SerialInv, EditStep
<1>2. \A v \in Editor \ {w} : DeleteOK(v)'
  BY DeletionAlone DEF EditStep, LockTrip
<1>3. NobodyPlans' /\ NobodyElseDeletes(w)'
  BY DeletionAlone DEF EditStep, LockTrip
<1>4. CASE ~CanBeginDelete(trip)
  <2>1. UNCHANGED vars /\ edit'[w].pc = "idle"
    BY <1>1, <1>4 DEF LockTrip, WEnd, NoEdit, EditsInv, vars
  <2>2. QED
    BY <1>1, <1>2, <2>1, DeletionLooks DEF SerialInv, DeleteOK
<1>5. CASE CanBeginDelete(trip)
  <2>1. Deleted(trip)' /\ edit'[w].pc = "query"
    BY <1>1, <1>5 DEF LockTrip, BeginDelete, WGo, Deleted, EditsInv, TripType, EditType
  <2>2. QED
    BY <1>1, <1>2, <1>3, <2>1 DEF SerialInv, DeleteOK
<1>6. QED
  BY <1>4, <1>5

\* delete_trip deletes the rows of a locked trip.
LEMMA DeleteRowsKeepsSerial ==
  ASSUME SerialInv, NEW w \in Editor, QueryRows(w) \/ DeleteTrip(w) \/ DeleteDays(w)
  PROVE  SerialInv'
<1>1. EditsInv' /\ EditsInv
  BY DeletionKeepsEdits DEF SerialInv, EditStep
<1>2. \A v \in Editor \ {w} : DeleteOK(v)'
  BY DeletionAlone DEF EditStep, QueryRows, DeleteTrip, DeleteDays
<1>3. NobodyPlans' /\ NobodyElseDeletes(w)'
  BY DeletionAlone DEF EditStep, QueryRows, DeleteTrip, DeleteDays
<1>4. Deleted(trip)
  BY DEF QueryRows, DeleteTrip, DeleteDays, SerialInv, DeleteOK
<1>5. Deleted(trip)'
  BY <1>1, <1>4, DeletionWrites DEF EditStep, Deleted
<1>6. edit'[w].pc \in {"idle", "trip", "days"}
  BY <1>1
  DEF QueryRows, DeleteTrip, DeleteDays, WGo, WEnd, NoEdit, EditsInv, EditType
<1>7. QED
  BY <1>1, <1>2, <1>3, <1>5, <1>6 DEF SerialInv, DeleteOK

\* The remaining steps read, or end.
LEMMA LooksKeepSerial ==
  ASSUME SerialInv, NEW w \in Editor, LookDay(w) \/ RequireTrip(w) \/ EditorDies(w),
         edit[w].pc = "idle" => Quiet
  PROVE  SerialInv'
<1>1. EditsInv' /\ EditsInv
  BY DeletionKeepsEdits DEF SerialInv, EditStep
<1>2. UNCHANGED vars
  BY DEF LookDay, RequireTrip, EditorDies, vars
<1>3. /\ \A v \in Editor \ {w} : DeleteOK(v)'
      /\ NobodyPlans' /\ NobodyElseDeletes(w)'
  BY DeletionAlone DEF EditStep
<1>4. \/ edit'[w].pc \in {"idle", "lock"}
      \/ edit[w].pc = "look" /\ edit'[w].pc = "remove" /\ edit'[w].day = edit[w].day
  BY <1>1 DEF LookDay, RequireTrip, EditorDies, WGo, WEnd, NoEdit, EditsInv, EditType
<1>5. DeleteOK(w)'
  BY <1>2, <1>3, <1>4 DEF SerialInv, DeleteOK, vars
<1>6. QED
  BY <1>1, <1>2, <1>3, <1>5, DeletionLooks DEF SerialInv

-----------------------------------------------------------------------------
LEMMA InitSerial == EditsInit => SerialInv
<1> SUFFICES ASSUME EditsInit PROVE SerialInv
  OBVIOUS
<1>1. EditsInv /\ InOrder
  BY InitEdits, InitInOrder DEF EditsInit
<1>2. ~Deleted(trip) /\ \A w \in Editor : edit[w].pc = "idle"
  BY DEF EditsInit, Init, FreshTrip, Deleted, NoEdit
<1>3. QED
  BY <1>1, <1>2 DEF SerialInv, DeleteOK

LEMMA StepSerial == SerialInv /\ [SerialNext]_editVars => SerialInv'
<1> SUFFICES ASSUME SerialInv, [SerialNext]_editVars PROVE SerialInv'
  OBVIOUS
<1>1. CASE UNCHANGED editVars
  <2>1. EditsInv'
    BY <1>1, StepEdits DEF SerialInv
  <2>2. UNCHANGED vars
    BY <1>1 DEF editVars, vars
  <2>3. QED
    BY <1>1, <2>1, <2>2, DeletionLooks
    DEF SerialInv, DeleteOK, Rewinds, NobodyPlans, NobodyElseDeletes, WrittenBefore,
        Written, Deleted, editVars
<1>2. ASSUME NEW r \in Request, (req[r].pc = "idle" => Quiet) /\ RequestStep(r),
             UNCHANGED edit
      PROVE  SerialInv'
  BY <1>2, PlannerAlone, PlanningKeepsSerial DEF Next
<1>3. ASSUME NEW r \in Request, RequestDies(r), UNCHANGED edit PROVE SerialInv'
  <2>1. req[r].pc # "idle"
    BY <1>3 DEF RequestDies
  <2>2. QED
    BY <1>3, <2>1, PlannerAlone, PlanningKeepsSerial DEF Next
<1>4. ASSUME NEW e \in Event, UNCHANGED edit,
             \/ WorkerStep(e) \/ WorkerFault(e) \/ WriteLost(e) \/ WorkerDies(e)
             \/ \E f \in Event : Duplicate(e, f)
      PROVE  SerialInv'
  BY <1>4, PlannerAlone, PlanningKeepsSerial DEF Next
<1>5. ASSUME NEW w \in Editor, (edit[w].pc = "idle" => Quiet) /\ EditStep(w)
      PROVE  SerialInv'
  BY <1>5, LoadDayKeepsSerial, ApplyEditKeepsSerial, RemoveDayKeepsSerial,
     LockTripKeepsSerial, DeleteRowsKeepsSerial, LooksKeepSerial
  DEF EditStep, LoadDay
<1>6. ASSUME NEW w \in Editor, EditorDies(w) PROVE SerialInv'
  BY <1>6, LooksKeepSerial DEF EditorDies
<1>7. QED
  BY <1>1, <1>2, <1>3, <1>4, <1>5, <1>6, EnvironmentKeepsSerial
  DEF SerialNext, SerialStep, SerialFault

\* Wherever a call stops, planning and deletion by one traveler who waits leave the
\* cursor at or before the first missing day, and no trip complete with one.
THEOREM CursorBehindDays == SerialSpec => []CursorStaysInOrder
<1>1. SerialInv => CursorStaysInOrder
  BY DEF SerialInv, Deleted, InOrder, TripOK, WrittenBefore, CursorStaysInOrder,
         NoSkippedDay
<1>2. QED
  BY <1>1, InitSerial, StepSerial, PTL DEF SerialSpec
=============================================================================
