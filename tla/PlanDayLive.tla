---------------------------- MODULE PlanDayLive ----------------------------
(***************************************************************************)
(* PlanDay once failures stop.  The steps are those of PlanDay, and at     *)
(* most MaxFaults of them are bad luck: a death, an exception, a refused   *)
(* or doubled Event, a failed crew run, a used up quota, a crew job in the *)
(* way, a claim that ages while somebody still works for it, or a client   *)
(* that does not wait for the answer or the Events of its last request.    *)
(***************************************************************************)
EXTENDS PlanDay

CONSTANT MaxFaults

ASSUME MaxFaultsAssumption == MaxFaults \in Nat

VARIABLE faults     \* how much bad luck there has been

liveVars == <<trip, row, req, ev, faults>>

AllQuiet ==
  /\ \A e \in Event : ev[e].pc = "idle"
  /\ \A r \in Request : req[r].pc = "idle"

SmoothRequest(r) ==
  /\ RequestStep(r)
  /\ req[r].pc = "idle" /\ trip.pdi = 0 => AllQuiet
  /\ req[r].pc \in {"charge", "enqueue"} => req'[r].pc # "abort"

SmoothWorker(e) ==
  /\ WorkerStep(e)
  /\ ev[e].pc = "crew" => ev'[e].pc = "recheck"

\* The Lambda of requests and workers stops after 300 seconds, so the six
\* minutes end when the claim's own request and Events are over.
SmoothAge ==
  /\ Age
  /\ \A e \in Event : ev[e].pc = "idle"
  /\ \A r \in Request : req[r].pc \notin {"charge", "enqueue", "abort"}

Smooth ==
  \/ \E r \in Request : SmoothRequest(r)
  \/ \E e \in Event : SmoothWorker(e)
  \/ SmoothAge
  \/ JobEnds

LiveNext ==
  \/ Smooth /\ UNCHANGED faults
  \/ /\ faults < MaxFaults
     /\ Next
     /\ ~Smooth
     /\ faults' = faults + 1

\* The client asks again while the trip is not complete (the SPA resumes a
\* planning trip, its button sends the request again), Lambda runs what it has
\* accepted, six minutes pass, and crew jobs end.
LiveSpec ==
  /\ Init /\ faults = 0
  /\ [][LiveNext]_liveVars
  /\ \A r \in Request : WF_liveVars(SmoothRequest(r) /\ UNCHANGED faults)
  /\ \A e \in Event : WF_liveVars(SmoothWorker(e) /\ UNCHANGED faults)
  /\ WF_liveVars(SmoothAge /\ UNCHANGED faults)
  /\ WF_liveVars(JobEnds /\ UNCHANGED faults)

-----------------------------------------------------------------------------
\* No failure leaves a claim that nobody can take back: a claim is completed,
\* failed, or cleared by a request that finds it stale.
ClaimIsReleased == trip.pdi # 0 ~> trip.pdi = 0

\* Whatever was lost on the way, every day gets its DAY row: no cursor, status
\* or claim is left behind with which the next request cannot go on.
EveryDayIsWritten == <>(\A d \in Day : Written(d))

\* A DAY before the last one that was written is counted: the cursor passes it,
\* also when its worker died before the completion or had lost the claim.
InnerDayIsCounted ==
  \A d \in Day : d < DayCount => (Written(d) ~> trip.ndi > d)

\* "DAY already present (worker died after Put) - finish cursor without re-crew"
\* (plan_day_jobs.py:249): the same of every day, the last one included.
WrittenDayIsCounted == \A d \in Day : Written(d) ~> trip.ndi > d
=============================================================================
