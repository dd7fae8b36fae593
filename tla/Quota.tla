------------------------------- MODULE Quota -------------------------------
(***************************************************************************)
(* The GenAI quota of one user: counters for the hour and the day          *)
(* (db/repository/usage.py, limits/genai.py), charged by a request before  *)
(* its crew runs and given back when the run cannot be started             *)
(* (trips/plan_day_jobs.py and the starts of the crew jobs).               *)
(***************************************************************************)
EXTENDS Integers, FiniteSets, FiniteSetsExt

CONSTANTS
  Requests,     \* requests that use GenAI
  Hours,        \* bound: the hours that pass
  HoursPerDay,  \* 24
  HourCap,      \* GENAI_CAP_HOUR: 20
  DayCap        \* GENAI_CAP_DAY: 100

ASSUME QuotaAssumption ==
  Hours \in Nat /\ HoursPerDay \in Nat \ {0} /\ HourCap \in Nat /\ DayCap \in Nat

VARIABLES
  hour,         \* the clock, which turns at any time
  used,         \* the hour buckets
  usedDay,      \* the day buckets
  req,          \* the requests: pc, the hour they charge, whether their crew runs
  wrong,        \* ghost: how often a refund took a unit that was not its own, by hour
                \* and by day
  unpaired      \* ghost: the days on which one of two counters missed a step

quotaVars == <<hour, used, usedDay, req, wrong, unpaired>>

Day(h) == h \div HoursPerDay

NewReq == [pc |-> "new", async |-> FALSE, at |-> 0, back |-> 0, runs |-> FALSE, charged |-> FALSE]

QuotaInit ==
  /\ hour = 0
  /\ used = [h \in 0..Hours |-> 0]
  /\ usedDay = [d \in 0..Day(Hours) |-> 0]
  /\ req = [r \in Requests |-> NewReq]
  /\ wrong = [hour |-> [h \in 0..Hours |-> 0], day |-> [d \in 0..Day(Hours) |-> 0]]
  /\ unpaired = {}

Move(r, pc) == req' = [req EXCEPT ![r].pc = pc]
Unpairs(d) == unpaired' = unpaired \cup {d}

Tick == /\ hour < Hours
        /\ hour' = hour + 1
        /\ UNCHANGED <<used, usedDay, req, wrong, unpaired>>

\* consume_genai_action reads the clock once for both counters.
Consume(r) ==
  /\ req[r].pc = "new"
  /\ \E a \in BOOLEAN :
       req' = [req EXCEPT ![r].pc = "hour", ![r].async = a, ![r].at = hour]
  /\ UNCHANGED <<hour, used, usedDay, wrong, unpaired>>

\* Mutant: one more than the cap.
MutBelow(n, cap) == cap > 0 /\ n <= cap

\* _increment_bucket: refused with a cap of zero, or at the cap.
Below(n, cap) == cap > 0 /\ n < cap

\* The hour's counter first.  An error may come after the increment was applied.
AddHour(r) ==
  LET h == req[r].at IN
  /\ req[r].pc = "hour"
  /\ \/ /\ Below(used[h], HourCap)
        /\ used' = [used EXCEPT ![h] = @ + 1]
        /\ Move(r, "day") /\ UNCHANGED unpaired
     \/ ~Below(used[h], HourCap) /\ Move(r, "refused") /\ UNCHANGED <<used, unpaired>>
     \/ Move(r, "error") /\ UNCHANGED <<used, unpaired>>
     \/ /\ Below(used[h], HourCap)
        /\ used' = [used EXCEPT ![h] = @ + 1]
        /\ Move(r, "error") /\ Unpairs(Day(h))
  /\ UNCHANGED <<hour, usedDay, wrong>>

AddDay(r) ==
  LET d == Day(req[r].at) IN
  /\ req[r].pc = "day"
  /\ \/ /\ Below(usedDay[d], DayCap)
        /\ usedDay' = [usedDay EXCEPT ![d] = @ + 1]
        /\ req' = [req EXCEPT ![r].pc = "start", ![r].charged = TRUE]
        /\ UNCHANGED unpaired
     \/ ~Below(usedDay[d], DayCap) /\ Move(r, "undo") /\ UNCHANGED <<usedDay, unpaired>>
     \/ Move(r, "undo") /\ UNCHANGED <<usedDay, unpaired>>
     \/ /\ Below(usedDay[d], DayCap)
        /\ usedDay' = [usedDay EXCEPT ![d] = @ + 1]
        /\ Move(r, "undo") /\ Unpairs(d)
  /\ UNCHANGED <<hour, used, wrong>>

\* _decrement_bucket: best effort, and not below zero.
Decremented(n) == Max({0, n - 1})

\* Mutant: the bucket is the one of the current hour.
MutUndoHour(r) ==
  /\ req[r].pc = "undo"
  /\ used' \in {used, [used EXCEPT ![hour] = Decremented(@)]}
  /\ IF used' = used THEN Unpairs(Day(req[r].at)) ELSE UNCHANGED unpaired
  /\ Move(r, "refused")
  /\ UNCHANGED <<hour, usedDay, wrong>>

\* "Undo hour so counters stay paired".
UndoHour(r) ==
  /\ req[r].pc = "undo"
  /\ used' \in {used, [used EXCEPT ![req[r].at] = Decremented(@)]}
  /\ IF used' = used THEN Unpairs(Day(req[r].at)) ELSE UNCHANGED unpaired
  /\ Move(r, "refused")
  /\ UNCHANGED <<hour, usedDay, wrong>>

\* A synchronous request runs its crew itself.
RunCrew(r) ==
  /\ req[r].pc = "start" /\ ~req[r].async
  /\ req' = [req EXCEPT ![r].pc = "done", ![r].runs = TRUE]
  /\ UNCHANGED <<hour, used, usedDay, wrong, unpaired>>

\* An asynchronous one sends an event to the worker that does.
Enqueue(r) ==
  /\ req[r].pc = "start" /\ req[r].async
  /\ req' = [req EXCEPT ![r].pc = "done", ![r].runs = TRUE]
  /\ UNCHANGED <<hour, used, usedDay, wrong, unpaired>>

\* Sending it raises, though it may have been accepted: the charge is given back.
EnqueueFails(r) ==
  /\ req[r].pc = "start" /\ req[r].async
  /\ \E accepted \in BOOLEAN :
       req' = [req EXCEPT ![r].pc = "refund", ![r].runs = accepted]
  /\ UNCHANGED <<hour, used, usedDay, wrong, unpaired>>

\* refund_genai_windows: the counters of now, which may be of a later hour.  The unit is
\* not r's own when r's crew runs or r was charged to another hour, or day.
RefundHour(r) ==
  /\ req[r].pc = "refund"
  /\ req' = [req EXCEPT ![r].pc = "refundDay", ![r].back = hour]
  /\ used' \in {used, [used EXCEPT ![hour] = Decremented(@)]}
  /\ wrong' = IF used' # used /\ (req[r].runs \/ hour # req[r].at)
              THEN [wrong EXCEPT !.hour[hour] = @ + 1] ELSE wrong
  /\ IF used' = used THEN Unpairs(Day(hour)) ELSE UNCHANGED unpaired
  /\ UNCHANGED <<hour, usedDay>>

RefundDay(r) ==
  LET d == Day(req[r].back) IN
  /\ req[r].pc = "refundDay"
  /\ usedDay' \in {usedDay, [usedDay EXCEPT ![d] = Decremented(@)]}
  /\ wrong' = IF usedDay' # usedDay /\ (req[r].runs \/ d # Day(req[r].at))
              THEN [wrong EXCEPT !.day[d] = @ + 1] ELSE wrong
  /\ IF usedDay' = usedDay THEN Unpairs(d) ELSE UNCHANGED unpaired
  /\ Move(r, "failed")
  /\ UNCHANGED <<hour, used>>

\* The request stops; so does what it would have undone or given back.
Dies(r) ==
  /\ req[r].pc \in {"hour", "day", "undo", "start", "refund", "refundDay"}
  /\ Move(r, "dead")
  /\ CASE req[r].pc \in {"day", "undo"} -> Unpairs(Day(req[r].at))
       [] req[r].pc = "refundDay" -> Unpairs(Day(req[r].back))
       [] OTHER -> UNCHANGED unpaired
  /\ UNCHANGED <<hour, used, usedDay, wrong>>

\* A request finds the claim of one that died, or whose worker did, gone stale: it takes
\* over and is not charged.
Reclaim(r, q) ==
  /\ req[r].pc = "new" /\ req[q].async /\ req[q].pc \in {"dead", "done"}
  /\ req' = [req EXCEPT ![r].pc = "done", ![r].at = hour, ![r].runs = TRUE]
  /\ UNCHANGED <<hour, used, usedDay, wrong, unpaired>>

QuotaNext ==
  \/ Tick
  \/ \E r \in Requests :
       \/ Consume(r) \/ AddHour(r) \/ AddDay(r) \/ UndoHour(r)
       \/ RunCrew(r) \/ Enqueue(r) \/ EnqueueFails(r) \/ RefundHour(r) \/ RefundDay(r) \/ Dies(r)
       \/ \E q \in Requests : Reclaim(r, q)

QuotaSpec == QuotaInit /\ [][QuotaNext]_quotaVars

-----------------------------------------------------------------------------
(* Properties                                                              *)

Runs(h) == { r \in Requests : req[r].runs /\ req[r].charged /\ req[r].at = h }
RunsOn(d) == UNION { Runs(h) : h \in { x \in 0..Hours : Day(x) = d } }

\* "Per-user GenAI action caps (hour + day)": the crews that were charged to an hour or a
\* day are no more than its cap and the refunds that took a unit from it which was not
\* their own: one of a crew that runs though its event seemed lost, or of another hour or
\* day.  Errors, lost answers and deaths let no crew more through.
RunsWithinQuota ==
  /\ \A h \in 0..Hours : Cardinality(Runs(h)) <= HourCap + wrong.hour[h]
  /\ \A d \in 0..Day(Hours) : Cardinality(RunsOn(d)) <= DayCap + wrong.day[d]

\* The same without what is given back wrongly.
QuotaHolds == \A h \in 0..Hours : Cardinality(Runs(h)) <= HourCap

\* The counts of the hours of day d, added up one after the other.
SumOf(counts, d) ==
  LET sum[n \in 0..Hours + 1] ==
        IF n = 0 THEN 0 ELSE sum[n - 1] + (IF Day(n - 1) = d THEN counts[n - 1] ELSE 0)
  IN  sum[Hours + 1]

\* The requests that have charged an hour of day d and not the day, or have it to undo,
\* and those that gave back an hour of day d and not yet the day.
Mid(d) == { r \in Requests : req[r].pc \in {"day", "undo"} /\ Day(req[r].at) = d }
Late(d) == { r \in Requests : req[r].pc = "refundDay" /\ Day(req[r].back) = d }

\* "Undo hour so counters stay paired": at all times the hours of a day and its count
\* differ by what the requests on their way have still to do, whatever was refused, and
\* in whichever hour or day it was given back, until a request dies between the two, an
\* increment is applied whose answer is lost, or a decrement fails or finds a zero.
CountersStayPaired ==
  \A d \in 0..Day(Hours) \ unpaired :
    SumOf(used, d) + Cardinality(Late(d)) = usedDay[d] + Cardinality(Mid(d))
=============================================================================
