--------------------------- MODULE AccountProofs ---------------------------
(***************************************************************************)
(* Proofs about Quota and TripCrud, the two counts of a user that limit    *)
(* what crews may cost.                                                    *)
(*                                                                         *)
(* Quota, for every set of requests, every number of hours and every cap:  *)
(* how many crews an hour and a day can pay for.  A request holds a unit   *)
(* of a counter from the increment to the decrement that gives it back, or *)
(* until its crew runs; only the refund of a unit that is not its own lets *)
(* the counter fall below what it paid for.                                *)
(*                                                                         *)
(* TripCrud, for every set of trips, limit and set of dates: the number of *)
(* trips, and what a trip's status, ROUTE and days have in common while    *)
(* its writers come one after the other, and once a PUT or a confirm has   *)
(* started over.                                                           *)
(***************************************************************************)
EXTENDS Quota, TripCrud, FiniteSetTheorems, TLAPS

-----------------------------------------------------------------------------
(* Quota                                                                   *)


ReqPcs == { "new", "hour", "day", "undo", "start", "refund", "refundDay",
            "refused", "error", "done", "failed", "dead" }

HourRange == 0..Hours
DayRange == 0..Day(Hours)

ReqRows == [ pc : ReqPcs, async : BOOLEAN, at : HourRange, back : HourRange,
             runs : BOOLEAN, charged : BOOLEAN ]

QuotaTypeOK ==
  /\ hour \in HourRange
  /\ used \in [HourRange -> Nat]
  /\ usedDay \in [DayRange -> Nat]
  /\ req \in [Requests -> ReqRows]
  /\ wrong \in [hour : [HourRange -> Nat], day : [DayRange -> Nat]]
  /\ unpaired \in SUBSET DayRange

\* A request whose crew does not run, and that may yet give a unit of its hour back.
HoldsHour(r) ==
  \/ req[r].pc \in {"day", "undo", "start"}
  \/ req[r].pc = "refund" /\ ~req[r].runs

HoldsDay(r) ==
  \/ req[r].pc = "start"
  \/ req[r].pc \in {"refund", "refundDay"} /\ ~req[r].runs

Holding(h) == { r \in Requests : req[r].at = h /\ HoldsHour(r) }
HoldingOn(d) == { r \in Requests : Day(req[r].at) = d /\ HoldsDay(r) }

Paid(d) == { r \in Requests : req[r].runs /\ req[r].charged /\ Day(req[r].at) = d }

\* Whoever has come to the start has been charged; whoever has not does not run a
\* crew of the quota.
ChargedFirst ==
  \A r \in Requests :
    /\ req[r].pc \in {"start", "refund", "refundDay"} => req[r].charged
    /\ req[r].pc \in {"new", "hour", "day"} => ~req[r].charged
    /\ req[r].pc \in {"new", "hour", "day", "undo", "start"} => ~req[r].runs

HourKept(h) ==
  /\ used[h] <= HourCap
  /\ IsFiniteSet(Runs(h)) /\ IsFiniteSet(Holding(h))
  /\ Cardinality(Runs(h)) + Cardinality(Holding(h)) <= used[h] + wrong.hour[h]

DayKept(d) ==
  /\ usedDay[d] <= DayCap
  /\ IsFiniteSet(Paid(d)) /\ IsFiniteSet(HoldingOn(d))
  /\ Cardinality(Paid(d)) + Cardinality(HoldingOn(d)) <= usedDay[d] + wrong.day[d]

QuotaInv ==
  /\ QuotaTypeOK
  /\ ChargedFirst
  /\ \A h \in HourRange : HourKept(h)
  /\ \A d \in DayRange : DayKept(d)

\* Every hour belongs to a day that is counted.
LEMMA DaysInRange == \A h \in HourRange : Day(h) \in DayRange
  BY QuotaAssumption DEF HourRange, DayRange, Day

-----------------------------------------------------------------------------
(* Counting.                                                               *)

One(b) == IF b THEN 1 ELSE 0

\* Two sets that differ in one element at most.
LEMMA OneApart ==
  ASSUME NEW S, NEW T, NEW x, IsFiniteSet(S), T \ {x} = S \ {x}
  PROVE  /\ IsFiniteSet(T)
         /\ Cardinality(S) \in Nat /\ Cardinality(T) \in Nat
         /\ Cardinality(T) + One(x \in S) = Cardinality(S) + One(x \in T)
<1>1. T \subseteq S \cup {x} /\ IsFiniteSet(S \cup {x})
  BY FS_AddElement
<1>2. IsFiniteSet(T)
  BY <1>1, FS_Subset
<1>3. Cardinality(S) \in Nat /\ Cardinality(T) \in Nat
  BY <1>2, FS_CardinalityType
<1>4. Cardinality(S \ {x}) = Cardinality(S) - One(x \in S)
  BY <1>3, FS_RemoveElement DEF One
<1>5. Cardinality(T \ {x}) = Cardinality(T) - One(x \in T)
  BY <1>2, <1>3, FS_RemoveElement DEF One
<1>6. QED
  BY <1>2, <1>3, <1>4, <1>5 DEF One

\* How often request r is among those that an hour's or a day's counter paid for.
HourWeight(r, h) ==
  One(req[r].runs /\ req[r].charged /\ req[r].at = h) + One(req[r].at = h /\ HoldsHour(r))

DayWeight(r, d) ==
  One(req[r].runs /\ req[r].charged /\ Day(req[r].at) = d)
  + One(Day(req[r].at) = d /\ HoldsDay(r))

Others(r) == \A q \in Requests \ {r} : req'[q] = req[q]

\* An hour stays accounted for when r's weight in it grows by no more than its
\* counter and what was taken from it wrongly do.
LEMMA HourStep ==
  ASSUME QuotaTypeOK, QuotaTypeOK', NEW r \in Requests, NEW h \in HourRange, HourKept(h),
         Others(r), used'[h] <= HourCap,
         HourWeight(r, h)' + used[h] + wrong.hour[h]
           <= HourWeight(r, h) + used'[h] + wrong'.hour[h]
  PROVE  HourKept(h)'
<1>1. Runs(h)' \ {r} = Runs(h) \ {r} /\ Holding(h)' \ {r} = Holding(h) \ {r}
  BY DEF Runs, Holding, HoldsHour, Others
<1>2. /\ IsFiniteSet(Runs(h)')
      /\ Cardinality(Runs(h)) \in Nat /\ Cardinality(Runs(h)') \in Nat
      /\ Cardinality(Runs(h)') + One(r \in Runs(h))
           = Cardinality(Runs(h)) + One(r \in Runs(h)')
  BY <1>1, OneApart DEF HourKept
<1>3. /\ IsFiniteSet(Holding(h)')
      /\ Cardinality(Holding(h)) \in Nat /\ Cardinality(Holding(h)') \in Nat
      /\ Cardinality(Holding(h)') + One(r \in Holding(h))
           = Cardinality(Holding(h)) + One(r \in Holding(h)')
  BY <1>1, OneApart DEF HourKept
<1>4. /\ used[h] \in Nat /\ used'[h] \in Nat
      /\ wrong.hour[h] \in Nat /\ wrong'.hour[h] \in Nat
  BY DEF QuotaTypeOK
<1>5. Cardinality(Runs(h)) + Cardinality(Holding(h)) <= used[h] + wrong.hour[h]
  BY DEF HourKept
<1>6. /\ HourWeight(r, h) = One(r \in Runs(h)) + One(r \in Holding(h))
      /\ HourWeight(r, h)' = One(r \in Runs(h)') + One(r \in Holding(h)')
  BY DEF HourWeight, Runs, Holding, One
<1>7. Cardinality(Runs(h)') + Cardinality(Holding(h)') <= used'[h] + wrong'.hour[h]
  BY <1>2, <1>3, <1>4, <1>5, <1>6 DEF One
<1>8. QED
  BY <1>2, <1>3, <1>7 DEF HourKept

\* The same for a day.
LEMMA DayStep ==
  ASSUME QuotaTypeOK, QuotaTypeOK', NEW r \in Requests, NEW d \in DayRange, DayKept(d),
         Others(r), usedDay'[d] <= DayCap,
         DayWeight(r, d)' + usedDay[d] + wrong.day[d]
           <= DayWeight(r, d) + usedDay'[d] + wrong'.day[d]
  PROVE  DayKept(d)'
<1>1. Paid(d)' \ {r} = Paid(d) \ {r} /\ HoldingOn(d)' \ {r} = HoldingOn(d) \ {r}
  BY DEF Paid, HoldingOn, HoldsDay, Others
<1>2. /\ IsFiniteSet(Paid(d)')
      /\ Cardinality(Paid(d)) \in Nat /\ Cardinality(Paid(d)') \in Nat
      /\ Cardinality(Paid(d)') + One(r \in Paid(d))
           = Cardinality(Paid(d)) + One(r \in Paid(d)')
  BY <1>1, OneApart DEF DayKept
<1>3. /\ IsFiniteSet(HoldingOn(d)')
      /\ Cardinality(HoldingOn(d)) \in Nat /\ Cardinality(HoldingOn(d)') \in Nat
      /\ Cardinality(HoldingOn(d)') + One(r \in HoldingOn(d))
           = Cardinality(HoldingOn(d)) + One(r \in HoldingOn(d)')
  BY <1>1, OneApart DEF DayKept
<1>4. /\ usedDay[d] \in Nat /\ usedDay'[d] \in Nat
      /\ wrong.day[d] \in Nat /\ wrong'.day[d] \in Nat
  BY DEF QuotaTypeOK
<1>5. Cardinality(Paid(d)) + Cardinality(HoldingOn(d)) <= usedDay[d] + wrong.day[d]
  BY DEF DayKept
<1>6. /\ DayWeight(r, d) = One(r \in Paid(d)) + One(r \in HoldingOn(d))
      /\ DayWeight(r, d)' = One(r \in Paid(d)') + One(r \in HoldingOn(d)')
  BY DEF DayWeight, Paid, HoldingOn, One
<1>7. Cardinality(Paid(d)') + Cardinality(HoldingOn(d)') <= usedDay'[d] + wrong'.day[d]
  BY <1>2, <1>3, <1>4, <1>5, <1>6 DEF One
<1>8. QED
  BY <1>2, <1>3, <1>7 DEF DayKept

Charged(r) ==
  /\ req[r].pc \in {"start", "refund", "refundDay"} => req[r].charged
  /\ req[r].pc \in {"new", "hour", "day"} => ~req[r].charged
  /\ req[r].pc \in {"new", "hour", "day", "undo", "start"} => ~req[r].runs

\* A step of request r keeps the invariant when what r weighs on every counter grows no
\* more than the counter and what was taken from it wrongly do.
LEMMA WeightedStep ==
  ASSUME QuotaInv, QuotaTypeOK', NEW r \in Requests, Others(r), Charged(r)',
         \A h \in HourRange :
           /\ used'[h] <= HourCap
           /\ HourWeight(r, h)' + used[h] + wrong.hour[h]
                <= HourWeight(r, h) + used'[h] + wrong'.hour[h],
         \A d \in DayRange :
           /\ usedDay'[d] <= DayCap
           /\ DayWeight(r, d)' + usedDay[d] + wrong.day[d]
                <= DayWeight(r, d) + usedDay'[d] + wrong'.day[d]
  PROVE  QuotaInv'
<1>1. ChargedFirst'
  BY DEF QuotaInv, ChargedFirst, Charged, Others
<1>2. \A h \in HourRange : HourKept(h)'
  BY HourStep DEF QuotaInv
<1>3. \A d \in DayRange : DayKept(d)'
  BY DayStep DEF QuotaInv
<1>4. QED
  BY <1>1, <1>2, <1>3 DEF QuotaInv, HourRange, DayRange

-----------------------------------------------------------------------------
(* What a step writes.                                                     *)

\* Move changes r's place in its handler and nothing else of any request.
LEMMA Moves ==
  ASSUME QuotaTypeOK, NEW r \in Requests, NEW pc \in ReqPcs, Move(r, pc)
  PROVE  /\ req' \in [Requests -> ReqRows] /\ Others(r)
         /\ req'[r].pc = pc
         /\ req'[r].async = req[r].async /\ req'[r].at = req[r].at
         /\ req'[r].back = req[r].back
         /\ req'[r].runs = req[r].runs /\ req'[r].charged = req[r].charged
<1> DEFINE q == [req[r] EXCEPT !.pc = pc]
<1>1. /\ q \in ReqRows /\ q.pc = pc
      /\ q.async = req[r].async /\ q.at = req[r].at /\ q.back = req[r].back
      /\ q.runs = req[r].runs /\ q.charged = req[r].charged
  BY DEF QuotaTypeOK, ReqRows
<1>2. req' = [req EXCEPT ![r] = q]
  BY DEF Move
<1> HIDE DEF q
<1>3. req'[r] = q /\ Others(r) /\ req' \in [Requests -> ReqRows]
  BY <1>1, <1>2 DEF QuotaTypeOK, Others
<1>4. QED
  BY <1>1, <1>3

\* A write of r's record leaves the other requests alone.
LEMMA Writes ==
  ASSUME QuotaTypeOK, NEW r \in Requests, NEW q \in ReqRows, req' = [req EXCEPT ![r] = q]
  PROVE  req' \in [Requests -> ReqRows] /\ Others(r) /\ req'[r] = q
  BY DEF QuotaTypeOK, Others

Counts == [hour : [HourRange -> Nat], day : [DayRange -> Nat]]

\* A refund of hour h, or of day d, that took a unit of another counts once.
LEMMA WrongHour ==
  ASSUME QuotaTypeOK, NEW h \in HourRange, wrong' = [wrong EXCEPT !.hour[h] = @ + 1]
  PROVE  /\ wrong' \in Counts
         /\ \A k \in HourRange : wrong'.hour[k] = wrong.hour[k] + One(k = h)
         /\ \A d \in DayRange : wrong'.day[d] = wrong.day[d]
<1> DEFINE H == [wrong.hour EXCEPT ![h] = @ + 1]
<1>1. H \in [HourRange -> Nat] /\ \A k \in HourRange : H[k] = wrong.hour[k] + One(k = h)
  BY DEF QuotaTypeOK, One
<1>2. wrong' = [wrong EXCEPT !.hour = H]
  OBVIOUS
<1> HIDE DEF H
<1>3. wrong'.hour = H /\ wrong'.day = wrong.day /\ wrong' \in Counts
  BY <1>1, <1>2 DEF QuotaTypeOK, Counts
<1>4. QED
  BY <1>1, <1>3

LEMMA WrongDay ==
  ASSUME QuotaTypeOK, NEW e \in DayRange, wrong' = [wrong EXCEPT !.day[e] = @ + 1]
  PROVE  /\ wrong' \in Counts
         /\ \A h \in HourRange : wrong'.hour[h] = wrong.hour[h]
         /\ \A d \in DayRange : wrong'.day[d] = wrong.day[d] + One(d = e)
<1> DEFINE D == [wrong.day EXCEPT ![e] = @ + 1]
<1>1. D \in [DayRange -> Nat] /\ \A d \in DayRange : D[d] = wrong.day[d] + One(d = e)
  BY DEF QuotaTypeOK, One
<1>2. wrong' = [wrong EXCEPT !.day = D]
  OBVIOUS
<1> HIDE DEF D
<1>3. wrong'.day = D /\ wrong'.hour = wrong.hour /\ wrong' \in Counts
  BY <1>1, <1>2 DEF QuotaTypeOK, Counts
<1>4. QED
  BY <1>1, <1>3

\* _decrement_bucket leaves a counter as it is, or takes one from it.
LEMMA Lowers ==
  ASSUME NEW S, NEW f \in [S -> Nat], NEW x \in S, NEW g,
         g \in {f, [f EXCEPT ![x] = Decremented(@)]}
  PROVE  /\ g \in [S -> Nat]
         /\ g # f => \A y \in S : f[y] = g[y] + One(y = x)
<1> DEFINE m == IF f[x] = 0 THEN 0 ELSE f[x] - 1
<1>1. m \in {0, f[x] - 1} /\ \A y \in {0, f[x] - 1} : m >= y
  OBVIOUS
<1>2. \A z \in {0, f[x] - 1} : (\A y \in {0, f[x] - 1} : z >= y) => z = m
  OBVIOUS
<1>3. Decremented(f[x]) = m
  BY <1>1, <1>2 DEF Decremented, Max
<1>4. CASE g = f
  BY <1>4
<1>5. CASE g = [f EXCEPT ![x] = Decremented(@)]
  <2>1. g = [f EXCEPT ![x] = m]
    BY <1>3, <1>5
  <2>2. CASE f[x] = 0
    BY <2>1, <2>2
  <2>3. CASE f[x] # 0
    BY <2>1, <2>3 DEF One
  <2>4. QED
    BY <2>2, <2>3
<1>6. QED
  BY <1>4, <1>5

-----------------------------------------------------------------------------
(* The steps of a request.                                                 *)

Row(r) == req[r] \in ReqRows

\* What the invariant says of one request and of the counters.
LEMMA Rows ==
  ASSUME QuotaInv, NEW r \in Requests
  PROVE  /\ QuotaTypeOK /\ Charged(r) /\ Row(r)
         /\ Day(req[r].at) \in DayRange /\ Day(req[r].back) \in DayRange /\ Day(hour) \in DayRange
         /\ \A h \in HourRange : used[h] \in Nat /\ used[h] <= HourCap /\ wrong.hour[h] \in Nat
         /\ \A d \in DayRange :
              usedDay[d] \in Nat /\ usedDay[d] <= DayCap /\ wrong.day[d] \in Nat
<1>1. QuotaTypeOK /\ Charged(r) /\ Row(r)
  BY DEF QuotaInv, ChargedFirst, Charged, QuotaTypeOK, Row
<1>2. req[r].at \in HourRange /\ req[r].back \in HourRange /\ hour \in HourRange
  BY <1>1 DEF Row, ReqRows, QuotaTypeOK
<1>3. QED
  BY <1>1, <1>2, DaysInRange DEF QuotaInv, QuotaTypeOK, HourKept, DayKept

\* Steps that take nothing wrongly keep the count of that; one may leave a day unpaired.
LEMMA GhostsTyped ==
  ASSUME QuotaTypeOK, UNCHANGED wrong \/ wrong' \in Counts,
         UNCHANGED unpaired \/ \E d \in DayRange : Unpairs(d)
  PROVE  /\ wrong' \in [hour : [HourRange -> Nat], day : [DayRange -> Nat]]
         /\ unpaired' \in SUBSET DayRange
  BY DEF QuotaTypeOK, Counts, Unpairs

\* A step that leaves the counters alone keeps the invariant if r weighs no more after it.
LEMMA LighterStep ==
  ASSUME QuotaInv, QuotaTypeOK', NEW r \in Requests, Others(r), Charged(r)',
         UNCHANGED <<used, usedDay, wrong>>,
         \A h \in HourRange : /\ HourWeight(r, h) \in Nat /\ HourWeight(r, h)' \in Nat
                              /\ HourWeight(r, h)' <= HourWeight(r, h),
         \A d \in DayRange : /\ DayWeight(r, d) \in Nat /\ DayWeight(r, d)' \in Nat
                             /\ DayWeight(r, d)' <= DayWeight(r, d)
  PROVE  QuotaInv'
<1>1. ASSUME NEW h \in HourRange
      PROVE  /\ used'[h] <= HourCap
             /\ HourWeight(r, h)' + used[h] + wrong.hour[h]
                  <= HourWeight(r, h) + used'[h] + wrong'.hour[h]
  BY Rows
<1>2. ASSUME NEW d \in DayRange
      PROVE  /\ usedDay'[d] <= DayCap
             /\ DayWeight(r, d)' + usedDay[d] + wrong.day[d]
                  <= DayWeight(r, d) + usedDay'[d] + wrong'.day[d]
  BY Rows
<1>3. QED
  BY <1>1, <1>2, WeightedStep

\* Before the first counter, and for a request that takes over a stale claim.
LEMMA BeginsKept ==
  ASSUME QuotaInv, NEW r \in Requests, Consume(r) \/ \E q \in Requests : Reclaim(r, q)
  PROVE  QuotaInv'
<1>1. /\ QuotaTypeOK /\ Charged(r) /\ Row(r) /\ req[r].pc = "new"
      /\ UNCHANGED <<hour, used, usedDay, wrong, unpaired>>
  BY Rows DEF Consume, Reclaim
<1>2. ~req[r].runs /\ ~req[r].charged
  BY <1>1 DEF Charged
<1>3. \E w \in ReqRows :
        /\ req' = [req EXCEPT ![r] = w]
        /\ w.pc \in {"hour", "done"} /\ ~w.charged /\ (w.pc = "hour" => ~w.runs)
  <2>1. CASE Consume(r)
    <3>1. PICK a \in BOOLEAN :
            req' = [req EXCEPT ![r].pc = "hour", ![r].async = a, ![r].at = hour]
      BY <2>1 DEF Consume
    <3> DEFINE w == [req[r] EXCEPT !.pc = "hour", !.async = a, !.at = hour]
    <3>2. w \in ReqRows /\ w.pc = "hour" /\ ~w.charged /\ ~w.runs
      BY <1>1, <1>2 DEF Row, ReqRows, ReqPcs, QuotaTypeOK
    <3>3. req' = [req EXCEPT ![r] = w]
      BY <3>1
    <3> HIDE DEF w
    <3>4. QED
      BY <3>2, <3>3
  <2>2. CASE \E q \in Requests : Reclaim(r, q)
    <3> DEFINE w == [req[r] EXCEPT !.pc = "done", !.at = hour, !.runs = TRUE]
    <3>1. w \in ReqRows /\ w.pc = "done" /\ ~w.charged
      BY <1>1, <1>2 DEF Row, ReqRows, ReqPcs, QuotaTypeOK
    <3>2. req' = [req EXCEPT ![r] = w]
      BY <2>2 DEF Reclaim
    <3> HIDE DEF w
    <3>3. QED
      BY <3>1, <3>2
  <2>3. QED
    BY <2>1, <2>2
<1>4. PICK w \in ReqRows :
        /\ req' = [req EXCEPT ![r] = w]
        /\ w.pc \in {"hour", "done"} /\ ~w.charged /\ (w.pc = "hour" => ~w.runs)
  BY <1>3
<1>5. req' \in [Requests -> ReqRows] /\ Others(r) /\ req'[r] = w
  BY <1>1, <1>4, Writes
<1>6. QuotaTypeOK' /\ Charged(r)'
  BY <1>1, <1>4, <1>5 DEF QuotaTypeOK, HourRange, DayRange, Charged
<1>7. \A h \in HourRange : HourWeight(r, h)' = 0 /\ HourWeight(r, h) = 0
  BY <1>1, <1>2, <1>4, <1>5 DEF HourWeight, HoldsHour, One
<1>8. \A d \in DayRange : DayWeight(r, d)' = 0 /\ DayWeight(r, d) = 0
  BY <1>1, <1>2, <1>4, <1>5 DEF DayWeight, HoldsDay, One
<1>9. QED
  BY <1>1, <1>5, <1>6, <1>7, <1>8, LighterStep

\* The hour's counter is charged first: what the request holds then is one of its units.
LEMMA AddHourKept == ASSUME QuotaInv, NEW r \in Requests, AddHour(r) PROVE QuotaInv'
<1> DEFINE at == req[r].at
<1>1. /\ QuotaTypeOK /\ Charged(r) /\ Row(r) /\ req[r].pc = "hour" /\ at \in HourRange
      /\ Day(at) \in DayRange /\ UNCHANGED <<hour, usedDay, wrong>>
  BY Rows DEF AddHour, Row, ReqRows
<1>2. ~req[r].runs /\ ~req[r].charged
  BY <1>1 DEF Charged
<1>3. UNCHANGED unpaired \/ Unpairs(Day(at))
  BY DEF AddHour
<1>4. wrong' \in [hour : [HourRange -> Nat], day : [DayRange -> Nat]]
      /\ unpaired' \in SUBSET DayRange
  BY <1>1, <1>3, GhostsTyped
<1>5. ASSUME NEW pc \in {"day", "refused", "error"}, Move(r, pc)
      PROVE  /\ req' \in [Requests -> ReqRows] /\ Others(r) /\ Charged(r)'
             /\ \A h \in HourRange : /\ HourWeight(r, h) = 0
                                     /\ HourWeight(r, h)' = One(h = at /\ pc = "day")
             /\ \A d \in DayRange : DayWeight(r, d)' = 0 /\ DayWeight(r, d) = 0
  <2>1. /\ req' \in [Requests -> ReqRows] /\ Others(r)
        /\ req'[r].pc = pc /\ req'[r].at = at /\ ~req'[r].runs /\ ~req'[r].charged
    BY <1>1, <1>2, <1>5, Moves DEF ReqPcs
  <2>2. QED
    BY <1>1, <1>2, <2>1 DEF Charged, HourWeight, DayWeight, HoldsHour, HoldsDay, One
<1>6. CASE UNCHANGED used /\ (Move(r, "refused") \/ Move(r, "error"))
  <2>1. QuotaTypeOK'
    BY <1>1, <1>4, <1>5, <1>6 DEF QuotaTypeOK, HourRange, DayRange
  <2>2. QED
    BY <1>1, <1>5, <1>6, <2>1, LighterStep DEF One
<1>7. CASE /\ Below(used[at], HourCap) /\ used' = [used EXCEPT ![at] = @ + 1]
           /\ Move(r, "day") \/ Move(r, "error")
  <2>1. /\ used' \in [HourRange -> Nat]
        /\ \A h \in HourRange : used'[h] = used[h] + One(h = at) /\ used'[h] <= HourCap
    BY <1>1, <1>7, Rows, QuotaAssumption DEF QuotaTypeOK, Below, One
  <2>2. QuotaTypeOK'
    BY <1>1, <1>4, <1>5, <1>7, <2>1 DEF QuotaTypeOK, HourRange, DayRange
  <2>3. /\ Others(r) /\ Charged(r)'
        /\ \A h \in HourRange : /\ HourWeight(r, h) = 0
                                /\ HourWeight(r, h)' \in {0, One(h = at)}
        /\ \A d \in DayRange : DayWeight(r, d)' = 0 /\ DayWeight(r, d) = 0
    BY <1>5, <1>7 DEF One
  <2>4. ASSUME NEW h \in HourRange
        PROVE  HourWeight(r, h)' + used[h] + wrong.hour[h]
                 <= HourWeight(r, h) + used'[h] + wrong'.hour[h]
    BY <1>1, <2>1, <2>3, Rows DEF One
  <2>5. ASSUME NEW d \in DayRange
        PROVE  /\ usedDay'[d] <= DayCap
               /\ DayWeight(r, d)' + usedDay[d] + wrong.day[d]
                    <= DayWeight(r, d) + usedDay'[d] + wrong'.day[d]
    BY <1>1, <2>3, Rows
  <2>6. QED
    BY <2>1, <2>2, <2>3, <2>4, <2>5, WeightedStep
<1>8. QED
  BY <1>6, <1>7 DEF AddHour

\* Then the day's; without it the hour's unit has to be given back.
LEMMA AddDayKept == ASSUME QuotaInv, NEW r \in Requests, AddDay(r) PROVE QuotaInv'
<1> DEFINE at == req[r].at
<1>1. /\ QuotaTypeOK /\ Charged(r) /\ Row(r) /\ req[r].pc = "day"
      /\ at \in HourRange /\ Day(at) \in DayRange
      /\ UNCHANGED <<hour, used, wrong>>
  BY Rows DEF AddDay, Row, ReqRows
<1>2. ~req[r].runs /\ ~req[r].charged
  BY <1>1 DEF Charged
<1>3. UNCHANGED unpaired \/ Unpairs(Day(at))
  BY DEF AddDay
<1>4. wrong' \in [hour : [HourRange -> Nat], day : [DayRange -> Nat]]
      /\ unpaired' \in SUBSET DayRange
  BY <1>1, <1>3, GhostsTyped
<1>5. \/ UNCHANGED usedDay /\ Move(r, "undo")
      \/ /\ Below(usedDay[Day(at)], DayCap)
         /\ usedDay' = [usedDay EXCEPT ![Day(at)] = @ + 1]
         /\ \/ req' = [req EXCEPT ![r].pc = "start", ![r].charged = TRUE]
            \/ Move(r, "undo")
  BY DEF AddDay
<1>6. /\ usedDay' \in [DayRange -> Nat]
      /\ \A d \in DayRange : usedDay'[d] >= usedDay[d] /\ usedDay'[d] <= DayCap
      /\ \/ Move(r, "undo")
         \/ /\ req' = [req EXCEPT ![r].pc = "start", ![r].charged = TRUE]
            /\ \A d \in DayRange : usedDay'[d] = usedDay[d] + One(d = Day(at))
  BY <1>1, <1>5, Rows, QuotaAssumption DEF QuotaTypeOK, Below, One
<1>7. CASE Move(r, "undo")
  <2>1. /\ req' \in [Requests -> ReqRows] /\ Others(r)
        /\ req'[r].pc = "undo" /\ req'[r].at = at /\ ~req'[r].runs /\ ~req'[r].charged
    BY <1>1, <1>2, <1>7, Moves DEF ReqPcs
  <2>2. QuotaTypeOK' /\ Charged(r)'
    BY <1>1, <1>4, <1>6, <2>1 DEF QuotaTypeOK, HourRange, DayRange, Charged
  <2>3. /\ \A h \in HourRange : HourWeight(r, h)' = One(h = at) /\ HourWeight(r, h) = One(h = at)
        /\ \A d \in DayRange : DayWeight(r, d)' = 0 /\ DayWeight(r, d) = 0
    BY <1>1, <1>2, <2>1 DEF HourWeight, DayWeight, HoldsHour, HoldsDay, One
  <2>4. QED
    BY <1>1, <1>6, <2>1, <2>2, <2>3, Rows, WeightedStep DEF One
<1>8. CASE /\ req' = [req EXCEPT ![r].pc = "start", ![r].charged = TRUE]
           /\ \A d \in DayRange : usedDay'[d] = usedDay[d] + One(d = Day(at))
  <2> DEFINE w == [req[r] EXCEPT !.pc = "start", !.charged = TRUE]
  <2>1. w \in ReqRows /\ w.pc = "start" /\ w.charged /\ ~w.runs /\ w.at = at
    BY <1>1, <1>2 DEF Row, ReqRows, ReqPcs
  <2>2. req' = [req EXCEPT ![r] = w]
    BY <1>8
  <2> HIDE DEF w
  <2>3. req' \in [Requests -> ReqRows] /\ Others(r) /\ req'[r] = w
    BY <1>1, <2>1, <2>2, Writes
  <2>4. QuotaTypeOK' /\ Charged(r)'
    BY <1>1, <1>4, <1>6, <2>1, <2>3 DEF QuotaTypeOK, HourRange, DayRange, Charged
  <2>5. /\ \A h \in HourRange : HourWeight(r, h)' = One(h = at) /\ HourWeight(r, h) = One(h = at)
        /\ \A d \in DayRange : DayWeight(r, d)' = One(d = Day(at)) /\ DayWeight(r, d) = 0
    BY <1>1, <1>2, <2>1, <2>3 DEF HourWeight, DayWeight, HoldsHour, HoldsDay, One
  <2>6. QED
    BY <1>1, <1>6, <1>8, <2>3, <2>4, <2>5, Rows, WeightedStep DEF One
<1>9. QED
  BY <1>6, <1>7, <1>8

\* A refused request gives the hour's unit back, or it stays counted.
LEMMA UndoHourKept == ASSUME QuotaInv, NEW r \in Requests, UndoHour(r) PROVE QuotaInv'
<1> DEFINE at == req[r].at
<1>1. /\ QuotaTypeOK /\ Charged(r) /\ Row(r) /\ req[r].pc = "undo"
      /\ at \in HourRange /\ Day(at) \in DayRange
      /\ UNCHANGED <<hour, usedDay, wrong>> /\ Move(r, "refused")
  BY Rows DEF UndoHour, Row, ReqRows
<1>2. ~req[r].runs
  BY <1>1 DEF Charged
<1>3. /\ req' \in [Requests -> ReqRows] /\ Others(r)
      /\ req'[r].pc = "refused" /\ req'[r].at = at /\ ~req'[r].runs
  BY <1>1, <1>2, Moves DEF ReqPcs
<1>4. /\ \A h \in HourRange : HourWeight(r, h)' = 0 /\ HourWeight(r, h) = One(h = at)
      /\ \A d \in DayRange : DayWeight(r, d)' = 0 /\ DayWeight(r, d) = 0
  BY <1>1, <1>2, <1>3 DEF HourWeight, DayWeight, HoldsHour, HoldsDay, One
<1>5. UNCHANGED unpaired \/ Unpairs(Day(at))
  BY DEF UndoHour
<1>6. wrong' \in [hour : [HourRange -> Nat], day : [DayRange -> Nat]]
      /\ unpaired' \in SUBSET DayRange
  BY <1>1, <1>5, GhostsTyped
<1>7. /\ used' \in [HourRange -> Nat]
      /\ used' # used => \A h \in HourRange : used[h] = used'[h] + One(h = at)
  <2>1. used \in [HourRange -> Nat] /\ used' \in {used, [used EXCEPT ![at] = Decremented(@)]}
    BY <1>1 DEF UndoHour, QuotaTypeOK
  <2> HIDE DEF at
  <2>2. QED
    BY <1>1, <2>1, Lowers
<1>8. QuotaTypeOK' /\ Charged(r)'
  BY <1>1, <1>3, <1>6, <1>7 DEF QuotaTypeOK, HourRange, DayRange, Charged
<1>9. \A h \in HourRange : /\ used'[h] <= HourCap
                           /\ HourWeight(r, h)' + used[h] + wrong.hour[h]
                                <= HourWeight(r, h) + used'[h] + wrong'.hour[h]
  <2> TAKE h \in HourRange
  <2>1. used[h] \in Nat /\ used'[h] \in Nat /\ used[h] <= HourCap /\ HourCap \in Nat
        /\ wrong.hour[h] \in Nat /\ wrong'.hour[h] = wrong.hour[h]
    BY <1>1, <1>7, Rows, QuotaAssumption
  <2>2. used[h] = used'[h] \/ used[h] = used'[h] + One(h = at)
    BY <1>7
  <2>3. HourWeight(r, h)' = 0 /\ HourWeight(r, h) = One(h = at)
    BY <1>4
  <2>4. QED
    BY <2>1, <2>2, <2>3 DEF One
<1>10. QED
  BY <1>1, <1>3, <1>4, <1>8, <1>9, Rows, WeightedStep

\* A crew that runs keeps the units that its request holds, also when its event may have
\* been accepted after all.
LEMMA StartsKept ==
  ASSUME QuotaInv, NEW r \in Requests, RunCrew(r) \/ Enqueue(r) \/ EnqueueFails(r)
  PROVE  QuotaInv'
<1> DEFINE at == req[r].at
<1>1. /\ QuotaTypeOK /\ Charged(r) /\ Row(r) /\ req[r].pc = "start"
      /\ at \in HourRange /\ UNCHANGED <<hour, used, usedDay, wrong, unpaired>>
  BY Rows DEF RunCrew, Enqueue, EnqueueFails, Row, ReqRows
<1>2. ~req[r].runs /\ req[r].charged
  BY <1>1 DEF Charged
<1>3. \E pc \in {"done", "refund"}, b \in BOOLEAN :
        /\ req' = [req EXCEPT ![r].pc = pc, ![r].runs = b]
        /\ pc = "done" => b
  BY DEF RunCrew, Enqueue, EnqueueFails
<1>4. PICK pc \in {"done", "refund"}, b \in BOOLEAN :
        /\ req' = [req EXCEPT ![r].pc = pc, ![r].runs = b]
        /\ pc = "done" => b
  BY <1>3
<1> DEFINE w == [req[r] EXCEPT !.pc = pc, !.runs = b]
<1>5. w \in ReqRows /\ w.pc = pc /\ w.charged /\ w.runs = b /\ w.at = at
  BY <1>1, <1>2 DEF Row, ReqRows, ReqPcs
<1>6. req' = [req EXCEPT ![r] = w]
  BY <1>4
<1> HIDE DEF w
<1>7. req' \in [Requests -> ReqRows] /\ Others(r) /\ req'[r] = w
  BY <1>1, <1>5, <1>6, Writes
<1>8. QuotaTypeOK' /\ Charged(r)'
  BY <1>1, <1>5, <1>7 DEF QuotaTypeOK, HourRange, DayRange, Charged
<1>9. /\ \A h \in HourRange : HourWeight(r, h) = One(h = at) /\ HourWeight(r, h)' = One(h = at)
      /\ \A d \in DayRange : /\ DayWeight(r, d) = One(d = Day(at))
                             /\ DayWeight(r, d)' = One(d = Day(at))
  BY <1>1, <1>2, <1>4, <1>5, <1>7 DEF HourWeight, DayWeight, HoldsHour, HoldsDay, One
<1>10. QED
  BY <1>1, <1>7, <1>8, <1>9, LighterStep DEF One

\* A refund lowers the counter of the hour it is made in; that takes the unit of another
\* when the crew of r runs, or r was charged to an earlier hour.
LEMMA RefundHourKept == ASSUME QuotaInv, NEW r \in Requests, RefundHour(r) PROVE QuotaInv'
<1> DEFINE at == req[r].at
           Own == ~req[r].runs /\ hour = at
<1>1. /\ QuotaTypeOK /\ Charged(r) /\ Row(r) /\ req[r].pc = "refund"
      /\ at \in HourRange /\ hour \in HourRange /\ Day(hour) \in DayRange
      /\ UNCHANGED <<hour, usedDay>>
  BY Rows DEF RefundHour, Row, ReqRows, QuotaTypeOK
<1> DEFINE w == [req[r] EXCEPT !.pc = "refundDay", !.back = hour]
<1>2. /\ w \in ReqRows /\ w.pc = "refundDay" /\ w.at = at /\ w.back = hour
      /\ w.charged = req[r].charged /\ w.runs = req[r].runs
  BY <1>1 DEF Row, ReqRows, ReqPcs
<1>3. req' = [req EXCEPT ![r] = w]
  BY DEF RefundHour
<1> HIDE DEF w
<1>4. req' \in [Requests -> ReqRows] /\ Others(r) /\ req'[r] = w
  BY <1>1, <1>2, <1>3, Writes
<1>5. /\ used' \in [HourRange -> Nat]
      /\ used' # used => \A h \in HourRange : used[h] = used'[h] + One(h = hour)
  <2>1. used \in [HourRange -> Nat] /\ used' \in {used, [used EXCEPT ![hour] = Decremented(@)]}
    BY <1>1 DEF RefundHour, QuotaTypeOK
  <2>2. QED
    BY <1>1, <2>1, Lowers
<1>6. /\ wrong' \in Counts
      /\ \A d \in DayRange : wrong'.day[d] = wrong.day[d]
      /\ IF used' # used /\ ~Own
         THEN \A h \in HourRange : wrong'.hour[h] = wrong.hour[h] + One(h = hour)
         ELSE \A h \in HourRange : wrong'.hour[h] = wrong.hour[h]
  <2>1. CASE used' # used /\ ~Own
    <3>1. wrong' = [wrong EXCEPT !.hour[hour] = @ + 1]
      BY <2>1 DEF RefundHour
    <3>2. QED
      BY <1>1, <2>1, <3>1, WrongHour
  <2>2. CASE ~(used' # used /\ ~Own)
    <3>1. UNCHANGED wrong
      BY <2>2 DEF RefundHour
    <3>2. QED
      BY <1>1, <2>2, <3>1 DEF QuotaTypeOK, Counts
  <2>3. QED
    BY <2>1, <2>2
<1>7. UNCHANGED unpaired \/ Unpairs(Day(hour))
  BY DEF RefundHour
<1>8. QuotaTypeOK' /\ Charged(r)'
  <2>1. wrong' \in [hour : [HourRange -> Nat], day : [DayRange -> Nat]]
        /\ unpaired' \in SUBSET DayRange
    BY <1>1, <1>6, <1>7, GhostsTyped
  <2>2. QED
    BY <1>1, <1>2, <1>4, <1>5, <2>1 DEF QuotaTypeOK, HourRange, DayRange, Charged
<1>9. /\ \A h \in HourRange : /\ HourWeight(r, h) = HourWeight(r, h)' + One(~req[r].runs /\ h = at)
                              /\ HourWeight(r, h)' \in Nat
      /\ \A d \in DayRange : DayWeight(r, d)' = DayWeight(r, d) /\ DayWeight(r, d) \in Nat
  BY <1>1, <1>2, <1>4 DEF HourWeight, DayWeight, HoldsHour, HoldsDay, One
<1>10. \A h \in HourRange : /\ used'[h] <= HourCap
                            /\ HourWeight(r, h)' + used[h] + wrong.hour[h]
                                 <= HourWeight(r, h) + used'[h] + wrong'.hour[h]
  <2> TAKE h \in HourRange
  <2>1. used[h] \in Nat /\ used'[h] \in Nat /\ used[h] <= HourCap /\ HourCap \in Nat
        /\ wrong.hour[h] \in Nat
    BY <1>5, Rows, QuotaAssumption
  <2>2. HourWeight(r, h) = HourWeight(r, h)' + One(~req[r].runs /\ h = at)
        /\ HourWeight(r, h)' \in Nat
    BY <1>9
  <2>3. CASE used' = used
    <3>1. used'[h] = used[h] /\ wrong'.hour[h] = wrong.hour[h]
      BY <1>6, <2>3
    <3>2. QED
      BY <2>1, <2>2, <3>1 DEF One
  <2>4. CASE used' # used /\ Own
    <3>1. used[h] = used'[h] + One(h = at) /\ wrong'.hour[h] = wrong.hour[h]
      BY <1>5, <1>6, <2>4
    <3>2. QED
      BY <2>1, <2>2, <2>4, <3>1 DEF One
  <2>5. CASE used' # used /\ ~Own
    <3>1. used[h] = used'[h] + One(h = hour) /\ wrong'.hour[h] = wrong.hour[h] + One(h = hour)
      BY <1>5, <1>6, <2>5
    <3>2. QED
      BY <2>1, <2>2, <3>1 DEF One
  <2>6. QED
    BY <2>3, <2>4, <2>5
<1>11. \A d \in DayRange : /\ usedDay'[d] <= DayCap
                           /\ DayWeight(r, d)' + usedDay[d] + wrong.day[d]
                                <= DayWeight(r, d) + usedDay'[d] + wrong'.day[d]
  BY <1>1, <1>6, <1>9, Rows
<1>12. QED
  BY <1>4, <1>8, <1>10, <1>11, WeightedStep

\* The same of the counter of the day.
LEMMA RefundDayKept == ASSUME QuotaInv, NEW r \in Requests, RefundDay(r) PROVE QuotaInv'
<1> DEFINE e == Day(req[r].back)
           at == Day(req[r].at)
           Own == ~req[r].runs /\ e = at
<1>1. /\ QuotaTypeOK /\ Charged(r) /\ Row(r) /\ req[r].pc = "refundDay"
      /\ e \in DayRange /\ UNCHANGED <<hour, used>> /\ Move(r, "failed")
  BY Rows DEF RefundDay
<1>2. /\ req' \in [Requests -> ReqRows] /\ Others(r)
      /\ req'[r].pc = "failed" /\ req'[r].at = req[r].at
      /\ req'[r].runs = req[r].runs /\ req'[r].charged = req[r].charged
  BY <1>1, Moves DEF ReqPcs
<1>3. /\ usedDay' \in [DayRange -> Nat]
      /\ usedDay' # usedDay => \A d \in DayRange : usedDay[d] = usedDay'[d] + One(d = e)
  <2>1. usedDay \in [DayRange -> Nat]
        /\ usedDay' \in {usedDay, [usedDay EXCEPT ![e] = Decremented(@)]}
    BY <1>1 DEF RefundDay, QuotaTypeOK
  <2> HIDE DEF e
  <2>2. QED
    BY <1>1, <2>1, Lowers
<1>4. /\ wrong' \in Counts
      /\ \A h \in HourRange : wrong'.hour[h] = wrong.hour[h]
      /\ IF usedDay' # usedDay /\ ~Own
         THEN \A d \in DayRange : wrong'.day[d] = wrong.day[d] + One(d = e)
         ELSE \A d \in DayRange : wrong'.day[d] = wrong.day[d]
  <2>1. CASE usedDay' # usedDay /\ ~Own
    <3>1. wrong' = [wrong EXCEPT !.day[e] = @ + 1]
      BY <2>1 DEF RefundDay
    <3> HIDE DEF e
    <3>2. /\ wrong' \in Counts
          /\ \A h \in HourRange : wrong'.hour[h] = wrong.hour[h]
          /\ \A d \in DayRange : wrong'.day[d] = wrong.day[d] + One(d = e)
      BY <1>1, <3>1, WrongDay
    <3>3. QED
      BY <2>1, <3>2
  <2>2. CASE ~(usedDay' # usedDay /\ ~Own)
    <3>1. UNCHANGED wrong
      BY <2>2 DEF RefundDay
    <3>2. QED
      BY <1>1, <2>2, <3>1 DEF QuotaTypeOK, Counts
  <2>3. QED
    BY <2>1, <2>2
<1>5. UNCHANGED unpaired \/ Unpairs(e)
  BY DEF RefundDay
<1>6. QuotaTypeOK' /\ Charged(r)'
  <2>1. wrong' \in [hour : [HourRange -> Nat], day : [DayRange -> Nat]]
        /\ unpaired' \in SUBSET DayRange
    BY <1>1, <1>4, <1>5, GhostsTyped
  <2>2. QED
    BY <1>1, <1>2, <1>3, <2>1 DEF QuotaTypeOK, HourRange, DayRange, Charged
<1>7. /\ \A h \in HourRange : HourWeight(r, h)' = HourWeight(r, h) /\ HourWeight(r, h) \in Nat
      /\ \A d \in DayRange : /\ DayWeight(r, d) = DayWeight(r, d)' + One(~req[r].runs /\ d = at)
                             /\ DayWeight(r, d)' \in Nat
  BY <1>1, <1>2 DEF HourWeight, DayWeight, HoldsHour, HoldsDay, One
<1>8. \A d \in DayRange : /\ usedDay'[d] <= DayCap
                          /\ DayWeight(r, d)' + usedDay[d] + wrong.day[d]
                               <= DayWeight(r, d) + usedDay'[d] + wrong'.day[d]
  <2> TAKE d \in DayRange
  <2>1. usedDay[d] \in Nat /\ usedDay'[d] \in Nat /\ usedDay[d] <= DayCap /\ DayCap \in Nat
        /\ wrong.day[d] \in Nat
    BY <1>3, Rows, QuotaAssumption
  <2>2. DayWeight(r, d) = DayWeight(r, d)' + One(~req[r].runs /\ d = at)
        /\ DayWeight(r, d)' \in Nat
    BY <1>7
  <2> HIDE DEF e, at
  <2>3. CASE usedDay' = usedDay
    <3>1. usedDay'[d] = usedDay[d] /\ wrong'.day[d] = wrong.day[d]
      BY <1>4, <2>3
    <3>2. QED
      BY <2>1, <2>2, <3>1 DEF One
  <2>4. CASE usedDay' # usedDay /\ Own
    <3>1. usedDay[d] = usedDay'[d] + One(d = at) /\ wrong'.day[d] = wrong.day[d]
      BY <1>3, <1>4, <2>4
    <3>2. QED
      BY <2>1, <2>2, <2>4, <3>1 DEF One
  <2>5. CASE usedDay' # usedDay /\ ~Own
    <3>1. usedDay[d] = usedDay'[d] + One(d = e) /\ wrong'.day[d] = wrong.day[d] + One(d = e)
      BY <1>3, <1>4, <2>5
    <3>2. QED
      BY <2>1, <2>2, <3>1 DEF One
  <2>6. QED
    BY <2>3, <2>4, <2>5
<1>9. QED
  BY <1>1, <1>2, <1>4, <1>6, <1>7, <1>8, Rows, WeightedStep

\* What a request that dies held stays counted.
LEMMA DiesKept == ASSUME QuotaInv, NEW r \in Requests, Dies(r) PROVE QuotaInv'
<1>1. /\ QuotaTypeOK /\ Charged(r) /\ Row(r)
      /\ Day(req[r].at) \in DayRange /\ Day(req[r].back) \in DayRange
      /\ req[r].pc \in {"hour", "day", "undo", "start", "refund", "refundDay"}
      /\ UNCHANGED <<hour, used, usedDay, wrong>> /\ Move(r, "dead")
  BY Rows DEF Dies
<1>2. /\ req' \in [Requests -> ReqRows] /\ Others(r)
      /\ req'[r].pc = "dead" /\ req'[r].at = req[r].at
      /\ req'[r].runs = req[r].runs /\ req'[r].charged = req[r].charged
  BY <1>1, Moves DEF ReqPcs
<1>3. UNCHANGED unpaired \/ \E d \in DayRange : Unpairs(d)
  BY <1>1 DEF Dies
<1>4. wrong' \in [hour : [HourRange -> Nat], day : [DayRange -> Nat]]
      /\ unpaired' \in SUBSET DayRange
  BY <1>1, <1>3, GhostsTyped
<1>5. QuotaTypeOK' /\ Charged(r)'
  BY <1>1, <1>2, <1>4 DEF QuotaTypeOK, HourRange, DayRange, Charged
<1>6. /\ \A h \in HourRange : /\ HourWeight(r, h)' <= HourWeight(r, h)
                              /\ HourWeight(r, h) \in Nat /\ HourWeight(r, h)' \in Nat
      /\ \A d \in DayRange : /\ DayWeight(r, d)' <= DayWeight(r, d)
                             /\ DayWeight(r, d) \in Nat /\ DayWeight(r, d)' \in Nat
  BY <1>1, <1>2 DEF HourWeight, DayWeight, HoldsHour, HoldsDay, One
<1>7. QED
  BY <1>1, <1>2, <1>5, <1>6, LighterStep

\* No counter looks at the clock until it is charged.
LEMMA ClockKept ==
  ASSUME QuotaInv, UNCHANGED <<used, usedDay, req, wrong, unpaired>>, hour' \in HourRange
  PROVE  QuotaInv'
<1>1. QuotaTypeOK'
  BY DEF QuotaInv, QuotaTypeOK, HourRange, DayRange
<1>2. ChargedFirst'
  BY DEF QuotaInv, ChargedFirst
<1>3. \A h \in HourRange : HourKept(h)'
  BY DEF QuotaInv, HourKept, Runs, Holding, HoldsHour
<1>4. \A d \in DayRange : DayKept(d)'
  BY DEF QuotaInv, DayKept, Paid, HoldingOn, HoldsDay
<1>5. QED
  BY <1>1, <1>2, <1>3, <1>4 DEF QuotaInv, HourRange, DayRange

\* Every step keeps the invariant, and QuotaInit has it.
LEMMA QuotaStep == QuotaInv /\ [QuotaNext]_quotaVars => QuotaInv'
<1> SUFFICES ASSUME QuotaInv, [QuotaNext]_quotaVars PROVE QuotaInv'
  OBVIOUS
<1>1. CASE Tick
  <2>1. hour' \in HourRange
    BY <1>1, QuotaAssumption DEF Tick, QuotaInv, QuotaTypeOK, HourRange
  <2>2. QED
    BY <1>1, <2>1, ClockKept DEF Tick
<1>2. CASE UNCHANGED quotaVars
  <2>1. hour' \in HourRange
    BY <1>2 DEF quotaVars, QuotaInv, QuotaTypeOK
  <2>2. QED
    BY <1>2, <2>1, ClockKept DEF quotaVars
<1>3. ASSUME NEW r \in Requests,
             \/ Consume(r) \/ AddHour(r) \/ AddDay(r) \/ UndoHour(r)
             \/ RunCrew(r) \/ Enqueue(r) \/ EnqueueFails(r) \/ RefundHour(r)
             \/ RefundDay(r) \/ Dies(r)
             \/ \E q \in Requests : Reclaim(r, q)
      PROVE  QuotaInv'
  BY <1>3, BeginsKept, AddHourKept, AddDayKept, UndoHourKept, StartsKept, RefundHourKept,
     RefundDayKept, DiesKept
<1>4. QED
  BY <1>1, <1>2, <1>3 DEF QuotaNext

LEMMA QuotaStart == QuotaInit => QuotaInv
<1> SUFFICES ASSUME QuotaInit PROVE QuotaInv
  OBVIOUS
<1>1. QuotaTypeOK
  BY QuotaAssumption
  DEF QuotaInit, QuotaTypeOK, NewReq, ReqRows, ReqPcs, HourRange, DayRange
<1>2. \A r \in Requests : req[r].pc = "new" /\ ~req[r].runs /\ ~req[r].charged
  BY DEF QuotaInit, NewReq
<1>3. ChargedFirst
  BY <1>2 DEF ChargedFirst
<1>4. ASSUME NEW h \in HourRange PROVE HourKept(h)
  <2>1. Runs(h) = {} /\ Holding(h) = {}
    BY <1>2 DEF Runs, Holding, HoldsHour
  <2>2. used[h] = 0 /\ wrong.hour[h] = 0
    BY DEF QuotaInit, HourRange
  <2>3. QED
    BY <2>1, <2>2, FS_EmptySet, QuotaAssumption DEF HourKept
<1>5. ASSUME NEW d \in DayRange PROVE DayKept(d)
  <2>1. Paid(d) = {} /\ HoldingOn(d) = {}
    BY <1>2 DEF Paid, HoldingOn, HoldsDay
  <2>2. usedDay[d] = 0 /\ wrong.day[d] = 0
    BY DEF QuotaInit, DayRange
  <2>3. QED
    BY <2>1, <2>2, FS_EmptySet, QuotaAssumption DEF DayKept
<1>6. QED
  BY <1>1, <1>3, <1>4, <1>5 DEF QuotaInv

\* The counters, the requests and what was given back wrongly keep their types.
THEOREM QuotaTypeCorrect == QuotaSpec => []QuotaTypeOK
<1>1. QuotaInv => QuotaTypeOK
  BY DEF QuotaInv
<1>2. QED
  BY <1>1, QuotaStart, QuotaStep, PTL DEF QuotaSpec

\* RunsWithinQuota: for any number of requests, any caps and any number of hours in a
\* day, the crews charged to an hour or a day are no more than its cap and the refunds
\* that took a unit from it which was not their own.
THEOREM QuotaBoundsRuns == QuotaSpec => []RunsWithinQuota
<1>1. QuotaInv => RunsWithinQuota
  <2> SUFFICES ASSUME QuotaInv PROVE RunsWithinQuota
    OBVIOUS
  <2>1. ASSUME NEW h \in HourRange PROVE Cardinality(Runs(h)) <= HourCap + wrong.hour[h]
    <3>1. HourKept(h) /\ used[h] \in Nat /\ wrong.hour[h] \in Nat
      BY DEF QuotaInv, QuotaTypeOK
    <3>2. Cardinality(Runs(h)) \in Nat /\ Cardinality(Holding(h)) \in Nat
      BY <3>1, FS_CardinalityType DEF HourKept
    <3>3. QED
      BY <3>1, <3>2, QuotaAssumption DEF HourKept
  <2>2. ASSUME NEW d \in DayRange PROVE Cardinality(RunsOn(d)) <= DayCap + wrong.day[d]
    <3>1. DayKept(d) /\ usedDay[d] \in Nat /\ wrong.day[d] \in Nat
      BY DEF QuotaInv, QuotaTypeOK
    <3>2. Cardinality(Paid(d)) \in Nat /\ Cardinality(HoldingOn(d)) \in Nat
      BY <3>1, FS_CardinalityType DEF DayKept
    <3>3. \A r \in Requests : req[r].at \in HourRange
      BY DEF QuotaInv, QuotaTypeOK, ReqRows
    <3>4. RunsOn(d) = Paid(d)
      BY <3>3 DEF RunsOn, Runs, Paid, HourRange
    <3>5. QED
      BY <3>1, <3>2, <3>4, QuotaAssumption DEF DayKept
  <2>3. QED
    BY <2>1, <2>2 DEF RunsWithinQuota, HourRange, DayRange
<1>2. QED
  BY <1>1, QuotaStart, QuotaStep, PTL DEF QuotaSpec
-----------------------------------------------------------------------------
(* The sum over the hours of a day.  SumOf is a recursion over the hours:  *)
(* the least-number principle gives the function it defines, and what      *)
(* holds of it after every hour.                                           *)

Less == { p \in Nat \X Nat : p[1] < p[2] }

\* What holds of 0, and of k + 1 where it holds of k, holds up to n.
LEMMA UpTo ==
  ASSUME NEW n \in Nat, NEW S, 0 \in S, \A k \in 0..(n - 1) : k \in S => k + 1 \in S
  PROVE  \A k \in 0..n : k \in S
<1> DEFINE Bad == { k \in 0..n : k \notin S }
<1>1. CASE Bad = {}
  BY <1>1
<1>2. CASE Bad # {}
  <2>1. IsWellFoundedOn(Less, Nat)
    BY NatLessThanWellFounded DEF OpToRel, Less
  <2>2. Bad \subseteq Nat
    OBVIOUS
  <2> HIDE DEF Bad
  <2>3. PICK m \in Bad : \A k \in Bad : <<k, m>> \notin Less
    BY <1>2, <2>1, <2>2, WFMin
  <2>4. m \in 0..n /\ m \notin S /\ m # 0
    BY <2>3 DEF Bad
  <2>5. m - 1 \in 0..(n - 1) /\ m - 1 \in 0..n /\ m \in Nat /\ m - 1 \in Nat
    BY <2>4
  <2>6. <<m - 1, m>> \in Less
    BY <2>5 DEF Less
  <2>7. m - 1 \in S
    BY <2>3, <2>5, <2>6 DEF Bad
  <2>8. (m - 1) + 1 \in S
    BY <2>5, <2>7
  <2>9. QED
    BY <2>4, <2>5, <2>8
<1>3. QED
  BY <1>1, <1>2

Part(c, d, h) == IF Day(h) = d THEN c[h] ELSE 0

\* f adds up the counts c of day d over the first n hours.
Adds(f, c, d, n) == f = [k \in 0..n |-> IF k = 0 THEN 0 ELSE f[k - 1] + Part(c, d, k - 1)]

\* The recursive sum of a day's hours exists for every number of hours.
LEMMA AddsAll ==
  ASSUME NEW c, NEW d, NEW n \in Nat
  PROVE  \E f : Adds(f, c, d, n)
<1> DEFINE S == { k \in 0..n : \E f : Adds(f, c, d, k) }
<1>1. 0 \in S
  <2> DEFINE z == [k \in 0..0 |-> 0]
  <2>1. z = [k \in 0..0 |-> IF k = 0 THEN 0 ELSE z[k - 1] + Part(c, d, k - 1)]
    OBVIOUS
  <2>2. Adds(z, c, d, 0)
    BY <2>1 DEF Adds
  <2>3. QED
    BY <2>2
<1>2. ASSUME NEW k \in 0..(n - 1), k \in S PROVE k + 1 \in S
  <2>1. PICK f : Adds(f, c, d, k)
    BY <1>2
  <2> DEFINE last == f[k] + Part(c, d, k)
             g == [j \in 0..(k + 1) |-> IF j = k + 1 THEN last ELSE f[j]]
             h == [j \in 0..(k + 1) |-> IF j = 0 THEN 0 ELSE g[j - 1] + Part(c, d, j - 1)]
  <2>2. ASSUME NEW j \in 0..(k + 1) PROVE g[j] = h[j]
    <3>1. CASE j = 0
      <4>1. f[0] = 0 /\ 0 # k + 1
        BY <2>1 DEF Adds
      <4>2. QED
        BY <3>1, <4>1
    <3>2. CASE j = k + 1
      <4>1. j - 1 = k /\ j # 0 /\ k \in 0..(k + 1) /\ k # k + 1
        BY <3>2
      <4>2. QED
        BY <3>2, <4>1
    <3>3. CASE j # 0 /\ j # k + 1
      <4>1. j \in 0..k /\ j - 1 \in 0..k /\ j - 1 \in 0..(k + 1) /\ j - 1 # k + 1
        BY <3>3
      <4>2. f[j] = f[j - 1] + Part(c, d, j - 1)
        BY <2>1, <3>3, <4>1 DEF Adds
      <4>3. QED
        BY <3>3, <4>1, <4>2
    <3>4. QED
      BY <3>1, <3>2, <3>3
  <2>3. g = h
    BY <2>2
  <2>4. Adds(g, c, d, k + 1)
    BY <2>3 DEF Adds
  <2>5. k + 1 \in 0..n
    OBVIOUS
  <2>6. QED
    BY <2>4, <2>5
<1> HIDE DEF S
<1>3. n \in S
  BY <1>1, <1>2, UpTo
<1>4. QED
  BY <1>3 DEF S

\* SumOf is the last value of such a function.
LEMMA SumAdds ==
  ASSUME NEW c, NEW d
  PROVE  \E f : Adds(f, c, d, Hours + 1) /\ SumOf(c, d) = f[Hours + 1]
<1> DEFINE f == CHOOSE g : Adds(g, c, d, Hours + 1)
<1>1. Adds(f, c, d, Hours + 1)
  BY AddsAll, QuotaAssumption
<1>2. SumOf(c, d) = f[Hours + 1]
  BY DEF SumOf, Adds, Part
<1>3. QED
  BY <1>1, <1>2

\* One hour's count changes the sum of its own day by as much, and no other day's.
LEMMA SumChanges ==
  ASSUME NEW c \in [HourRange -> Nat], NEW e \in [HourRange -> Nat], NEW d,
         NEW h \in HourRange, \A k \in HourRange \ {h} : e[k] = c[k]
  PROVE  /\ SumOf(c, d) \in Nat /\ SumOf(e, d) \in Nat
         /\ SumOf(e, d) + Part(c, d, h) = SumOf(c, d) + Part(e, d, h)
<1>1. PICK f : Adds(f, c, d, Hours + 1) /\ SumOf(c, d) = f[Hours + 1]
  BY SumAdds
<1>2. PICK g : Adds(g, e, d, Hours + 1) /\ SumOf(e, d) = g[Hours + 1]
  BY SumAdds
<1> DEFINE S == { k \in 0..(Hours + 1) :
                    /\ f[k] \in Nat /\ g[k] \in Nat
                    /\ IF h < k THEN g[k] + Part(c, d, h) = f[k] + Part(e, d, h)
                       ELSE g[k] = f[k] }
<1>3. Hours \in Nat /\ Hours + 1 \in Nat /\ h \in 0..Hours
  BY QuotaAssumption DEF HourRange
<1>4. 0 \in S
  BY <1>1, <1>2, <1>3 DEF Adds
<1>5. ASSUME NEW k \in 0..((Hours + 1) - 1), k \in S PROVE k + 1 \in S
  <2>1. k \in HourRange /\ k + 1 \in 0..(Hours + 1) /\ k + 1 # 0 /\ (k + 1) - 1 = k
    BY <1>3 DEF HourRange
  <2>2. f[k + 1] = f[k] + Part(c, d, k) /\ g[k + 1] = g[k] + Part(e, d, k)
    BY <1>1, <1>2, <2>1 DEF Adds
  <2>3. /\ Part(c, d, k) \in Nat /\ Part(e, d, k) \in Nat
        /\ Part(c, d, h) \in Nat /\ Part(e, d, h) \in Nat
        /\ k # h => Part(c, d, k) = Part(e, d, k)
    BY <2>1 DEF Part
  <2>4. f[k] \in Nat /\ g[k] \in Nat
    BY <1>5
  <2>5. CASE h < k
    <3>1. h < k + 1 /\ k # h /\ g[k] + Part(c, d, h) = f[k] + Part(e, d, h)
      BY <1>3, <1>5, <2>5
    <3>2. QED
      BY <2>1, <2>2, <2>3, <2>4, <3>1
  <2>6. CASE h = k
    <3>1. h < k + 1 /\ g[k] = f[k]
      BY <1>3, <1>5, <2>6
    <3>2. QED
      BY <2>1, <2>2, <2>3, <2>4, <2>6, <3>1
  <2>7. CASE k < h
    <3>1. ~(h < k + 1) /\ k # h /\ g[k] = f[k]
      BY <1>3, <1>5, <2>7
    <3>2. QED
      BY <2>1, <2>2, <2>3, <2>4, <3>1
  <2>8. QED
    BY <1>3, <2>5, <2>6, <2>7
<1>6. Hours + 1 \in S
  <2> HIDE DEF S
  <2>1. QED
    BY <1>3, <1>4, <1>5, UpTo
<1>7. QED
  BY <1>1, <1>2, <1>3, <1>6

\* The sum of counters that are all 0 is 0.
LEMMA SumZero ==
  ASSUME NEW c, NEW d, \A h \in HourRange : c[h] = 0
  PROVE  SumOf(c, d) = 0
<1>1. PICK f : Adds(f, c, d, Hours + 1) /\ SumOf(c, d) = f[Hours + 1]
  BY SumAdds
<1> DEFINE S == { k \in 0..(Hours + 1) : f[k] = 0 }
<1>2. Hours \in Nat /\ Hours + 1 \in Nat
  BY QuotaAssumption
<1>3. 0 \in S
  BY <1>1, <1>2 DEF Adds
<1>4. ASSUME NEW k \in 0..((Hours + 1) - 1), k \in S PROVE k + 1 \in S
  <2>1. k \in HourRange /\ k + 1 \in 0..(Hours + 1) /\ k + 1 # 0 /\ (k + 1) - 1 = k
    BY <1>2 DEF HourRange
  <2>2. f[k + 1] = f[k] + Part(c, d, k) /\ Part(c, d, k) = 0
    BY <1>1, <2>1 DEF Adds, Part
  <2>3. QED
    BY <1>4, <2>1, <2>2
<1>5. Hours + 1 \in S
  <2> HIDE DEF S
  <2>1. QED
    BY <1>2, <1>3, <1>4, UpTo
<1>6. QED
  BY <1>1, <1>5
-----------------------------------------------------------------------------
(* The counters stay paired: what the hours of a day hold more or less     *)
(* than the day's counter is what requests on their way still owe.         *)

PairKept(d) ==
  /\ IsFiniteSet(Mid(d)) /\ IsFiniteSet(Late(d))
  /\ d \notin unpaired =>
       SumOf(used, d) + Cardinality(Late(d)) = usedDay[d] + Cardinality(Mid(d))

MidWeight(r, d) == One(req[r].pc \in {"day", "undo"} /\ Day(req[r].at) = d)
LateWeight(r, d) == One(req[r].pc = "refundDay" /\ Day(req[r].back) = d)

\* A step of request r moves the hours of day d and its counter by what r owes.
Balanced(r, d) ==
  SumOf(used', d) + LateWeight(r, d)' + usedDay[d] + MidWeight(r, d)
    = SumOf(used, d) + LateWeight(r, d) + usedDay'[d] + MidWeight(r, d)'

\* What leaves a day's total balanced for the request that moves keeps the pair.
LEMMA PairStep ==
  ASSUME QuotaInv, QuotaInv', NEW r \in Requests, NEW d \in DayRange, PairKept(d), Others(r),
         unpaired \subseteq unpaired', d \notin unpaired' => Balanced(r, d)
  PROVE  PairKept(d)'
<1>1. Mid(d)' \ {r} = Mid(d) \ {r} /\ Late(d)' \ {r} = Late(d) \ {r}
  BY DEF Mid, Late, Others
<1>2. /\ IsFiniteSet(Mid(d)')
      /\ Cardinality(Mid(d)) \in Nat /\ Cardinality(Mid(d)') \in Nat
      /\ Cardinality(Mid(d)') + One(r \in Mid(d)) = Cardinality(Mid(d)) + One(r \in Mid(d)')
  BY <1>1, OneApart DEF PairKept
<1>3. /\ IsFiniteSet(Late(d)')
      /\ Cardinality(Late(d)) \in Nat /\ Cardinality(Late(d)') \in Nat
      /\ Cardinality(Late(d)') + One(r \in Late(d)) = Cardinality(Late(d)) + One(r \in Late(d)')
  BY <1>1, OneApart DEF PairKept
<1>4. ASSUME d \notin unpaired'
      PROVE  SumOf(used', d) + Cardinality(Late(d)') = usedDay'[d] + Cardinality(Mid(d)')
  <2>1. SumOf(used, d) + Cardinality(Late(d)) = usedDay[d] + Cardinality(Mid(d))
    BY <1>4 DEF PairKept
  <2>2. SumOf(used', d) + One(r \in Late(d)') + usedDay[d] + One(r \in Mid(d))
          = SumOf(used, d) + One(r \in Late(d)) + usedDay'[d] + One(r \in Mid(d)')
    <3>1. /\ MidWeight(r, d) = One(r \in Mid(d)) /\ MidWeight(r, d)' = One(r \in Mid(d)')
          /\ LateWeight(r, d) = One(r \in Late(d)) /\ LateWeight(r, d)' = One(r \in Late(d)')
      BY DEF MidWeight, LateWeight, Mid, Late
    <3>2. QED
      BY <1>4, <3>1 DEF Balanced
  <2>3. /\ usedDay[d] \in Nat /\ usedDay'[d] \in Nat
        /\ used \in [HourRange -> Nat] /\ used' \in [HourRange -> Nat]
    BY DEF QuotaInv, QuotaTypeOK, HourRange, DayRange
  <2>4. SumOf(used, d) \in Nat /\ SumOf(used', d) \in Nat
    <3>1. 0 \in HourRange
      BY QuotaAssumption DEF HourRange
    <3>2. \A k \in HourRange \ {0} : used[k] = used[k] /\ used'[k] = used'[k]
      OBVIOUS
    <3>3. QED
      BY <2>3, <3>1, <3>2, SumChanges
  <2>5. /\ One(r \in Late(d)) \in Nat /\ One(r \in Late(d)') \in Nat
        /\ One(r \in Mid(d)) \in Nat /\ One(r \in Mid(d)') \in Nat
    BY DEF One
  <2>6. SumOf(used', d) + Cardinality(Late(d)') = usedDay'[d] + Cardinality(Mid(d)')
    <3> DEFINE s == SumOf(used, d)
               t == SumOf(used', d)
               l == Cardinality(Late(d))
               k == Cardinality(Late(d)')
               m == Cardinality(Mid(d))
               n == Cardinality(Mid(d)')
               l1 == One(r \in Late(d))
               k1 == One(r \in Late(d)')
               m1 == One(r \in Mid(d))
               n1 == One(r \in Mid(d)')
               u == usedDay[d]
               v == usedDay'[d]
    <3>1. /\ s \in Nat /\ t \in Nat /\ l \in Nat /\ k \in Nat /\ m \in Nat /\ n \in Nat
          /\ l1 \in Nat /\ k1 \in Nat /\ m1 \in Nat /\ n1 \in Nat
          /\ u \in Nat /\ v \in Nat
      BY <1>2, <1>3, <2>3, <2>4, <2>5
    <3>2. s + l = u + m /\ k + l1 = l + k1 /\ n + m1 = m + n1
      BY <1>2, <1>3, <2>1
    <3>3. t + k1 + u + m1 = s + l1 + v + n1
      BY <2>2
    <3> HIDE DEF s, t, l, k, m, n, l1, k1, m1, n1, u, v
    <3>4. t + k = v + n
      <4>1. k = l + k1 - l1 /\ n = m + n1 - m1 /\ s = u + m - l
        BY <3>1, <3>2
      <4>2. t = s + l1 + v + n1 - k1 - u - m1
        BY <3>1, <3>3
      <4>3. QED
        BY <3>1, <4>1, <4>2
    <3>5. QED
      BY <3>4 DEF t, k, n, v
  <2>7. QED
    BY <2>6
<1>5. SumOf(used, d)' = SumOf(used', d)
  BY DEF SumOf
<1>6. QED
  BY <1>2, <1>3, <1>4, <1>5 DEF PairKept

\* What a write to one hour does to the sum of a day.
LEMMA SumWrites ==
  ASSUME QuotaTypeOK, NEW h \in HourRange, NEW n \in Nat, used' = [used EXCEPT ![h] = n],
         NEW d
  PROVE  /\ SumOf(used, d) \in Nat /\ SumOf(used', d) \in Nat
         /\ Day(h) = d => SumOf(used', d) + used[h] = SumOf(used, d) + n
         /\ Day(h) # d => SumOf(used', d) = SumOf(used, d)
<1>1. /\ used \in [HourRange -> Nat] /\ used' \in [HourRange -> Nat]
      /\ \A k \in HourRange \ {h} : used'[k] = used[k]
      /\ used'[h] = n /\ used[h] \in Nat
  BY DEF QuotaTypeOK
<1>2. /\ SumOf(used, d) \in Nat /\ SumOf(used', d) \in Nat
      /\ SumOf(used', d) + Part(used, d, h) = SumOf(used, d) + Part(used', d, h)
  <2> DEFINE c == used
             e == used'
  <2>1. /\ c \in [HourRange -> Nat] /\ e \in [HourRange -> Nat]
        /\ \A k \in HourRange \ {h} : e[k] = c[k]
    BY <1>1
  <2> HIDE DEF c, e
  <2>2. /\ SumOf(c, d) \in Nat /\ SumOf(e, d) \in Nat
        /\ SumOf(e, d) + Part(c, d, h) = SumOf(c, d) + Part(e, d, h)
    BY <2>1, SumChanges
  <2>3. QED
    BY <2>2 DEF c, e
<1>3. QED
  BY <1>1, <1>2 DEF Part

\* The hours of a day sum up to a natural number.
LEMMA SumsAreCounts == QuotaTypeOK => \A d : SumOf(used, d) \in Nat
<1> SUFFICES ASSUME QuotaTypeOK, NEW d PROVE SumOf(used, d) \in Nat
  OBVIOUS
<1>1. used \in [HourRange -> Nat] /\ 0 \in HourRange
  BY QuotaAssumption DEF QuotaTypeOK, HourRange
<1>2. QED
  BY <1>1, SumChanges
\* A decrement of one hour that changes it takes one from the sum of its day.
LEMMA SumLowers ==
  ASSUME QuotaTypeOK, NEW h \in HourRange, NEW d,
         used' \in {used, [used EXCEPT ![h] = Decremented(@)]}, used' # used
  PROVE  SumOf(used', d) \in Nat /\ SumOf(used, d) = SumOf(used', d) + One(Day(h) = d)
<1>1. used \in [HourRange -> Nat]
  BY DEF QuotaTypeOK
<1>2. \A k \in HourRange : used[k] = used'[k] + One(k = h) /\ used'[k] \in Nat
  BY <1>1, Lowers
<1>3. used'[h] \in Nat /\ used[h] = used'[h] + 1
  BY <1>2 DEF One
<1>4. used' = [used EXCEPT ![h] = used'[h]]
  BY <1>1, <1>2
<1>5. /\ SumOf(used, d) \in Nat /\ SumOf(used', d) \in Nat
      /\ Day(h) = d => SumOf(used', d) + used[h] = SumOf(used, d) + used'[h]
      /\ Day(h) # d => SumOf(used', d) = SumOf(used, d)
  <2> DEFINE n == used'[h]
  <2>1. n \in Nat /\ used' = [used EXCEPT ![h] = n]
    BY <1>3, <1>4
  <2> HIDE DEF n
  <2>2. /\ SumOf(used, d) \in Nat /\ SumOf(used', d) \in Nat
        /\ Day(h) = d => SumOf(used', d) + used[h] = SumOf(used, d) + n
        /\ Day(h) # d => SumOf(used', d) = SumOf(used, d)
    BY <2>1, SumWrites
  <2>3. QED
    BY <2>2 DEF n
<1>6. QED
  BY <1>3, <1>5 DEF One

Advances(r) ==
  \/ Consume(r) \/ AddHour(r) \/ AddDay(r) \/ UndoHour(r)
  \/ RunCrew(r) \/ Enqueue(r) \/ EnqueueFails(r) \/ RefundHour(r) \/ RefundDay(r) \/ Dies(r)
  \/ \E q \in Requests : Reclaim(r, q)

\* A step of r leaves the other requests alone and unpairs at most one day.
LEMMA StepFrame ==
  ASSUME QuotaInv, NEW r \in Requests, Advances(r)
  PROVE  Others(r) /\ unpaired \subseteq unpaired'
<1>1. req \in [Requests -> ReqRows]
  BY DEF QuotaInv, QuotaTypeOK
<1>2. \E w : req' = [req EXCEPT ![r] = w]
  BY DEF Advances, Consume, AddHour, AddDay, UndoHour, RunCrew, Enqueue, EnqueueFails,
         RefundHour, RefundDay, Dies, Reclaim, Move
<1>3. Others(r)
  BY <1>1, <1>2 DEF Others
<1>4. UNCHANGED unpaired \/ \E d : Unpairs(d)
  BY DEF Advances, Consume, AddHour, AddDay, UndoHour, RunCrew, Enqueue, EnqueueFails,
         RefundHour, RefundDay, Dies, Reclaim
<1>5. QED
  BY <1>3, <1>4 DEF Unpairs

\* The steps that charge or give back nothing, and a charge of the hour, of the day, an
\* undone hour and the two halves of a refund: each on a day that it does not unpair.
LEMMA IdleBalanced ==
  ASSUME QuotaInv, NEW r \in Requests, NEW d \in DayRange,
         \/ Consume(r) \/ RunCrew(r) \/ Enqueue(r) \/ EnqueueFails(r)
         \/ \E q \in Requests : Reclaim(r, q)
  PROVE  Balanced(r, d)
<1>1. /\ QuotaTypeOK /\ req \in [Requests -> ReqRows] /\ UNCHANGED <<used, usedDay>>
      /\ req[r].pc \in {"new", "start"}
  BY DEF QuotaInv, QuotaTypeOK, Consume, RunCrew, Enqueue, EnqueueFails, Reclaim
<1>2. req'[r].pc \in {"hour", "done", "refund"}
  <2>1. CASE Consume(r)
    BY <1>1, <2>1 DEF Consume, ReqRows
  <2>2. CASE RunCrew(r)
    BY <1>1, <2>2 DEF RunCrew, ReqRows
  <2>3. CASE Enqueue(r)
    BY <1>1, <2>3 DEF Enqueue, ReqRows
  <2>4. CASE EnqueueFails(r)
    <3>1. PICK accepted \in BOOLEAN :
            req' = [req EXCEPT ![r].pc = "refund", ![r].runs = accepted]
      BY <2>4 DEF EnqueueFails
    <3> DEFINE w == [req[r] EXCEPT !.pc = "refund", !.runs = accepted]
    <3>2. w.pc = "refund" /\ req' = [req EXCEPT ![r] = w]
      BY <1>1, <3>1 DEF ReqRows
    <3> HIDE DEF w
    <3>3. QED
      BY <1>1, <3>2
  <2>5. CASE \E q \in Requests : Reclaim(r, q)
    BY <1>1, <2>5 DEF Reclaim, ReqRows
  <2>6. QED
    BY <2>1, <2>2, <2>3, <2>4, <2>5
<1>3. /\ MidWeight(r, d) = 0 /\ MidWeight(r, d)' = 0
      /\ LateWeight(r, d) = 0 /\ LateWeight(r, d)' = 0
  BY <1>1, <1>2 DEF MidWeight, LateWeight, One
<1>4. SumOf(used, d) \in Nat /\ usedDay[d] \in Nat
  BY <1>1, SumsAreCounts DEF QuotaTypeOK
<1>5. SumOf(used', d) = SumOf(used, d) /\ usedDay'[d] = usedDay[d]
  BY <1>1
<1>6. QED
  BY <1>3, <1>4, <1>5 DEF Balanced

\* _increment_window of the hour, then of the day: the unit is in between, then in both.
LEMMA AddHourBalanced ==
  ASSUME QuotaInv, NEW r \in Requests, NEW d \in DayRange, AddHour(r), d \notin unpaired'
  PROVE  Balanced(r, d)
<1> DEFINE at == req[r].at
<1>1. /\ QuotaTypeOK /\ at \in HourRange /\ req[r].pc = "hour" /\ UNCHANGED usedDay
      /\ used[at] \in Nat /\ used[at] + 1 \in Nat /\ usedDay[d] \in Nat
  BY Rows DEF AddHour, Row, ReqRows
<1>2. SumOf(used, d) \in Nat
  BY <1>1, SumsAreCounts
<1>3. MidWeight(r, d) = 0 /\ LateWeight(r, d) = 0
  BY <1>1 DEF MidWeight, LateWeight, One
<1>4. ASSUME NEW pc \in {"day", "refused", "error"}, Move(r, pc)
      PROVE  /\ req'[r].pc = pc /\ LateWeight(r, d)' = 0
             /\ MidWeight(r, d)' = One(pc = "day" /\ Day(at) = d)
  <2>1. req'[r].pc = pc /\ req'[r].at = at
    BY <1>1, <1>4, Moves DEF ReqPcs
  <2>2. QED
    BY <1>4, <2>1 DEF MidWeight, LateWeight, One
<1>5. CASE UNCHANGED used /\ (Move(r, "refused") \/ Move(r, "error"))
  <2>1. /\ LateWeight(r, d)' = 0 /\ MidWeight(r, d)' = 0
    BY <1>4, <1>5 DEF One
  <2>2. SumOf(used', d) = SumOf(used, d) /\ usedDay'[d] = usedDay[d]
    BY <1>1, <1>5
  <2>3. QED
    BY <1>1, <1>2, <1>3, <2>1, <2>2 DEF Balanced
<1>6. CASE used' = [used EXCEPT ![at] = @ + 1] /\ Move(r, "day")
  <2>1. /\ LateWeight(r, d)' = 0
        /\ MidWeight(r, d)' = One(Day(at) = d)
    BY <1>4, <1>6 DEF One
  <2>2. /\ SumOf(used', d) \in Nat
        /\ Day(at) = d => SumOf(used', d) + used[at] = SumOf(used, d) + (used[at] + 1)
        /\ Day(at) # d => SumOf(used', d) = SumOf(used, d)
    <3> DEFINE n == used[at] + 1
    <3>1. used' = [used EXCEPT ![at] = n]
      BY <1>6
    <3>2. QuotaTypeOK /\ at \in HourRange /\ n \in Nat
      BY <1>1
    <3> HIDE DEF at, n
    <3>3. /\ SumOf(used', d) \in Nat
          /\ Day(at) = d => SumOf(used', d) + used[at] = SumOf(used, d) + n
          /\ Day(at) # d => SumOf(used', d) = SumOf(used, d)
      BY <3>1, <3>2, SumWrites
    <3>4. QED
      BY <3>3 DEF n
  <2>3. usedDay'[d] = usedDay[d]
    BY <1>1
  <2>4. CASE Day(at) = d
    <3>1. MidWeight(r, d)' = 1 /\ SumOf(used', d) = SumOf(used, d) + 1
      BY <1>1, <1>2, <2>1, <2>2, <2>4 DEF One
    <3>2. QED
      BY <1>1, <1>2, <1>3, <2>1, <2>3, <3>1 DEF Balanced
  <2>5. CASE Day(at) # d
    <3>1. MidWeight(r, d)' = 0 /\ SumOf(used', d) = SumOf(used, d)
      BY <2>1, <2>2, <2>5 DEF One
    <3>2. QED
      BY <1>1, <1>2, <1>3, <2>1, <2>3, <3>1 DEF Balanced
  <2>6. QED
    BY <2>4, <2>5
<1>7. CASE used' = [used EXCEPT ![at] = @ + 1] /\ Move(r, "error") /\ Unpairs(Day(at))
  <2>1. /\ LateWeight(r, d)' = 0 /\ MidWeight(r, d)' = 0
    BY <1>4, <1>7 DEF One
  <2>2. Day(at) # d
    BY <1>7 DEF Unpairs
  <2>3. SumOf(used', d) = SumOf(used, d)
    BY <1>1, <1>7, <2>2, SumWrites
  <2>4. QED
    BY <1>1, <1>2, <1>3, <2>1, <2>3 DEF Balanced
<1>8. QED
  BY <1>5, <1>6, <1>7 DEF AddHour

LEMMA AddDayBalanced ==
  ASSUME QuotaInv, NEW r \in Requests, NEW d \in DayRange, AddDay(r), d \notin unpaired'
  PROVE  Balanced(r, d)
<1> DEFINE at == req[r].at
<1>1. /\ QuotaTypeOK /\ at \in HourRange /\ Day(at) \in DayRange /\ req[r].pc = "day"
      /\ UNCHANGED used /\ usedDay \in [DayRange -> Nat] /\ usedDay[d] \in Nat
  BY Rows DEF AddDay, Row, ReqRows, QuotaTypeOK
<1>2. SumOf(used, d) \in Nat /\ SumOf(used', d) = SumOf(used, d)
  BY <1>1, SumsAreCounts
<1>3. MidWeight(r, d) = One(Day(at) = d) /\ LateWeight(r, d) = 0
  BY <1>1 DEF MidWeight, LateWeight, One
<1>4. CASE Move(r, "undo")
  <2>1. req'[r].pc = "undo" /\ req'[r].at = at
    BY <1>1, <1>4, Moves DEF ReqPcs
  <2>2. LateWeight(r, d)' = 0 /\ MidWeight(r, d)' = One(Day(at) = d)
    BY <2>1 DEF MidWeight, LateWeight, One
  <2>3. usedDay'[d] = usedDay[d]
    <3>1. CASE UNCHANGED usedDay
      BY <3>1
    <3>2. CASE usedDay' = [usedDay EXCEPT ![Day(at)] = @ + 1] /\ Unpairs(Day(at))
      <4>1. Day(at) # d
        BY <3>2 DEF Unpairs
      <4>2. QED
        BY <1>1, <3>2, <4>1
    <3>3. CASE req' = [req EXCEPT ![r].pc = "start", ![r].charged = TRUE]
      <4>1. req'[r].pc = "start"
        BY <1>1, <3>3 DEF QuotaTypeOK, ReqRows
      <4>2. QED
        BY <2>1, <4>1
    <3>4. QED
      BY <3>1, <3>2, <3>3 DEF AddDay
  <2>4. QED
    BY <1>1, <1>2, <1>3, <2>1, <2>2, <2>3 DEF Balanced, One
<1>5. CASE /\ usedDay' = [usedDay EXCEPT ![Day(at)] = @ + 1]
           /\ req' = [req EXCEPT ![r].pc = "start", ![r].charged = TRUE]
  <2>1. req'[r].pc = "start"
    BY <1>1, <1>5 DEF QuotaTypeOK, ReqRows
  <2>2. LateWeight(r, d)' = 0 /\ MidWeight(r, d)' = 0
    BY <2>1 DEF MidWeight, LateWeight, One
  <2>3. usedDay'[d] = usedDay[d] + One(Day(at) = d)
    BY <1>1, <1>5 DEF One
  <2>4. QED
    BY <1>1, <1>2, <1>3, <2>1, <2>2, <2>3 DEF Balanced, One
<1>6. QED
  BY <1>4, <1>5 DEF AddDay
\* A decrement that changes a counter takes one from it.
LEMMA UndoHourBalanced ==
  ASSUME QuotaInv, NEW r \in Requests, NEW d \in DayRange, UndoHour(r), d \notin unpaired'
  PROVE  Balanced(r, d)
<1> DEFINE at == req[r].at
<1>1. /\ QuotaTypeOK /\ at \in HourRange /\ req[r].pc = "undo" /\ UNCHANGED usedDay
      /\ used[at] \in Nat /\ usedDay[d] \in Nat /\ Move(r, "refused")
  BY Rows DEF UndoHour, Row, ReqRows
<1>2. SumOf(used, d) \in Nat /\ usedDay'[d] = usedDay[d]
  BY <1>1, SumsAreCounts
<1>3. req'[r].pc = "refused" /\ req'[r].at = at
  BY <1>1, Moves DEF ReqPcs
<1>4. /\ MidWeight(r, d) = One(Day(at) = d) /\ MidWeight(r, d)' = 0
      /\ LateWeight(r, d) = 0 /\ LateWeight(r, d)' = 0
  BY <1>1, <1>3 DEF MidWeight, LateWeight, One
<1>5. SumOf(used, d) = SumOf(used', d) + One(Day(at) = d) /\ SumOf(used', d) \in Nat
  <2>1. CASE used' = used
    <3>1. Day(at) # d
      BY <2>1 DEF UndoHour, Unpairs
    <3>2. QED
      BY <1>2, <2>1, <3>1 DEF One
  <2>2. CASE used' # used
    <3>1. used' \in {used, [used EXCEPT ![at] = Decremented(@)]}
      BY DEF UndoHour
    <3> HIDE DEF at
    <3>2. QED
      BY <1>1, <2>2, <3>1, SumLowers
  <2>3. QED
    BY <2>1, <2>2
<1>6. QED
  BY <1>1, <1>2, <1>4, <1>5 DEF Balanced, One

\* A refund takes its unit from the day of the hour it is made in, whatever it was charged.
LEMMA RefundHourBalanced ==
  ASSUME QuotaInv, NEW r \in Requests, NEW d \in DayRange, RefundHour(r), d \notin unpaired'
  PROVE  Balanced(r, d)
<1>1. /\ QuotaTypeOK /\ hour \in HourRange /\ req[r].pc = "refund" /\ UNCHANGED usedDay
      /\ usedDay[d] \in Nat /\ req[r] \in ReqRows /\ req \in [Requests -> ReqRows]
  BY Rows DEF RefundHour, Row, QuotaTypeOK
<1>2. SumOf(used, d) \in Nat /\ usedDay'[d] = usedDay[d]
  BY <1>1, SumsAreCounts
<1>3. req'[r].pc = "refundDay" /\ req'[r].back = hour
  BY <1>1 DEF RefundHour, ReqRows
<1>4. /\ MidWeight(r, d) = 0 /\ MidWeight(r, d)' = 0
      /\ LateWeight(r, d) = 0 /\ LateWeight(r, d)' = One(Day(hour) = d)
  BY <1>1, <1>3 DEF MidWeight, LateWeight, One
<1>5. SumOf(used, d) = SumOf(used', d) + One(Day(hour) = d) /\ SumOf(used', d) \in Nat
  <2>1. CASE used' = used
    <3>1. Day(hour) # d
      BY <2>1 DEF RefundHour, Unpairs
    <3>2. QED
      BY <1>2, <2>1, <3>1 DEF One
  <2>2. CASE used' # used
    <3>1. used' \in {used, [used EXCEPT ![hour] = Decremented(@)]}
      BY DEF RefundHour
    <3>2. QED
      BY <1>1, <2>2, <3>1, SumLowers
  <2>3. QED
    BY <2>1, <2>2
<1>6. QED
  BY <1>1, <1>2, <1>4, <1>5 DEF Balanced, One

LEMMA RefundDayBalanced ==
  ASSUME QuotaInv, NEW r \in Requests, NEW d \in DayRange, RefundDay(r), d \notin unpaired'
  PROVE  Balanced(r, d)
<1> DEFINE k == Day(req[r].back)
<1>1. /\ QuotaTypeOK /\ k \in DayRange
      /\ req[r].pc = "refundDay" /\ UNCHANGED used /\ Move(r, "failed")
      /\ usedDay \in [DayRange -> Nat] /\ usedDay[d] \in Nat
  BY Rows DEF RefundDay, QuotaTypeOK
<1>2. SumOf(used, d) \in Nat /\ SumOf(used', d) = SumOf(used, d)
  BY <1>1, SumsAreCounts
<1>3. req'[r].pc = "failed"
  BY <1>1, Moves DEF ReqPcs
<1>4. /\ MidWeight(r, d) = 0 /\ MidWeight(r, d)' = 0
      /\ LateWeight(r, d) = One(k = d) /\ LateWeight(r, d)' = 0
  BY <1>1, <1>3 DEF MidWeight, LateWeight, One
<1>5. usedDay[d] = usedDay'[d] + One(d = k) /\ usedDay'[d] \in Nat
  <2>1. CASE usedDay' = usedDay
    <3>1. k # d
      BY <2>1 DEF RefundDay, Unpairs
    <3>2. QED
      BY <1>1, <2>1, <3>1 DEF One
  <2>2. CASE usedDay' # usedDay
    <3>1. usedDay' \in {usedDay, [usedDay EXCEPT ![k] = Decremented(@)]}
      BY DEF RefundDay
    <3> HIDE DEF k
    <3>2. usedDay' \in [DayRange -> Nat] /\ \A y \in DayRange : usedDay[y] = usedDay'[y] + One(y = k)
      BY <1>1, <2>2, <3>1, Lowers
    <3>3. QED
      BY <3>2
  <2>3. QED
    BY <2>1, <2>2
<1>6. QED
  BY <1>1, <1>2, <1>4, <1>5 DEF Balanced, One

\* A request that dies between its two counters unpairs the day of the first.
LEMMA DiesBalanced ==
  ASSUME QuotaInv, NEW r \in Requests, NEW d \in DayRange, Dies(r), d \notin unpaired'
  PROVE  Balanced(r, d)
<1>1. QuotaTypeOK /\ UNCHANGED <<used, usedDay>> /\ Move(r, "dead") /\ usedDay[d] \in Nat
  BY Rows DEF Dies
<1>2. /\ SumOf(used, d) \in Nat /\ SumOf(used', d) = SumOf(used, d)
      /\ usedDay'[d] = usedDay[d]
  BY <1>1, SumsAreCounts
<1>3. req'[r].pc = "dead"
  BY <1>1, Moves DEF ReqPcs
<1>4. MidWeight(r, d)' = 0 /\ LateWeight(r, d)' = 0
  BY <1>3 DEF MidWeight, LateWeight, One
<1>5. MidWeight(r, d) = 0 /\ LateWeight(r, d) = 0
  <2>1. CASE req[r].pc \in {"day", "undo"}
    <3>1. Unpairs(Day(req[r].at))
      BY <2>1 DEF Dies
    <3>2. QED
      BY <2>1, <3>1 DEF Unpairs, MidWeight, LateWeight, One
  <2>2. CASE req[r].pc = "refundDay"
    <3>1. Unpairs(Day(req[r].back))
      BY <2>2 DEF Dies
    <3>2. QED
      BY <2>2, <3>1 DEF Unpairs, MidWeight, LateWeight, One
  <2>3. CASE req[r].pc \notin {"day", "undo", "refundDay"}
    BY <2>3 DEF MidWeight, LateWeight, One
  <2>4. QED
    BY <2>1, <2>2, <2>3
<1>6. QED
  BY <1>1, <1>2, <1>4, <1>5 DEF Balanced

PairInv == QuotaInv /\ \A d \in DayRange : PairKept(d)

\* Every step keeps the pairs, and QuotaInit has them.
LEMMA PairsKept == PairInv /\ [QuotaNext]_quotaVars => PairInv'
<1> SUFFICES ASSUME PairInv, [QuotaNext]_quotaVars PROVE PairInv'
  OBVIOUS
<1>1. QuotaInv /\ QuotaInv'
  BY QuotaStep DEF PairInv
<1>2. ASSUME NEW r \in Requests, Advances(r), NEW d \in DayRange PROVE PairKept(d)'
  <2>1. PairKept(d)
    BY DEF PairInv
  <2>2. Others(r) /\ unpaired \subseteq unpaired'
    BY <1>1, <1>2, StepFrame
  <2>3. ASSUME d \notin unpaired' PROVE Balanced(r, d)
    BY <1>1, <1>2, <2>3, IdleBalanced, AddHourBalanced, AddDayBalanced,
       UndoHourBalanced, RefundHourBalanced, RefundDayBalanced, DiesBalanced
    DEF Advances
  <2>4. QED
    BY <1>1, <2>1, <2>2, <2>3, PairStep
<1>3. ASSUME UNCHANGED <<used, usedDay, req, unpaired>>, NEW d \in DayRange PROVE PairKept(d)'
  <2>1. PairKept(d) /\ SumOf(used, d)' = SumOf(used, d)
    BY <1>3 DEF PairInv, SumOf
  <2>2. Mid(d)' = Mid(d) /\ Late(d)' = Late(d)
    BY <1>3 DEF Mid, Late
  <2>3. QED
    BY <1>3, <2>1, <2>2 DEF PairKept
<1>4. ASSUME NEW d \in DayRange PROVE PairKept(d)'
  BY <1>2, <1>3 DEF QuotaNext, Advances, Tick, quotaVars
<1>5. QED
  BY <1>1, <1>4 DEF PairInv, DayRange

LEMMA PairsStart == QuotaInit => PairInv
<1> SUFFICES ASSUME QuotaInit PROVE PairInv
  OBVIOUS
<1>1. ASSUME NEW d \in DayRange PROVE PairKept(d)
  <2>1. Mid(d) = {} /\ Late(d) = {}
    BY DEF QuotaInit, NewReq, Mid, Late
  <2>2. (\A h \in HourRange : used[h] = 0) /\ usedDay[d] = 0
    BY DEF QuotaInit, HourRange, DayRange
  <2>3. SumOf(used, d) = 0
    BY <2>2, SumZero
  <2>4. QED
    BY <2>1, <2>2, <2>3, FS_EmptySet DEF PairKept
<1>2. QED
  BY <1>1, QuotaStart DEF PairInv

\* CountersStayPaired: at all times the counts of the hours of a day and the count of the
\* day differ by what requests on their way have still to do, whatever is refused or
\* given back and when, on every day on which no step between the two went wrong; for
\* any number of requests and any length of a day.
THEOREM CountersPair == QuotaSpec => []CountersStayPaired
<1>1. PairInv => CountersStayPaired
  BY DEF PairInv, PairKept, CountersStayPaired, DayRange
<1>2. QED
  BY <1>1, PairsStart, PairsKept, PTL DEF QuotaSpec

-----------------------------------------------------------------------------
(* TripCrud                                                                *)


TripStatus == { "none", "drafting", "awaiting_city_confirm", "routing_confirmed",
                "planning", "complete", "failed", "deleting" }

AnyDates == Dates \cup {0}

TripRows == [ status : TripStatus, city : BOOLEAN, dates : AnyDates,
              pdi : BOOLEAN, job : BOOLEAN ]
RouteRows == [ dates : AnyDates, confirmed : BOOLEAN ]

ActorPc == { "idle", "loaded", "route", "save", "claim", "run", "complete", "status",
             "put", "lock", "rows" }
Actors == [ pc : ActorPc, city : BOOLEAN, dates : AnyDates ]

CrudTypeOK ==
  /\ trip \in [Trips -> TripRows]
  /\ route \in [Trips -> RouteRows]
  /\ days \in [Trips -> SUBSET AnyDates]
  /\ creator \in [Trips -> {"new", "listed", "route", "done"}]
  /\ actor \in [Trips -> [Kind -> Actors]]
  /\ crossed \in SUBSET Trips
  /\ mixed \in SUBSET Trips

\* A claim is an attribute of a row that is there.
ClaimsAreOfTrips == \A t \in Trips : trip[t].job \/ trip[t].pdi => Exists(t)

Existing == { t \in Trips : Exists(t) }

\* The trips that no creation put across another's count.
Counted == Existing \ crossed

\* The one creation under way that crossed no other has counted those there are.
CountedOnce ==
  /\ Cardinality(Counted) <= MaxTrips
  /\ \A t \in Trips \ crossed : creator[t] = "listed" =>
       /\ Cardinality(Counted) < MaxTrips
       /\ \A u \in Trips \ crossed : creator[u] = "listed" => u = t

LimitInv ==
  /\ CrudTypeOK
  /\ ClaimsAreOfTrips
  /\ IsFiniteSet(Existing)
  /\ CountedOnce

-----------------------------------------------------------------------------
(* A trip that is not mixed: what its row, its ROUTE and its days have     *)
(* in common at each point of the one actor that is at work on it.         *)

Fits(t) == route[t].dates = trip[t].dates /\ route[t].confirmed
Unplanned(t) == days[t] = {} /\ ~trip[t].job /\ ~trip[t].pdi

InStep(t) ==
  /\ trip[t].status \in {"routing_confirmed", "planning", "failed", "complete"} => Fits(t)
  /\ trip[t].status = "awaiting_city_confirm" =>
       route[t].dates = trip[t].dates /\ ~route[t].confirmed
  /\ trip[t].status = "drafting" => route[t] = NoRoute
  /\ trip[t].status \in {"drafting", "awaiting_city_confirm"} => days[t] = {}
  /\ days[t] \subseteq {trip[t].dates}
  /\ trip[t].status # "deleting"

Resting(t) == Exists(t) => InStep(t) /\ ~trip[t].job /\ ~trip[t].pdi

PutInStep(t) ==
  LET a == actor[t]["put"] IN
  /\ Exists(t) /\ Unplanned(t)
  /\ a.pc \in {"loaded", "route", "save"}
  /\ a.pc = "route" => a.city /\ route[t] = NoRoute
  /\ a.pc = "save" => route[t] = IF a.city THEN [dates |-> a.dates, confirmed |-> TRUE]
                                 ELSE NoRoute

ProposeInStep(t) ==
  LET a == actor[t]["propose"] IN
  /\ Exists(t) /\ ~trip[t].pdi /\ days[t] = {} /\ ~trip[t].city
  /\ trip[t].status \in {"drafting", "awaiting_city_confirm"}
  /\ a.pc \in {"claim", "run", "route", "complete"}
  /\ trip[t].job = (a.pc # "claim")
  /\ a.pc # "complete" => InStep(t)
  /\ a.pc = "route" => a.dates = trip[t].dates
  /\ a.pc = "complete" => route[t] = [dates |-> trip[t].dates, confirmed |-> FALSE]

ConfirmInStep(t) ==
  LET a == actor[t]["confirm"] IN
  /\ Exists(t) /\ Unplanned(t)
  /\ a.pc \in {"status", "route"}
  /\ a.dates = trip[t].dates
  /\ a.pc = "route" => trip[t].status = "routing_confirmed"

PlanInStep(t) ==
  LET a == actor[t]["plan"] IN
  /\ Exists(t) /\ InStep(t) /\ ~trip[t].job
  /\ a.pc \in {"claim", "run", "put", "complete"}
  /\ trip[t].status \in {"routing_confirmed", "planning", "failed"}
  /\ trip[t].pdi = (a.pc # "claim")
  /\ a.pc = "put" => a.dates = trip[t].dates

DeleteInStep(t) ==
  LET a == actor[t]["delete"] IN
  /\ Exists(t) /\ ~trip[t].pdi
  /\ a.pc \in {"lock", "rows"}

ActorInStep(t, k) ==
  CASE k = "put" -> PutInStep(t)
    [] k = "propose" -> ProposeInStep(t)
    [] k = "confirm" -> ConfirmInStep(t)
    [] k = "plan" -> PlanInStep(t)
    [] k = "delete" -> DeleteInStep(t)

\* A trip whose creation is not done is nobody else's.
CreatedAlone(t) ==
  /\ Busy(t) = {}
  /\ days[t] = {} /\ route[t] = NoRoute
  /\ creator[t] = "route" => /\ trip[t].status = "routing_confirmed"
                             /\ ~trip[t].job /\ ~trip[t].pdi
  /\ creator[t] \in {"new", "listed"} => trip[t] = NoTrip

OneAtWork(t) ==
  /\ \A j, k \in Busy(t) : j = k
  /\ Busy(t) = {} => Resting(t)
  /\ \A k \in Busy(t) : ActorInStep(t, k)

TripInv(t) ==
  /\ creator[t] # "done" => CreatedAlone(t)
  /\ creator[t] = "done" /\ t \notin mixed => OneAtWork(t)

StepInv == CrudTypeOK /\ \A t \in Trips : TripInv(t)

-----------------------------------------------------------------------------
(* Types.                                                                  *)

ActorsKept == actor' \in [Trips -> [Kind -> Actors]]

LEMMA BeginTyped ==
  ASSUME CrudTypeOK, NEW t \in Trips, NEW k \in Kind, NEW a \in Actors, Begin(t, k, a)
  PROVE  CrudTypeOK'
<1>1. mixed' \in SUBSET Trips
  BY DEF CrudTypeOK, Begin
<1>2. QED
  BY <1>1 DEF CrudTypeOK, Begin

LEMMA GoTyped ==
  ASSUME CrudTypeOK, NEW t \in Trips, NEW k \in Kind, NEW pc \in ActorPc, Go(t, k, pc)
  PROVE  ActorsKept
<1> DEFINE a == [actor[t][k] EXCEPT !.pc = pc]
<1>1. a \in Actors
  <2>1. actor[t][k] \in Actors
    BY DEF CrudTypeOK
  <2>2. QED
    BY <2>1 DEF Actors
<1>2. actor' = [actor EXCEPT ![t][k] = a]
  BY DEF Go
<1> HIDE DEF a
<1>3. QED
  BY <1>1, <1>2 DEF CrudTypeOK, ActorsKept

LEMMA DoneTyped ==
  ASSUME CrudTypeOK, NEW t \in Trips, NEW k \in Kind, Done(t, k) PROVE ActorsKept
<1>1. Idle \in Actors
  BY DEF Idle, Actors, ActorPc, AnyDates
<1>2. QED
  BY <1>1 DEF CrudTypeOK, Done, ActorsKept

\* A creation keeps the types.
LEMMA CreatesTyped ==
  ASSUME CrudTypeOK, NEW t \in Trips, Creates(t) PROVE CrudTypeOK'
<1>1. CASE List(t) \/ Invalid(t)
  BY <1>1 DEF List, Invalid, Created, CrudTypeOK
<1>2. CASE PutTrip(t)
  <2>1. PICK city \in BOOLEAN, ds \in Dates :
          /\ trip' = [trip EXCEPT ![t] = [NoTrip EXCEPT !.city = city, !.dates = ds,
                        !.status = IF city THEN "routing_confirmed" ELSE "drafting"]]
          /\ Created(t, IF city THEN "route" ELSE "done")
    BY <1>2 DEF PutTrip
  <2>2. [NoTrip EXCEPT !.city = city, !.dates = ds,
           !.status = IF city THEN "routing_confirmed" ELSE "drafting"] \in TripRows
    BY DEF NoTrip, TripRows, TripStatus, AnyDates
  <2>3. trip' \in [Trips -> TripRows]
    BY <2>1, <2>2 DEF CrudTypeOK
  <2>4. QED
    BY <1>2, <2>1, <2>3 DEF PutTrip, Created, CrudTypeOK
<1>3. CASE PutFirstRoute(t)
  <2>1. [dates |-> trip[t].dates, confirmed |-> TRUE] \in RouteRows
    BY DEF CrudTypeOK, TripRows, RouteRows
  <2>2. QED
    BY <1>3, <2>1 DEF PutFirstRoute, Created, CrudTypeOK
<1>4. QED
  BY <1>1, <1>2, <1>3 DEF Creates

\* So does every first read of a writer.
LEMMA LoadsTyped ==
  ASSUME CrudTypeOK, NEW t \in Trips,
         LoadPut(t) \/ LoadPropose(t) \/ LoadConfirm(t) \/ LoadPlan(t) \/ LoadDelete(t)
  PROVE  CrudTypeOK'
<1>1. \A pc \in {"claim", "lock"} : [Idle EXCEPT !.pc = pc] \in Actors
  BY DEF Idle, Actors, ActorPc, AnyDates
<1>2. \A city \in BOOLEAN, ds \in Dates :
        [pc |-> "loaded", city |-> city, dates |-> ds] \in Actors
  BY DEF Actors, ActorPc, AnyDates
<1>3. [pc |-> "status", city |-> FALSE, dates |-> trip[t].dates] \in Actors
  BY DEF Actors, ActorPc, CrudTypeOK, TripRows
<1>4. CASE LoadPut(t)
  BY <1>2, <1>4, BeginTyped DEF LoadPut, Kind
<1>5. CASE LoadConfirm(t)
  BY <1>3, <1>5, BeginTyped DEF LoadConfirm, Kind
<1>6. CASE LoadPropose(t) \/ LoadPlan(t) \/ LoadDelete(t)
  BY <1>1, <1>6, BeginTyped DEF LoadPropose, LoadPlan, LoadDelete, Kind
<1>7. QED
  BY <1>4, <1>5, <1>6

\* The writes to a TRIP row and to a ROUTE.
TripsKept == trip' \in [Trips -> TripRows]
RoutesKept == route' \in [Trips -> RouteRows]

LEMMA SetTripTyped ==
  ASSUME CrudTypeOK, NEW t \in Trips, NEW r \in TripRows, SetTrip(t, r)
  PROVE  TripsKept
  BY DEF CrudTypeOK, SetTrip, TripsKept

LEMMA SetRouteTyped ==
  ASSUME CrudTypeOK, NEW t \in Trips, NEW r \in RouteRows, SetRoute(t, r)
  PROVE  RoutesKept
  BY DEF CrudTypeOK, SetRoute, RoutesKept

\* A handler that has read a trip keeps a well-formed record of its dates.
LEMMA ReadsDates ==
  ASSUME CrudTypeOK, NEW t \in Trips, NEW k \in Kind, NEW pc \in ActorPc,
         actor' = [actor EXCEPT ![t][k] =
                     [pc |-> pc, city |-> FALSE, dates |-> trip[t].dates]]
  PROVE  ActorsKept
<1>1. [pc |-> pc, city |-> FALSE, dates |-> trip[t].dates] \in Actors
  BY DEF CrudTypeOK, TripRows, Actors
<1>2. QED
  BY <1>1 DEF CrudTypeOK, ActorsKept

\* And every write of a writer.
LEMMA WritesTyped ==
  ASSUME CrudTypeOK, NEW t \in Trips, Changes(t) \/ Deletes(t) PROVE CrudTypeOK'
<1> USE DEF Kind, ActorPc, TripStatus
<1>1. /\ trip[t].dates \in AnyDates
      /\ \A k \in Kind : actor[t][k].dates \in AnyDates /\ actor[t][k].city \in BOOLEAN
  BY DEF CrudTypeOK, TripRows, Actors
<1>2. /\ UNCHANGED trip => TripsKept
      /\ UNCHANGED route => RoutesKept
      /\ TripsKept /\ RoutesKept /\ ActorsKept /\ UNCHANGED <<days, creator, crossed, mixed>>
           => CrudTypeOK'
  BY DEF CrudTypeOK, TripsKept, RoutesKept, ActorsKept
<1> DEFINE Edited == [trip[t] EXCEPT !.city = Put(t).city, !.dates = Put(t).dates,
                       !.status = IF Put(t).city THEN "routing_confirmed" ELSE "drafting"]
           With(st) == [trip[t] EXCEPT !.status = st]
           WithJob(b) == [trip[t] EXCEPT !.job = b]
           Proposed == [trip[t] EXCEPT !.job = FALSE, !.status = "awaiting_city_confirm"]
           WithPlan(b, st) == [trip[t] EXCEPT !.pdi = b, !.status = st]
<1>rows. /\ Edited \in TripRows
      /\ With("routing_confirmed") \in TripRows /\ With("deleting") \in TripRows
      /\ WithJob(TRUE) \in TripRows /\ WithJob(FALSE) \in TripRows
      /\ Proposed \in TripRows
      /\ WithPlan(TRUE, "planning") \in TripRows /\ WithPlan(FALSE, "planning") \in TripRows
      /\ WithPlan(FALSE, "failed") \in TripRows /\ WithPlan(FALSE, "complete") \in TripRows
      /\ NoTrip \in TripRows
  <2>1. trip[t] \in TripRows
    BY DEF CrudTypeOK
  <2>2. Edited \in TripRows
    BY <1>1, <2>1 DEF TripRows, Put
  <2>3. /\ With("routing_confirmed") \in TripRows /\ With("deleting") \in TripRows
        /\ WithJob(TRUE) \in TripRows /\ WithJob(FALSE) \in TripRows
    BY <2>1 DEF TripRows
  <2>4. Proposed \in TripRows
    BY <2>1 DEF TripRows
  <2>5. /\ WithPlan(TRUE, "planning") \in TripRows /\ WithPlan(FALSE, "planning") \in TripRows
        /\ WithPlan(FALSE, "failed") \in TripRows /\ WithPlan(FALSE, "complete") \in TripRows
    BY <2>1 DEF TripRows
  <2>6. NoTrip \in TripRows
    BY DEF TripRows, NoTrip, AnyDates
  <2>7. QED
    BY <2>2, <2>3, <2>4, <2>5, <2>6
<1>3. CASE DropRoute(t)
  <2>1. NoRoute \in RouteRows
    BY DEF NoRoute, RouteRows, AnyDates
  <2>2. QED
    BY <1>2, <1>3, <2>1, GoTyped, SetRouteTyped DEF DropRoute
<1>4. CASE PutCityRoute(t)
  <2>1. [dates |-> Put(t).dates, confirmed |-> TRUE] \in RouteRows
    BY <1>1 DEF Put, RouteRows
  <2>2. QED
    BY <1>2, <1>4, <2>1, GoTyped, SetRouteTyped DEF PutCityRoute
<1>5. CASE SavePut(t)
  <2>1. TripsKept
    BY <1>2, <1>rows, <1>5, SetTripTyped DEF SavePut
  <2>2. QED
    BY <1>2, <1>5, <2>1, DoneTyped DEF SavePut
<1>6. CASE ClaimPropose(t)
  BY <1>2, <1>rows, <1>6, GoTyped, DoneTyped, SetTripTyped DEF ClaimPropose
<1>7. CASE CompletePropose(t)
  BY <1>2, <1>rows, <1>7, DoneTyped, SetTripTyped DEF CompletePropose
<1>8. CASE PutProposal(t)
  <2>1. [dates |-> actor[t]["propose"].dates, confirmed |-> FALSE] \in RouteRows
    BY <1>1 DEF RouteRows
  <2>2. QED
    BY <1>2, <1>rows, <1>8, <2>1, GoTyped, DoneTyped, SetTripTyped, SetRouteTyped
    DEF PutProposal
<1>9. CASE RunPropose(t)
  BY <1>2, <1>rows, <1>9, ReadsDates, DoneTyped, SetTripTyped DEF RunPropose
<1>10. CASE RunPlan(t)
  BY <1>2, <1>rows, <1>10, ReadsDates, DoneTyped, SetTripTyped DEF RunPlan
<1>11. CASE SetConfirmed(t)
  BY <1>2, <1>rows, <1>11, GoTyped, DoneTyped, SetTripTyped DEF SetConfirmed
<1>12. CASE PutConfirmed(t)
  <2>1. [dates |-> actor[t]["confirm"].dates, confirmed |-> TRUE] \in RouteRows
    BY <1>1 DEF RouteRows
  <2>2. QED
    BY <1>2, <1>12, <2>1, DoneTyped, SetRouteTyped DEF PutConfirmed
<1>13. CASE ClaimPlan(t)
  BY <1>2, <1>rows, <1>13, GoTyped, DoneTyped, SetTripTyped DEF ClaimPlan
<1>14. CASE CompletePlan(t)
  BY <1>2, <1>rows, <1>14, DoneTyped, SetTripTyped DEF CompletePlan
<1>15. CASE PutDay(t)
  <2>1. ActorsKept
    BY <1>15, GoTyped DEF PutDay
  <2>2. days' \in [Trips -> SUBSET AnyDates]
    BY <1>1, <1>15 DEF PutDay, CrudTypeOK
  <2>3. QED
    BY <1>15, <2>1, <2>2 DEF PutDay, CrudTypeOK, ActorsKept
<1>16. CASE LockDelete(t)
  BY <1>2, <1>rows, <1>16, GoTyped, DoneTyped, SetTripTyped DEF LockDelete
<1>17. CASE RemoveRows(t)
  <2>1. NoRoute \in RouteRows /\ NoTrip \in TripRows
    BY DEF NoRoute, NoTrip, TripRows, RouteRows, AnyDates
  <2>2. TripsKept /\ RoutesKept /\ ActorsKept
    BY <1>17, <2>1, SetTripTyped, SetRouteTyped, DoneTyped DEF RemoveRows
  <2>3. QED
    BY <1>17, <2>2 DEF RemoveRows, CrudTypeOK, TripsKept, RoutesKept, ActorsKept
<1>18. QED
  BY <1>3, <1>4, <1>5, <1>6, <1>7, <1>8, <1>9, <1>10, <1>11, <1>12, <1>13, <1>14, <1>15,
     <1>16, <1>17, LoadsTyped
  DEF Changes, Deletes

\* Every step keeps the types.
LEMMA StepTyped == CrudTypeOK /\ [CrudNext]_crudVars => CrudTypeOK'
<1> SUFFICES ASSUME CrudTypeOK, [CrudNext]_crudVars PROVE CrudTypeOK'
  OBVIOUS
<1>1. ASSUME NEW t \in Trips, NEW k \in Kind, Stops(t, k) PROVE CrudTypeOK'
  BY <1>1, DoneTyped DEF Stops, CrudTypeOK, ActorsKept
<1>2. CASE UNCHANGED crudVars
  BY <1>2 DEF crudVars, CrudTypeOK
<1>3. QED
  BY <1>1, <1>2, CreatesTyped, WritesTyped DEF CrudNext

-----------------------------------------------------------------------------
(* The limit.                                                              *)

\* A write to a TRIP row leaves every claim on a row that is there, and makes no
\* row exist.
NoNewTrip ==
  /\ \A t \in Trips : Exists(t)' => Exists(t)
  /\ ClaimsAreOfTrips'

LEMMA NoNewTripUnchanged ==
  ASSUME LimitInv, UNCHANGED trip PROVE NoNewTrip
  BY DEF LimitInv, NoNewTrip, ClaimsAreOfTrips, Exists

\* A write to a trip that exists adds none.
LEMMA NoNewTripSet ==
  ASSUME LimitInv, NEW t \in Trips, NEW r, SetTrip(t, r),
         r.status = "none" => ~r.job /\ ~r.pdi,
         r.status # "none" => Exists(t)
  PROVE  NoNewTrip
  BY DEF LimitInv, CrudTypeOK, SetTrip, NoNewTrip, ClaimsAreOfTrips, Exists

\* Only a creation adds a trip.
LEMMA WritersAddNoTrip ==
  ASSUME LimitInv, NEW t \in Trips,
         Changes(t) \/ Deletes(t) \/ \E k \in Kind : Stops(t, k)
  PROVE  NoNewTrip /\ UNCHANGED <<creator, crossed>>
<1>1. UNCHANGED <<creator, crossed>>
  BY DEF Changes, Deletes, Stops, LoadPut, LoadPropose, LoadConfirm, LoadPlan, LoadDelete,
         Begin, DropRoute, PutCityRoute, SavePut, ClaimPropose, RunPropose, PutProposal,
         CompletePropose, SetConfirmed, PutConfirmed, ClaimPlan, RunPlan, PutDay,
         CompletePlan, LockDelete, RemoveRows
<1>2. CASE UNCHANGED trip
  BY <1>1, <1>2, NoNewTripUnchanged
<1>3. /\ trip[t] \in TripRows
      /\ trip[t].job \/ trip[t].pdi => Exists(t)
  BY DEF LimitInv, CrudTypeOK, ClaimsAreOfTrips
<1> DEFINE Edited == [trip[t] EXCEPT !.city = Put(t).city, !.dates = Put(t).dates,
                       !.status = IF Put(t).city THEN "routing_confirmed" ELSE "drafting"]
           With(st) == [trip[t] EXCEPT !.status = st]
           WithJob(b) == [trip[t] EXCEPT !.job = b]
           Proposed == [trip[t] EXCEPT !.job = FALSE, !.status = "awaiting_city_confirm"]
           WithPlan(b, st) == [trip[t] EXCEPT !.pdi = b, !.status = st]
<1>4. /\ Edited.status # "none" /\ Proposed.status # "none"
      /\ With("routing_confirmed").status # "none" /\ With("deleting").status # "none"
      /\ WithPlan(TRUE, "planning").status # "none"
      /\ \A st \in {"planning", "failed", "complete"} : WithPlan(FALSE, st).status # "none"
  BY <1>3 DEF TripRows
<1>fields. /\ WithJob(TRUE).status = trip[t].status
      /\ WithJob(FALSE).status = trip[t].status
      /\ WithJob(FALSE).pdi = trip[t].pdi /\ ~WithJob(FALSE).job
  BY <1>3 DEF TripRows
<1>none. NoTrip.status = "none" /\ ~NoTrip.job /\ ~NoTrip.pdi
  BY DEF NoTrip
<1> HIDE DEF Edited, With, WithJob, Proposed, WithPlan
<1>5. /\ Exists(t) /\ SetTrip(t, Edited) => NoNewTrip
      /\ Exists(t) /\ SetTrip(t, With("routing_confirmed")) => NoNewTrip
      /\ Exists(t) /\ SetTrip(t, With("deleting")) => NoNewTrip
      /\ Exists(t) /\ SetTrip(t, WithJob(TRUE)) => NoNewTrip
      /\ Exists(t) /\ SetTrip(t, WithPlan(TRUE, "planning")) => NoNewTrip
      /\ trip[t].job /\ SetTrip(t, Proposed) => NoNewTrip
      /\ SetTrip(t, WithJob(FALSE)) => NoNewTrip
      /\ SetTrip(t, NoTrip) => NoNewTrip
  BY <1>3, <1>4, <1>fields, <1>none, NoNewTripSet DEF Exists
<1>6. ASSUME NEW st \in {"planning", "failed", "complete"},
             trip[t].pdi, SetTrip(t, WithPlan(FALSE, st))
      PROVE  NoNewTrip
  BY <1>3, <1>4, <1>6, NoNewTripSet
<1>7. CASE SavePut(t)
  BY <1>1, <1>2, <1>5, <1>7 DEF SavePut, Edited
<1>8. CASE ClaimPropose(t) \/ RunPropose(t) \/ PutProposal(t)
  BY <1>1, <1>2, <1>5, <1>8 DEF ClaimPropose, RunPropose, PutProposal, WithJob
<1>9. CASE CompletePropose(t)
  BY <1>1, <1>2, <1>5, <1>9 DEF CompletePropose, Proposed
<1>10. CASE SetConfirmed(t) \/ LockDelete(t)
  BY <1>1, <1>2, <1>5, <1>10 DEF SetConfirmed, LockDelete, With
<1>11. CASE ClaimPlan(t)
  BY <1>1, <1>2, <1>5, <1>11 DEF ClaimPlan, WithPlan
<1>12. CASE RunPlan(t)
  BY <1>1, <1>2, <1>6, <1>12 DEF RunPlan, WithPlan
<1>13. CASE CompletePlan(t)
  <2>1. CASE UNCHANGED trip
    BY <1>2, <2>1
  <2>2. CASE trip[t].pdi
    <3>1. PICK st \in {"planning", "complete"} : SetTrip(t, WithPlan(FALSE, st))
      BY <1>13, <2>2 DEF CompletePlan, WithPlan
    <3>2. QED
      BY <1>1, <1>6, <2>2, <3>1
  <2>3. QED
    BY <1>13, <2>1, <2>2 DEF CompletePlan
<1>14. CASE RemoveRows(t)
  BY <1>1, <1>5, <1>14 DEF RemoveRows
<1>15. CASE UNCHANGED trip
  BY <1>2, <1>15
<1>16. QED
  BY <1>7, <1>8, <1>9, <1>10, <1>11, <1>12, <1>13, <1>14, <1>15
  DEF Changes, Deletes, Stops, LoadPut, LoadPropose, LoadConfirm, LoadPlan, LoadDelete,
      Begin, DropRoute, PutCityRoute, PutConfirmed, PutDay

\* The trips counted are finitely many, and fewer when there are fewer trips.
LEMMA FewerCounted ==
  ASSUME IsFiniteSet(Existing), NEW S, S \subseteq Counted
  PROVE  /\ IsFiniteSet(S) /\ Cardinality(S) \in Nat
         /\ Cardinality(Counted) \in Nat /\ Cardinality(Existing) \in Nat
         /\ Cardinality(S) <= Cardinality(Counted)
         /\ Cardinality(S) <= Cardinality(Existing)
<1>1. /\ IsFiniteSet(Counted) /\ Cardinality(Counted) <= Cardinality(Existing)
      /\ IsFiniteSet(S) /\ Cardinality(S) <= Cardinality(Counted)
  BY FS_Subset DEF Counted
<1>2. Cardinality(S) \in Nat /\ Cardinality(Counted) \in Nat /\ Cardinality(Existing) \in Nat
  BY <1>1, FS_CardinalityType
<1>3. QED
  BY <1>1, <1>2

\* What only takes trips away keeps the count within the limit.
LEMMA FewerTrips ==
  ASSUME LimitInv, CrudTypeOK', NoNewTrip, crossed' = crossed,
         \A u \in Trips : creator'[u] = "listed" => creator[u] = "listed"
  PROVE  LimitInv'
<1>1. Existing' \subseteq Existing /\ Counted' \subseteq Counted
  BY DEF Existing, Counted, NoNewTrip
<1>2. IsFiniteSet(Existing')
  BY <1>1, FS_Subset DEF LimitInv
<1>3. /\ Cardinality(Counted') \in Nat /\ Cardinality(Counted) \in Nat
      /\ Cardinality(Counted') <= Cardinality(Counted)
  BY <1>1, FewerCounted DEF LimitInv
<1>4. CountedOnce'
  BY <1>3, CrudAssumption DEF LimitInv, CountedOnce
<1>5. QED
  BY <1>2, <1>4 DEF LimitInv, NoNewTrip

\* A creation that counts the trips finds room, or refuses; the one that puts a trip
\* crossed another, or was the only one to have counted them.
LEMMA CreatesWithinLimit ==
  ASSUME LimitInv, CrudTypeOK', NEW t \in Trips, Creates(t) PROVE LimitInv'
<1>1. CASE List(t)
  <2>1. UNCHANGED trip
    BY <1>1 DEF List
  <2>2. Existing' = Existing /\ ClaimsAreOfTrips'
    BY <2>1 DEF Existing, ClaimsAreOfTrips, Exists, LimitInv
  <2>3. Cardinality(Existing) \in Nat
    BY FS_CardinalityType DEF LimitInv
  <2>4. \A u \in Trips : u # t => creator'[u] = creator[u]
    BY <1>1 DEF List, Created, LimitInv, CrudTypeOK
  <2>5. /\ crossed' \in {crossed, crossed \cup {t}}
        /\ t \notin crossed' => \A u \in Trips : creator[u] # "listed"
    BY <1>1 DEF List
  <2>6. /\ Cardinality(Counted') \in Nat /\ Cardinality(Counted) \in Nat
        /\ Cardinality(Counted') <= Cardinality(Counted)
        /\ Cardinality(Counted') <= Cardinality(Existing)
    <3>1. Counted' \subseteq Counted
      BY <2>2, <2>5 DEF Counted
    <3>2. QED
      BY <3>1, FewerCounted DEF LimitInv
  <2>7. creator'[t] = "listed" => Cardinality(Existing) < MaxTrips
    BY <1>1, <2>3, CrudAssumption
    DEF List, Created, Existing, LimitInv, CrudTypeOK
  <2>8. Cardinality(Counted') <= MaxTrips
    BY <2>6, CrudAssumption DEF LimitInv, CountedOnce
  <2>9. ASSUME NEW u \in Trips, u \notin crossed', creator'[u] = "listed"
        PROVE  /\ Cardinality(Counted') < MaxTrips
               /\ \A v \in Trips : v \notin crossed' /\ creator'[v] = "listed" => v = u
    <3>1. CASE t \in crossed'
      <4>1. u # t /\ u \notin crossed /\ creator[u] = "listed"
        BY <2>4, <2>5, <2>9, <3>1
      <4>2. Cardinality(Counted') < MaxTrips
        BY <2>6, <4>1, CrudAssumption DEF LimitInv, CountedOnce
      <4>3. ASSUME NEW v \in Trips, v \notin crossed', creator'[v] = "listed" PROVE v = u
        <5>1. v # t /\ v \notin crossed /\ creator[v] = "listed"
          BY <2>4, <2>5, <3>1, <4>3
        <5>2. QED
          BY <4>1, <5>1 DEF LimitInv, CountedOnce
      <4>4. QED
        BY <4>2, <4>3
    <3>2. CASE t \notin crossed'
      <4>1. \A v \in Trips : creator'[v] = "listed" => v = t
        BY <2>4, <2>5, <3>2
      <4>2. u = t
        BY <2>9, <4>1
      <4>3. Cardinality(Counted') < MaxTrips
        BY <2>3, <2>6, <2>7, <2>9, <4>2, CrudAssumption
      <4>4. QED
        BY <4>1, <4>2, <4>3
    <3>3. QED
      BY <3>1, <3>2
  <2>10. CountedOnce'
    BY <2>8, <2>9 DEF CountedOnce
  <2>11. QED
    BY <2>2, <2>10 DEF LimitInv
<1>2. CASE Invalid(t) \/ PutFirstRoute(t)
  <2>1. UNCHANGED <<trip, crossed>>
    BY <1>2 DEF Invalid, PutFirstRoute
  <2>2. \A u \in Trips : creator'[u] = "listed" => creator[u] = "listed"
    BY <1>2 DEF Invalid, PutFirstRoute, Created, LimitInv, CrudTypeOK
  <2>3. QED
    BY <2>1, <2>2, NoNewTripUnchanged, FewerTrips
<1>3. CASE PutTrip(t)
  <2>1. PICK city \in BOOLEAN, ds \in Dates :
          /\ trip' = [trip EXCEPT ![t] = [NoTrip EXCEPT !.city = city, !.dates = ds,
                        !.status = IF city THEN "routing_confirmed" ELSE "drafting"]]
          /\ Created(t, IF city THEN "route" ELSE "done")
    BY <1>3 DEF PutTrip
  <2> DEFINE row == [NoTrip EXCEPT !.city = city, !.dates = ds,
                       !.status = IF city THEN "routing_confirmed" ELSE "drafting"]
  <2>2. row.status # "none" /\ ~row.job /\ ~row.pdi
    BY DEF NoTrip
  <2>3. trip' = [trip EXCEPT ![t] = row]
    BY <2>1
  <2> HIDE DEF row
  <2>4. Existing' = Existing \cup {t} /\ ClaimsAreOfTrips'
    <3>1. trip'[t] = row /\ \A u \in Trips : u # t => trip'[u] = trip[u]
      BY <2>3 DEF LimitInv, CrudTypeOK
    <3>2. QED
      BY <2>2, <3>1 DEF Existing, Exists, ClaimsAreOfTrips, LimitInv
  <2>5. creator[t] = "listed" /\ crossed' = crossed
    BY <1>3 DEF PutTrip
  <2>6. \A u \in Trips : creator'[u] = "listed" => u # t /\ creator[u] = "listed"
    BY <2>1 DEF Created, LimitInv, CrudTypeOK
  <2>7. IsFiniteSet(Existing')
    BY <2>4, FS_AddElement DEF LimitInv
  <2>8. IsFiniteSet(Counted) /\ Cardinality(Counted) \in Nat
    BY FewerCounted DEF LimitInv
  <2>9. CountedOnce'
    <3>1. CASE t \in crossed
      <4>1. Counted' = Counted
        BY <2>4, <2>5, <3>1 DEF Counted
      <4>2. QED
        BY <2>5, <2>6, <4>1 DEF LimitInv, CountedOnce
    <3>2. CASE t \notin crossed
      <4>1. /\ Cardinality(Counted) < MaxTrips
            /\ \A u \in Trips \ crossed : creator[u] = "listed" => u = t
        BY <2>5, <3>2 DEF LimitInv, CountedOnce
      <4>2. Counted' = Counted \cup {t}
        BY <2>4, <2>5, <3>2 DEF Counted
      <4>3. \/ Cardinality(Counted \cup {t}) = Cardinality(Counted)
            \/ Cardinality(Counted \cup {t}) = Cardinality(Counted) + 1
        BY <2>8, FS_AddElement
      <4>4. Cardinality(Counted') <= MaxTrips
        BY <2>8, <4>1, <4>2, <4>3, CrudAssumption
      <4>5. \A u \in Trips \ crossed' : creator'[u] # "listed"
        BY <2>5, <2>6, <4>1
      <4>6. QED
        BY <4>4, <4>5 DEF CountedOnce
    <3>3. QED
      BY <3>1, <3>2
  <2>10. QED
    BY <2>4, <2>7, <2>9 DEF LimitInv
<1>4. QED
  BY <1>1, <1>2, <1>3 DEF Creates

\* Every step keeps the claims on the trip limit, and CrudInit has them.
LEMMA LimitStep == LimitInv /\ [CrudNext]_crudVars => LimitInv'
<1> SUFFICES ASSUME LimitInv, [CrudNext]_crudVars PROVE LimitInv'
  OBVIOUS
<1>1. CrudTypeOK'
  BY StepTyped DEF LimitInv
<1>2. CASE UNCHANGED crudVars
  BY <1>1, <1>2, NoNewTripUnchanged, FewerTrips DEF crudVars
<1>3. ASSUME NEW t \in Trips, Creates(t) PROVE LimitInv'
  BY <1>1, <1>3, CreatesWithinLimit
<1>4. ASSUME NEW t \in Trips, Changes(t) \/ Deletes(t) \/ \E k \in Kind : Stops(t, k)
      PROVE  LimitInv'
  BY <1>1, <1>4, WritersAddNoTrip, FewerTrips
<1>5. QED
  BY <1>2, <1>3, <1>4 DEF CrudNext

LEMMA LimitInit == CrudInit => LimitInv
<1> SUFFICES ASSUME CrudInit PROVE LimitInv
  OBVIOUS
<1>1. CrudTypeOK
  BY DEF CrudInit, CrudTypeOK, NoTrip, NoRoute, Idle, TripRows, TripStatus, RouteRows,
         Actors, ActorPc, AnyDates
<1>2. Existing = {} /\ ClaimsAreOfTrips
  BY DEF CrudInit, Existing, ClaimsAreOfTrips, Exists, NoTrip
<1>3. IsFiniteSet(Existing) /\ Cardinality(Counted) = 0
  BY <1>2, FS_EmptySet DEF Counted
<1>4. CountedOnce
  BY <1>3, CrudAssumption DEF CountedOnce, CrudInit
<1>5. QED
  BY <1>1, <1>2, <1>3, <1>4 DEF LimitInv

\* The rows have their types, whoever writes them in whatever order.
THEOREM CrudTypeCorrect == CrudSpec => []CrudTypeOK
<1>1. CrudInit => CrudTypeOK
  BY LimitInit DEF LimitInv
<1>2. CrudTypeOK /\ [CrudNext]_crudVars => CrudTypeOK'
  BY StepTyped
<1>3. QED
  BY <1>1, <1>2, PTL DEF CrudSpec

\* TripsWithinLimit: for any number of trips and any limit, create_trip keeps the limit but
\* for one trip by each creation that counted while another had counted and not yet put.
THEOREM LimitHolds == CrudSpec => []TripsWithinLimit
<1>1. LimitInv => TripsWithinLimit
  BY DEF LimitInv, CountedOnce, Counted, Existing, TripsWithinLimit
<1>2. QED
  BY <1>1, LimitInit, LimitStep, PTL DEF CrudSpec

-----------------------------------------------------------------------------
(* The status, the ROUTE and the days of a trip that is not mixed.         *)

SameTrip(t) ==
  /\ trip'[t] = trip[t] /\ route'[t] = route[t] /\ days'[t] = days[t]
  /\ creator'[t] = creator[t] /\ actor'[t] = actor[t]
  /\ t \in mixed' <=> t \in mixed

Step(t) == Creates(t) \/ Deletes(t) \/ Changes(t) \/ \E k \in Kind : Stops(t, k)

\* A step for one trip leaves the others as they are.
LEMMA OthersStay ==
  ASSUME CrudTypeOK, NEW t \in Trips, Step(t), NEW u \in Trips, u # t
  PROVE  SameTrip(u)
<1> USE DEF SameTrip, CrudTypeOK
<1>1. CASE Creates(t)
  BY <1>1 DEF Creates, List, Invalid, PutTrip, PutFirstRoute, Created
<1>2. CASE LoadPut(t) \/ LoadPropose(t) \/ LoadConfirm(t) \/ LoadPlan(t) \/ LoadDelete(t)
  BY <1>2 DEF LoadPut, LoadPropose, LoadConfirm, LoadPlan, LoadDelete, Begin
<1>3. CASE DropRoute(t) \/ PutCityRoute(t) \/ SavePut(t)
  BY <1>3 DEF DropRoute, PutCityRoute, SavePut, Go, Done, SetTrip, SetRoute
<1>4. CASE ClaimPropose(t) \/ RunPropose(t) \/ PutProposal(t) \/ CompletePropose(t)
  BY <1>4 DEF ClaimPropose, RunPropose, PutProposal, CompletePropose, Go, Done, SetTrip,
              SetRoute
<1>5. CASE SetConfirmed(t) \/ PutConfirmed(t)
  BY <1>5 DEF SetConfirmed, PutConfirmed, Go, Done, SetTrip, SetRoute
<1>6. CASE ClaimPlan(t) \/ RunPlan(t) \/ PutDay(t) \/ CompletePlan(t)
  BY <1>6 DEF ClaimPlan, RunPlan, PutDay, CompletePlan, Go, Done, SetTrip
<1>7. CASE LockDelete(t) \/ RemoveRows(t)
  BY <1>7 DEF LockDelete, RemoveRows, Go, Done, SetTrip, SetRoute
<1>8. CASE \E k \in Kind : Stops(t, k)
  BY <1>8 DEF Stops, Done
<1>9. QED
  BY <1>1, <1>2, <1>3, <1>4, <1>5, <1>6, <1>7, <1>8 DEF Step, Changes, Deletes

\* A trip that a step does not touch stays in step.
LEMMA SameTripInv ==
  ASSUME NEW t \in Trips, TripInv(t), SameTrip(t) PROVE TripInv(t)'
<1>1. Busy(t)' = Busy(t) /\ Exists(t)' = Exists(t)
  BY DEF SameTrip, Busy, Exists
<1>2. InStep(t)' = InStep(t) /\ Unplanned(t)' = Unplanned(t)
  BY DEF SameTrip, InStep, Fits, Unplanned
<1>3. \A k \in Kind : ActorInStep(t, k)' = ActorInStep(t, k)
  BY <1>1, <1>2
  DEF SameTrip, ActorInStep, PutInStep, ProposeInStep, ConfirmInStep, PlanInStep,
      DeleteInStep, Kind
<1>4. Resting(t)' = Resting(t) /\ CreatedAlone(t)' = CreatedAlone(t)
  BY <1>1, <1>2 DEF SameTrip, Resting, CreatedAlone
<1>5. OneAtWork(t)' = OneAtWork(t)
  BY <1>1, <1>3, <1>4 DEF OneAtWork, Busy
<1>6. QED
  BY <1>4, <1>5 DEF TripInv, SameTrip

\* A writer that is at work on a trip that is not mixed is alone with it.
LEMMA Worker ==
  ASSUME StepInv, NEW t \in Trips, NEW k \in Kind, actor[t][k].pc # "idle"
  PROVE  /\ creator[t] = "done"
         /\ t \notin mixed => Busy(t) = {k} /\ ActorInStep(t, k)
<1>1. k \in Busy(t)
  BY DEF Busy
<1>2. TripInv(t)
  BY DEF StepInv
<1>3. creator[t] = "done"
  BY <1>1, <1>2 DEF TripInv, CreatedAlone
<1>4. QED
  BY <1>1, <1>2, <1>3 DEF TripInv, OneAtWork

\* Such a writer either goes on in step with the trip, or leaves it at rest.
LEMMA WorkerSteps ==
  ASSUME StepInv, NEW t \in Trips, NEW k \in Kind, actor[t][k].pc # "idle",
         UNCHANGED <<creator, mixed>>,
         \A j \in Kind \ {k} : actor'[t][j] = actor[t][j],
         ActorInStep(t, k) =>
           IF actor'[t][k].pc = "idle" THEN Resting(t)' ELSE ActorInStep(t, k)'
  PROVE  TripInv(t)'
<1>1. creator'[t] = "done"
  BY Worker
<1>2. ASSUME t \notin mixed PROVE OneAtWork(t)'
  <2>1. Busy(t) = {k} /\ ActorInStep(t, k)
    BY <1>2, Worker
  <2>2. CASE actor'[t][k].pc = "idle"
    <3>1. Busy(t)' = {}
      BY <2>1, <2>2 DEF Busy
    <3>2. QED
      BY <2>1, <2>2, <3>1 DEF OneAtWork
  <2>3. CASE actor'[t][k].pc # "idle"
    <3>1. Busy(t)' = {k}
      BY <2>1, <2>3 DEF Busy
    <3>2. ActorInStep(t, k)'
      BY <2>1, <2>3
    <3>3. QED
      BY <3>1, <3>2 DEF OneAtWork
  <2>4. QED
    BY <2>2, <2>3
<1>3. QED
  BY <1>1, <1>2 DEF TripInv

\* A writer that begins is alone with a trip at rest, or starts over on one that nobody
\* else is at work on.
LEMMA WorkerBegins ==
  ASSUME StepInv, NEW t \in Trips, NEW k \in Kind, NEW a \in Actors, a.pc # "idle",
         Begin(t, k, a),
         (Resting(t) \/ StartsOver(t, k)) /\ actor'[t][k] = a => ActorInStep(t, k)'
  PROVE  TripInv(t)'
<1>1. creator'[t] = "done"
  BY DEF Begin
<1>2. /\ actor'[t][k] = a
      /\ \A j \in Kind \ {k} : actor'[t][j] = actor[t][j]
  BY DEF Begin, StepInv, CrudTypeOK
<1>3. ASSUME t \notin mixed' PROVE OneAtWork(t)'
  <2>1. Busy(t) = {} /\ (t \in mixed => StartsOver(t, k))
    BY <1>3 DEF Begin
  <2>2. Resting(t) \/ StartsOver(t, k)
    BY <2>1 DEF Begin, StepInv, TripInv, OneAtWork
  <2>3. Busy(t)' = {k}
    BY <1>2, <2>1 DEF Busy
  <2>4. QED
    BY <1>2, <2>2, <2>3 DEF OneAtWork
<1>4. QED
  BY <1>1, <1>3 DEF TripInv

\* A creation leaves a trip at rest, with the ROUTE that its status tells of.
LEMMA CreatesInStep ==
  ASSUME StepInv, CrudTypeOK', NEW t \in Trips, Creates(t) PROVE TripInv(t)'
<1>1. TripInv(t) /\ CrudTypeOK
  BY DEF StepInv
<1>2. creator[t] # "done" /\ CreatedAlone(t)
  BY <1>1 DEF Creates, List, Invalid, PutTrip, PutFirstRoute, TripInv
<1>3. Busy(t)' = {} /\ UNCHANGED <<days, actor>>
  BY <1>2 DEF Creates, List, Invalid, PutTrip, PutFirstRoute, CreatedAlone, Busy
<1>4. SUFFICES IF creator'[t] = "done" THEN t \notin mixed' => Resting(t)'
                                       ELSE CreatedAlone(t)'
  BY <1>3 DEF TripInv, OneAtWork
<1>5. CASE List(t) \/ Invalid(t)
  <2>1. UNCHANGED <<trip, route>> /\ trip[t] = NoTrip
    BY <1>2, <1>5 DEF List, Invalid, CreatedAlone
  <2>2. ~Exists(t)'
    BY <2>1 DEF Exists, NoTrip
  <2>3. creator'[t] \in {"listed", "done"}
    BY <1>1, <1>5 DEF List, Invalid, Created, CrudTypeOK
  <2>4. QED
    BY <1>2, <1>3, <2>1, <2>2, <2>3 DEF CreatedAlone, Resting
<1>6. CASE PutTrip(t)
  <2>1. PICK city \in BOOLEAN, ds \in Dates :
          /\ trip' = [trip EXCEPT ![t] = [NoTrip EXCEPT !.city = city, !.dates = ds,
                        !.status = IF city THEN "routing_confirmed" ELSE "drafting"]]
          /\ Created(t, IF city THEN "route" ELSE "done")
    BY <1>6 DEF PutTrip
  <2>2. /\ trip'[t].status = IF city THEN "routing_confirmed" ELSE "drafting"
        /\ ~trip'[t].job /\ ~trip'[t].pdi
    BY <1>1, <2>1 DEF CrudTypeOK, NoTrip
  <2>3. creator'[t] = (IF city THEN "route" ELSE "done") /\ UNCHANGED route
    BY <1>1, <1>6, <2>1 DEF CrudTypeOK, Created, PutTrip
  <2>4. QED
    BY <1>2, <1>3, <2>2, <2>3 DEF CreatedAlone, Resting, InStep
<1>7. CASE PutFirstRoute(t)
  <2>1. creator'[t] = "done" /\ UNCHANGED trip
    BY <1>1, <1>7 DEF CrudTypeOK, Created, PutFirstRoute
  <2>2. t \notin mixed' => route'[t] = [dates |-> trip[t].dates, confirmed |-> TRUE]
    BY <1>1, <1>7 DEF CrudTypeOK, PutFirstRoute
  <2>3. /\ trip[t].status = "routing_confirmed" /\ ~trip[t].job /\ ~trip[t].pdi
        /\ days[t] = {}
    BY <1>2, <1>7 DEF CreatedAlone, PutFirstRoute
  <2>4. QED
    BY <1>3, <2>1, <2>2, <2>3 DEF Resting, InStep, Fits
<1>8. QED
  BY <1>5, <1>6, <1>7 DEF Creates

\* A writer that begins is in step with what it read; a PUT or a confirm asks nothing of
\* the status and the ROUTE, which it writes anew.
LEMMA LoadsInStep ==
  ASSUME StepInv, NEW t \in Trips,
         LoadPut(t) \/ LoadPropose(t) \/ LoadConfirm(t) \/ LoadPlan(t) \/ LoadDelete(t)
  PROVE  TripInv(t)'
<1>1. UNCHANGED <<trip, route, days>> /\ Exists(t)
  BY DEF LoadPut, LoadPropose, LoadConfirm, LoadPlan, LoadDelete, Begin
<1>2. /\ Exists(t)' /\ (InStep(t)' <=> InStep(t)) /\ (Unplanned(t)' <=> Unplanned(t))
  BY <1>1 DEF Exists, InStep, Fits, Unplanned
<1>bools. trip[t].job \in BOOLEAN /\ trip[t].pdi \in BOOLEAN
  BY DEF StepInv, CrudTypeOK, TripRows
<1>3. CASE LoadPut(t)
  <2>1. PICK city \in BOOLEAN, ds \in Dates :
          Begin(t, "put", [pc |-> "loaded", city |-> city, dates |-> ds])
    BY <1>3 DEF LoadPut
  <2> DEFINE a == [pc |-> "loaded", city |-> city, dates |-> ds]
  <2>2. a \in Actors /\ a.pc = "loaded"
    BY DEF Actors, ActorPc, AnyDates
  <2>3. Resting(t) \/ StartsOver(t, "put") => Unplanned(t)
    BY <1>1, <1>3 DEF LoadPut, Resting, Unplanned, StartsOver
  <2>4. (Resting(t) \/ StartsOver(t, "put")) /\ actor'[t]["put"] = a => ActorInStep(t, "put")'
    BY <1>2, <2>2, <2>3 DEF ActorInStep, PutInStep
  <2>5. QED
    BY <2>1, <2>2, <2>4, WorkerBegins DEF Kind
<1>4. CASE LoadPropose(t)
  <2> DEFINE a == [Idle EXCEPT !.pc = "claim"]
  <2>1. a \in Actors /\ a.pc = "claim"
    BY DEF Actors, ActorPc, AnyDates, Idle
  <2>2. ~StartsOver(t, "propose")
    BY DEF StartsOver
  <2>3. Resting(t) /\ actor'[t]["propose"] = a => ActorInStep(t, "propose")'
    BY <1>1, <1>2, <1>bools, <1>4, <2>1
    DEF ActorInStep, ProposeInStep, LoadPropose, Resting, InStep
  <2>4. QED
    BY <1>4, <2>1, <2>2, <2>3, WorkerBegins DEF Kind, LoadPropose
<1>5. CASE LoadConfirm(t)
  <2> DEFINE a == [pc |-> "status", city |-> FALSE, dates |-> trip[t].dates]
  <2>1. a \in Actors /\ a.pc = "status" /\ a.dates = trip[t].dates
    BY DEF Actors, ActorPc, StepInv, CrudTypeOK, TripRows
  <2>2. actor'[t]["confirm"] = a => ActorInStep(t, "confirm")'
    BY <1>1, <1>2, <1>5, <2>1 DEF ActorInStep, ConfirmInStep, LoadConfirm, Unplanned
  <2>3. QED
    BY <1>5, <2>1, <2>2, WorkerBegins DEF Kind, LoadConfirm
<1>6. CASE LoadPlan(t)
  <2> DEFINE a == [Idle EXCEPT !.pc = "claim"]
  <2>1. a \in Actors /\ a.pc = "claim"
    BY DEF Actors, ActorPc, AnyDates, Idle
  <2>2. ~StartsOver(t, "plan")
    BY DEF StartsOver
  <2>3. Resting(t) /\ actor'[t]["plan"] = a => ActorInStep(t, "plan")'
    BY <1>1, <1>2, <1>bools, <1>6, <2>1 DEF ActorInStep, PlanInStep, LoadPlan, Resting
  <2>4. QED
    BY <1>6, <2>1, <2>2, <2>3, WorkerBegins DEF Kind, LoadPlan
<1>7. CASE LoadDelete(t)
  <2> DEFINE a == [Idle EXCEPT !.pc = "lock"]
  <2>1. a \in Actors /\ a.pc = "lock"
    BY DEF Actors, ActorPc, AnyDates, Idle
  <2>2. ~StartsOver(t, "delete")
    BY DEF StartsOver
  <2>3. Resting(t) /\ actor'[t]["delete"] = a => ActorInStep(t, "delete")'
    BY <1>1, <1>2, <2>1 DEF ActorInStep, DeleteInStep, Resting
  <2>4. QED
    BY <1>7, <2>1, <2>2, <2>3, WorkerBegins DEF Kind, LoadDelete
<1>8. QED
  BY <1>3, <1>4, <1>5, <1>6, <1>7

\* What a write does to the rows it is about.
LEMMA Goes ==
  ASSUME CrudTypeOK, NEW t \in Trips, NEW k \in Kind, NEW pc \in ActorPc, Go(t, k, pc)
  PROVE  /\ actor'[t][k].pc = pc
         /\ actor'[t][k].city = actor[t][k].city /\ actor'[t][k].dates = actor[t][k].dates
         /\ \A j \in Kind \ {k} : actor'[t][j] = actor[t][j]
  BY DEF CrudTypeOK, Actors, Go

LEMMA Ends ==
  ASSUME CrudTypeOK, NEW t \in Trips, NEW k \in Kind, Done(t, k)
  PROVE  /\ actor'[t][k].pc = "idle"
         /\ \A j \in Kind \ {k} : actor'[t][j] = actor[t][j]
  BY DEF CrudTypeOK, Actors, Done, Idle

LEMMA Sets ==
  ASSUME CrudTypeOK, NEW t \in Trips, NEW r
  PROVE  /\ SetTrip(t, r) => trip'[t] = r
         /\ SetRoute(t, r) => route'[t] = r
  BY DEF CrudTypeOK, SetTrip, SetRoute

\* update_trip drops the ROUTE, puts the new one and saves the row, in that order.
LEMMA PutsInStep ==
  ASSUME StepInv, NEW t \in Trips, DropRoute(t) \/ PutCityRoute(t) \/ SavePut(t)
  PROVE  TripInv(t)'
<1> DEFINE k == "put"
<1>1. CrudTypeOK /\ k \in Kind /\ {"route", "save"} \subseteq ActorPc
  BY DEF StepInv, Kind, ActorPc
<1>2. /\ actor[t][k].pc # "idle" /\ UNCHANGED <<days, creator, mixed>>
      /\ trip[t] \in TripRows /\ actor[t][k] \in Actors
  BY <1>1 DEF DropRoute, PutCityRoute, SavePut, At, CrudTypeOK
<1>3. CASE DropRoute(t)
  <2>1. /\ actor'[t][k].pc = IF actor[t][k].city THEN "route" ELSE "save"
        /\ actor'[t][k].city = actor[t][k].city /\ actor'[t][k].dates = actor[t][k].dates
        /\ \A j \in Kind \ {k} : actor'[t][j] = actor[t][j]
    BY <1>1, <1>3, Goes DEF DropRoute, Put
  <2>2. UNCHANGED trip /\ route'[t] = NoRoute
    BY <1>1, <1>3, Sets DEF DropRoute
  <2>3. ActorInStep(t, k) => ActorInStep(t, k)'
    BY <1>2, <2>1, <2>2 DEF ActorInStep, PutInStep, Unplanned, Exists, Actors
  <2>4. QED
    BY <1>1, <1>2, <2>1, <2>3, WorkerSteps
<1>4. CASE PutCityRoute(t)
  <2>1. /\ actor'[t][k].pc = "save" /\ actor[t][k].pc = "route"
        /\ actor'[t][k].city = actor[t][k].city /\ actor'[t][k].dates = actor[t][k].dates
        /\ \A j \in Kind \ {k} : actor'[t][j] = actor[t][j]
    BY <1>1, <1>4, Goes DEF PutCityRoute, At
  <2>2. UNCHANGED trip /\ route'[t] = [dates |-> actor[t][k].dates, confirmed |-> TRUE]
    BY <1>1, <1>4, Sets DEF PutCityRoute, Put
  <2>3. ActorInStep(t, k) => ActorInStep(t, k)'
    BY <1>2, <2>1, <2>2 DEF ActorInStep, PutInStep, Unplanned, Exists
  <2>4. QED
    BY <1>1, <1>2, <2>1, <2>3, WorkerSteps
<1>5. CASE SavePut(t)
  <2>1. /\ actor'[t][k].pc = "idle" /\ actor[t][k].pc = "save"
        /\ \A j \in Kind \ {k} : actor'[t][j] = actor[t][j]
    BY <1>1, <1>5, Ends DEF SavePut, At
  <2>2. ASSUME ActorInStep(t, k) PROVE Resting(t)'
    <3> DEFINE a == actor[t][k]
    <3>1. /\ Exists(t) /\ Unplanned(t)
          /\ route[t] = IF a.city THEN [dates |-> a.dates, confirmed |-> TRUE] ELSE NoRoute
      BY <2>1, <2>2 DEF ActorInStep, PutInStep
    <3>2. /\ UNCHANGED route
          /\ trip'[t] = [trip[t] EXCEPT !.city = a.city, !.dates = a.dates,
                          !.status = IF a.city THEN "routing_confirmed" ELSE "drafting"]
      BY <1>1, <1>5, <3>1, Sets DEF SavePut, Put
    <3>3. /\ trip'[t].dates = a.dates
          /\ trip'[t].status = IF a.city THEN "routing_confirmed" ELSE "drafting"
          /\ trip'[t].job = trip[t].job /\ trip'[t].pdi = trip[t].pdi
      BY <1>2, <3>2 DEF TripRows
    <3>4. QED
      BY <1>2, <3>1, <3>2, <3>3 DEF Resting, InStep, Fits, Unplanned
  <2>3. QED
    BY <1>1, <1>2, <2>1, <2>2, WorkerSteps
<1>6. QED
  BY <1>3, <1>4, <1>5

\* The proposal job holds its claim from the request to the status update.
LEMMA ProposesInStep ==
  ASSUME StepInv, NEW t \in Trips,
         ClaimPropose(t) \/ RunPropose(t) \/ PutProposal(t) \/ CompletePropose(t)
  PROVE  TripInv(t)'
<1> DEFINE k == "propose"
           WithJob(b) == [trip[t] EXCEPT !.job = b]
           Proposed == [trip[t] EXCEPT !.job = FALSE, !.status = "awaiting_city_confirm"]
<1>1. CrudTypeOK /\ k \in Kind /\ {"run", "complete"} \subseteq ActorPc
  BY DEF StepInv, Kind, ActorPc
<1>2. /\ actor[t][k].pc # "idle" /\ UNCHANGED <<days, creator, mixed>>
      /\ trip[t] \in TripRows /\ actor[t][k] \in Actors
  BY <1>1 DEF ClaimPropose, RunPropose, PutProposal, CompletePropose, At, CrudTypeOK
<1>3. ASSUME NEW b \in BOOLEAN
      PROVE  /\ WithJob(b).job = b
             /\ WithJob(b).pdi = trip[t].pdi /\ WithJob(b).city = trip[t].city
             /\ WithJob(b).status = trip[t].status /\ WithJob(b).dates = trip[t].dates
  BY <1>2 DEF TripRows
<1>4. /\ ~Proposed.job /\ Proposed.status = "awaiting_city_confirm"
      /\ Proposed.pdi = trip[t].pdi /\ Proposed.dates = trip[t].dates
  BY <1>2 DEF TripRows
<1> HIDE DEF WithJob, Proposed
<1>5. CASE ClaimPropose(t)
  <2>1. actor[t][k].pc = "claim" /\ UNCHANGED route
    BY <1>5 DEF ClaimPropose, At
  <2>2. CASE SetTrip(t, WithJob(TRUE)) /\ Go(t, k, "run")
    <3>1. /\ trip'[t] = WithJob(TRUE) /\ actor'[t][k].pc = "run"
          /\ \A j \in Kind \ {k} : actor'[t][j] = actor[t][j]
      BY <1>1, <2>2, Goes, Sets
    <3>2. ActorInStep(t, k) => ActorInStep(t, k)'
      BY <1>2, <1>3, <2>1, <3>1 DEF ActorInStep, ProposeInStep, Exists, InStep, Fits
    <3>3. QED
      BY <1>1, <1>2, <3>1, <3>2, WorkerSteps
  <2>3. CASE Done(t, k) /\ UNCHANGED trip
    <3>1. /\ actor'[t][k].pc = "idle"
          /\ \A j \in Kind \ {k} : actor'[t][j] = actor[t][j]
      BY <1>1, <2>3, Ends
    <3>2. ASSUME ActorInStep(t, k) PROVE Resting(t)'
      <4>1. InStep(t) /\ ~trip[t].job /\ ~trip[t].pdi
        BY <2>1, <3>2 DEF ActorInStep, ProposeInStep
      <4>2. InStep(t)'
        BY <1>2, <2>1, <2>3, <4>1 DEF InStep, Fits
      <4>3. QED
        BY <2>3, <4>1, <4>2 DEF Resting
    <3>3. QED
      BY <1>1, <1>2, <3>1, <3>2, WorkerSteps
  <2>4. QED
    BY <1>5, <2>2, <2>3 DEF ClaimPropose, WithJob
<1>6. CASE RunPropose(t)
  <2>1. actor[t][k].pc = "run" /\ UNCHANGED route
    BY <1>6 DEF RunPropose, At
  <2>2. ActorInStep(t, k) => trip[t].job /\ ~trip[t].city
    BY <2>1 DEF ActorInStep, ProposeInStep
  <2>3. \A j \in Kind \ {k} : actor'[t][j] = actor[t][j]
    BY <1>1, <1>6, Ends DEF RunPropose, CrudTypeOK
  <2>4. ASSUME trip[t].job, ~trip[t].city
        PROVE  /\ actor'[t][k] = [pc |-> "route", city |-> FALSE, dates |-> trip[t].dates]
               /\ UNCHANGED trip
    <3> DEFINE a == [pc |-> "route", city |-> FALSE, dates |-> trip[t].dates]
    <3>1. actor' = [actor EXCEPT ![t][k] = a] /\ UNCHANGED trip
      BY <1>6, <2>4 DEF RunPropose
    <3>2. t \in DOMAIN actor /\ k \in DOMAIN actor[t]
      BY <1>1 DEF CrudTypeOK
    <3> HIDE DEF a, k
    <3>3. actor'[t][k] = a
      BY <3>1, <3>2
    <3>4. QED
      BY <3>1, <3>3 DEF a
  <2>5. ASSUME ActorInStep(t, k) PROVE actor'[t][k].pc = "route" /\ ActorInStep(t, k)'
    BY <1>2, <2>1, <2>2, <2>4, <2>5 DEF ActorInStep, ProposeInStep, Exists, InStep, Fits
  <2>6. QED
    BY <1>1, <1>2, <2>3, <2>5, WorkerSteps
<1>7. CASE PutProposal(t)
  <2>1. actor[t][k].pc = "route"
    BY <1>7 DEF PutProposal, At
  <2>2. CASE /\ SetRoute(t, [dates |-> actor[t][k].dates, confirmed |-> FALSE])
             /\ Go(t, k, "complete") /\ UNCHANGED trip
    <3>1. /\ route'[t] = [dates |-> actor[t][k].dates, confirmed |-> FALSE]
          /\ actor'[t][k].pc = "complete"
          /\ \A j \in Kind \ {k} : actor'[t][j] = actor[t][j]
      BY <1>1, <2>2, Goes, Sets
    <3>2. ActorInStep(t, k) => ActorInStep(t, k)'
      BY <1>2, <2>1, <2>2, <3>1 DEF ActorInStep, ProposeInStep, Exists
    <3>3. QED
      BY <1>1, <1>2, <3>1, <3>2, WorkerSteps
  <2>3. CASE Done(t, k) /\ SetTrip(t, WithJob(FALSE)) /\ UNCHANGED route
    <3>1. /\ trip'[t] = WithJob(FALSE) /\ actor'[t][k].pc = "idle"
          /\ \A j \in Kind \ {k} : actor'[t][j] = actor[t][j]
      BY <1>1, <2>3, Ends, Sets
    <3>2. ActorInStep(t, k) => Resting(t)'
      BY <1>2, <1>3, <2>1, <2>3, <3>1
      DEF ActorInStep, ProposeInStep, Resting, Exists, InStep, Fits
    <3>3. QED
      BY <1>1, <1>2, <3>1, <3>2, WorkerSteps
  <2>4. QED
    BY <1>7, <2>2, <2>3 DEF PutProposal, WithJob
<1>8. CASE CompletePropose(t)
  <2>1. /\ actor[t][k].pc = "complete" /\ actor'[t][k].pc = "idle" /\ UNCHANGED route
        /\ \A j \in Kind \ {k} : actor'[t][j] = actor[t][j]
    BY <1>1, <1>8, Ends DEF CompletePropose, At
  <2>2. trip[t].job => trip'[t] = Proposed
    BY <1>1, <1>8, Sets DEF CompletePropose, Proposed
  <2>3. ASSUME ActorInStep(t, k) PROVE Resting(t)'
    <3>1. /\ trip[t].job /\ ~trip[t].pdi /\ days[t] = {}
          /\ route[t] = [dates |-> trip[t].dates, confirmed |-> FALSE]
      BY <2>1, <2>3 DEF ActorInStep, ProposeInStep
    <3>2. QED
      BY <1>2, <1>4, <2>1, <2>2, <3>1 DEF Resting, InStep, Fits
  <2>4. QED
    BY <1>1, <1>2, <2>1, <2>3, WorkerSteps
<1>9. QED
  BY <1>5, <1>6, <1>7, <1>8

\* confirm_cities sets the status, then puts the ROUTE for the dates it has read.
LEMMA ConfirmsInStep ==
  ASSUME StepInv, NEW t \in Trips, SetConfirmed(t) \/ PutConfirmed(t) PROVE TripInv(t)'
<1> DEFINE k == "confirm"
           Confirmed == [trip[t] EXCEPT !.status = "routing_confirmed"]
<1>1. CrudTypeOK /\ k \in Kind /\ "route" \in ActorPc
  BY DEF StepInv, Kind, ActorPc
<1>2. /\ actor[t][k].pc # "idle" /\ UNCHANGED <<days, creator, mixed>>
      /\ trip[t] \in TripRows /\ actor[t][k] \in Actors
  BY <1>1 DEF SetConfirmed, PutConfirmed, At, CrudTypeOK
<1>3. /\ Confirmed.status = "routing_confirmed" /\ Confirmed.dates = trip[t].dates
      /\ Confirmed.job = trip[t].job /\ Confirmed.pdi = trip[t].pdi
  BY <1>2 DEF TripRows
<1> HIDE DEF Confirmed
<1>4. CASE SetConfirmed(t)
  <2>1. actor[t][k].pc = "status" /\ UNCHANGED route
    BY <1>4 DEF SetConfirmed, At
  <2>2. \A j \in Kind \ {k} : actor'[t][j] = actor[t][j]
    BY <1>1, <1>4, Goes, Ends DEF SetConfirmed
  <2>3. ASSUME ActorInStep(t, k) PROVE actor'[t][k].pc = "route" /\ ActorInStep(t, k)'
    <3>1. Exists(t)
      BY <2>3 DEF ActorInStep, ConfirmInStep
    <3>2. /\ trip'[t] = Confirmed /\ actor'[t][k].pc = "route"
          /\ actor'[t][k].dates = actor[t][k].dates
      BY <1>1, <1>4, <3>1, Goes, Sets DEF SetConfirmed, Confirmed
    <3>3. QED
      BY <1>2, <1>3, <2>1, <2>3, <3>2 DEF ActorInStep, ConfirmInStep, Exists, Unplanned
  <2>4. QED
    BY <1>1, <1>2, <2>2, <2>3, WorkerSteps
<1>5. CASE PutConfirmed(t)
  <2>1. /\ actor[t][k].pc = "route" /\ actor'[t][k].pc = "idle" /\ UNCHANGED trip
        /\ \A j \in Kind \ {k} : actor'[t][j] = actor[t][j]
        /\ route'[t] = [dates |-> actor[t][k].dates, confirmed |-> TRUE]
    BY <1>1, <1>5, Ends, Sets DEF PutConfirmed, At
  <2>2. ActorInStep(t, k) => Resting(t)'
    BY <1>2, <2>1 DEF ActorInStep, ConfirmInStep, Resting, Exists, Unplanned, InStep, Fits
  <2>3. QED
    BY <1>1, <1>2, <2>1, <2>2, WorkerSteps
<1>6. QED
  BY <1>4, <1>5

\* The planning of a day holds its claim until the status is updated.
LEMMA PlansInStep ==
  ASSUME StepInv, NEW t \in Trips,
         ClaimPlan(t) \/ RunPlan(t) \/ PutDay(t) \/ CompletePlan(t)
  PROVE  TripInv(t)'
<1> DEFINE k == "plan"
           With(b, st) == [trip[t] EXCEPT !.pdi = b, !.status = st]
<1>1. CrudTypeOK /\ k \in Kind /\ {"run", "complete"} \subseteq ActorPc
  BY DEF StepInv, Kind, ActorPc
<1>2. /\ actor[t][k].pc # "idle" /\ UNCHANGED <<route, creator, mixed>>
      /\ trip[t] \in TripRows /\ actor[t][k] \in Actors
  BY <1>1 DEF ClaimPlan, RunPlan, PutDay, CompletePlan, At, CrudTypeOK
<1>3. ASSUME NEW b \in BOOLEAN, NEW st \in {"planning", "complete", "failed"}
      PROVE  /\ With(b, st).pdi = b /\ With(b, st).status = st
             /\ With(b, st).job = trip[t].job /\ With(b, st).dates = trip[t].dates
  BY <1>2 DEF TripRows
<1> HIDE DEF With
<1>4. CASE ClaimPlan(t)
  <2>1. actor[t][k].pc = "claim" /\ UNCHANGED days
    BY <1>4 DEF ClaimPlan, At
  <2>2. CASE SetTrip(t, With(TRUE, "planning")) /\ Go(t, k, "run")
    <3>1. /\ trip'[t] = With(TRUE, "planning") /\ actor'[t][k].pc = "run"
          /\ \A j \in Kind \ {k} : actor'[t][j] = actor[t][j]
      BY <1>1, <2>2, Goes, Sets
    <3>2. ActorInStep(t, k) => ActorInStep(t, k)'
      BY <1>2, <1>3, <2>1, <3>1 DEF ActorInStep, PlanInStep, Exists, InStep, Fits
    <3>3. QED
      BY <1>1, <1>2, <3>1, <3>2, WorkerSteps
  <2>3. CASE Done(t, k) /\ UNCHANGED trip
    <3>1. /\ actor'[t][k].pc = "idle"
          /\ \A j \in Kind \ {k} : actor'[t][j] = actor[t][j]
      BY <1>1, <2>3, Ends
    <3>2. ActorInStep(t, k) => Resting(t)'
      BY <1>2, <2>1, <2>3 DEF ActorInStep, PlanInStep, Resting, Exists, InStep, Fits
    <3>3. QED
      BY <1>1, <1>2, <3>1, <3>2, WorkerSteps
  <2>4. QED
    BY <1>4, <2>2, <2>3 DEF ClaimPlan, With
<1>5. CASE RunPlan(t)
  <2>1. actor[t][k].pc = "run" /\ UNCHANGED days
    BY <1>5 DEF RunPlan, At
  <2>2. ActorInStep(t, k) => trip[t].pdi
    BY <2>1 DEF ActorInStep, PlanInStep
  <2>3. CASE /\ actor' = [actor EXCEPT ![t][k] =
                            [pc |-> "put", city |-> FALSE, dates |-> trip[t].dates]]
             /\ UNCHANGED trip
    <3>1. /\ actor'[t][k] = [pc |-> "put", city |-> FALSE, dates |-> trip[t].dates]
          /\ \A j \in Kind \ {k} : actor'[t][j] = actor[t][j]
      BY <1>1, <2>3 DEF CrudTypeOK
    <3>2. ActorInStep(t, k) => ActorInStep(t, k)'
      BY <1>2, <2>1, <2>3, <3>1 DEF ActorInStep, PlanInStep, Exists, InStep, Fits
    <3>3. QED
      BY <1>1, <1>2, <3>1, <3>2, WorkerSteps
  <2>4. CASE Done(t, k) /\ (trip[t].pdi => SetTrip(t, With(FALSE, "failed")))
    <3>1. /\ actor'[t][k].pc = "idle"
          /\ \A j \in Kind \ {k} : actor'[t][j] = actor[t][j]
      BY <1>1, <2>4, Ends
    <3>2. trip[t].pdi => trip'[t] = With(FALSE, "failed")
      BY <1>1, <2>4, Sets
    <3>3. ActorInStep(t, k) => Resting(t)'
      BY <1>2, <1>3, <2>1, <2>2, <3>2
      DEF ActorInStep, PlanInStep, Resting, Exists, InStep, Fits
    <3>4. QED
      BY <1>1, <1>2, <3>1, <3>3, WorkerSteps
  <2>5. QED
    BY <1>5, <2>3, <2>4 DEF RunPlan, With
<1>6. CASE PutDay(t)
  <2>1. /\ actor[t][k].pc = "put" /\ actor'[t][k].pc = "complete" /\ UNCHANGED trip
        /\ \A j \in Kind \ {k} : actor'[t][j] = actor[t][j]
    BY <1>1, <1>6, Goes DEF PutDay, At
  <2>2. days'[t] = days[t] \cup {actor[t][k].dates}
    BY <1>1, <1>6 DEF PutDay, CrudTypeOK
  <2>3. ActorInStep(t, k) => ActorInStep(t, k)'
    BY <1>2, <2>1, <2>2 DEF ActorInStep, PlanInStep, Exists, InStep, Fits
  <2>4. QED
    BY <1>1, <1>2, <2>1, <2>3, WorkerSteps
<1>7. CASE CompletePlan(t)
  <2>1. /\ actor[t][k].pc = "complete" /\ actor'[t][k].pc = "idle" /\ UNCHANGED days
        /\ \A j \in Kind \ {k} : actor'[t][j] = actor[t][j]
    BY <1>1, <1>7, Ends DEF CompletePlan, At
  <2>2. ASSUME ActorInStep(t, k) PROVE Resting(t)'
    <3>1. trip[t].pdi /\ InStep(t) /\ ~trip[t].job
          /\ trip[t].status \in {"routing_confirmed", "planning", "failed"}
      BY <2>1, <2>2 DEF ActorInStep, PlanInStep
    <3>2. PICK st \in {"planning", "complete"} : SetTrip(t, With(FALSE, st))
      BY <1>7, <3>1 DEF CompletePlan, With
    <3>3. trip'[t] = With(FALSE, st)
      BY <1>1, <3>2, Sets
    <3> DEFINE row == With(FALSE, st)
    <3>4. /\ ~row.pdi /\ row.status = st /\ row.job = trip[t].job
          /\ row.dates = trip[t].dates
      BY <1>3
    <3> HIDE DEF row
    <3>5. InStep(t)'
      BY <1>2, <2>1, <3>1, <3>3, <3>4 DEF InStep, Fits, row
    <3>6. QED
      BY <3>1, <3>3, <3>4, <3>5 DEF Resting, row
  <2>3. QED
    BY <1>1, <1>2, <2>1, <2>2, WorkerSteps
<1>8. QED
  BY <1>4, <1>5, <1>6, <1>7

\* A DELETE locks the trip and removes all it has.
LEMMA DeletesInStep ==
  ASSUME StepInv, NEW t \in Trips, LockDelete(t) \/ RemoveRows(t) PROVE TripInv(t)'
<1> DEFINE k == "delete"
           Locked == [trip[t] EXCEPT !.status = "deleting"]
<1>1. CrudTypeOK /\ k \in Kind /\ "rows" \in ActorPc
  BY DEF StepInv, Kind, ActorPc
<1>2. /\ actor[t][k].pc # "idle" /\ UNCHANGED <<creator, mixed>>
      /\ trip[t] \in TripRows
  BY <1>1 DEF LockDelete, RemoveRows, At, CrudTypeOK
<1>3. Locked.status = "deleting" /\ Locked.pdi = trip[t].pdi
  BY <1>2 DEF TripRows
<1> HIDE DEF Locked
<1>4. CASE LockDelete(t)
  <2>1. \A j \in Kind \ {k} : actor'[t][j] = actor[t][j]
    BY <1>1, <1>4, Goes, Ends DEF LockDelete
  <2>2. ASSUME ActorInStep(t, k) PROVE actor'[t][k].pc = "rows" /\ ActorInStep(t, k)'
    <3>1. Exists(t) /\ ~trip[t].pdi
      BY <2>2 DEF ActorInStep, DeleteInStep
    <3>2. trip'[t] = Locked /\ actor'[t][k].pc = "rows"
      BY <1>1, <1>4, <3>1, Goes, Sets DEF LockDelete, Locked
    <3>3. QED
      BY <1>3, <3>1, <3>2 DEF ActorInStep, DeleteInStep, Exists
  <2>3. QED
    BY <1>1, <1>2, <2>1, <2>2, WorkerSteps
<1>5. CASE RemoveRows(t)
  <2>1. /\ actor'[t][k].pc = "idle" /\ trip'[t] = NoTrip
        /\ \A j \in Kind \ {k} : actor'[t][j] = actor[t][j]
    BY <1>1, <1>5, Ends, Sets DEF RemoveRows
  <2>2. Resting(t)'
    BY <2>1 DEF Resting, Exists, NoTrip
  <2>3. QED
    BY <1>1, <1>2, <2>1, <2>2, WorkerSteps
<1>6. QED
  BY <1>4, <1>5

\* Every step keeps every trip in step, and CrudInit has that.
LEMMA StepsInStep == StepInv /\ [CrudNext]_crudVars => StepInv'
<1> SUFFICES ASSUME StepInv, [CrudNext]_crudVars PROVE StepInv'
  OBVIOUS
<1>1. CrudTypeOK /\ CrudTypeOK'
  BY StepTyped DEF StepInv
<1>2. CASE UNCHANGED crudVars
  <2>1. \A t \in Trips : SameTrip(t)
    BY <1>2 DEF crudVars, SameTrip
  <2>2. QED
    BY <1>1, <2>1, SameTripInv DEF StepInv
<1>3. ASSUME NEW t \in Trips, Step(t) PROVE StepInv'
  <2>1. ASSUME NEW k \in Kind, Stops(t, k) PROVE TripInv(t)'
    <3>1. creator'[t] = "done" /\ t \in mixed'
      BY <2>1, Worker DEF Stops
    <3>2. QED
      BY <3>1 DEF TripInv
  <2>2. TripInv(t)'
    BY <1>1, <1>3, <2>1, CreatesInStep, LoadsInStep, PutsInStep, ProposesInStep,
       ConfirmsInStep, PlansInStep, DeletesInStep
    DEF Step, Changes, Deletes
  <2>3. ASSUME NEW u \in Trips, u # t PROVE TripInv(u)'
    BY <1>1, <1>3, <2>3, OthersStay, SameTripInv DEF StepInv
  <2>4. QED
    BY <1>1, <2>2, <2>3 DEF StepInv
<1>4. QED
  BY <1>2, <1>3 DEF CrudNext, Step

LEMMA StepInit == CrudInit => StepInv
<1> SUFFICES ASSUME CrudInit PROVE StepInv
  OBVIOUS
<1>1. CrudTypeOK
  BY LimitInit DEF LimitInv
<1>2. ASSUME NEW t \in Trips PROVE TripInv(t)
  BY DEF CrudInit, TripInv, CreatedAlone, Busy, Idle
<1>3. QED
  BY <1>1, <1>2 DEF StepInv

\* RouteInStep: for any number of trips and any dates, a trip shows, whenever nobody is at
\* work on it, a ROUTE and days that are of its dates and its status, as long as its writers
\* come one after the other and finish; and where they did not, again from the next PUT or
\* confirm that goes through alone on the trip without a claim.
THEOREM StatusTellsOfRoute == CrudSpec => []RouteInStep
<1>1. StepInv => RouteInStep
  <2> SUFFICES ASSUME StepInv, NEW t \in Trips \ mixed,
                      Exists(t), creator[t] = "done", Busy(t) = {}
               PROVE  /\ InStep(t)
                      /\ trip[t].status \in TripStatus
    BY DEF RouteInStep, InStep, Fits, TripStatus, Exists
  <2>1. Resting(t)
    BY DEF StepInv, TripInv, OneAtWork
  <2>2. trip[t] \in TripRows
    BY DEF StepInv, CrudTypeOK
  <2>3. QED
    BY <2>1, <2>2 DEF Resting, TripRows
<1>2. QED
  BY <1>1, StepInit, StepsInStep, PTL DEF CrudSpec
=============================================================================
