------------------------------ MODULE DayRemap ------------------------------
(***************************************************************************)
(* trips/day_remap.py: the planned days of a trip moved onto a newly       *)
(* confirmed route.                                                        *)
(*                                                                         *)
(* The DAY rows are a function on the day indexes that have one, of        *)
(* [plan, city] records: the plan is everything a row keeps when it moves  *)
(* (places, theme), the city is its overnight city.  A city is a name      *)
(* after norm_overnight_city: two spellings of it are one value.  A route  *)
(* is its overnight schedule, one city for each day.                       *)
(***************************************************************************)
EXTENDS Integers

CONSTANTS
  Days,       \* day_count
  Plan,       \* what a DAY row may hold
  City        \* overnight cities

ASSUME DayRemapAssumption == Days \in Nat \ {0}

Slot == [plan : Plan, city : City]

NoRows == [d \in {} |-> d]

-----------------------------------------------------------------------------
(* overnight_schedule: the first stop whose window holds the day, else the *)
(* destination.  A stop is [city, arrival, departure].                     *)

Covers(stop, d) == stop.arrival <= d /\ d <= stop.departure

\* Mutant: the departure day is left to the next stop.
MutOvernight(stops, d, destination) ==
  LET on == { i \in DOMAIN stops : stops[i].arrival <= d /\ d < stops[i].departure }
  IN  IF on = {} THEN destination ELSE stops[CHOOSE i \in on : \A j \in on : i <= j].city

Overnight(stops, d, destination) ==
  LET on == { i \in DOMAIN stops : Covers(stops[i], d) }
  IN  IF on = {} THEN destination ELSE stops[CHOOSE i \in on : \A j \in on : i <= j].city

OvernightSchedule(stops, destination) ==
  [d \in 1..Days |-> Overnight(stops, d, destination)]

-----------------------------------------------------------------------------
(* remap_day_plans: per city a queue of its planned days in day order; the *)
(* slots of the new schedule take the head of their city's queue.  What is *)
(* left of all queues is the set of the days not taken.                    *)

Queue(days, left, c) == { d \in left : days[d].city = c }
Earliest(queue) == CHOOSE d \in queue : \A e \in queue : d <= e
Take(days, route, acc, n, old) ==
  [d \in DOMAIN acc.out \cup {n} |->
     IF d = n THEN [plan |-> days[old].plan, city |-> route[n]] ELSE acc.out[d]]

\* Mutant: the day taken stays in the queue.
MutTakeSlot(days, route, acc, n) ==
  LET queue == Queue(days, acc.left, route[n])
  IN  IF queue = {} THEN acc
      ELSE [acc EXCEPT !.out = Take(days, route, acc, n, Earliest(queue))]

TakeSlot(days, route, acc, n) ==
  LET queue == Queue(days, acc.left, route[n])
  IN  IF queue = {} THEN acc
      ELSE [left |-> acc.left \ {Earliest(queue)},
            out  |-> Take(days, route, acc, n, Earliest(queue))]

\* The first n slots of the schedule are dealt with.
Deal(days, route) ==
  LET deal[n \in 0..Days] ==
        IF n = 0 THEN [left |-> DOMAIN days, out |-> NoRows]
        ELSE TakeSlot(days, route, deal[n - 1], n)
  IN  deal

Remap(days, route) == Deal(days, route)[Days].out
=============================================================================
