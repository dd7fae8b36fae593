---------------------------- MODULE RouteWindows ----------------------------
(***************************************************************************)
(* shared/route_windows.py: the stops a crew proposes, made into a route   *)
(* that holds every day of the trip once; and the check that a route has   *)
(* to pass before it is stored (assert_route_fits_window, trips/           *)
(* city_route.py); and the cities a crew suggests to add to a route        *)
(* (_suggest_city_sync, trips/city_suggest.py).  A proposed stop is its    *)
(* number of nights, a stop of a route has the days it holds as well; a    *)
(* city is its name as somebody wrote it.                                  *)
(***************************************************************************)
EXTENDS Lists, SequencesExt, FiniteSets, FiniteSetsExt

CONSTANTS
  Norm,         \* Norm[name]: the name without case and spaces around, "" if nothing is left
  MaxCount      \* _MAX_COUNT: 3

ASSUME MaxCountAssumption == MaxCount \in Nat \ {0}

\* max_cities_for_trip.
MaxCities(days) ==
  CASE days <= 4 -> 1 [] days = 5 -> 2 [] days \in 6..9 -> 3 [] days \in 10..14 -> 4 [] OTHER -> 5

\* The shortest stop but the first joins the one before it.
MergeOne(nights, limit) ==
  LET i == CHOOSE i \in 2..Len(nights) :
             \A j \in 2..Len(nights) : nights[i] < nights[j] \/ (nights[i] = nights[j] /\ i <= j)
  IN  IF Len(nights) <= limit THEN nights
      ELSE RemoveAt([nights EXCEPT ![i - 1] = @ + nights[i]], i)

\* consolidate_route_cities.
Consolidate(nights, limit) ==
  LET after[n \in 0..Len(nights)] == IF n = 0 THEN nights ELSE MergeOne(after[n - 1], limit)
  IN  after[Len(nights)]

\* Indexes by remainder, then weight, the largest first, then the earlier index.
ByRemainder(rest, weight, i, j) ==
  \/ rest[i] > rest[j]
  \/ rest[i] = rest[j] /\ (weight[i] > weight[j] \/ (weight[i] = weight[j] /\ i < j))

\* One more for the first "extra" indexes of that order.
Spread(parts, rest, weight, extra) ==
  LET rank(i) == Cardinality({ j \in DOMAIN parts : ByRemainder(rest, weight, j, i) }) IN
  [i \in DOMAIN parts |-> parts[i] + (IF rank(i) < extra THEN 1 ELSE 0)]

\* _scale_nights: to a given sum, in proportion.
ScaleNights(nights, expected) ==
  LET n == Len(nights)
      raw == Total(nights)
      parts == [i \in 1..n |-> (expected * nights[i]) \div raw]
      rest == [i \in 1..n |-> (expected * nights[i]) % raw]
  IN  CASE raw = 0 -> [i \in 1..n |-> expected \div n + (IF i <= expected % n THEN 1 ELSE 0)]
        [] raw # 0 /\ raw = expected -> nights
        [] OTHER -> Spread(parts, rest, nights, expected - Total(parts))

\* The largest gives one, unless the sum is right or nothing is left to give.
GiveOne(parts, total) ==
  LET i == CHOOSE i \in DOMAIN parts :
             \A j \in DOMAIN parts : parts[i] > parts[j] \/ (parts[i] = parts[j] /\ i <= j)
  IN  IF Total(parts) <= total \/ parts[i] <= 1 THEN parts ELSE [parts EXCEPT ![i] = @ - 1]

Shrink(parts, total) ==
  LET after[n \in 0..Total(parts)] == IF n = 0 THEN parts ELSE GiveOne(after[n - 1], total)
  IN  after[Total(parts)]

\* Mutant: the days left over are not given out.
MutPartition(total, weight) ==
  LET sum == Total(weight)
      shares == [i \in DOMAIN weight |-> (total * weight[i]) \div sum]
  IN  Shrink([i \in DOMAIN shares |-> IF shares[i] < 1 THEN 1 ELSE shares[i]], total)

\* _largest_remainder_partition: days in proportion to the weights, at least one each.
Partition(total, weight) ==
  LET sum == Total(weight)
      shares == [i \in DOMAIN weight |-> (total * weight[i]) \div sum]
      rest == [i \in DOMAIN weight |-> (total * weight[i]) % sum]
      parts == Shrink([i \in DOMAIN shares |-> IF shares[i] < 1 THEN 1 ELSE shares[i]], total)
  IN  Spread(parts, rest, weight, total - Total(parts))

\* normalize_route_windows.
Normalize(proposed, days) ==
  LET nights == ScaleNights(Consolidate(proposed, MaxCities(days)), days - 1)
      spans == Partition(days, [i \in DOMAIN nights |-> nights[i] + 1])
      first(i) == 1 + Total(SubSeq(spans, 1, i - 1))
  IN  IF proposed = <<>> THEN <<>>
      ELSE [i \in DOMAIN nights |-> [nights |-> nights[i], arrival |-> first(i),
                                     departure |-> first(i) + spans[i] - 1]]

\* synthetic_city_route: a trip to one city.
Synthetic(days) == <<[nights |-> days - 1, arrival |-> 1, departure |-> days]>>

Held(stop) == stop.arrival..stop.departure

\* assert_route_fits_window.
FitsWindow(route, days) ==
  /\ route # <<>>
  /\ \A i \in DOMAIN route : route[i].arrival \in 1..days /\ route[i].departure \in 1..days
                             /\ route[i].arrival <= route[i].departure
  /\ \A i, j \in DOMAIN route : i # j => Held(route[i]) \cap Held(route[j]) = {}
  /\ Total([i \in DOMAIN route |-> route[i].nights]) = days - 1
  /\ UNION { Held(route[i]) : i \in DOMAIN route } = 1..days

-----------------------------------------------------------------------------
(* Suggested cities                                                        *)

Keys(names) == { Norm[names[i]] : i \in DOMAIN names }

\* _unique_names: the first of each name, in order.
UniqueNames(names) ==
  LET next(out, n) == IF Norm[n] \in {""} \cup Keys(out) THEN out ELSE Append(out, n)
      upTo[n \in 0..Len(names)] == IF n = 0 THEN <<>> ELSE next(upTo[n - 1], names[n])
  IN  upTo[Len(names)]

Cities(candidates) == [i \in DOMAIN candidates |-> candidates[i].city]

\* _dedupe_candidates: the first "limit" that are new; no nights, or 0, are one.
DedupeCandidates(candidates, banned, limit) ==
  LET next(out, c) ==
        IF Len(out) = limit \/ Norm[c.city] \in {""} \cup banned \cup Keys(Cities(out)) \/ c.nights < 0
        THEN out
        ELSE Append(out, [c EXCEPT !.nights = Max({1, @})])
      upTo[n \in 0..Len(candidates)] == IF n = 0 THEN <<>> ELSE next(upTo[n - 1], candidates[n])
  IN  upTo[Len(candidates)]

\* The crew answers with a list of candidates, bare or not, with one city, an error, or
\* something else.
CandidatesOf(answer) ==
  CASE answer.form \in {"candidates", "list"} -> answer.cities
    [] answer.form = "city" -> SubSeq(answer.cities, 1, 1)
    [] OTHER -> <<>>

\* _suggest_city_sync: the cities of the ROUTE are banned, and those of the client's
\* draft; as many are asked for as the trip has room for.
SuggestCities(in) ==
  LET listed == UniqueNames(in.persisted \o in.draft)
      room == MaxCities(in.days) - Len(listed)
      limit == Min({MaxCount, in.count, room})
      found == DedupeCandidates(CandidatesOf(in.answer), Keys(listed), limit)
      result(code, cities) == [code |-> code, cities |-> cities]
  IN  CASE room <= 0 -> result("city_cap", <<>>)
        [] room > 0 /\ in.answer.form = "error" -> result("crew_failed", <<>>)
        [] room > 0 /\ in.answer.form # "error" ->
             result(IF found = <<>> THEN "suggest_city_empty" ELSE "ok", found)

-----------------------------------------------------------------------------
(* Properties                                                              *)

\* "Every day is covered once and no city gets zero days": whatever nights a crew
\* proposes, the route passes the check that the worker makes next, with no more
\* cities than the trip has room for, and no city is scaled below one proposed for less.
\* (Its days may still be fewer: a share lifted to one day keeps its remainder.)
ProposalFits(proposed, days, route) ==
  /\ FitsWindow(route, days)
  /\ Len(route) <= MaxCities(days)
  /\ \A i, j \in DOMAIN route :
       Len(route) = Len(proposed) /\ proposed[i] > proposed[j] => route[i].nights >= route[j].nights

\* Suggested cities are new to the route and to the draft, each of them once and for a
\* night at least; all of them together are still no more than a trip has room for; and
\* nothing is refused as empty while the crew named a city that could be added.
SuggestionsFit(in, out) ==
  LET all == in.persisted \o in.draft \o Cities(out.cities)
      listed == Keys(in.persisted \o in.draft) \ {""}
  IN  /\ out.code = "ok" =>
           /\ Cardinality(Keys(all) \ {""}) = Cardinality(listed) + Len(out.cities)
           /\ Cardinality(Keys(all) \ {""}) <= MaxCities(in.days)
           /\ \A i \in DOMAIN out.cities : out.cities[i].nights >= 1
           /\ Len(out.cities) \in 1..in.count
      /\ out.code = "suggest_city_empty" =>
           \A i \in DOMAIN CandidatesOf(in.answer) :
             LET c == CandidatesOf(in.answer)[i] IN Norm[c.city] \in listed \cup {""} \/ c.nights < 0
=============================================================================
