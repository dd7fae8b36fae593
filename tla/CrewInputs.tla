----------------------------- MODULE CrewInputs -----------------------------
(***************************************************************************)
(* crew_io/context_budget.py: the prompt fields of a crew cut to a budget  *)
(* of characters, and what a retry adds to them afterwards                 *)
(* (apply_plan_day_retry_inputs, apply_suggest_place_retry_inputs).        *)
(*                                                                         *)
(* A field is what the cuts see of it: the visited keys and the lines of   *)
(* the prior days are sequences (a key has a size and is or is not of the  *)
(* overnight city, a line is its size), the route is a sequence of stops   *)
(* with some prose, the preferences are their length.                      *)
(***************************************************************************)
EXTENDS Lists, SequencesExt, FiniteSets, FiniteSetsExt

CONSTANTS
  Budget,       \* CREW_INPUT_MAX_CHARS: 16000
  HintSize,     \* the characters of a retry hint
  Today         \* [city, day]: the overnight city and the day_index to plan

ASSUME BudgetAssumption == Budget \in Nat /\ HintSize \in Nat

\* Items joined by a separator.
Joined(sizes) == IF sizes = <<>> THEN 0 ELSE Total(sizes) + Len(sizes) - 1

KeySizes(keys) == [i \in DOMAIN keys |-> keys[i].size]
RouteSize(route) == IF route.stops = <<>> THEN 0 ELSE 1 + Len(route.stops) + route.prose

\* inputs_char_len: the JSON of all fields; "rest" is what is never cut.
Size(in) ==
  in.rest + Joined(KeySizes(in.visited)) + Joined(in.prior) + RouteSize(in.route) + in.prefs

Fits(in) == Size(in) <= Budget

\* Mutant: the search stops with one count left to try.
MutHalve(fits, s) ==
  LET mid == (s.lo + s.hi) \div 2 IN
  IF s.lo >= s.hi THEN s
  ELSE IF fits[mid] THEN [s EXCEPT !.lo = mid + 1, !.best = mid] ELSE [s EXCEPT !.hi = mid - 1]

\* A round of the binary search for the largest count that fits.
Halve(fits, s) ==
  LET mid == (s.lo + s.hi) \div 2 IN
  IF s.lo > s.hi THEN s
  ELSE IF fits[mid] THEN [s EXCEPT !.lo = mid + 1, !.best = mid] ELSE [s EXCEPT !.hi = mid - 1]

\* fits[n] for n in 0..top: no more than top + 1 rounds.
Search(fits, top) ==
  LET after[n \in 0..top + 1] == IF n = 0 THEN [lo |-> 0, hi |-> top, best |-> 0]
                                 ELSE Halve(fits, after[n - 1])
  IN  after[top + 1].best

\* _select_visited_keys: of the overnight city first, then the latest; in their order.
Select(keys, n) ==
  LET before(i, j) == IF keys[i].here # keys[j].here THEN keys[i].here ELSE i > j
      rank(i) == Cardinality({ j \in DOMAIN keys : before(j, i) })
  IN  Only(keys, { i \in DOMAIN keys : rank(i) < n })

\* _slim_already_visited_to_fit.
SlimVisited(in) ==
  LET fits == [n \in 0..Len(in.visited) |-> Fits([in EXCEPT !.visited = Select(in.visited, n)])]
  IN  [in EXCEPT !.visited = Select(in.visited, Search(fits, Len(in.visited)))]

\* _slim_prior_days_to_fit: the oldest lines go first.
SlimPrior(in) ==
  LET good == { n \in 0..Len(in.prior) - 1 : Fits([in EXCEPT !.prior = SubSeq(@, n + 1, Len(@))]) }
  IN  [in EXCEPT !.prior = IF good = {} THEN <<>> ELSE SubSeq(@, Min(good) + 1, Len(@))]

\* _minimal_route_json: a stub that says where the day is spent.
MinimalRoute ==
  [stops |-> <<[city |-> Today.city, arrival |-> Today.day, departure |-> Today.day]>>, prose |-> 0]

\* _windowed_route_json: the stops of the overnight city, and those that hold the day.
Windowed(route) ==
  LET holds(s) == s.arrival <= Today.day /\ Today.day <= s.departure
      kept == Only(route.stops, { i \in DOMAIN route.stops :
                                    route.stops[i].city = Today.city \/ holds(route.stops[i]) })
  IN  IF kept = <<>> THEN MinimalRoute ELSE [stops |-> kept, prose |-> 0]

\* _slim_city_route_to_fit.
SlimRoute(in) ==
  LET fits(r) == in.route.stops # <<>> /\ Fits([in EXCEPT !.route = r]) IN
  [in EXCEPT !.route = IF fits(Windowed(in.route)) THEN Windowed(in.route)
                       ELSE IF fits(MinimalRoute) THEN MinimalRoute
                       ELSE [stops |-> <<>>, prose |-> 0]]

\* _slim_preferences_to_fit: cut from the end.
SlimPrefs(in) ==
  LET fits == [n \in 0..in.prefs |-> Fits([in EXCEPT !.prefs = n])]
  IN  [in EXCEPT !.prefs = Search(fits, in.prefs)]

\* slim_crew_inputs: in this order, as far as needed.
Slim(in) ==
  LET visited == IF Fits(in) THEN in ELSE SlimVisited(in)
      prior == IF Fits(visited) THEN visited ELSE SlimPrior(visited)
      route == IF Fits(prior) THEN prior ELSE SlimRoute(prior)
  IN  IF Fits(route) THEN route ELSE SlimPrefs(route)

\* A retry starts from the slimmed inputs: a hint in front of the preferences (" | "),
\* and after the second failure two more places asked for, seven at most.
PlanRetry(in, attempt) ==
  IF attempt = 0 THEN in
  ELSE [in EXCEPT !.prefs = @ + HintSize + (IF @ = 0 THEN 0 ELSE 1),
                  !.target = IF attempt = 1 THEN @ ELSE Min({@ + 2, 7})]

\* A suggestion's retry also lists what it bans with the visited keys.
SuggestRetry(in, attempt, banned) ==
  IF attempt = 0 THEN in
  ELSE [in EXCEPT !.prefs = @ + HintSize + (IF @ = 0 THEN 0 ELSE 1), !.visited = @ \o banned]

-----------------------------------------------------------------------------
(* Properties of one call, out = Slim(in)                                  *)

\* A name that a refused suggestion is banned by.
Ban == [id : {0}, size : {1, 3}, here : BOOLEAN]

Empty(in) == in.visited = <<>> /\ in.prior = <<>> /\ in.route.stops = <<>> /\ in.prefs = 0

\* What the crew is sent fits the budget, unless what cannot be cut is too large by
\* itself and nothing else is left; a field is touched only when those before it in the
\* cut order are gone; no cut takes more than it must; of the visited keys those of
\* the overnight city stay longest, then the latest; a route that is sent says where
\* the day is spent; and a retry exceeds the budget by its own hint only, a suggestion's
\* by that and one ban for each attempt that failed.
InputsFit(in, out) ==
  /\ Fits(out) \/ Empty(out)
  /\ out.prior # in.prior => out.visited = <<>>
  /\ out.route # in.route => out.prior = <<>>
  /\ out.prefs # in.prefs => out.route.stops = <<>>
  /\ \A n \in 1..Len(in.visited) :
       Fits([in EXCEPT !.visited = Select(in.visited, n)]) => Len(out.visited) >= n
  /\ Fits([in EXCEPT !.visited = <<>>]) => out = [in EXCEPT !.visited = out.visited]
  /\ out.prefs < in.prefs => Size([out EXCEPT !.prefs = @ + 1]) > Budget
  /\ \A i, j \in DOMAIN in.visited :
       /\ in.visited[i] \in Range(out.visited) /\ in.visited[j] \notin Range(out.visited)
       => \/ in.visited[i].here /\ ~in.visited[j].here
          \/ in.visited[i].here = in.visited[j].here /\ i > j
  /\ out.route # in.route /\ out.route.stops # <<>> =>
       \E s \in Range(out.route.stops) :
         s.city = Today.city \/ (s.arrival <= Today.day /\ Today.day <= s.departure)
  /\ Fits(out) => \A attempt \in 0..2 :
       /\ Size(PlanRetry(out, attempt)) <= Budget + HintSize + 1
       /\ PlanRetry(out, attempt).target \in in.target..Max({in.target, 7})
  /\ Fits(out) => \A attempt \in 0..2, b \in Ban :
       Size(SuggestRetry(out, attempt, [i \in 1..attempt |-> b]))
         <= Budget + HintSize + 1 + attempt * (b.size + 1)
=============================================================================
