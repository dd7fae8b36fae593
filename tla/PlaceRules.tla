----------------------------- MODULE PlaceRules -----------------------------
(***************************************************************************)
(* What the backend does with the places a crew returns, before it stores  *)
(* them: identity and deduplication (planning_quality/dedupe.py), closed   *)
(* and visited places, meals, the energy budget and the composition of a   *)
(* day (place_quality.py, day_balance.py, shared/energy.py).               *)
(*                                                                         *)
(* A place has a name, the name in its place_key (None for a bare slug),   *)
(* a Google place id (None unless enriched), a category, the meal it is    *)
(* labelled with, whether it is closed for good, or on the weekday of the  *)
(* plan, and the minutes it takes with the travel to it.                   *)
(***************************************************************************)
EXTENDS Lists, SequencesExt, FiniteSets, FiniteSetsExt

CONSTANTS
  None,
  MinPlaces,    \* MIN_PLACES_PER_DAY: 3
  MaxPlaces,    \* MAX_PLACES_PER_DAY: 7
  MaxMinutes    \* max_comfortable_minutes of the traveler's energy level

Category == {"food", "museum", "park"}
PlaceType == [name : STRING, key : STRING \cup {None}, id : STRING \cup {None},
              category : Category,
              meal : {"breakfast", "lunch", "dinner", None},
              closed : BOOLEAN, off : BOOLEAN, minutes : Int]

\* The codes of validate_suggested_place and of the two checks after it.
SuggestCode == {"day_full", "invalid_place", "place_closed", "place_weekday_closed",
                "place_duplicate", "hint_mismatch", "food_only_day"}

ASSUME RulesAssumption ==
  MinPlaces \in 1..3 /\ MaxPlaces \in Nat /\ None \notin SuggestCode \cup Category

-----------------------------------------------------------------------------
(* Identity                                                                *)

\* ensure_place_key: a slug gives way to the canonical name|address.
KeyName(p) == IF p.key = None THEN p.name ELSE p.key

\* _google_id_token: an id is a token of its own kind.
IdToken(p) == IF p.id = None THEN {} ELSE {"id:" \o p.id}

\* place_identity_tokens.  The visited keys of a trip have the names only.
Tokens(p) == {KeyName(p), p.name} \cup IdToken(p)

\* dedupe_places: in order, whatever shares no token with what is visited or kept.
Dedupe(ps, visited) ==
  LET New(out, p) == \A q \in Range(out) : Tokens(p) \cap Tokens(q) = {}
      upTo[n \in 0..Len(ps)] ==
        IF n = 0 THEN <<>>
        ELSE LET out == upTo[n - 1] IN
             IF Tokens(ps[n]) \cap visited = {} /\ New(out, ps[n]) THEN Append(out, ps[n]) ELSE out
  IN  upTo[Len(ps)]

\* place_matches_visited_name: the places of the profile are known by their names.
WasVisited(p, names) == p.name \in names \/ KeyName(p) \in names

Usable(p, names) == ~p.closed /\ ~p.off /\ ~WasVisited(p, names)

-----------------------------------------------------------------------------
(* Meals and the shape of a day                                            *)

IsFood(p) == p.category = "food"
Food(ps) == { i \in DOMAIN ps : IsFood(ps[i]) }
Labelled(ps) == { ps[i].meal : i \in Food(ps) }
Unlabelled(ps) == { i \in Food(ps) : ps[i].meal = None }
Required(breakfast) == {"lunch", "dinner"} \cup IF breakfast THEN {"breakfast"} ELSE {}

\* require_meal_stops: an unlabelled food stop stands for any meal.
MealsMissing(ps, breakfast) ==
  Cardinality(Required(breakfast) \ Labelled(ps)) > Cardinality(Unlabelled(ps))

NonFood(ps) == Cardinality(DOMAIN ps \ Food(ps))

\* require_day_balance.
FoodOnly(ps, crawl) == ~crawl /\ Len(ps) >= 3 /\ NonFood(ps) < 1

-----------------------------------------------------------------------------
(* The energy budget                                                       *)

Minutes(ps) == Total([i \in DOMAIN ps |-> ps[i].minutes])

\* classify_energy_load: at least 150 % of the comfortable minutes.
Overloaded(ps) == 2 * Minutes(ps) >= 3 * MaxMinutes

\* used, and the stop that has this meal: the first one with its label, else the first
\* unlabelled one.
WithMeal(ps, used, meal) ==
  LET mine == { i \in Food(ps) \ used : ps[i].meal = meal }
      any == Unlabelled(ps) \ used
  IN  used \cup (IF mine # {} THEN {Min(mine)} ELSE IF any # {} THEN {Min(any)} ELSE {})

\* _required_meal_indices: a stop for each meal, in the order of the day.
MealIndices(ps, breakfast) ==
  LET early == IF breakfast THEN WithMeal(ps, {}, "breakfast") ELSE {}
  IN  WithMeal(ps, WithMeal(ps, early, "lunch"), "dinner")

\* _protected_trim_indices.
Protected(ps, breakfast, crawl) ==
  LET other == DOMAIN ps \ Food(ps) IN
  MealIndices(ps, breakfast) \cup (IF crawl \/ other = {} THEN {} ELSE {Min(other)})

\* The last stop that is not protected goes, when the day is overloaded and long enough.
TrimOne(ps, breakfast, crawl) ==
  LET open == DOMAIN ps \ Protected(ps, breakfast, crawl) IN
  IF Len(ps) > MinPlaces /\ Overloaded(ps) /\ open # {} THEN RemoveAt(ps, Max(open)) ELSE ps

\* _trim_energy_overload: as often as there is something to remove.
Trim(ps, breakfast, crawl) ==
  LET after[n \in 0..Len(ps)] == IF n = 0 THEN ps ELSE TrimOne(after[n - 1], breakfast, crawl)
  IN  after[Len(ps)]

\* The places the traveler can go to.
Open(ps, names) == Only(ps, { i \in DOMAIN ps : Usable(ps[i], names) })

\* filter_quality_places; with fewer than three usable places it raises quality_empty.
Filtered(ps, names, breakfast, crawl) == Trim(Open(ps, names), breakfast, crawl)

-----------------------------------------------------------------------------
(* One suggested place                                                     *)

\* validate_suggested_place: the code it raises, or None.
SuggestionFault(p, existing, visited, names) ==
  IF Len(existing) >= MaxPlaces THEN "day_full"
  ELSE IF p.minutes < 1 THEN "invalid_place"
  ELSE IF p.closed THEN "place_closed"
  ELSE IF p.off THEN "place_weekday_closed"
  ELSE IF Tokens(p) \cap (visited \cup UNION { Tokens(existing[i]) : i \in DOMAIN existing }) # {}
          \/ WasVisited(p, names) THEN "place_duplicate"
  ELSE None

\* A one-off hint is the set of what the patterns of day_balance.py find in it: words
\* for food, for museums or for a park (which stands for each other category), a
\* proximity frame, an activity, a vibe, any other word.
Feature == {"food", "museum", "park", "near", "activity", "vibe", "word"}

\* infer_suggest_hint_category.
HintCategory(h) ==
  IF "museum" \in h THEN "museum" ELSE IF "food" \in h THEN "food"
  ELSE IF "park" \in h THEN "park" ELSE None

\* The words that say what to do: next to a place named, an activity only (what is left
\* may be its name); else any word that is no filler.
Substantive(h) == h \cap (IF "near" \in h THEN {"activity"} ELSE {"activity", "word"})

\* is_ambiguous_location_or_vibe_hint.
Ambiguous(h) == h # {} /\ HintCategory(h) = None /\ Substantive(h) = {}

RequiresNonFood(h) ==
  h # {} /\ HintCategory(h) # "food" /\ (HintCategory(h) # None \/ ~Ambiguous(h))

\* require_suggested_place_matches_hint.
Mismatch(p, h) ==
  \/ HintCategory(h) = "food" /\ ~IsFood(p)
  \/ RequiresNonFood(h) /\ IsFood(p)
  \/ HintCategory(h) # None /\ p.category # HintCategory(h)

\* Mutant: a hint for food does not waive the balance.
MutWantsNonFood(existing, h, crawl) ==
  ~crawl /\ Len(existing) >= 2 /\ NonFood(existing) = 0

\* prefer_non_food_suggestion and require_suggested_place_balance: a hint for food waives it.
WantsNonFood(existing, h, crawl) ==
  HintCategory(h) # "food" /\ ~crawl /\ Len(existing) >= 2 /\ NonFood(existing) = 0

Unbalanced(p, existing, h, crawl) == WantsNonFood(existing, h, crawl) /\ IsFood(p)
=============================================================================
