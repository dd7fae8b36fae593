---------------------------- MODULE CrewResults ----------------------------
(***************************************************************************)
(* The two loops that ask a crew for places and check what it returns:     *)
(* plan-day (trips/plan_day_agent_pipeline.py, _run_plan_day_and_persist)  *)
(* and suggest-place (trips/suggest_place.py, _suggest_place_sync), each   *)
(* with up to three attempts.  A crew may return anything, what it was     *)
(* told not to as well.  Places are looked up with Google or Amap on every *)
(* attempt; a lookup may be refused (a rate limit), and the place stays as *)
(* the crew gave it.                                                       *)
(***************************************************************************)
EXTENDS PlaceRules

CONSTANTS
  Crew,         \* the places the crew may return
  Lookup,       \* Lookup[name]: the venue a lookup finds; its id and its days may be unknown
  Visited,      \* the names in visited_place_keys and in the profile's visited keys
  ProfileNames, \* the names of the profile's visited places
  Missed,       \* the sets of names whose lookups may fail in one attempt
  Existing,     \* the days a suggestion may be added to
  Hint,         \* the hints of the traveler
  MaxDay,       \* bound on the places of a day the crew returns
  MaxAttempts   \* MAX_PLAN_DAY_ATTEMPTS, MAX_SUGGEST_PLACE_ATTEMPTS: 3

VARIABLE job    \* the request, the attempt it is at, what it has banned, and its result
vars == <<job>>

NoJob == [kind |-> "none", pc |-> "idle", amap |-> FALSE, attempt |-> 0, banned |-> {},
          breakfast |-> FALSE, crawl |-> FALSE, hint |-> {}, existing |-> <<>>, met |-> <<>>,
          result |-> <<>>, tags |-> {}, code |-> None]

\* detect_food_crawl_mode: the preferences or interests ask for a food crawl, or not.
Crawls == BOOLEAN

\* resolve_places_client: Amap for a city in mainland China, else Google.
Providers == BOOLEAN

\* A trip's day to plan.
PlanRequest ==
  \E crawl \in Crawls, breakfast \in BOOLEAN, amap \in Providers :
    job = [NoJob EXCEPT !.kind = "plan", !.pc = "ask", !.crawl = crawl,
                        !.breakfast = breakfast, !.amap = amap]

\* A day to add a place to, when it is not full.
SuggestRequest ==
  \E crawl \in Crawls, h \in Hint, ps \in Existing, amap \in Providers :
    /\ Len(ps) < MaxPlaces
    /\ job = [NoJob EXCEPT !.kind = "suggest", !.pc = "ask", !.crawl = crawl,
                           !.hint = h, !.existing = ps, !.amap = amap]

CrewInit == PlanRequest \/ SuggestRequest

\* _needs_places_lookup: a place the crew calls closed is not looked up.
NeedsLookup(p) == ~p.closed

\* apply_lookup_to_place: the status of the venue that was found, its days when its hours
\* are known, and its id when the crew gave no usable one, or it comes from Amap.
Applied(p) ==
  LET v == Lookup[p.name] IN
  [p EXCEPT !.closed = v.closed,
            !.off = IF v.off = None THEN @ ELSE v.off,
            !.id = IF v.id # None /\ (job.amap \/ @ = None) THEN v.id ELSE @]

\* enrich_place: a lookup that fails, or is not made, leaves the place as it is.
Enriched(p, missed) == IF ~NeedsLookup(p) \/ p.name \in missed THEN p ELSE Applied(p)

\* enrich_places: each for itself, in their order.
EnrichedAll(ps, missed) == [i \in DOMAIN ps |-> Enriched(ps[i], missed)]

\* Ids look like no name, so that what is visited names no id.
ASSUME CrewAssumption ==
  /\ Crew \subseteq PlaceType /\ Crew # {}
  /\ Lookup \in [{ p.name : p \in Crew } ->
                   [id : STRING \cup {None}, closed : BOOLEAN, off : BOOLEAN \cup {None}]]
  /\ \A p \in Crew : IdToken(p) \cap Visited = {} /\ IdToken(Lookup[p.name]) \cap Visited = {}
  /\ \A ps \in Existing : ps \in Seq(PlaceType)
  /\ MaxDay \in Nat /\ MaxAttempts \in Nat \ {0}

\* place_labels: the names of the places.
Labels(ps) == { ps[i].name : i \in DOMAIN ps }

Failed(code) == job' = [job EXCEPT !.pc = "failed", !.code = code]

MayRetry == job.attempt + 1 < MaxAttempts

\* The next attempt, with more banned; after the last one the code is raised.
Retry(code, banned) ==
  IF MayRetry
  THEN job' = [job EXCEPT !.attempt = @ + 1, !.banned = @ \cup banned, !.code = code]
  ELSE Failed(code)

-----------------------------------------------------------------------------
(* plan-day                                                                *)

\* The tags of the crew's own report: those the backend has settled are dropped,
\* others that are hard refuse the day, as the safety gate may.
Resolved == {"closed_place", "duplicate_place", "missing_meals", "food_only_day"}
Hard == {"duplicate_place", "wrong_city", "closed_place", "excluded_category", "food_only_day"}

\* merge_quality_reports: the tags of both.
Merged(report, tags) == (report \ Resolved) \cup tags

\* enforce_hard_quality.
HardFail(tags) == tags \cap Hard # {}

Save(ps, met, tags) ==
  \E report \in SUBSET {"wrong_city", "food_only_day"} :
    LET all == Merged(report, tags) IN
    IF HardFail(all) THEN Failed("quality_hard_fail")
    ELSE \/ job' = [job EXCEPT !.pc = "saved", !.result = ps, !.met = met,
                               !.tags = all, !.code = None]
         \/ Failed("safety_rejected")

\* Mutant: the places that were kept are banned.
MutRejected(code, ps) == Labels(ps)

\* labels_to_ban_after_failure: none for a failure of composition.
Rejected(code, ps) ==
  CASE code = "dedupe_empty" -> Labels(ps)
    [] code = "quality_empty" -> { p.name : p \in { q \in Range(ps) : ~Usable(q, ProfileNames) } }
    [] OTHER -> {}

\* Mutant: places are deduplicated before they are looked up, and not again after.
MutPlanDay(ps, missed) ==
  LET unique == Dedupe(ps, Visited)
      met == EnrichedAll(unique, missed)
      day == Filtered(met, ProfileNames, job.breakfast, job.crawl)
  IN  /\ job.kind = "plan" /\ job.pc = "ask"
      /\ IF unique = <<>> THEN Retry("dedupe_empty", Rejected("dedupe_empty", ps))
         ELSE IF Len(day) < 3 THEN Retry("quality_empty", Rejected("quality_empty", met))
         ELSE IF MealsMissing(day, job.breakfast)
              THEN IF MayRetry
                   THEN Retry("missing_meals", Rejected("missing_meals", day))
                   ELSE Save(day, met, {"missing_meals"})
         ELSE IF FoodOnly(day, job.crawl)
              THEN Retry("food_only_day", Rejected("food_only_day", day))
         ELSE Save(day, met, {})

\* One attempt.  A day that still lacks meals after the last one is saved with a tag;
\* its composition is not looked at.
PlanDay(ps, missed) ==
  LET unique == Dedupe(ps, Visited)
      met == Dedupe(EnrichedAll(unique, missed), Visited)
      day == Filtered(met, ProfileNames, job.breakfast, job.crawl)
  IN  /\ job.kind = "plan" /\ job.pc = "ask"
      /\ IF met = <<>> THEN Retry("dedupe_empty", Rejected("dedupe_empty", ps))
         ELSE IF Len(day) < 3 THEN Retry("quality_empty", Rejected("quality_empty", met))
         ELSE IF MealsMissing(day, job.breakfast)
              THEN IF MayRetry
                   THEN Retry("missing_meals", Rejected("missing_meals", day))
                   ELSE Save(day, met, {"missing_meals"})
         ELSE IF FoodOnly(day, job.crawl)
              THEN Retry("food_only_day", Rejected("food_only_day", day))
         ELSE Save(day, met, {})

-----------------------------------------------------------------------------
(* suggest-place                                                           *)

Retryable == {"place_weekday_closed", "place_closed", "place_duplicate", "hint_mismatch"}

\* Mutant: what an earlier attempt has refused is banned in the prompt only.
MutFault(p) ==
  LET f == SuggestionFault(p, job.existing, Visited, ProfileNames) IN
  IF f # None THEN f
  ELSE IF Mismatch(p, job.hint) THEN "hint_mismatch"
  ELSE IF Unbalanced(p, job.existing, job.hint, job.crawl) THEN "food_only_day"
  ELSE None

\* What refuses the place, in the order of the checks, or None.
Fault(p) ==
  LET f == SuggestionFault(p, job.existing, Visited \cup job.banned, ProfileNames) IN
  IF f # None THEN f
  ELSE IF Mismatch(p, job.hint) THEN "hint_mismatch"
  ELSE IF Unbalanced(p, job.existing, job.hint, job.crawl) THEN "food_only_day"
  ELSE None

\* rejected_suggest_labels: the name, the key and the bare id.
Refused(p) == {p.name, KeyName(p), p.id} \ {None}

SuggestPlace(p) ==
  /\ job.kind = "suggest" /\ job.pc = "ask"
  /\ IF Fault(p) \in Retryable
     THEN Retry(Fault(p), Refused(p))
     ELSE IF Fault(p) # None THEN Failed(Fault(p))
     ELSE \/ job' = [job EXCEPT !.pc = "saved", !.result = <<p>>, !.code = None]
          \/ Failed("safety_rejected")

\* invoke_agent: AgentCore refuses or fails, or it answers with an error.
CrewFails == job.pc = "ask" /\ Failed("crew_failed")

CrewNext ==
  \/ \E n \in 0..MaxDay : \E ps \in [1..n -> Crew], missed \in Missed :
       PlanDay(ps, missed)
  \/ \E p \in Crew, missed \in Missed : SuggestPlace(Enriched(p, missed))
  \/ CrewFails

CrewSpec == CrewInit /\ [][CrewNext]_vars

-----------------------------------------------------------------------------
(* Properties                                                              *)

\* A planned day has at least three places, each open and new to the traveler as far
\* as was looked up, no two of them one venue; it is trimmed while it is overloaded
\* and has an optional stop; trimming takes no meal and not the only stop without
\* food; and meals are missing, or food is all there is, only after the last attempt.
PlannedDayIsUsable ==
  job.kind = "plan" /\ job.pc = "saved" =>
    LET ps == job.result
        open == Open(job.met, ProfileNames)
    IN  /\ Len(ps) >= 3
        /\ \A i \in DOMAIN ps : Usable(ps[i], ProfileNames) /\ Tokens(ps[i]) \cap Visited = {}
        /\ \A i, j \in DOMAIN ps : i # j => Tokens(ps[i]) \cap Tokens(ps[j]) = {}
        /\ Overloaded(ps) =>
             Len(ps) = MinPlaces \/ Protected(ps, job.breakfast, job.crawl) = DOMAIN ps
        /\ MealsMissing(ps, job.breakfast) => /\ MealsMissing(open, job.breakfast)
                                              /\ job.attempt + 1 = MaxAttempts
                                              /\ "missing_meals" \in job.tags
        /\ FoodOnly(ps, job.crawl) => /\ NonFood(open) = 0
                                      /\ MealsMissing(ps, job.breakfast)

\* "Last-line tripwire: reject food-only days unless food crawl" (require_day_balance).
NoFoodOnlyDay == job.kind = "plan" /\ job.pc = "saved" => ~FoodOnly(job.result, job.crawl)

\* Bans "only places that were actually rejected (closed / visited / deduped)"
\* (plan_day_retry.py): a name is banned only for a place that had to be rejected.
BannedWereRejected ==
  job.kind = "plan" =>
    \A n \in job.banned : \E p \in Crew :
      /\ p.name = n
      /\ \/ ~Usable(p, ProfileNames) \/ ~Usable(Enriched(p, {}), ProfileNames)
         \/ Tokens(p) \cap Visited # {}

\* A suggested place is open as far as was looked up, is not on the day, not visited,
\* not one that an earlier attempt refused though its lookup fails now, is what the
\* hint asks for, and leaves no day of food only that the hint does not ask for.
SuggestionFits ==
  job.kind = "suggest" /\ job.pc = "saved" =>
    LET p == job.result[1] IN
    /\ Usable(p, ProfileNames) /\ p.minutes > 0
    /\ {p.name, KeyName(p)} \cap (Visited \cup job.banned) = {}
    /\ \A i \in DOMAIN job.existing : Tokens(p) \cap Tokens(job.existing[i]) = {}
    /\ Len(job.existing) < MaxPlaces
    /\ ~Mismatch(p, job.hint)
    /\ FoodOnly(Append(job.existing, p), job.crawl) => HintCategory(job.hint) = "food"

\* "Each retry bans the rejected venue" (suggest_place_retry.py), by its id as well.
RefusedStaysOut ==
  job.kind = "suggest" /\ job.pc = "saved" => Refused(job.result[1]) \cap job.banned = {}

\* Some category of place is right for every hint on every day: the checks of the hint
\* and of the day's balance never exclude one another.
HintIsSatisfiable ==
  job.kind = "suggest" =>
    \E c \in {"food", "museum", "park"} :
      \E p \in { [q EXCEPT !.category = c] : q \in Crew } :
        ~Mismatch(p, job.hint) /\ ~Unbalanced(p, job.existing, job.hint, job.crawl)
=============================================================================
