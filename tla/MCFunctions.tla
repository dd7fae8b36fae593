---------------------------- MODULE MCFunctions ----------------------------
(***************************************************************************)
(* The loops of CrewResults on a small catalogue of places, and the pure   *)
(* functions of DayRemap, CrewInputs and PlaceLookup on every input of a   *)
(* small size: a state is a crew's job, or a call of a function that is    *)
(* evaluated in one step.                                                  *)
(***************************************************************************)
EXTENDS CrewResults, DayRemap, CrewInputs, PlaceLookup, RouteWindows

VARIABLE call

NoCall == [fn |-> "none", in |-> None, out |-> None, done |-> TRUE]
Call(fn, in) == [fn |-> fn, in |-> in, out |-> None, done |-> FALSE]

-----------------------------------------------------------------------------
(* The catalogue                                                           *)

Place(n, c, m, t) == [name |-> n, key |-> None, id |-> None, category |-> c, meal |-> m,
                      closed |-> FALSE, off |-> FALSE, minutes |-> t]

\* Food stops, labelled and not; a long visit that the crew thinks closed on that day and
\* to which it gives an id of its own, so that only Amap shows it to be the gallery; the
\* gallery, closed for good as a lookup finds; one visited that comes under another key,
\* one of the profile's.
MCCrew == { Place("lunch", "food", "lunch", 1), Place("cafe", "food", "lunch", 2),
            Place("diner", "food", None, 1),
            [Place("museum", "museum", None, 4) EXCEPT !.id = "m1", !.off = TRUE],
            [Place("gallery", "park", None, 1) EXCEPT !.id = "g1"],
            [Place("old", "park", None, 1) EXCEPT !.key = "seen"],
            Place("gone", "park", None, 1) }
MCLookup == [ n \in { p.name : p \in MCCrew } |->
                [ id |-> IF n = "museum" THEN "g1" ELSE None,
                  closed |-> n = "gallery",
                  off |-> IF n = "museum" THEN FALSE ELSE None ] ]
MCExisting == { <<>>, <<Place("lunch", "food", "lunch", 1)>>,
                <<Place("lunch", "food", "lunch", 1), Place("diner", "food", None, 1)>>,
                <<Place("lunch", "food", "lunch", 1),
                  [Place("museum", "museum", None, 1) EXCEPT !.id = "g1"]>> }
MCHint == SUBSET Feature
MCMissed == {{}, {"gallery"}}

-----------------------------------------------------------------------------
(* DayRemap: every itinerary (the plan of a day is its index) and every    *)
(* route of one or two stops, which need not hold every day.               *)

MCCity == {"a", "b"}
Stop == [city : City, arrival : 1..Days, departure : 1..Days]

Itineraries ==
  { days \in UNION { [D -> Slot] : D \in SUBSET (1..Days) } : \A d \in DOMAIN days : days[d].plan = d }
Stops == { s \in {<<x>> : x \in Stop} \cup {<<x, y>> : x, y \in Stop} :
             /\ \A i \in DOMAIN s : s[i].arrival <= s[i].departure
             /\ Len(s) = 2 => s[1].departure < s[2].arrival }
RemapInputs == [days : Itineraries, stops : Stops]

\* The day is spent in c: a stop of c holds it, or no stop does and c is the destination.
Spends(d, c) ==
  LET on == { i \in DOMAIN call.in.stops : Covers(call.in.stops[i], d) }
  IN  (\E i \in on : call.in.stops[i].city = c) \/ (on = {} /\ c = "a")

\* Days are matched by overnight city, first in first out within each city: a moved
\* day stands where its city is, two days of a city keep their order and none is
\* used twice, and a day is dropped (or a slot left empty) only when the slots
\* (or the days) of its city are used up, the latest first.
RemapIsFifo ==
  call.fn = "remap" /\ call.done =>
    LET days == call.in.days
        moved == call.out
    IN
    /\ \A d \in DOMAIN moved :
         /\ Spends(d, moved[d].city)
         /\ moved[d].plan \in DOMAIN days
         /\ days[moved[d].plan].city = moved[d].city
    /\ \A d, e \in DOMAIN moved :
         d < e /\ moved[d].city = moved[e].city => moved[d].plan < moved[e].plan
    /\ \A p \in DOMAIN days :
         (\A d \in DOMAIN moved : moved[d].plan # p) =>
            /\ \A d \in 1..Days : Spends(d, days[p].city) => d \in DOMAIN moved
            /\ \A d \in DOMAIN moved : moved[d].city = days[p].city => moved[d].plan < p

-----------------------------------------------------------------------------
(* CrewInputs                                                              *)

MCToday == [city |-> "a", day |-> 2]

KeyLists(n) == { [i \in 1..n |-> [id |-> i, size |-> s[i], here |-> h[i]]] :
               s \in [1..n -> {1, 3}], h \in [1..n -> BOOLEAN] }
Routes == { [stops |-> ss, prose |-> p] : p \in {0, 3},
              ss \in { <<>>, <<[city |-> "b", arrival |-> 1, departure |-> 1],
                               [city |-> "a", arrival |-> 2, departure |-> 3]>>,
                       <<[city |-> "b", arrival |-> 1, departure |-> 1]>>,
                       <<[city |-> "b", arrival |-> 1, departure |-> 4],
                         [city |-> "a", arrival |-> 5, departure |-> 6]>> } }
PromptInputs ==
  [rest : {0, 8}, visited : UNION { KeyLists(n) : n \in 0..3 },
   prior : {<<>>, <<2>>, <<1, 3>>, <<3, 1>>}, route : Routes, prefs : {0, 6}, target : {3, 6}]

\* The prompt that a crew gets fits its budget (CrewInputs).
PromptFits == call.fn = "inputs" /\ call.done => InputsFit(call.in, call.out)

-----------------------------------------------------------------------------
(* PlaceLookup: names over a core word, a city name, a short word and two  *)
(* words for kinds of venues.                                              *)

Word == {"meiji", "ueno", "sky", "shrine", "park"}
MCKind == [t \in Word |-> IF t \in {"shrine", "park"} THEN t ELSE None]

Name == { n \in SUBSET Word : Cardinality(n) <= 2 /\ n # {} }
Hits ==
  [name : { n \in SUBSET Word : Cardinality(n) <= 2 }, latin : BOOLEAN,
   address : {None, [city |-> TRUE, postals |-> {}, words |-> {}],
              [city |-> FALSE, postals |-> {1}, words |-> {"ueno"}]}]

ASSUME MCAssumption == Nothing \notin Hits

Resembling == { x \in Hits : x.name \in {{"meiji"}, {"sky", "park"}, {"park"}} }
HitInputs ==
  [crew : [name : { {"meiji", "shrine"}, {"ueno", "sky"} }, city : BOOLEAN, vague : BOOLEAN,
           postals : {{}, {1}}, areas : {{"ueno"}}],
   hits : {<<>>} \cup { <<h>> : h \in Hits } \cup
          { <<h, g>> : h \in Resembling, g \in { x \in Hits : x.latin } }]

Opening == [day : {0, 1, 6}, midnight : BOOLEAN, closes : BOOLEAN]
Hours == UNION { [1..n -> Opening] : n \in 0..2 }

\* What is looked up of a venue is of that venue, on the right weekdays (PlaceLookup).
LookupIsSound ==
  call.done => /\ call.fn = "hits" => PicksVenue(call.in.crew, call.in.hits)
               /\ call.fn = "hours" => WeekdaysAgree(call.in)

-----------------------------------------------------------------------------
(* RouteWindows: trips of up to ten days, and the longest, of fourteen.    *)

ProposalInputs ==
  [nights : (UNION { [1..k -> 0..3] : k \in 1..4 }) \cup [1..6 -> {0, 5}], days : 1..10 \cup {14}]

\* Names in three spellings, and one that is blank.
MCNorm == [n \in {"Nara", "nara", "Kobe", " "} |-> CASE n = "Nara" -> "nara" [] n = "Kobe" -> "kobe"
                                                   [] n = "nara" -> n [] n = " " -> ""]
Candidate == { [city |-> c, nights |-> n] : c \in DOMAIN MCNorm, n \in {-1, 0, 2} }
NamesUpTo(n) == UNION { [1..k -> DOMAIN MCNorm] : k \in 0..n }

CityInputs ==
  [persisted : NamesUpTo(1), draft : NamesUpTo(2), count : {1, 2}, days : {4, 5, 7},
   answer : { [form |-> "candidates", cities |-> <<x, y>>] : x \in Candidate,
                y \in { z \in Candidate : z.nights = 2 } } \cup
            { [form |-> f, cities |-> <<x>>] : f \in {"list", "city", "error", "other"},
                x \in { z \in Candidate : z.nights = 2 } }]

\* A proposed route holds every day of the trip, and what is suggested for a route has
\* room in it and is new (RouteWindows).
ProposedRouteFits ==
  call.done => /\ call.fn = "proposal" => ProposalFits(call.in.nights, call.in.days, call.out)
               /\ call.fn = "cities" => SuggestionsFit(call.in, call.out)

-----------------------------------------------------------------------------

Init ==
  \/ CrewInit /\ call = NoCall
  \/ /\ job = NoJob
     /\ \/ \E in \in RemapInputs : call = Call("remap", in)
        \/ \E in \in PromptInputs : call = Call("inputs", in)
        \/ \E in \in HitInputs : call = Call("hits", in)
        \/ \E in \in Hours : call = Call("hours", in)
        \/ \E in \in ProposalInputs : call = Call("proposal", in)
        \/ \E in \in CityInputs : call = Call("cities", in)

Answers(fn, result) == /\ call.fn = fn /\ ~call.done
                       /\ call' = [call EXCEPT !.out = result, !.done = TRUE]
                       /\ UNCHANGED job

\* Every step of CrewNext asks that the crew is waited for; TLC tests it once, here.
Next ==
  \/ job.pc = "ask" /\ CrewNext /\ UNCHANGED call
  \/ Answers("remap", Remap(call.in.days, OvernightSchedule(call.in.stops, "a")))
  \/ Answers("inputs", Slim(call.in))
  \/ Answers("hits", Pick(call.in.crew, call.in.hits, FALSE))
  \/ Answers("hours", ClosedWeekdays(call.in))
  \/ Answers("proposal", Normalize(call.in.nights, call.in.days))
  \/ Answers("cities", SuggestCities(call.in))

Spec == Init /\ [][Next]_<<job, call>>
=============================================================================
