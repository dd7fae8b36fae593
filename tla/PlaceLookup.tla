---------------------------- MODULE PlaceLookup ----------------------------
(***************************************************************************)
(* places/enrich.py: which hit of a Places text search is the venue that   *)
(* the crew named, and what is taken over from it.                         *)
(*                                                                         *)
(* A name is its set of tokens (_name_tokens); a token that is the word    *)
(* for a kind of venue belongs to a group of synonyms, and may be long.    *)
(* The address of a hit has the overnight city in it or not, postal codes  *)
(* and area words; the crew's may be too vague to compare.                 *)
(***************************************************************************)
EXTENDS Integers, Sequences, SequencesExt, FiniteSets, FiniteSetsExt

CONSTANTS
  Nothing,      \* Python's None
  Kind,         \* Kind[t]: the synonym group of a token, or Nothing
  Long4,        \* the tokens of at least four letters
  Long5         \* those of at least five

CoreTokens(a) == { t \in a : Kind[t] = Nothing }
Kinds(a) == { Kind[t] : t \in a } \ {Nothing}

\* names_match.
NamesMatch(a, b) ==
  LET both == a \cap b IN
  /\ a # {} /\ b # {}
  /\ \/ a \subseteq b \/ b \subseteq a
     \/ Cardinality(both) >= 2
     \/ Cardinality(both) = 1 /\ both \subseteq Long5
     \/ /\ CoreTokens(a) \cap CoreTokens(b) \cap Long4 # {}
        /\ Kinds(a) = {} \/ Kinds(b) = {} \/ Kinds(a) \cap Kinds(b) # {}

\* name_overlap_score.
Score(a, b) ==
  IF a = {} \/ b = {} THEN 0
  ELSE 10 * Cardinality(a \cap b)
       + (IF a = b THEN 50 ELSE IF a \subseteq b \/ b \subseteq a THEN 25 ELSE 0)
       + 5 * Cardinality(CoreTokens(a) \cap CoreTokens(b))
       - Max({0, Cardinality(b \ a) - 2})

\* location_compatible: a hit without an address counts when the query named a city.
Compatible(crew, hit) ==
  IF hit.address = Nothing THEN crew.city
  ELSE \/ crew.city /\ hit.address.city
       \/ crew.postals \cap hit.address.postals # {}
       \/ ~crew.vague /\ crew.areas \cap hit.address.words # {}

\* The first of the best of the hits at some positions.
Best(crew, hits, among) ==
  LET score(i) == Score(crew.name, hits[i].name) IN
  hits[CHOOSE i \in among : \A j \in among : score(j) < score(i) \/ (score(j) = score(i) /\ i <= j)]

\* A display name in another script, or a core word of the name in the address.
Localized(crew, hit) ==
  \/ ~hit.latin
  \/ hit.address # Nothing /\ CoreTokens(crew.name) \cap Long4 \cap hit.address.words # {}

\* Mutant: a hit with a matching name is taken wherever it is.
MutPick(crew, hits, loose) ==
  LET score(i) == Score(crew.name, hits[i].name)
      near == { i \in DOMAIN hits : Compatible(crew, hits[i]) }
      named == { i \in DOMAIN hits : NamesMatch(crew.name, hits[i].name) /\ score(i) > -1 }
      soft == { i \in near : score(i) > 0 }
  IN  CASE named # {} -> Best(crew, hits, named)
        [] named = {} /\ near = {} ->
             IF loose /\ Len(hits) = 1 /\ crew.city THEN hits[1] ELSE Nothing
        [] named = {} /\ soft # {} -> Best(crew, hits, soft)
        [] OTHER -> IF loose \/ \E i \in near : near = {i} /\ Localized(crew, hits[i])
                    THEN Best(crew, hits, near) ELSE Nothing

\* pick_matching_lookup.  Photos are resolved loosely.
Pick(crew, hits, loose) ==
  LET score(i) == Score(crew.name, hits[i].name)
      near == { i \in DOMAIN hits : Compatible(crew, hits[i]) }
      named == { i \in near : NamesMatch(crew.name, hits[i].name) /\ score(i) > -1 }
      soft == { i \in near : score(i) > 0 }
  IN  CASE named # {} -> Best(crew, hits, named)
        [] near = {} -> IF loose /\ Len(hits) = 1 /\ crew.city THEN hits[1] ELSE Nothing
        [] named = {} /\ soft # {} -> Best(crew, hits, soft)
        [] OTHER -> IF loose \/ \E i \in near : near = {i} /\ Localized(crew, hits[i])
                    THEN Best(crew, hits, near) ELSE Nothing

\* is_always_open_hours: a single period from Sunday midnight that never closes.
AlwaysOpen(hours) == Len(hours) = 1 /\ hours[1] = [day |-> 0, midnight |-> TRUE, closes |-> FALSE]

\* google_day_to_python_weekday: Sunday is 0 there, Monday is 0 here.
Weekday(day) == (day + 6) % 7

\* closed_weekdays_from_hours: the days on which no period opens; Nothing when unknown.
ClosedWeekdays(hours) ==
  IF AlwaysOpen(hours) THEN {}
  ELSE IF hours = <<>> THEN Nothing
  ELSE (0..6) \ { Weekday(hours[i].day) : i \in DOMAIN hours }

-----------------------------------------------------------------------------
(* Properties                                                              *)

\* The venue looked up for quality is near where the crew put it, and no near hit has a
\* closer name; the photo, resolved loosely, is of that same venue, and of another
\* place only when it is the only hit; the order of the hits decides between equals only.
PicksVenue(crew, hits) ==
  LET strict == Pick(crew, hits, FALSE)
      loose == Pick(crew, hits, TRUE)
      score(h) == Score(crew.name, h.name)
  IN  /\ strict # Nothing =>
           /\ loose = strict
           /\ Compatible(crew, strict)
           /\ \A h \in Range(hits) : Compatible(crew, h) /\ NamesMatch(crew.name, strict.name)
                => (NamesMatch(crew.name, h.name) => score(h) <= score(strict))
      /\ loose # Nothing => Compatible(crew, loose) \/ Len(hits) = 1
      /\ LET other == Pick(crew, Reverse(hits), FALSE) IN
         (other = Nothing) = (strict = Nothing) /\ (other # Nothing => score(other) = score(strict))

\* A venue is closed on a weekday exactly when no opening falls on it: Google's
\* Sunday is the seventh day of the week; one open around the clock never closes.
WeekdaysAgree(hours) ==
  ClosedWeekdays(hours) # Nothing =>
    \A day \in 0..6 :
      LET weekday == IF day = 0 THEN 6 ELSE day - 1 IN
      weekday \in ClosedWeekdays(hours) <=>
        ~AlwaysOpen(hours) /\ \A i \in DOMAIN hours : hours[i].day # day
=============================================================================
