-------------------------- MODULE FunctionsProofs --------------------------
(***************************************************************************)
(* Proofs about the pure functions of PlaceLookup, RouteWindows and        *)
(* CrewInputs for every input, and about the calls of MCFunctions.         *)
(***************************************************************************)
EXTENDS MCFunctions, CrewResultsProofs, DayRemapProofs

-----------------------------------------------------------------------------
(* The first of the best                                                   *)

\* Of finitely many positions one is the first among those with the largest number.
LEMMA FirstBest ==
  ASSUME NEW n \in Nat, NEW A, A \subseteq 1..n, A # {}, NEW f, \A i \in A : f[i] \in Int
  PROVE  \E i \in A : \A j \in A : f[j] < f[i] \/ (f[j] = f[i] /\ i <= j)
<1> DEFINE Upto(k) == A \cap (1..k)
           Top(k, i) == \A j \in Upto(k) : f[j] < f[i] \/ (f[j] = f[i] /\ i <= j)
           S == { k \in 0..n : Upto(k) = {} \/ \E i \in Upto(k) : Top(k, i) }
<1>1. 0 \in S
  OBVIOUS
<1>2. ASSUME NEW k \in 0..(n - 1), k \in S PROVE k + 1 \in S
  <2>1. k + 1 \in 0..n /\ Upto(k + 1) = Upto(k) \cup ({k + 1} \cap A)
    OBVIOUS
  <2>2. CASE k + 1 \notin A
    <3>1. Upto(k + 1) = Upto(k)
      BY <2>1, <2>2
    <3> QED
      BY <1>2, <2>1, <3>1
  <2>3. CASE k + 1 \in A /\ Upto(k) = {}
    <3>1. Upto(k + 1) = {k + 1}
      BY <2>1, <2>3
    <3>2. f[k + 1] \in Int
      BY <2>3
    <3>3. k + 1 \in Upto(k + 1) /\ Top(k + 1, k + 1)
      BY <3>1, <3>2
    <3> QED
      BY <2>1, <3>3
  <2>4. CASE k + 1 \in A /\ Upto(k) # {}
    <3>1. PICK i \in Upto(k) : Top(k, i)
      BY <1>2, <2>4
    <3>2. f[k + 1] \in Int /\ f[i] \in Int /\ i \in 1..k /\ i \in A /\ i < k + 1
      BY <2>4, <3>1
    <3>3. CASE f[k + 1] > f[i]
      <4>1. \A j \in Upto(k) : f[j] \in Int /\ f[j] < f[k + 1]
        BY <3>1, <3>2, <3>3
      <4>2. Top(k + 1, k + 1)
        BY <2>1, <3>2, <4>1
      <4> QED
        BY <2>1, <2>4, <4>2
    <3>4. CASE ~(f[k + 1] > f[i])
      <4>1. f[k + 1] < f[i] \/ (f[k + 1] = f[i] /\ i <= k + 1)
        BY <3>2, <3>4
      <4>2. Top(k + 1, i)
        BY <2>1, <3>1, <4>1
      <4> QED
        BY <2>1, <3>1, <4>2
    <3> QED
      BY <3>3, <3>4
  <2> QED
    BY <2>2, <2>3, <2>4
<1> HIDE DEF S
<1>3. n \in S
  BY <1>1, <1>2, Climbs
<1> QED
  BY <1>3 DEF S

-----------------------------------------------------------------------------
(* PlaceLookup: the hit that is picked                                     *)

\* The score of two names is a number.
LEMMA ScoreIsInt ==
  ASSUME NEW a, NEW b, IsFiniteSet(a), IsFiniteSet(b)
  PROVE  Score(a, b) \in Int
<1>1. Cardinality(a \cap b) \in Int
  BY FS_Intersection, FS_CardinalityType
<1>2. Cardinality(CoreTokens(a) \cap CoreTokens(b)) \in Int
  <2>1. CoreTokens(a) \cap CoreTokens(b) \subseteq a
    BY DEF CoreTokens
  <2> QED
    BY <2>1, FS_Subset, FS_CardinalityType
<1>3. Max({0, Cardinality(b \ a) - 2}) \in Int
  <2> DEFINE c == Cardinality(b \ a) - 2
  <2>1. c \in Int
    <3>1. IsFiniteSet(b \ a)
      BY FS_Difference
    <3>2. Cardinality(b \ a) \in Nat
      BY <3>1, FS_CardinalityType
    <3> QED
      BY <3>2
  <2> HIDE DEF c
  <2>2. \E x \in {0, c} : \A y \in {0, c} : x >= y
    BY <2>1
  <2>3. Max({0, c}) \in {0, c}
    BY <2>2 DEF Max
  <2> QED
    BY <2>1, <2>3 DEF c
<1> QED
  BY <1>1, <1>2, <1>3 DEF Score

ScoreAt(crew, hits, i) == Score(crew.name, hits[i].name)
Near(crew, hits) == { i \in DOMAIN hits : Compatible(crew, hits[i]) }
Named(crew, hits) ==
  { i \in Near(crew, hits) : NamesMatch(crew.name, hits[i].name) /\ ScoreAt(crew, hits, i) > -1 }
Soft(crew, hits) == { i \in Near(crew, hits) : ScoreAt(crew, hits, i) > 0 }
Only1(crew, hits) ==
  \E i \in Near(crew, hits) : Near(crew, hits) = {i} /\ Localized(crew, hits[i])

\* The crew's name and those of the hits are finite sets of tokens.
Names(crew, hits) ==
  IsFiniteSet(crew.name) /\ \A i \in DOMAIN hits : IsFiniteSet(hits[i].name)

\* No hit of A has a closer name.
Closest(crew, hits, A, i) ==
  i \in A /\ \A j \in A : ScoreAt(crew, hits, j) <= ScoreAt(crew, hits, i)

LEMMA BestIs ==
  ASSUME NEW crew, NEW S, NEW hits \in Seq(S), Names(crew, hits),
         NEW A, A \subseteq DOMAIN hits, A # {}
  PROVE  \E i \in A : Best(crew, hits, A) = hits[i] /\ Closest(crew, hits, A, i)
<1> DEFINE f == [i \in DOMAIN hits |-> ScoreAt(crew, hits, i)]
           First(i) == \A j \in A : \/ Score(crew.name, hits[j].name) < Score(crew.name, hits[i].name)
                                    \/ /\ Score(crew.name, hits[j].name) = Score(crew.name, hits[i].name)
                                       /\ i <= j
<1>1. Len(hits) \in Nat /\ DOMAIN hits = 1..Len(hits)
  OBVIOUS
<1>2. \A i \in A : f[i] = Score(crew.name, hits[i].name) /\ f[i] \in Int
  BY ScoreIsInt DEF Names, ScoreAt
<1>3. \E i \in A : \A j \in A : f[j] < f[i] \/ (f[j] = f[i] /\ i <= j)
  <2> HIDE DEF f
  <2> QED
    BY <1>1, <1>2, FirstBest
<1>4. \E i \in A : First(i)
  BY <1>2, <1>3
<1> DEFINE b == CHOOSE i \in A : First(i)
<1>5. b \in A /\ First(b)
  BY <1>4
<1>6. Best(crew, hits, A) = hits[b]
  BY DEF Best
<1> HIDE DEF b
<1>7. \A j \in A : Score(crew.name, hits[j].name) \in Int /\ Score(crew.name, hits[b].name) \in Int
  BY <1>2, <1>5
<1>8. Closest(crew, hits, A, b)
  BY <1>5, <1>7 DEF Closest, ScoreAt
<1> QED
  BY <1>5, <1>6, <1>8

\* What Pick picks, rule by rule.
LEMMA PickIs ==
  ASSUME NEW crew, NEW hits, NEW loose \in BOOLEAN
  PROVE  LET near == Near(crew, hits)
             named == Named(crew, hits)
             soft == Soft(crew, hits)
             out == Pick(crew, hits, loose)
         IN  /\ named # {} => out = Best(crew, hits, named)
             /\ near = {} => out = IF loose /\ Len(hits) = 1 /\ crew.city THEN hits[1] ELSE Nothing
             /\ named = {} /\ soft # {} => out = Best(crew, hits, soft)
             /\ named = {} /\ near # {} /\ soft = {} =>
                  out = IF loose \/ Only1(crew, hits) THEN Best(crew, hits, near) ELSE Nothing
<1> DEFINE near == Near(crew, hits)
           named == Named(crew, hits)
           soft == Soft(crew, hits)
<1>1. named \subseteq near /\ soft \subseteq near
  BY DEF Near, Named, Soft
<1>2. Pick(crew, hits, loose) =
        CASE named # {} -> Best(crew, hits, named)
          [] near = {} -> IF loose /\ Len(hits) = 1 /\ crew.city THEN hits[1] ELSE Nothing
          [] named = {} /\ soft # {} -> Best(crew, hits, soft)
          [] OTHER -> IF loose \/ Only1(crew, hits) THEN Best(crew, hits, near) ELSE Nothing
  BY DEF Pick, Near, Named, Soft, Only1, ScoreAt
<1> HIDE DEF near, named, soft
<1>3. CASE named # {}
  <2>1. near # {}
    BY <1>1, <1>3
  <2> QED
    BY <1>2, <1>3, <2>1 DEF near, named, soft
<1>4. CASE near = {}
  <2>1. named = {} /\ soft = {}
    BY <1>1, <1>4
  <2> QED
    BY <1>2, <1>4, <2>1 DEF near, named, soft
<1>5. CASE named = {} /\ soft # {}
  <2>1. near # {}
    BY <1>1, <1>5
  <2> QED
    BY <1>2, <1>5, <2>1 DEF near, named, soft
<1>6. CASE named = {} /\ near # {} /\ soft = {}
  BY <1>2, <1>6 DEF near, named, soft
<1> QED
  BY <1>3, <1>4, <1>5, <1>6 DEF near, named, soft

\* The hits in the opposite order.
LEMMA Mirrored ==
  ASSUME NEW S, NEW hits \in Seq(S)
  PROVE  LET back == Reverse(hits) IN
         /\ back \in Seq(S) /\ Len(back) = Len(hits) /\ DOMAIN back = DOMAIN hits
         /\ \A i \in DOMAIN hits : LET m == (Len(hits) - i) + 1 IN
              m \in DOMAIN hits /\ back[m] = hits[i] /\ back[i] = hits[m]
<1>1. Len(hits) \in Nat /\ DOMAIN hits = 1..Len(hits)
  OBVIOUS
<1>2. ASSUME NEW i \in 1..Len(hits)
      PROVE  (Len(hits) - i) + 1 \in 1..Len(hits) /\ (Len(hits) - ((Len(hits) - i) + 1)) + 1 = i
  BY <1>1
<1> DEFINE back == [i \in 1..Len(hits) |-> hits[(Len(hits) - i) + 1]]
<1>3. Reverse(hits) = back
  BY DEF Reverse
<1>4. back \in [1..Len(hits) -> S]
  BY <1>1, <1>2
<1>5. back \in Seq(S) /\ Len(back) = Len(hits) /\ DOMAIN back = 1..Len(hits)
  BY <1>1, <1>4, IsASeq, LenProperties
<1>6. \A i \in 1..Len(hits) : back[(Len(hits) - i) + 1] = hits[i]
  BY <1>2
<1> QED
  BY <1>1, <1>2, <1>3, <1>5, <1>6

\* A and B are the same hits, in the two orders: their closest are equally close.
LEMMA EquallyClose ==
  ASSUME NEW crew, NEW S, NEW hits \in Seq(S), Names(crew, hits),
         NEW A, A \subseteq DOMAIN hits, NEW B, B \subseteq DOMAIN hits,
         \A i \in DOMAIN hits : i \in A <=> (Len(hits) - i) + 1 \in B,
         NEW i, Closest(crew, hits, A, i), NEW j, Closest(crew, Reverse(hits), B, j)
  PROVE  Score(crew.name, Reverse(hits)[j].name) = Score(crew.name, hits[i].name)
<1> DEFINE back == Reverse(hits)
           m(k) == (Len(hits) - k) + 1
<1>1. /\ DOMAIN back = DOMAIN hits
      /\ \A k \in DOMAIN hits : m(k) \in DOMAIN hits /\ back[m(k)] = hits[k] /\ back[k] = hits[m(k)]
  BY Mirrored
<1>2. i \in A /\ j \in B /\ i \in DOMAIN hits /\ j \in DOMAIN hits
  BY DEF Closest
<1>3. m(m(j)) = j /\ m(j) \in DOMAIN hits
  BY <1>2
<1>4. m(i) \in B /\ m(j) \in A
  BY <1>2, <1>3
<1>5. \A k \in DOMAIN hits : ScoreAt(crew, hits, k) \in Int
  BY ScoreIsInt DEF Names, ScoreAt
<1> HIDE DEF back, m
<1>6. ScoreAt(crew, back, j) = ScoreAt(crew, hits, m(j)) /\ ScoreAt(crew, back, m(i)) = ScoreAt(crew, hits, i)
  BY <1>1, <1>2 DEF ScoreAt
<1>7. /\ ScoreAt(crew, hits, m(j)) <= ScoreAt(crew, hits, i)
      /\ ScoreAt(crew, back, m(i)) <= ScoreAt(crew, back, j)
  BY <1>4 DEF Closest, back
<1>8. ScoreAt(crew, back, j) = ScoreAt(crew, hits, i)
  BY <1>2, <1>3, <1>5, <1>6, <1>7
<1> QED
  BY <1>8 DEF ScoreAt, back

\* The three kinds of hits are those of the other order, mirrored.
LEMMA SameKinds ==
  ASSUME NEW crew, NEW S, NEW hits \in Seq(S)
  PROVE  LET back == Reverse(hits) IN
         /\ \A i \in DOMAIN hits : LET m == (Len(hits) - i) + 1 IN
              /\ i \in Near(crew, hits) <=> m \in Near(crew, back)
              /\ i \in Named(crew, hits) <=> m \in Named(crew, back)
              /\ i \in Soft(crew, hits) <=> m \in Soft(crew, back)
         /\ Near(crew, hits) = {} <=> Near(crew, back) = {}
         /\ Named(crew, hits) = {} <=> Named(crew, back) = {}
         /\ Soft(crew, hits) = {} <=> Soft(crew, back) = {}
         /\ Only1(crew, hits) <=> Only1(crew, back)
<1> DEFINE back == Reverse(hits)
           m(k) == (Len(hits) - k) + 1
<1>1. /\ DOMAIN back = DOMAIN hits
      /\ \A k \in DOMAIN hits : m(k) \in DOMAIN hits /\ back[m(k)] = hits[k] /\ back[k] = hits[m(k)]
  BY Mirrored
<1>2. \A k \in DOMAIN hits : m(m(k)) = k
  OBVIOUS
<1> HIDE DEF back, m
<1>3. \A i \in DOMAIN hits :
        /\ i \in Near(crew, hits) <=> m(i) \in Near(crew, back)
        /\ i \in Named(crew, hits) <=> m(i) \in Named(crew, back)
        /\ i \in Soft(crew, hits) <=> m(i) \in Soft(crew, back)
  BY <1>1 DEF Near, Named, Soft, ScoreAt
<1>4. /\ Near(crew, hits) \subseteq DOMAIN hits /\ Near(crew, back) \subseteq DOMAIN hits
      /\ Named(crew, hits) \subseteq DOMAIN hits /\ Named(crew, back) \subseteq DOMAIN hits
      /\ Soft(crew, hits) \subseteq DOMAIN hits /\ Soft(crew, back) \subseteq DOMAIN hits
  BY <1>1 DEF Near, Named, Soft
<1>5. \A k \in DOMAIN hits :
        /\ k \in Near(crew, back) => m(k) \in Near(crew, hits)
        /\ k \in Named(crew, back) => m(k) \in Named(crew, hits)
        /\ k \in Soft(crew, back) => m(k) \in Soft(crew, hits)
  BY <1>1, <1>2, <1>3
<1>6. ASSUME NEW i \in Near(crew, hits), Near(crew, hits) = {i}, Localized(crew, hits[i])
      PROVE  Only1(crew, back)
  <2>1. m(i) \in Near(crew, back) /\ back[m(i)] = hits[i]
    BY <1>1, <1>3, <1>4
  <2>2. \A k \in Near(crew, back) : k = m(i)
    BY <1>2, <1>4, <1>5, <1>6
  <2> QED
    BY <1>6, <2>1, <2>2 DEF Only1
<1>7. ASSUME NEW i \in Near(crew, back), Near(crew, back) = {i}, Localized(crew, back[i])
      PROVE  Only1(crew, hits)
  <2>1. m(i) \in Near(crew, hits) /\ back[i] = hits[m(i)]
    BY <1>1, <1>4, <1>5
  <2>2. \A k \in Near(crew, hits) : k = m(i)
    BY <1>2, <1>3, <1>4, <1>7
  <2> QED
    BY <1>7, <2>1, <2>2 DEF Only1
<1>8. Only1(crew, hits) <=> Only1(crew, back)
  BY <1>6, <1>7 DEF Only1
<1>9. /\ Near(crew, hits) = {} <=> Near(crew, back) = {}
      /\ Named(crew, hits) = {} <=> Named(crew, back) = {}
      /\ Soft(crew, hits) = {} <=> Soft(crew, back) = {}
  BY <1>3, <1>4, <1>5
<1> QED
  BY <1>3, <1>8, <1>9 DEF back, m

\* THE RIGHT VENUE.  pick_matching_lookup on any hits, in any number: the venue taken is
\* near where the crew put it and no near hit with a matching name is closer; a photo is
\* of that same venue, and of one elsewhere only when it is the only hit; and the order
\* of the hits decides between equally close ones only.
THEOREM VenueIsPicked ==
  ASSUME NEW crew, NEW S, NEW hits \in Seq(S), Names(crew, hits), Nothing \notin Range(hits)
  PROVE  PicksVenue(crew, hits)
<1> DEFINE near == Near(crew, hits)
           named == Named(crew, hits)
           soft == Soft(crew, hits)
           strict == Pick(crew, hits, FALSE)
           loose == Pick(crew, hits, TRUE)
           back == Reverse(hits)
           other == Pick(crew, back, FALSE)
           taken == IF named # {} THEN named ELSE IF soft # {} THEN soft ELSE near
<1>1. /\ near \subseteq DOMAIN hits /\ taken \subseteq near
      /\ \A i \in near : Compatible(crew, hits[i])
      /\ \A i \in DOMAIN hits : hits[i] # Nothing
      /\ \A i \in DOMAIN hits : ScoreAt(crew, hits, i) \in Int
      /\ Range(hits) = { hits[i] : i \in DOMAIN hits }
  BY ScoreIsInt DEF Near, Named, Soft, Names, ScoreAt, Range
<1>2. /\ near = {} => strict = Nothing /\ loose = (IF Len(hits) = 1 /\ crew.city THEN hits[1] ELSE Nothing)
      /\ near # {} => loose = Best(crew, hits, taken)
      /\ near # {} /\ (named # {} \/ soft # {} \/ Only1(crew, hits)) => strict = Best(crew, hits, taken)
      /\ near # {} /\ named = {} /\ soft = {} /\ ~Only1(crew, hits) => strict = Nothing
  <2>1. /\ named # {} => strict = Best(crew, hits, named) /\ loose = Best(crew, hits, named)
        /\ near = {} => strict = Nothing /\ loose = (IF Len(hits) = 1 /\ crew.city THEN hits[1] ELSE Nothing)
        /\ named = {} /\ soft # {} => strict = Best(crew, hits, soft) /\ loose = Best(crew, hits, soft)
        /\ named = {} /\ near # {} /\ soft = {} =>
             /\ loose = Best(crew, hits, near)
             /\ strict = IF Only1(crew, hits) THEN Best(crew, hits, near) ELSE Nothing
    BY PickIs
  <2> HIDE DEF near, named, soft, strict, loose
  <2> QED
    BY <2>1
<1>3. near # {} => taken # {}
  OBVIOUS
<1>4. near # {} => \E i \in taken : Best(crew, hits, taken) = hits[i] /\ Closest(crew, hits, taken, i)
  <2> HIDE DEF near, taken
  <2> QED
    BY <1>1, <1>3, BestIs
<1>5. ASSUME strict # Nothing
      PROVE  /\ loose = strict
             /\ Compatible(crew, strict)
             /\ \A h \in Range(hits) : Compatible(crew, h) /\ NamesMatch(crew.name, strict.name)
                  => (NamesMatch(crew.name, h.name) => Score(crew.name, h.name) <= Score(crew.name, strict.name))
  <2>1. /\ near # {} /\ loose = strict /\ strict = Best(crew, hits, taken)
        /\ named # {} \/ soft # {} \/ Only1(crew, hits)
    BY <1>2, <1>5
  <2>2. PICK b \in taken : strict = hits[b] /\ Closest(crew, hits, taken, b)
    BY <1>4, <2>1
  <2>3. b \in near /\ b \in DOMAIN hits
    BY <1>1, <2>2
  <2>4. ASSUME NEW h \in Range(hits), Compatible(crew, h), NamesMatch(crew.name, strict.name),
               NamesMatch(crew.name, h.name)
        PROVE  Score(crew.name, h.name) <= Score(crew.name, strict.name)
    <3>1. PICK j \in DOMAIN hits : h = hits[j]
      BY <1>1
    <3>2. j \in near /\ ScoreAt(crew, hits, j) \in Int /\ ScoreAt(crew, hits, b) \in Int
      BY <1>1, <2>3, <2>4, <3>1 DEF Near
    <3>3. ScoreAt(crew, hits, j) <= ScoreAt(crew, hits, b)
      <4>1. CASE named # {}
        <5>1. b \in named /\ ScoreAt(crew, hits, b) > -1
          BY <2>2, <4>1 DEF Named
        <5>2. CASE ScoreAt(crew, hits, j) > -1
          <6>1. j \in named
            BY <2>4, <3>1, <3>2, <5>2 DEF Named
          <6> QED
            BY <2>2, <4>1, <6>1 DEF Closest
        <5>3. CASE ~(ScoreAt(crew, hits, j) > -1)
          BY <3>2, <5>1, <5>3
        <5> QED
          BY <5>2, <5>3
      <4>2. CASE named = {} /\ soft # {}
        <5>1. ScoreAt(crew, hits, b) > 0
          BY <2>2, <4>2 DEF Soft
        <5>2. NamesMatch(crew.name, hits[b].name)
          <6> HIDE DEF strict
          <6> QED
            BY <2>2, <2>4
        <5>3. ScoreAt(crew, hits, b) > -1
          BY <3>2, <5>1
        <5>4. b \in named
          BY <2>3, <5>2, <5>3 DEF Named
        <5> QED
          BY <4>2, <5>4
      <4>3. CASE named = {} /\ soft = {}
        <5>1. PICK i \in near : near = {i}
          BY <2>1, <4>3 DEF Only1
        <5>2. j = b
          BY <2>3, <3>2, <5>1
        <5> QED
          BY <3>2, <5>2
      <4> QED
        BY <4>1, <4>2, <4>3
    <3> QED
      BY <2>2, <3>1, <3>3 DEF ScoreAt
  <2> HIDE DEF strict, loose
  <2> QED
    BY <1>1, <2>1, <2>2, <2>3, <2>4
<1>6. ASSUME loose # Nothing PROVE Compatible(crew, loose) \/ Len(hits) = 1
  <2> HIDE DEF near, taken, loose
  <2> QED
    BY <1>1, <1>2, <1>4, <1>6
<1>7. (other = Nothing) = (strict = Nothing)
      /\ (other # Nothing => Score(crew.name, other.name) = Score(crew.name, strict.name))
  <2> DEFINE near2 == Near(crew, back)
             named2 == Named(crew, back)
             soft2 == Soft(crew, back)
             taken2 == IF named2 # {} THEN named2 ELSE IF soft2 # {} THEN soft2 ELSE near2
  <2>1. /\ back \in Seq(S) /\ DOMAIN back = DOMAIN hits
        /\ \A i \in DOMAIN hits : \E j \in DOMAIN hits : back[i] = hits[j]
        /\ Names(crew, back)
    <3>1. /\ back \in Seq(S) /\ DOMAIN back = DOMAIN hits
          /\ \A i \in DOMAIN hits : (Len(hits) - i) + 1 \in DOMAIN hits
                                   /\ back[i] = hits[(Len(hits) - i) + 1]
      BY Mirrored
    <3> HIDE DEF back
    <3>2. \A i \in DOMAIN hits : \E j \in DOMAIN hits : back[i] = hits[j]
      BY <3>1
    <3>3. Names(crew, back)
      BY <3>1, <3>2 DEF Names
    <3> QED
      BY <3>1, <3>2, <3>3
  <2>2. /\ \A i \in DOMAIN hits : /\ i \in near <=> (Len(hits) - i) + 1 \in near2
                                  /\ i \in named <=> (Len(hits) - i) + 1 \in named2
                                  /\ i \in soft <=> (Len(hits) - i) + 1 \in soft2
        /\ near = {} <=> near2 = {}
        /\ named = {} <=> named2 = {}
        /\ soft = {} <=> soft2 = {}
        /\ Only1(crew, hits) <=> Only1(crew, back)
    BY SameKinds
  <2>3. /\ near2 \subseteq DOMAIN hits /\ taken2 \subseteq near2
        /\ near2 # {} => taken2 # {}
    BY <2>1 DEF Near, Named, Soft
  <2>4. /\ near2 = {} => other = Nothing
        /\ near2 # {} /\ (named2 # {} \/ soft2 # {} \/ Only1(crew, back)) => other = Best(crew, back, taken2)
        /\ near2 # {} /\ named2 = {} /\ soft2 = {} /\ ~Only1(crew, back) => other = Nothing
    <3>1. /\ named2 # {} => other = Best(crew, back, named2)
          /\ near2 = {} => other = Nothing
          /\ named2 = {} /\ soft2 # {} => other = Best(crew, back, soft2)
          /\ named2 = {} /\ near2 # {} /\ soft2 = {} =>
               other = IF Only1(crew, back) THEN Best(crew, back, near2) ELSE Nothing
      BY PickIs
    <3> HIDE DEF near2, named2, soft2, other
    <3> QED
      BY <3>1
  <2>5. \A i \in DOMAIN hits : i \in taken <=> (Len(hits) - i) + 1 \in taken2
    <3> HIDE DEF near, named, soft, near2, named2, soft2
    <3> QED
      BY <2>2
  <2> HIDE DEF near, named, soft, near2, named2, soft2, taken, taken2, other, strict
  <2>6. CASE near # {} /\ (named # {} \/ soft # {} \/ Only1(crew, hits))
    <3>1. strict = Best(crew, hits, taken) /\ other = Best(crew, back, taken2) /\ near2 # {}
      BY <1>2, <2>2, <2>4, <2>6
    <3>2. PICK i \in taken : strict = hits[i] /\ Closest(crew, hits, taken, i)
      BY <1>4, <2>6, <3>1
    <3>3. PICK j \in taken2 : other = back[j] /\ Closest(crew, back, taken2, j)
      BY <2>1, <2>3, <3>1, BestIs
    <3>4. Score(crew.name, other.name) = Score(crew.name, strict.name)
      <4>1. taken \subseteq DOMAIN hits /\ taken2 \subseteq DOMAIN hits
        BY <1>1, <2>3
      <4>2. Closest(crew, Reverse(hits), taken2, j) /\ Closest(crew, hits, taken, i)
        BY <3>2, <3>3
      <4>3. Score(crew.name, Reverse(hits)[j].name) = Score(crew.name, hits[i].name)
        BY <2>5, <4>1, <4>2, EquallyClose
      <4> QED
        BY <3>2, <3>3, <4>3
    <3>5. strict # Nothing
      BY <1>1, <3>2
    <3>6. other # Nothing
      BY <1>1, <2>1, <2>3, <3>3
    <3> QED
      BY <3>4, <3>5, <3>6
  <2>7. CASE near = {} \/ (named = {} /\ soft = {} /\ ~Only1(crew, hits))
    BY <1>2, <2>2, <2>4, <2>7
  <2> QED
    BY <2>6, <2>7
<1> HIDE DEF strict, loose, other
<1> QED
  BY <1>5, <1>6, <1>7 DEF PicksVenue, strict, loose, other

\* THE RIGHT WEEKDAYS.  closed_weekdays_from_hours on any number of periods.
LEMMA ClosedOnTheDay ==
  ASSUME NEW hours, \A i \in DOMAIN hours : hours[i].day \in 0..6
  PROVE  WeekdaysAgree(hours)
<1>1. \A d \in 0..6 : Weekday(d) = (IF d = 0 THEN 6 ELSE d - 1) /\ Weekday(d) \in 0..6
  <2>1. \A d \in 0..6 : d = 0 \/ d = 1 \/ d = 2 \/ d = 3 \/ d = 4 \/ d = 5 \/ d = 6
    OBVIOUS
  <2> QED
    BY <2>1 DEF Weekday
<1> SUFFICES ASSUME ClosedWeekdays(hours) # Nothing, NEW day \in 0..6
             PROVE  Weekday(day) \in ClosedWeekdays(hours) <=>
                      ~AlwaysOpen(hours) /\ \A i \in DOMAIN hours : hours[i].day # day
  BY <1>1 DEF WeekdaysAgree
<1>2. CASE AlwaysOpen(hours)
  BY <1>2 DEF ClosedWeekdays
<1>3. CASE ~AlwaysOpen(hours)
  <2>1. ClosedWeekdays(hours) = (0..6) \ { Weekday(hours[i].day) : i \in DOMAIN hours }
    BY <1>3 DEF ClosedWeekdays
  <2>2. \A i \in DOMAIN hours : Weekday(hours[i].day) = Weekday(day) <=> hours[i].day = day
    BY <1>1
  <2> QED
    BY <1>1, <1>3, <2>1, <2>2
<1> QED
  BY <1>2, <1>3

-----------------------------------------------------------------------------
(* The calls of MCFunctions                                                *)

\* The call is one of these, and its result, when it is there, is the function's.
Of(fn, inputs, result) ==
  call.fn = fn => call.in \in inputs /\ (call.done => call.out = result)

CallInv ==
  /\ call = [fn |-> call.fn, in |-> call.in, out |-> call.out, done |-> call.done]
  /\ Of("remap", RemapInputs, Remap(call.in.days, OvernightSchedule(call.in.stops, "a")))
  /\ Of("inputs", PromptInputs, Slim(call.in))
  /\ Of("hits", HitInputs, Pick(call.in.crew, call.in.hits, FALSE))
  /\ Of("hours", Hours, ClosedWeekdays(call.in))
  /\ Of("proposal", ProposalInputs, Normalize(call.in.nights, call.in.days))
  /\ Of("cities", CityInputs, SuggestCities(call.in))

\* A call is open until the function answers.
LEMMA Opens ==
  ASSUME NEW fn, NEW in, call = Call(fn, in)
  PROVE  /\ call = [fn |-> call.fn, in |-> call.in, out |-> call.out, done |-> call.done]
         /\ call.fn = fn /\ call.in = in /\ ~call.done
  BY DEF Call

LEMMA CallInit == Init => CallInv
<1> SUFFICES ASSUME Init PROVE CallInv
  OBVIOUS
<1>1. CASE call = NoCall
  BY <1>1 DEF CallInv, Of, NoCall
<1>2. ASSUME NEW in \in RemapInputs, call = Call("remap", in) PROVE CallInv
  BY <1>2, Opens DEF CallInv, Of
<1>3. ASSUME NEW in \in PromptInputs, call = Call("inputs", in) PROVE CallInv
  BY <1>3, Opens DEF CallInv, Of
<1>4. ASSUME NEW in \in HitInputs, call = Call("hits", in) PROVE CallInv
  BY <1>4, Opens DEF CallInv, Of
<1>5. ASSUME NEW in \in Hours, call = Call("hours", in) PROVE CallInv
  BY <1>5, Opens DEF CallInv, Of
<1>6. ASSUME NEW in \in ProposalInputs, call = Call("proposal", in) PROVE CallInv
  BY <1>6, Opens DEF CallInv, Of
<1>7. ASSUME NEW in \in CityInputs, call = Call("cities", in) PROVE CallInv
  BY <1>7, Opens DEF CallInv, Of
<1> QED
  BY <1>1, <1>2, <1>3, <1>4, <1>5, <1>6, <1>7 DEF Init

\* The function answers: only the result and the mark are new.
LEMMA AnswersIs ==
  ASSUME CallInv, NEW fn, NEW result, Answers(fn, result)
  PROVE  /\ call' = [fn |-> fn, in |-> call.in, out |-> result, done |-> TRUE]
         /\ call.fn = fn /\ call'.fn = fn /\ call'.in = call.in /\ call'.out = result
<1> DEFINE c == [fn |-> call.fn, in |-> call.in, out |-> call.out, done |-> call.done]
<1>1. call = c /\ call.fn = fn
  BY DEF CallInv, Answers
<1>2. call' = [c EXCEPT !.out = result, !.done = TRUE]
  BY <1>1 DEF Answers
<1> QED
  BY <1>1, <1>2

LEMMA CallNext == CallInv /\ [Next]_<<job, call>> => CallInv'
<1> SUFFICES ASSUME CallInv, [Next]_<<job, call>> PROVE CallInv'
  OBVIOUS
<1>1. CASE UNCHANGED call
  BY <1>1 DEF CallInv, Of
<1>2. ASSUME NEW fn, NEW result, Answers(fn, result),
             fn = "remap" => result = Remap(call.in.days, OvernightSchedule(call.in.stops, "a")),
             fn = "inputs" => result = Slim(call.in),
             fn = "hits" => result = Pick(call.in.crew, call.in.hits, FALSE),
             fn = "hours" => result = ClosedWeekdays(call.in),
             fn = "proposal" => result = Normalize(call.in.nights, call.in.days),
             fn = "cities" => result = SuggestCities(call.in)
      PROVE  CallInv'
  <2>1. /\ call' = [fn |-> fn, in |-> call.in, out |-> result, done |-> TRUE]
        /\ call.fn = fn /\ call'.fn = fn /\ call'.in = call.in /\ call'.out = result
    BY <1>2, AnswersIs
  <2>2. call' = [fn |-> call'.fn, in |-> call'.in, out |-> call'.out, done |-> call'.done]
    BY <2>1
  <2>3. Of("remap", RemapInputs, Remap(call.in.days, OvernightSchedule(call.in.stops, "a")))'
    BY <1>2, <2>1 DEF CallInv, Of
  <2>4. Of("inputs", PromptInputs, Slim(call.in))'
    BY <1>2, <2>1 DEF CallInv, Of
  <2>5. Of("hits", HitInputs, Pick(call.in.crew, call.in.hits, FALSE))'
    BY <1>2, <2>1 DEF CallInv, Of
  <2>6. Of("hours", Hours, ClosedWeekdays(call.in))'
    BY <1>2, <2>1 DEF CallInv, Of
  <2>7. Of("proposal", ProposalInputs, Normalize(call.in.nights, call.in.days))'
    BY <1>2, <2>1 DEF CallInv, Of
  <2>8. Of("cities", CityInputs, SuggestCities(call.in))'
    BY <1>2, <2>1 DEF CallInv, Of
  <2> QED
    BY <2>2, <2>3, <2>4, <2>5, <2>6, <2>7, <2>8 DEF CallInv
<1>3. CASE Answers("remap", Remap(call.in.days, OvernightSchedule(call.in.stops, "a")))
  BY <1>2, <1>3
<1>4. CASE Answers("inputs", Slim(call.in))
  BY <1>2, <1>4
<1>5. CASE Answers("hits", Pick(call.in.crew, call.in.hits, FALSE))
  BY <1>2, <1>5
<1>6. CASE Answers("hours", ClosedWeekdays(call.in))
  BY <1>2, <1>6
<1>7. CASE Answers("proposal", Normalize(call.in.nights, call.in.days))
  BY <1>2, <1>7
<1>8. CASE Answers("cities", SuggestCities(call.in))
  BY <1>2, <1>8
<1> QED
  BY <1>1, <1>3, <1>4, <1>5, <1>6, <1>7, <1>8 DEF Next

\* Every state holds a call of one of the sets, answered by its function or not yet.
LEMMA CallsAreAnswered == Spec => []CallInv
  BY CallInit, CallNext, PTL DEF Spec

LEMMA FinitePair == \A x, y : IsFiniteSet({x, y})
<1> TAKE x, y
<1>1. IsFiniteSet({x}) /\ IsFiniteSet({y})
  BY FS_Singleton
<1>2. IsFiniteSet({x} \cup {y})
  BY <1>1, FS_Union
<1> QED
  BY <1>2

\* THE RIGHT VENUE AND WEEKDAYS of every call.
THEOREM LookupsAreSound == Spec => []LookupIsSound
<1>1. CallInv => LookupIsSound
  <2> SUFFICES ASSUME CallInv, call.done PROVE LookupIsSound
    BY DEF LookupIsSound
  <2>1. CASE call.fn = "hits"
    <3> DEFINE crew == call.in.crew
               hits == call.in.hits
    <3>1. call.in \in HitInputs
      BY <2>1 DEF CallInv, Of
    <3>2. crew.name \in { {"meiji", "shrine"}, {"ueno", "sky"} }
      BY <3>1 DEF HitInputs
    <3>3. hits \in Seq(Hits)
      <4>1. hits \in {<<>>} \cup { <<h>> : h \in Hits } \cup
                     { <<h, g>> : h \in Resembling, g \in { x \in Hits : x.latin } }
        BY <3>1 DEF HitInputs
      <4>2. CASE hits = <<>>
        BY <4>2
      <4>3. CASE \E h \in Hits : hits = <<h>>
        BY <4>3
      <4>4. CASE \E h \in Hits, g \in Hits : hits = <<h, g>>
        BY <4>4
      <4>5. Resembling \subseteq Hits
        BY DEF Resembling
      <4> HIDE DEF hits
      <4> QED
        BY <4>1, <4>2, <4>3, <4>4, <4>5
    <3> HIDE DEF crew, hits
    <3>4. IsFiniteSet(crew.name)
      BY <3>2, FinitePair
    <3>5. IsFiniteSet(Word)
      <4>1. /\ IsFiniteSet({"meiji", "ueno"}) /\ IsFiniteSet({"sky", "shrine"})
            /\ IsFiniteSet({"park", "park"})
        BY FinitePair
      <4>2. IsFiniteSet({"meiji", "ueno"} \cup {"sky", "shrine"})
        BY <4>1, FS_Union
      <4>3. IsFiniteSet(({"meiji", "ueno"} \cup {"sky", "shrine"}) \cup {"park", "park"})
        BY <4>1, <4>2, FS_Union
      <4>4. Word = ({"meiji", "ueno"} \cup {"sky", "shrine"}) \cup {"park", "park"}
        BY DEF Word
      <4> QED
        BY <4>3, <4>4
    <3>6. \A i \in DOMAIN hits : hits[i] \in Hits
      BY <3>3
    <3>7. \A h \in Hits : h.name \subseteq Word
      BY DEF Hits
    <3>8. \A i \in DOMAIN hits : IsFiniteSet(hits[i].name)
      BY <3>5, <3>6, <3>7, FS_Subset
    <3>9. Nothing \notin Range(hits)
      BY <3>6, MCAssumption DEF Range
    <3>10. PicksVenue(crew, hits)
      BY <3>3, <3>4, <3>8, <3>9, VenueIsPicked DEF Names
    <3> QED
      BY <2>1, <3>10 DEF LookupIsSound, crew, hits
  <2>2. CASE call.fn = "hours"
    <3>1. PICK n \in 0..2 : call.in \in [1..n -> Opening]
      BY <2>2 DEF CallInv, Of, Hours
    <3>2. \A i \in DOMAIN call.in : call.in[i].day \in 0..6
      BY <3>1 DEF Opening
    <3> QED
      BY <2>2, <3>2, ClosedOnTheDay DEF LookupIsSound
  <2> QED
    BY <2>1, <2>2 DEF LookupIsSound
<1> QED
  BY <1>1, CallsAreAnswered, PTL

\* FIRST IN, FIRST OUT of every call: for any number of days.
THEOREM RemapsAreFifo == Spec => []RemapIsFifo
<1>1. CallInv => RemapIsFifo
  <2> SUFFICES ASSUME CallInv, call.fn = "remap", call.done PROVE RemapIsFifo
    BY DEF RemapIsFifo
  <2> DEFINE days == call.in.days
             stops == call.in.stops
             route == OvernightSchedule(stops, "a")
             moved == Remap(days, route)
  <2>1. days \in Itineraries /\ stops \in Stops
    BY DEF CallInv, Of, RemapInputs
  <2>2. DOMAIN days \subseteq 1..Days /\ \A p \in DOMAIN days : days[p].plan = p
    <3> HIDE DEF days
    <3> QED
      BY <2>1 DEF Itineraries
  <2>4. call.out = moved
    BY DEF CallInv, Of
  <2>5. \A d \in 1..Days : \A city : Spends(d, city) <=> route[d] = city
    <3> SUFFICES ASSUME NEW d \in 1..Days, NEW city PROVE Spends(d, city) <=> route[d] = city
      OBVIOUS
    <3> DEFINE on == { i \in DOMAIN stops : Covers(stops[i], d) }
    <3>1. route[d] = IF on = {} THEN "a" ELSE stops[CHOOSE i \in on : \A j \in on : i <= j].city
      BY DEF OvernightSchedule, Overnight
    <3>2. \A i, j \in on : i = j
      <4>1. stops \in {<<x>> : x \in Stop} \cup {<<x, y>> : x, y \in Stop}
            /\ (Len(stops) = 2 => stops[1].departure < stops[2].arrival)
        BY <2>1 DEF Stops
      <4>2. CASE \E x \in Stop : stops = <<x>>
        <5>1. DOMAIN stops = {1}
          BY <4>2
        <5> QED
          BY <5>1
      <4>3. CASE \E x, y \in Stop : stops = <<x, y>>
        <5>1. PICK x, y \in Stop : stops = <<x, y>>
          BY <4>3
        <5>2. /\ DOMAIN stops = {1, 2} /\ stops[1] = x /\ stops[2] = y
              /\ x.departure < y.arrival /\ x.departure \in Int /\ y.arrival \in Int
          BY <4>1, <5>1 DEF Stop
        <5>3. ~(Covers(x, d) /\ Covers(y, d))
          BY <5>2 DEF Covers
        <5> QED
          BY <5>2, <5>3
      <4> QED
        BY <4>1, <4>2, <4>3
    <3>3. CASE on = {}
      BY <3>1, <3>3 DEF Spends
    <3>4. CASE on # {}
      <4>1. PICK k \in on : TRUE
        BY <3>4
      <4>2. k \in Int /\ k <= k
        <5>1. DOMAIN stops \subseteq Int
          BY <2>1 DEF Stops
        <5> QED
          BY <5>1
      <4>3. \A j \in on : k <= j
        BY <3>2, <4>1, <4>2
      <4>4. (CHOOSE i \in on : \A j \in on : i <= j) \in on
        BY <4>1, <4>3
      <4>5. (CHOOSE i \in on : \A j \in on : i <= j) = k
        BY <3>2, <4>1, <4>4
      <4>6. route[d] = stops[k].city
        BY <3>1, <3>4, <4>5
      <4>7. Spends(d, city) <=> \E i \in on : stops[i].city = city
        BY <3>4 DEF Spends
      <4> QED
        BY <3>2, <4>1, <4>6, <4>7
    <3> QED
      BY <3>3, <3>4
  <2>6. DOMAIN days \subseteq Nat
    BY <2>2
  <2> HIDE DEF route, days
  <2>7. /\ DOMAIN moved \subseteq 1..Days
        /\ \E src \in [DOMAIN moved -> DOMAIN days] :
             /\ \A d \in DOMAIN moved :
                  /\ moved[d] = [plan |-> days[src[d]].plan, city |-> route[d]]
                  /\ days[src[d]].city = route[d]
             /\ \A d, e \in DOMAIN moved : d < e /\ route[d] = route[e] => src[d] < src[e]
             /\ \A p \in DOMAIN days : (\A d \in DOMAIN moved : src[d] # p) =>
                  \A d \in 1..Days : route[d] = days[p].city => d \in DOMAIN moved /\ src[d] < p
    <3>1. LET out == Remap(days, route) IN
          /\ out = [d \in DOMAIN out |-> out[d]]
          /\ DOMAIN out \subseteq 1..Days
          /\ \E src \in [DOMAIN out -> DOMAIN days] :
               /\ \A d \in DOMAIN out :
                    /\ out[d] = [plan |-> days[src[d]].plan, city |-> route[d]]
                    /\ days[src[d]].city = route[d]
               /\ \A d, e \in DOMAIN out : d < e /\ route[d] = route[e] => src[d] < src[e]
               /\ \A p \in DOMAIN days : (\A d \in DOMAIN out : src[d] # p) =>
                    \A d \in 1..Days : route[d] = days[p].city => d \in DOMAIN out /\ src[d] < p
      <4> HIDE DEF moved
      <4> QED
        BY <2>6, RemapDealsInOrder
    <3> QED
      BY <3>1
  <2> HIDE DEF moved
  <2>8. PICK src \in [DOMAIN moved -> DOMAIN days] :
             /\ \A d \in DOMAIN moved :
                  /\ moved[d] = [plan |-> days[src[d]].plan, city |-> route[d]]
                  /\ days[src[d]].city = route[d]
             /\ \A d, e \in DOMAIN moved : d < e /\ route[d] = route[e] => src[d] < src[e]
             /\ \A p \in DOMAIN days : (\A d \in DOMAIN moved : src[d] # p) =>
                  \A d \in 1..Days : route[d] = days[p].city => d \in DOMAIN moved /\ src[d] < p
    BY <2>7
  <2>9. \A d \in DOMAIN moved : /\ d \in 1..Days /\ src[d] \in DOMAIN days
                                /\ moved[d].plan = src[d] /\ moved[d].city = route[d]
    BY <2>2, <2>7, <2>8
  <2>10. \A d \in DOMAIN moved : /\ Spends(d, moved[d].city)
                                 /\ moved[d].plan \in DOMAIN days
                                 /\ days[moved[d].plan].city = moved[d].city
    BY <2>5, <2>8, <2>9
  <2>11. \A d, e \in DOMAIN moved :
           d < e /\ moved[d].city = moved[e].city => moved[d].plan < moved[e].plan
    BY <2>8, <2>9
  <2>12. ASSUME NEW p \in DOMAIN days, \A d \in DOMAIN moved : moved[d].plan # p
         PROVE  /\ \A d \in 1..Days : Spends(d, days[p].city) => d \in DOMAIN moved
                /\ \A d \in DOMAIN moved : moved[d].city = days[p].city => moved[d].plan < p
    <3>1. \A d \in 1..Days : route[d] = days[p].city => d \in DOMAIN moved /\ src[d] < p
      BY <2>8, <2>9, <2>12
    <3> QED
      BY <2>5, <2>9, <3>1
  <2> QED
    BY <2>4, <2>10, <2>11, <2>12 DEF RemapIsFifo, days
<1> QED
  BY <1>1, CallsAreAnswered, PTL

-----------------------------------------------------------------------------
(* RouteWindows: the cities suggested                                      *)

\* The keys of longer sequences.
LEMMA KeysNone == Keys(<<>>) = {}
  BY DEF Keys

LEMMA KeysAppend ==
  ASSUME NEW S, NEW s \in Seq(S), NEW x \in S
  PROVE  Keys(Append(s, x)) = Keys(s) \cup {Norm[x]}
<1> DEFINE u == Append(s, x)
           m == Len(s) + 1
<1>1. /\ DOMAIN s = 1..Len(s) /\ DOMAIN u = 1..m /\ u[m] = x /\ m \in 1..m
      /\ \A i \in 1..Len(s) : u[i] = s[i] /\ i \in 1..m
      /\ \A i \in 1..m : i = m \/ i \in 1..Len(s)
  BY AppendProperties
<1> HIDE DEF u, m
<1> QED
  BY <1>1 DEF Keys, u

LEMMA KeysConcat ==
  ASSUME NEW S, NEW s \in Seq(S), NEW t \in Seq(S)
  PROVE  Keys(s \o t) = Keys(s) \cup Keys(t)
<1> DEFINE u == s \o t
<1>1. /\ DOMAIN s = 1..Len(s) /\ DOMAIN t = 1..Len(t) /\ DOMAIN u = 1..(Len(s) + Len(t))
      /\ Len(s) \in Nat /\ Len(t) \in Nat
      /\ \A i \in 1..Len(s) : u[i] = s[i]
      /\ \A i \in 1..Len(t) : u[Len(s) + i] = t[i]
  BY ConcatProperties
<1>2. ASSUME NEW i \in DOMAIN u PROVE u[i] \in { s[j] : j \in DOMAIN s } \cup { t[j] : j \in DOMAIN t }
  <2>1. CASE i \in 1..Len(s)
    BY <1>1, <2>1
  <2>2. CASE i \notin 1..Len(s)
    <3>1. i - Len(s) \in 1..Len(t) /\ i = Len(s) + (i - Len(s))
      BY <1>1, <2>2
    <3> QED
      BY <1>1, <3>1
  <2> QED
    BY <2>1, <2>2
<1>3. /\ \A j \in DOMAIN s : j \in DOMAIN u /\ u[j] = s[j]
      /\ \A j \in DOMAIN t : Len(s) + j \in DOMAIN u /\ u[Len(s) + j] = t[j]
  BY <1>1
<1> HIDE DEF u
<1>4. ASSUME NEW k \in Keys(u) PROVE k \in Keys(s) \cup Keys(t)
  <2>1. PICK i \in DOMAIN u : k = Norm[u[i]]
    BY DEF Keys
  <2> QED
    BY <1>2, <2>1 DEF Keys
<1>5. ASSUME NEW k \in Keys(s) PROVE k \in Keys(u)
  <2>1. PICK i \in DOMAIN s : k = Norm[s[i]]
    BY DEF Keys
  <2> QED
    BY <1>3, <2>1 DEF Keys
<1>6. ASSUME NEW k \in Keys(t) PROVE k \in Keys(u)
  <2>1. PICK i \in DOMAIN t : k = Norm[t[i]]
    BY DEF Keys
  <2>2. Len(s) + i \in DOMAIN u /\ k = Norm[u[Len(s) + i]]
    BY <1>3, <2>1
  <2> QED
    BY <2>2 DEF Keys
<1> QED
  BY <1>4, <1>5, <1>6 DEF u

\* The loop of _unique_names.
AddName(out, x) == IF Norm[x] \in {""} \cup Keys(out) THEN out ELSE Append(out, x)
AddsNames(f, names) ==
  f = [k \in 0..Len(names) |-> IF k = 0 THEN <<>> ELSE AddName(f[k - 1], names[k])]

LEMMA UniqueDefined ==
  ASSUME NEW S, NEW names \in Seq(S)
  PROVE  \E f : AddsNames(f, names)
<1> DEFINE n == Len(names)
           step == [e \in (1..n) \X Seq(S) |-> AddName(e[2], names[e[1]])]
<1>1. n \in Nat /\ <<>> \in Seq(S) /\ \A k \in 1..n : names[k] \in S
  OBVIOUS
<1>2. step \in [(1..n) \X Seq(S) -> Seq(S)]
  <2>1. ASSUME NEW e \in (1..n) \X Seq(S) PROVE AddName(e[2], names[e[1]]) \in Seq(S)
    <3>1. e[1] \in 1..n /\ e[2] \in Seq(S)
      OBVIOUS
    <3> QED
      BY <1>1, <3>1, AppendProperties DEF AddName
  <2> QED
    BY <2>1
<1>3. \A k \in 1..n, t \in Seq(S) : step[<<k, t>>] = AddName(t, names[k])
  OBVIOUS
<1> HIDE DEF step, n
<1>4. PICK f \in [0..n -> Seq(S)] : Steps(f, <<>>, step, n)
  BY <1>1, <1>2, Iterates
<1> DEFINE h == [k \in 0..n |-> IF k = 0 THEN <<>> ELSE AddName(f[k - 1], names[k])]
<1>5. ASSUME NEW k \in 0..n PROVE f[k] = h[k]
  <2>1. f[k] = IF k = 0 THEN <<>> ELSE step[<<k, f[k - 1]>>]
    BY <1>4 DEF Steps
  <2>2. k # 0 => k \in 1..n /\ k - 1 \in 0..n
    BY <1>1
  <2>3. k # 0 => f[k - 1] \in Seq(S)
    BY <1>4, <2>2
  <2> QED
    BY <1>3, <2>1, <2>2, <2>3
<1>6. f = h
  BY <1>5
<1> QED
  BY <1>6 DEF AddsNames, n

\* _unique_names has every key of the names once, but the blank.
LEMMA UniqueIs ==
  ASSUME NEW S, NEW names \in Seq(S)
  PROVE  /\ UniqueNames(names) \in Seq(S)
         /\ Keys(UniqueNames(names)) = Keys(names) \ {""}
         /\ IsFiniteSet(Keys(UniqueNames(names)))
         /\ Cardinality(Keys(UniqueNames(names))) = Len(UniqueNames(names))
<1> DEFINE n == Len(names)
           f == CHOOSE g : AddsNames(g, names)
           Good(k) == /\ f[k] \in Seq(S)
                      /\ Keys(f[k]) = { Norm[names[i]] : i \in 1..k } \ {""}
                      /\ IsFiniteSet(Keys(f[k])) /\ Cardinality(Keys(f[k])) = Len(f[k])
           S0 == { k \in 0..n : Good(k) }
<1>1. n \in Nat /\ DOMAIN names = 1..n /\ \A k \in 1..n : names[k] \in S
  OBVIOUS
<1>2. AddsNames(f, names)
  BY UniqueDefined
<1>3. UniqueNames(names) = f[n]
  BY DEF UniqueNames, AddsNames, AddName
<1> HIDE DEF f
<1>4. 0 \in S0
  <2>1. f[0] = <<>> /\ 0 \in 0..n
    BY <1>1, <1>2 DEF AddsNames
  <2>2. { Norm[names[i]] : i \in 1..0 } = {}
    OBVIOUS
  <2>3. Keys(f[0]) = {}
    BY <2>1, KeysNone
  <2>4. IsFiniteSet(Keys(f[0])) /\ Cardinality(Keys(f[0])) = 0
    BY <2>3, FS_EmptySet
  <2>5. f[0] \in Seq(S) /\ Len(f[0]) = 0
    BY <2>1
  <2>6. Keys(f[0]) = { Norm[names[i]] : i \in 1..0 } \ {""}
    BY <2>2, <2>3
  <2>7. Good(0)
    BY <2>4, <2>5, <2>6
  <2> QED
    BY <2>1, <2>7
<1>5. ASSUME NEW k \in 0..(n - 1), k \in S0 PROVE k + 1 \in S0
  <2> DEFINE x == names[k + 1]
             t == f[k]
  <2>1. /\ k + 1 \in 1..n /\ k + 1 \in 0..n /\ k + 1 # 0 /\ (k + 1) - 1 = k
        /\ \A i : i \in 1..(k + 1) <=> i \in 1..k \/ i = k + 1
    BY <1>1
  <2>2. f[k + 1] = AddName(t, x)
    BY <1>2, <2>1 DEF AddsNames
  <2>3. Good(k) /\ x \in S
    BY <1>1, <1>5, <2>1
  <2>4. { Norm[names[i]] : i \in 1..(k + 1) } = { Norm[names[i]] : i \in 1..k } \cup {Norm[x]}
    BY <2>1
  <2> HIDE DEF x, t
  <2>5. CASE Norm[x] \in {""} \cup Keys(t)
    <3>1. f[k + 1] = t
      BY <2>2, <2>5 DEF AddName
    <3>2. Good(k + 1)
      BY <2>3, <2>4, <2>5, <3>1 DEF t
    <3> QED
      BY <2>1, <3>2
  <2>6. CASE Norm[x] \notin {""} \cup Keys(t)
    <3>1. f[k + 1] = Append(t, x)
      BY <2>2, <2>6 DEF AddName
    <3>2. t \in Seq(S) /\ Keys(Append(t, x)) = Keys(t) \cup {Norm[x]}
      <4>1. t \in Seq(S) /\ x \in S
        BY <2>3 DEF t
      <4> QED
        BY <4>1, KeysAppend
    <3>3. Append(t, x) \in Seq(S) /\ Len(Append(t, x)) = Len(t) + 1
      <4>1. t \in Seq(S) /\ x \in S
        BY <2>3, <3>2
      <4> QED
        BY <4>1, AppendProperties
    <3>4. IsFiniteSet(Keys(t) \cup {Norm[x]}) /\ Cardinality(Keys(t) \cup {Norm[x]}) = Len(t) + 1
      <4> DEFINE seen == Keys(t)
                 key == Norm[x]
      <4>1. IsFiniteSet(seen) /\ Cardinality(seen) = Len(t) /\ key \notin seen
        BY <2>3, <2>6 DEF t
      <4> HIDE DEF seen, key
      <4>2. IsFiniteSet(seen \cup {key}) /\ Cardinality(seen \cup {key}) = Len(t) + 1
        BY <4>1, FS_AddElement
      <4> QED
        BY <4>2 DEF seen, key
    <3>5. Keys(t) \cup {Norm[x]} = { Norm[names[i]] : i \in 1..(k + 1) } \ {""}
      BY <2>3, <2>4, <2>6 DEF t
    <3>6. Good(k + 1)
      BY <3>1, <3>2, <3>3, <3>4, <3>5
    <3> QED
      BY <2>1, <3>6
  <2> QED
    BY <2>5, <2>6
<1> HIDE DEF S0
<1>6. n \in S0
  BY <1>1, <1>4, <1>5, Climbs
<1>7. Good(n)
  BY <1>6 DEF S0
<1> QED
  BY <1>1, <1>3, <1>7 DEF Keys

\* The loop of _dedupe_candidates.
CityNights(S) == [city : S, nights : Int]
Taken(out) == Keys(Cities(out))
AddCandidate(out, c, banned, limit) ==
  IF Len(out) = limit \/ Norm[c.city] \in {""} \cup banned \cup Taken(out) \/ c.nights < 0
  THEN out
  ELSE Append(out, [c EXCEPT !.nights = Max({1, @})])
AddsCandidates(f, cs, banned, limit) ==
  f = [k \in 0..Len(cs) |-> IF k = 0 THEN <<>> ELSE AddCandidate(f[k - 1], cs[k], banned, limit)]

\* The larger of two numbers, and the smallest of three.
LEMMA Larger ==
  ASSUME NEW m \in Int, NEW n \in Int
  PROVE  Max({m, n}) \in {m, n} /\ Max({m, n}) >= m /\ Max({m, n}) >= n
<1>1. \E x \in {m, n} : \A y \in {m, n} : x >= y
  OBVIOUS
<1>2. Max({m, n}) \in {m, n} /\ \A y \in {m, n} : Max({m, n}) >= y
  BY <1>1 DEF Max
<1> QED
  BY <1>2

LEMMA Smallest ==
  ASSUME NEW l \in Int, NEW m \in Int, NEW n \in Int
  PROVE  LET s == Min({l, m, n}) IN s \in {l, m, n} /\ s <= l /\ s <= m /\ s <= n
<1>1. \E x \in {l, m, n} : \A y \in {l, m, n} : x <= y
  OBVIOUS
<1>2. Min({l, m, n}) \in {l, m, n} /\ \A y \in {l, m, n} : Min({l, m, n}) <= y
  BY <1>1 DEF Min
<1> QED
  BY <1>2

\* A candidate that is taken, for a night at least.
LEMMA AtLeastOneNight ==
  ASSUME NEW S, NEW c \in CityNights(S)
  PROVE  LET d == [c EXCEPT !.nights = Max({1, @})] IN
         d \in CityNights(S) /\ d.city = c.city /\ d.nights >= 1
<1>1. c.nights \in Int /\ c.city \in S
  BY DEF CityNights
<1>2. Max({1, c.nights}) \in Int /\ Max({1, c.nights}) >= 1
  BY <1>1, Larger
<1> DEFINE m == Max({1, c.nights})
<1> HIDE DEF m
<1>3. m \in Int /\ m >= 1
  BY <1>2 DEF m
<1>4. LET d == [c EXCEPT !.nights = m] IN d \in CityNights(S) /\ d.city = c.city /\ d.nights >= 1
  BY <1>1, <1>3 DEF CityNights
<1> QED
  BY <1>4 DEF m

LEMMA CandidatesDefined ==
  ASSUME NEW S, NEW cs \in Seq(CityNights(S)), NEW banned, NEW limit
  PROVE  \E f : AddsCandidates(f, cs, banned, limit)
<1> DEFINE C == CityNights(S)
           n == Len(cs)
           step == [e \in (1..n) \X Seq(C) |-> AddCandidate(e[2], cs[e[1]], banned, limit)]
<1> HIDE DEF C
<1>1. n \in Nat /\ <<>> \in Seq(C) /\ \A k \in 1..n : cs[k] \in C
  BY DEF C
<1>2. step \in [(1..n) \X Seq(C) -> Seq(C)]
  <2>1. ASSUME NEW e \in (1..n) \X Seq(C) PROVE AddCandidate(e[2], cs[e[1]], banned, limit) \in Seq(C)
    <3> DEFINE c == cs[e[1]]
               d == [c EXCEPT !.nights = Max({1, @})]
    <3>1. c \in C /\ e[2] \in Seq(C)
      BY <1>1
    <3>2. d \in C
      <4> HIDE DEF c
      <4> QED
        BY <3>1, AtLeastOneNight DEF C
    <3>3. Append(e[2], d) \in Seq(C)
      BY <3>1, <3>2, AppendProperties
    <3>4. AddCandidate(e[2], c, banned, limit) \in {e[2], Append(e[2], d)}
      BY DEF AddCandidate
    <3> QED
      BY <3>1, <3>3, <3>4
  <2> QED
    BY <2>1
<1>3. \A k \in 1..n, t \in Seq(C) : step[<<k, t>>] = AddCandidate(t, cs[k], banned, limit)
  OBVIOUS
<1> HIDE DEF step, n
<1>4. PICK f \in [0..n -> Seq(C)] : Steps(f, <<>>, step, n)
  BY <1>1, <1>2, Iterates
<1> DEFINE h == [k \in 0..n |->
                   IF k = 0 THEN <<>> ELSE AddCandidate(f[k - 1], cs[k], banned, limit)]
<1>5. ASSUME NEW k \in 0..n PROVE f[k] = h[k]
  <2>1. f[k] = IF k = 0 THEN <<>> ELSE step[<<k, f[k - 1]>>]
    BY <1>4 DEF Steps
  <2>2. k # 0 => k \in 1..n /\ k - 1 \in 0..n
    BY <1>1
  <2>3. k # 0 => f[k - 1] \in Seq(C)
    BY <1>4, <2>2
  <2> QED
    BY <1>3, <2>1, <2>2, <2>3
<1>6. f = h
  BY <1>5
<1> QED
  BY <1>6 DEF AddsCandidates, n

\* The keys of candidates, one more or not.
LEMMA TakenNone == Taken(<<>>) = {}
  BY DEF Taken, Keys, Cities

LEMMA TakenAre == \A q : Taken(q) = { Norm[q[i].city] : i \in DOMAIN q }
  BY DEF Taken, Keys, Cities

LEMMA TakenAppend ==
  ASSUME NEW S, NEW s \in Seq(S), NEW c \in S
  PROVE  Taken(Append(s, c)) = Taken(s) \cup {Norm[c.city]}
<1> DEFINE u == Append(s, c)
           m == Len(s) + 1
<1>1. /\ DOMAIN s = 1..Len(s) /\ DOMAIN u = 1..m /\ u[m] = c /\ m \in 1..m
      /\ \A i \in 1..Len(s) : u[i] = s[i] /\ i \in 1..m
      /\ \A i \in 1..m : i = m \/ i \in 1..Len(s)
  BY AppendProperties
<1> HIDE DEF u, m
<1>2. /\ Taken(s) = { Norm[s[i].city] : i \in DOMAIN s }
      /\ Taken(u) = { Norm[u[i].city] : i \in DOMAIN u }
  BY TakenAre
<1>3. Taken(u) = Taken(s) \cup {Norm[c.city]}
  BY <1>1, <1>2
<1> QED
  BY <1>3 DEF u

\* _dedupe_candidates has candidates that are not banned, each key once and for a night
\* at least, and none only if all are banned, blank or for a negative number of nights.
LEMMA CandidatesAre ==
  ASSUME NEW S, NEW cs \in Seq(CityNights(S)), NEW banned, NEW limit \in Nat \ {0}
  PROVE  LET out == DedupeCandidates(cs, banned, limit) IN
         /\ out \in Seq(CityNights(S)) /\ Len(out) <= limit
         /\ Taken(out) \cap ({""} \cup banned) = {}
         /\ IsFiniteSet(Taken(out)) /\ Cardinality(Taken(out)) = Len(out)
         /\ \A i \in DOMAIN out : out[i].nights >= 1
         /\ out = <<>> => \A i \in DOMAIN cs :
              Norm[cs[i].city] \in {""} \cup banned \/ cs[i].nights < 0
<1> DEFINE C == CityNights(S)
           n == Len(cs)
           f == CHOOSE g : AddsCandidates(g, cs, banned, limit)
           Unfit(i) == Norm[cs[i].city] \in {""} \cup banned \/ cs[i].nights < 0
           Good(k) == /\ f[k] \in Seq(C) /\ Len(f[k]) <= limit
                      /\ Taken(f[k]) \cap ({""} \cup banned) = {}
                      /\ IsFiniteSet(Taken(f[k])) /\ Cardinality(Taken(f[k])) = Len(f[k])
                      /\ \A i \in 1..Len(f[k]) : f[k][i].nights >= 1
                      /\ f[k] = <<>> => \A i \in 1..k : Unfit(i)
           S0 == { k \in 0..n : Good(k) }
<1>1. n \in Nat /\ DOMAIN cs = 1..n /\ \A k \in 1..n : cs[k] \in C
  OBVIOUS
<1>2. AddsCandidates(f, cs, banned, limit)
  BY CandidatesDefined
<1>0. \A c \in C : LET d == [c EXCEPT !.nights = Max({1, @})] IN
        d \in C /\ d.city = c.city /\ d.nights >= 1
  BY AtLeastOneNight
<1>3. DedupeCandidates(cs, banned, limit) = f[n]
  BY DEF DedupeCandidates, AddsCandidates, AddCandidate, Taken
<1> HIDE DEF f, C, Unfit
<1>4. 0 \in S0
  <2>1. f[0] = <<>> /\ 0 \in 0..n
    BY <1>1, <1>2 DEF AddsCandidates
  <2>2. <<>> \in Seq(C) /\ Len(<<>>) = 0 /\ \A i \in 1..0 : FALSE
    OBVIOUS
  <2>3. /\ f[0] \in Seq(C) /\ Len(f[0]) = 0
        /\ Taken(f[0]) = {}
        /\ \A i \in 1..Len(f[0]) : f[0][i].nights >= 1
        /\ \A i \in 1..0 : Unfit(i)
    BY <2>1, <2>2, TakenNone
  <2>4. IsFiniteSet(Taken(f[0])) /\ Cardinality(Taken(f[0])) = 0
    BY <2>3, FS_EmptySet
  <2>5. Len(f[0]) <= limit
    BY <2>3
  <2>6. Good(0)
    BY <2>3, <2>4, <2>5
  <2> QED
    BY <2>1, <2>6
<1>5. ASSUME NEW k \in 0..(n - 1), k \in S0 PROVE k + 1 \in S0
  <2> DEFINE c == cs[k + 1]
             d == [c EXCEPT !.nights = Max({1, @})]
             t == f[k]
  <2>1. /\ k + 1 \in 1..n /\ k + 1 \in 0..n /\ k + 1 # 0 /\ (k + 1) - 1 = k
        /\ \A i \in 1..(k + 1) : i \in 1..k \/ i = k + 1
    BY <1>1
  <2>2. f[k + 1] = AddCandidate(t, c, banned, limit)
    BY <1>2, <2>1 DEF AddsCandidates
  <2>3. c \in C /\ Good(k)
    BY <1>1, <1>5, <2>1
  <2>4. d \in C /\ d.city = c.city /\ d.nights >= 1
    <3> HIDE DEF c
    <3> QED
      BY <1>0, <2>3
  <2>5. f[k + 1] = IF Len(t) = limit \/ Norm[c.city] \in {""} \cup banned \cup Taken(t) \/ c.nights < 0
                   THEN t ELSE Append(t, d)
    BY <2>2 DEF AddCandidate
  <2>6. /\ t \in Seq(C) /\ Len(t) \in Nat /\ Len(t) <= limit
        /\ Taken(t) \cap ({""} \cup banned) = {}
        /\ IsFiniteSet(Taken(t)) /\ Cardinality(Taken(t)) = Len(t)
        /\ \A i \in 1..Len(t) : t[i].nights >= 1
        /\ t = <<>> => \A i \in 1..k : Unfit(i)
    <3>1. f[k] \in Seq(C)
      BY <2>3
    <3>2. Len(f[k]) \in Nat
      BY <3>1
    <3> QED
      BY <2>3, <3>2
  <2>7. Unfit(k + 1) = (Norm[c.city] \in {""} \cup banned \/ c.nights < 0)
    BY DEF Unfit
  <2> HIDE DEF c, d, t
  <2>8. CASE Len(t) = limit \/ Norm[c.city] \in {""} \cup banned \cup Taken(t) \/ c.nights < 0
    <3>1. f[k + 1] = t
      BY <2>5, <2>8
    <3>2. t = <<>> => Unfit(k + 1)
      <4>1. t = <<>> => Len(t) = 0 /\ Taken(t) = {}
        BY TakenNone
      <4> QED
        BY <2>7, <2>8, <4>1
    <3>3. Good(k + 1)
      BY <2>1, <2>6, <3>1, <3>2
    <3> QED
      BY <2>1, <3>3
  <2>9. CASE ~(Len(t) = limit \/ Norm[c.city] \in {""} \cup banned \cup Taken(t) \/ c.nights < 0)
    <3> DEFINE u == Append(t, d)
    <3>0. /\ t \in Seq(C) /\ d \in C /\ Len(t) \in Nat /\ Len(t) <= limit /\ Len(t) # limit
          /\ IsFiniteSet(Taken(t)) /\ Cardinality(Taken(t)) = Len(t)
          /\ Norm[c.city] \notin {""} \cup banned \cup Taken(t) /\ d.city = c.city
      BY <2>4, <2>6, <2>9
    <3>1. f[k + 1] = u
      BY <2>5, <2>9
    <3>2. /\ u \in Seq(C) /\ Len(u) = Len(t) + 1 /\ u[Len(t) + 1] = d /\ u # <<>>
          /\ \A i \in 1..Len(t) : u[i] = t[i]
      <4>1. t \in Seq(C) /\ d \in C /\ Len(t) \in Nat
        BY <3>0
      <4>2. /\ u \in Seq(C) /\ Len(u) = Len(t) + 1 /\ u[Len(t) + 1] = d
            /\ \A i \in 1..Len(t) : u[i] = t[i]
        BY <4>1, AppendProperties
      <4>3. Len(u) # 0
        <5> HIDE DEF u
        <5> QED
          BY <4>1, <4>2
      <4> QED
        BY <4>2, <4>3
    <3>3. Taken(u) = Taken(t) \cup {Norm[c.city]}
      <4>1. t \in Seq(C) /\ d \in C
        BY <3>0
      <4>2. Taken(Append(t, d)) = Taken(t) \cup {Norm[d.city]}
        BY <4>1, TakenAppend
      <4> QED
        BY <3>0, <4>2
    <3>4. Len(u) <= limit
      <4> DEFINE l == Len(t)
      <4>1. l \in Nat /\ limit \in Nat /\ l <= limit /\ l # limit
        BY <3>0
      <4> HIDE DEF l
      <4>2. l + 1 <= limit
        BY <4>1
      <4> QED
        BY <3>2, <4>2 DEF l
    <3>5. IsFiniteSet(Taken(u)) /\ Cardinality(Taken(u)) = Len(u)
      <4> HIDE DEF u
      <4>1. Norm[c.city] \notin Taken(t)
        BY <3>0
      <4>2. /\ IsFiniteSet(Taken(t) \cup {Norm[c.city]})
            /\ Cardinality(Taken(t) \cup {Norm[c.city]}) = Cardinality(Taken(t)) + 1
        BY <3>0, <4>1, FS_AddElement
      <4> QED
        BY <3>0, <3>2, <3>3, <4>2
    <3>6. Taken(u) \cap ({""} \cup banned) = {}
      BY <2>6, <2>9, <3>3
    <3>7. \A i \in 1..Len(u) : u[i].nights >= 1
      <4> HIDE DEF u
      <4>1. \A i \in 1..Len(u) : i \in 1..Len(t) \/ i = Len(t) + 1
        <5>1. Len(t) \in Nat
          BY <3>0
        <5>2. \A i \in 1..(Len(t) + 1) : i \in 1..Len(t) \/ i = Len(t) + 1
          BY <5>1
        <5> QED
          BY <3>2, <5>2
      <4>2. \A i \in 1..Len(t) : t[i].nights >= 1
        BY <2>6
      <4> QED
        BY <2>4, <3>2, <4>1, <4>2
    <3> HIDE DEF u
    <3>8. Good(k + 1)
      BY <3>1, <3>2, <3>4, <3>5, <3>6, <3>7
    <3> QED
      BY <2>1, <3>8
  <2> QED
    BY <2>8, <2>9
<1> HIDE DEF S0
<1>6. n \in S0
  BY <1>1, <1>4, <1>5, Climbs
<1>7. Good(n)
  BY <1>6 DEF S0
<1>8. f[n] \in Seq(C) /\ DOMAIN f[n] = 1..Len(f[n])
  <2>1. f[n] \in Seq(C)
    BY <1>7
  <2> QED
    BY <2>1
<1>9. f[n] = <<>> => \A i \in DOMAIN cs : Unfit(i)
  BY <1>1, <1>7
<1> QED
  BY <1>3, <1>7, <1>8, <1>9 DEF C, Unfit

LEMMA MaxCitiesIs == \A days \in Nat : MaxCities(days) \in 1..5 /\ (days >= 1 => MaxCities(days) <= days)
<1> TAKE days \in Nat
<1>1. CASE days <= 4
  <2>1. MaxCities(days) = 1
    BY <1>1 DEF MaxCities
  <2> QED
    BY <2>1
<1>2. CASE days = 5
  <2>1. MaxCities(days) = 2
    BY <1>2 DEF MaxCities
  <2> QED
    BY <1>2, <2>1
<1>3. CASE days \in 6..9
  <2>1. MaxCities(days) = 3
    BY <1>3 DEF MaxCities
  <2> QED
    BY <1>3, <2>1
<1>4. CASE days \in 10..14
  <2>1. MaxCities(days) = 4
    BY <1>4 DEF MaxCities
  <2> QED
    BY <1>4, <2>1
<1>5. CASE days > 14
  <2>1. MaxCities(days) = 5
    BY <1>5 DEF MaxCities
  <2> QED
    BY <1>5, <2>1
<1> QED
  BY <1>1, <1>2, <1>3, <1>4, <1>5

\* NEW CITIES ONLY.  What _suggest_city_sync suggests for any route, draft and answer of
\* the crew is new to both, each city once and for a night at least, and fits into what
\* the trip has room for; it is empty only if the crew named no city that could be added.
THEOREM SuggestionsAreNew ==
  ASSUME NEW S, NEW in, in.persisted \in Seq(S), in.draft \in Seq(S),
         in.count \in Nat \ {0}, in.days \in Nat, CandidatesOf(in.answer) \in Seq(CityNights(S))
  PROVE  SuggestionsFit(in, SuggestCities(in))
<1> DEFINE given == in.persisted \o in.draft
           listed == UniqueNames(given)
           room == MaxCities(in.days) - Len(listed)
           limit == Min({MaxCount, in.count, room})
           cs == CandidatesOf(in.answer)
           banned == Keys(listed)
           found == DedupeCandidates(cs, banned, limit)
           out == SuggestCities(in)
<1> HIDE DEF given, listed, room, limit, cs, banned, found, out
<1>1. given \in Seq(S)
  BY ConcatProperties DEF given
<1>2. listed \in Seq(S) /\ banned = Keys(given) \ {""} /\ IsFiniteSet(banned)
      /\ Cardinality(banned) = Len(listed)
  BY <1>1, UniqueIs DEF listed, banned
<1>3. Len(listed) \in Nat
  <2>1. listed \in Seq(S)
    BY <1>2
  <2> QED
    BY <2>1
<1>4. MaxCities(in.days) \in Int
  <2>1. MaxCities(in.days) \in 1..5
    BY MaxCitiesIs
  <2> QED
    BY <2>1
<1>5. room = MaxCities(in.days) - Len(listed) /\ room \in Int
  BY <1>3, <1>4 DEF room
<1>6. /\ room <= 0 => out = [code |-> "city_cap", cities |-> <<>>]
      /\ room > 0 /\ in.answer.form = "error" => out = [code |-> "crew_failed", cities |-> <<>>]
      /\ room > 0 /\ in.answer.form # "error" =>
           out = [code |-> IF found = <<>> THEN "suggest_city_empty" ELSE "ok", cities |-> found]
  <2>0. out = CASE room <= 0 -> [code |-> "city_cap", cities |-> <<>>]
                [] room > 0 /\ in.answer.form = "error" -> [code |-> "crew_failed", cities |-> <<>>]
                [] room > 0 /\ in.answer.form # "error" ->
                     [code |-> IF found = <<>> THEN "suggest_city_empty" ELSE "ok", cities |-> found]
    BY DEF SuggestCities, out, room, listed, given, found, limit, banned, cs
  <2>1. ~(room <= 0 /\ room > 0)
    BY <1>5
  <2> QED
    BY <2>0, <2>1
<1>7. CASE ~(room > 0 /\ in.answer.form # "error")
  <2>1. room <= 0 \/ room > 0
    BY <1>5
  <2>2. out = [code |-> "city_cap", cities |-> <<>>] \/ out = [code |-> "crew_failed", cities |-> <<>>]
    BY <1>6, <1>7, <2>1
  <2>3. out.code # "ok" /\ out.code # "suggest_city_empty"
    BY <2>2
  <2> QED
    BY <2>3 DEF SuggestionsFit, out
<1>8. CASE room > 0 /\ in.answer.form # "error"
  <2>1. limit \in Nat \ {0} /\ limit <= room /\ limit <= in.count
    <3>1. MaxCount \in Int /\ MaxCount > 0 /\ in.count \in Int /\ in.count > 0
      BY MaxCountAssumption
    <3>2. LET s == Min({MaxCount, in.count, room}) IN
            s \in {MaxCount, in.count, room} /\ s <= MaxCount /\ s <= in.count /\ s <= room
      BY <1>5, <3>1, Smallest
    <3>3. limit \in {MaxCount, in.count, room} /\ limit <= in.count /\ limit <= room
      BY <3>2 DEF limit
    <3> QED
      BY <1>5, <1>8, <3>1, <3>3
  <2>2. /\ found \in Seq(CityNights(S)) /\ Len(found) <= limit
        /\ Taken(found) \cap ({""} \cup banned) = {}
        /\ IsFiniteSet(Taken(found)) /\ Cardinality(Taken(found)) = Len(found)
        /\ \A i \in DOMAIN found : found[i].nights >= 1
        /\ found = <<>> => \A i \in DOMAIN cs :
             Norm[cs[i].city] \in {""} \cup banned \/ cs[i].nights < 0
    <3>1. cs \in Seq(CityNights(S))
      BY DEF cs
    <3> QED
      BY <2>1, <3>1, CandidatesAre DEF found
  <2>3. out.code = (IF found = <<>> THEN "suggest_city_empty" ELSE "ok") /\ out.cities = found
    BY <1>6, <1>8
  <2>4. /\ Len(found) \in Nat /\ DOMAIN found = 1..Len(found)
        /\ found # <<>> => Len(found) # 0
        /\ \A i \in 1..Len(found) : found[i] \in CityNights(S)
    <3>1. found \in Seq(CityNights(S))
      BY <2>2
    <3> QED
      BY <3>1, EmptySeq
  <2>5. Cities(found) \in Seq(S)
    <3>1. \A i \in 1..Len(found) : found[i].city \in S
      BY <2>4 DEF CityNights
    <3>2. Cities(found) \in [1..Len(found) -> S]
      BY <2>4, <3>1 DEF Cities
    <3> QED
      BY <2>4, <3>2, IsASeq
  <2> DEFINE all == given \o Cities(found)
  <2>6. Keys(all) \ {""} = banned \cup Taken(found)
    <3>1. Keys(all) = Keys(given) \cup Keys(Cities(found))
      BY <1>1, <2>5, KeysConcat
    <3>2. "" \notin Taken(found)
      BY <2>2
    <3> QED
      BY <1>2, <3>1, <3>2 DEF Taken
  <2> HIDE DEF all
  <2>7. Cardinality(banned \cup Taken(found)) = Len(listed) + Len(found)
    <3>1. banned \cap Taken(found) = {}
      BY <2>2
    <3>2. Cardinality(banned \cap Taken(found)) = 0
      BY <3>1, FS_EmptySet
    <3>3. Cardinality(banned \cup Taken(found)) =
            Cardinality(banned) + Cardinality(Taken(found)) - Cardinality(banned \cap Taken(found))
      BY <1>2, <2>2, FS_Union
    <3>4. Cardinality(Taken(found)) = Len(found)
      BY <2>2
    <3>5. Cardinality(banned) = Len(listed)
      BY <1>2
    <3> QED
      BY <1>3, <2>4, <3>2, <3>3, <3>4, <3>5
  <2>8. Cardinality(Keys(all) \ {""}) = Cardinality(Keys(given) \ {""}) + Len(found)
    BY <1>2, <2>6, <2>7
  <2>9. Len(found) <= limit
    BY <2>2
  <2>10. Cardinality(Keys(all) \ {""}) <= MaxCities(in.days)
    <3>1. Len(listed) + Len(found) <= MaxCities(in.days)
      BY <1>3, <1>4, <1>5, <2>1, <2>4, <2>9
    <3> QED
      BY <2>6, <2>7, <3>1
  <2>11. found # <<>> => Len(found) \in 1..in.count
    BY <2>1, <2>4, <2>9
  <2>12. found = <<>> => \A i \in DOMAIN cs :
           Norm[cs[i].city] \in (Keys(given) \ {""}) \cup {""} \/ cs[i].nights < 0
    BY <1>2, <2>2
  <2>13. \A i \in DOMAIN found : found[i].nights >= 1
    BY <2>2
  <2>14. out.code = "ok" =>
           /\ Cardinality(Keys(given \o Cities(out.cities)) \ {""})
                = Cardinality(Keys(given) \ {""}) + Len(out.cities)
           /\ Cardinality(Keys(given \o Cities(out.cities)) \ {""}) <= MaxCities(in.days)
           /\ \A i \in DOMAIN out.cities : out.cities[i].nights >= 1
           /\ Len(out.cities) \in 1..in.count
    <3>1. out.code = "ok" => found # <<>>
      BY <2>3
    <3> QED
      BY <2>3, <2>8, <2>10, <2>11, <2>13, <3>1 DEF all
  <2>15. out.code = "suggest_city_empty" => \A i \in DOMAIN CandidatesOf(in.answer) :
           LET c == CandidatesOf(in.answer)[i] IN
           Norm[c.city] \in (Keys(given) \ {""}) \cup {""} \/ c.nights < 0
    BY <2>3, <2>12 DEF cs
  <2> QED
    BY <2>14, <2>15 DEF SuggestionsFit, given, out
<1> QED
  BY <1>7, <1>8

-----------------------------------------------------------------------------
(* Sums                                                                    *)

\* f has the sums of the first k numbers, for every k.
Sums(f, ns) ==
  /\ f \in [0..Len(ns) -> Int] /\ f[0] = 0
  /\ \A k \in 1..Len(ns) : f[k] = f[k - 1] + ns[k]

LEMMA SumsDefined ==
  ASSUME NEW ns \in Seq(Int)
  PROVE  \E f : Sums(f, ns) /\ Total(ns) = f[Len(ns)]
<1> DEFINE n == Len(ns)
           step == [e \in (1..n) \X Int |-> e[2] + ns[e[1]]]
           Up(f) == f = [k \in 0..n |-> IF k = 0 THEN 0 ELSE f[k - 1] + ns[k]]
<1>1. n \in Nat /\ \A k \in 1..n : ns[k] \in Int
  OBVIOUS
<1>2. step \in [(1..n) \X Int -> Int]
  <2>1. ASSUME NEW e \in (1..n) \X Int PROVE e[2] + ns[e[1]] \in Int
    <3>1. e[1] \in 1..n /\ e[2] \in Int
      OBVIOUS
    <3> QED
      BY <1>1, <3>1
  <2> QED
    BY <2>1
<1>3. \A k \in 1..n, t \in Int : step[<<k, t>>] = t + ns[k]
  OBVIOUS
<1>4. Total(ns) = (CHOOSE f : Up(f))[n]
  BY DEF Total
<1> HIDE DEF step, n
<1>5. PICK g \in [0..n -> Int] : Steps(g, 0, step, n)
  <2> DEFINE D == Int
  <2>1. n \in Nat /\ 0 \in D /\ step \in [(1..n) \X D -> D]
    BY <1>1, <1>2
  <2> HIDE DEF D
  <2>2. \E g \in [0..n -> D] : Steps(g, 0, step, n)
    BY <2>1, Iterates
  <2> QED
    BY <2>2 DEF D
<1> DEFINE h == [k \in 0..n |-> IF k = 0 THEN 0 ELSE g[k - 1] + ns[k]]
<1>6. ASSUME NEW k \in 0..n PROVE g[k] = h[k]
  <2>1. g[k] = IF k = 0 THEN 0 ELSE step[<<k, g[k - 1]>>]
    BY <1>5 DEF Steps
  <2>2. k # 0 => k \in 1..n /\ k - 1 \in 0..n
    BY <1>1
  <2>3. k # 0 => g[k - 1] \in Int
    BY <1>5, <2>2
  <2> QED
    BY <1>3, <2>1, <2>2, <2>3
<1>7. g = h
  BY <1>6
<1> HIDE DEF h
<1> DEFINE f == CHOOSE x : Up(x)
<1>8. Up(g)
  BY <1>7 DEF h
<1>9. Up(f)
  BY <1>8
<1> HIDE DEF f
<1> DEFINE S == { k \in 0..n : f[k] \in Int }
<1>10. 0 \in S
  <2>1. 0 \in 0..n
    BY <1>1
  <2> QED
    BY <1>9, <2>1
<1>11. ASSUME NEW k \in 0..(n - 1), k \in S PROVE k + 1 \in S
  <2>1. k + 1 \in 0..n /\ k + 1 \in 1..n /\ k + 1 # 0 /\ (k + 1) - 1 = k
    BY <1>1
  <2>2. f[k + 1] = f[k] + ns[k + 1]
    BY <1>9, <2>1
  <2>3. f[k] \in Int /\ ns[k + 1] \in Int
    BY <1>1, <1>11, <2>1
  <2>4. f[k] + ns[k + 1] \in Int
    <3> DEFINE p == f[k]
               x == ns[k + 1]
    <3>1. p \in Int /\ x \in Int
      BY <2>3
    <3> HIDE DEF p, x
    <3>2. p + x \in Int
      BY <3>1
    <3> QED
      BY <3>2 DEF p, x
  <2>5. f[k + 1] \in Int
    BY <2>2, <2>4
  <2> QED
    BY <2>1, <2>5
<1>12. \A k \in 0..n : f[k] \in Int
  <2> TAKE k \in 0..n
  <2>1. k \in Nat /\ \A j \in 0..(k - 1) : j \in 0..(n - 1)
    BY <1>1
  <2> HIDE DEF S
  <2>2. k \in S
    BY <1>10, <1>11, <2>1, Climbs
  <2> QED
    BY <2>2 DEF S
<1>13. f \in [0..n -> Int] /\ f[0] = 0 /\ \A k \in 1..n : f[k] = f[k - 1] + ns[k]
  <2>1. f = [k \in 0..n |-> f[k]]
    BY <1>9
  <2>2. 0 \in 0..n /\ \A k \in 1..n : k \in 0..n /\ k # 0
    BY <1>1
  <2>3. f \in [0..n -> Int]
    BY <1>12, <2>1
  <2> QED
    BY <1>9, <2>2, <2>3
<1> QED
  BY <1>4, <1>13 DEF Sums, n, f

\* There is one such f.
Together(f, g, n) == f[0] = g[0] /\ \A k \in 1..n : f[k - 1] = g[k - 1] => f[k] = g[k]

LEMMA SumsAgree ==
  ASSUME NEW n \in Nat, NEW f, NEW g, Together(f, g, n)
  PROVE  \A k \in 0..n : f[k] = g[k]
<1>0. f[0] = g[0] /\ \A k \in 1..n : f[k - 1] = g[k - 1] => f[k] = g[k]
  BY DEF Together
<1> DEFINE S == { k \in 0..n : f[k] = g[k] }
<1>1. 0 \in S
  BY <1>0
<1>2. ASSUME NEW k \in 0..(n - 1), k \in S PROVE k + 1 \in S
  <2>1. k + 1 \in 1..n /\ k + 1 \in 0..n /\ (k + 1) - 1 = k
    OBVIOUS
  <2> QED
    BY <1>0, <1>2, <2>1
<1> TAKE k \in 0..n
<1>3. k \in Nat /\ \A j \in 0..(k - 1) : j \in 0..(n - 1)
  OBVIOUS
<1> HIDE DEF S
<1>4. k \in S
  BY <1>1, <1>2, <1>3, Climbs
<1> QED
  BY <1>4 DEF S

\* To know a sum, show the sums of the first numbers.
LEMMA TotalIs ==
  ASSUME NEW ns \in Seq(Int), NEW f, Sums(f, ns)
  PROVE  Total(ns) = f[Len(ns)]
<1> DEFINE n == Len(ns)
<1>1. PICK g : Sums(g, ns) /\ Total(ns) = g[n]
  BY SumsDefined
<1>2. n \in Nat /\ n \in 0..n
  OBVIOUS
<1>3. \A k \in 1..n : f[k - 1] = g[k - 1] => f[k] = g[k]
  BY <1>1 DEF Sums
<1>4. f[0] = g[0]
  BY <1>1 DEF Sums
<1> HIDE DEF n
<1>5. Together(f, g, n)
  BY <1>3, <1>4 DEF Together
<1>6. \A k \in 0..n : f[k] = g[k]
  BY <1>2, <1>5, SumsAgree
<1> QED
  BY <1>1, <1>2, <1>6 DEF n

\* Numbers in a list of n.
Numbers(n) == [1..n -> Int]

LEMMA NumbersAre ==
  ASSUME NEW n \in Nat, NEW a \in Numbers(n)
  PROVE  a \in Seq(Int) /\ Len(a) = n /\ DOMAIN a = 1..n /\ \A i \in 1..n : a[i] \in Int
<1>1. a \in [1..n -> Int]
  BY DEF Numbers
<1>2. a \in Seq(Int)
  BY <1>1, IsASeq
<1>3. Len(a) = n
  BY <1>1, <1>2, LenProperties
<1> QED
  BY <1>1, <1>2, <1>3

\* The sum of a list of numbers is a number, and so are those of its beginnings.
LEMMA TotalNumber ==
  ASSUME NEW n \in Nat, NEW a \in Numbers(n)
  PROVE  /\ Total(a) \in Int
         /\ \E f \in [0..n -> Int] : /\ f[0] = 0 /\ Total(a) = f[n]
                                     /\ \A k \in 1..n : f[k] = f[k - 1] + a[k]
<1>1. a \in Seq(Int) /\ Len(a) = n
  BY NumbersAre
<1>2. PICK f : Sums(f, a) /\ Total(a) = f[n]
  BY <1>1, SumsDefined
<1>3. /\ f \in [0..n -> Int] /\ f[0] = 0 /\ Total(a) = f[n]
      /\ \A k \in 1..n : f[k] = f[k - 1] + a[k]
  BY <1>1, <1>2 DEF Sums
<1>4. n \in 0..n
  OBVIOUS
<1> QED
  BY <1>3, <1>4

LEMMA TotalFrom ==
  ASSUME NEW n \in Nat, NEW a \in Numbers(n), NEW f \in [0..n -> Int], f[0] = 0,
         \A k \in 1..n : f[k] = f[k - 1] + a[k]
  PROVE  Total(a) = f[n]
<1>1. a \in Seq(Int) /\ Len(a) = n
  BY NumbersAre
<1>2. Sums(f, a)
  BY <1>1 DEF Sums
<1> QED
  BY <1>1, <1>2, TotalIs

\* Sums of sums.
LEMMA TotalPlus ==
  ASSUME NEW n \in Nat, NEW a \in Numbers(n), NEW b \in Numbers(n),
         NEW c \in Numbers(n), \A i \in 1..n : c[i] = a[i] + b[i]
  PROVE  Total(c) = Total(a) + Total(b)
<1>1. PICK f \in [0..n -> Int] : /\ f[0] = 0 /\ Total(a) = f[n]
                                 /\ \A k \in 1..n : f[k] = f[k - 1] + a[k]
  BY TotalNumber
<1>2. PICK g \in [0..n -> Int] : /\ g[0] = 0 /\ Total(b) = g[n]
                                 /\ \A k \in 1..n : g[k] = g[k - 1] + b[k]
  BY TotalNumber
<1> DEFINE h == [k \in 0..n |-> f[k] + g[k]]
<1>3. h \in [0..n -> Int]
  OBVIOUS
<1>4. h[0] = 0
  BY <1>1, <1>2
<1>5. ASSUME NEW k \in 1..n PROVE h[k] = h[k - 1] + c[k]
  <2>1. k \in 0..n /\ k - 1 \in 0..n
    OBVIOUS
  <2>2. f[k - 1] \in Int /\ g[k - 1] \in Int /\ a[k] \in Int /\ b[k] \in Int
    BY <2>1, NumbersAre
  <2>3. h[k] = f[k] + g[k] /\ h[k - 1] = f[k - 1] + g[k - 1]
    BY <2>1
  <2>4. f[k] = f[k - 1] + a[k] /\ g[k] = g[k - 1] + b[k] /\ c[k] = a[k] + b[k]
    BY <1>1, <1>2
  <2>5. (f[k - 1] + a[k]) + (g[k - 1] + b[k]) = (f[k - 1] + g[k - 1]) + (a[k] + b[k])
    <3> DEFINE p == f[k - 1]
               q == g[k - 1]
               x == a[k]
               y == b[k]
    <3>1. p \in Int /\ q \in Int /\ x \in Int /\ y \in Int
      BY <2>2
    <3> HIDE DEF p, q, x, y
    <3>2. (p + x) + (q + y) = (p + q) + (x + y)
      BY <3>1
    <3> QED
      BY <3>2 DEF p, q, x, y
  <2> HIDE DEF h
  <2> QED
    BY <2>3, <2>4, <2>5, Zenon
<1>6. h[n] = Total(a) + Total(b)
  <2>1. n \in 0..n
    OBVIOUS
  <2> QED
    BY <1>1, <1>2, <2>1
<1> HIDE DEF h
<1> QED
  BY <1>3, <1>4, <1>5, <1>6, TotalFrom

\* What is larger number by number is larger in sum.
LEMMA TotalLess ==
  ASSUME NEW n \in Nat, NEW a \in Numbers(n), NEW b \in Numbers(n), \A i \in 1..n : a[i] <= b[i]
  PROVE  Total(a) <= Total(b)
<1>1. PICK f \in [0..n -> Int] : /\ f[0] = 0 /\ Total(a) = f[n]
                                 /\ \A k \in 1..n : f[k] = f[k - 1] + a[k]
  BY TotalNumber
<1>2. PICK g \in [0..n -> Int] : /\ g[0] = 0 /\ Total(b) = g[n]
                                 /\ \A k \in 1..n : g[k] = g[k - 1] + b[k]
  BY TotalNumber
<1> DEFINE S == { k \in 0..n : f[k] <= g[k] }
<1>3. 0 \in S
  BY <1>1, <1>2
<1>4. ASSUME NEW k \in 0..(n - 1), k \in S PROVE k + 1 \in S
  <2>1. k + 1 \in 1..n /\ k + 1 \in 0..n /\ (k + 1) - 1 = k /\ k \in 0..n
    OBVIOUS
  <2>2. f[k + 1] = f[k] + a[k + 1] /\ g[k + 1] = g[k] + b[k + 1]
    BY <1>1, <1>2, <2>1
  <2>3. f[k] \in Int /\ g[k] \in Int /\ a[k + 1] \in Int /\ b[k + 1] \in Int
    BY <2>1, NumbersAre
  <2>4. f[k] <= g[k] /\ a[k + 1] <= b[k + 1]
    BY <1>4, <2>1
  <2>5. f[k] + a[k + 1] <= g[k] + b[k + 1]
    <3> DEFINE p == f[k]
               q == g[k]
               x == a[k + 1]
               y == b[k + 1]
    <3>1. p \in Int /\ q \in Int /\ x \in Int /\ y \in Int /\ p <= q /\ x <= y
      BY <2>3, <2>4
    <3> HIDE DEF p, q, x, y
    <3>2. p + x <= q + y
      BY <3>1
    <3> QED
      BY <3>2 DEF p, q, x, y
  <2>6. f[k + 1] <= g[k + 1]
    BY <2>2, <2>5
  <2> QED
    BY <2>1, <2>6
<1> HIDE DEF S
<1>5. n \in S
  BY <1>3, <1>4, Climbs
<1> QED
  BY <1>1, <1>2, <1>5 DEF S

\* The sum of n times the same.
LEMMA TotalSame ==
  ASSUME NEW n \in Nat, NEW q \in Int, NEW a \in Numbers(n), \A i \in 1..n : a[i] = q
  PROVE  Total(a) = n * q
<1> DEFINE h == [k \in 0..n |-> k * q]
<1>1. h \in [0..n -> Int] /\ h[0] = 0 /\ h[n] = n * q
  OBVIOUS
<1>2. ASSUME NEW k \in 1..n PROVE h[k] = h[k - 1] + a[k]
  <2>1. k \in 0..n /\ k - 1 \in 0..n /\ k \in Int
    OBVIOUS
  <2>2. k * q = (k - 1) * q + q
    BY <2>1
  <2> QED
    BY <2>1, <2>2
<1> HIDE DEF h
<1> QED
  BY <1>1, <1>2, TotalFrom

\* A multiple of a sum.
LEMMA TotalTimes ==
  ASSUME NEW n \in Nat, NEW q \in Int, NEW a \in Numbers(n), NEW b \in Numbers(n),
         \A i \in 1..n : b[i] = q * a[i]
  PROVE  Total(b) = q * Total(a)
<1>1. PICK f \in [0..n -> Int] : /\ f[0] = 0 /\ Total(a) = f[n]
                                 /\ \A k \in 1..n : f[k] = f[k - 1] + a[k]
  BY TotalNumber
<1> DEFINE h == [k \in 0..n |-> q * f[k]]
<1>2. h \in [0..n -> Int] /\ h[0] = 0
  BY <1>1
<1>3. ASSUME NEW k \in 1..n PROVE h[k] = h[k - 1] + b[k]
  <2>1. k \in 0..n /\ k - 1 \in 0..n
    OBVIOUS
  <2>2. f[k - 1] \in Int /\ a[k] \in Int
    BY <2>1, NumbersAre
  <2>3. q * (f[k - 1] + a[k]) = q * f[k - 1] + q * a[k]
    BY <2>2
  <2> QED
    BY <1>1, <2>1, <2>3
<1>4. h[n] = q * Total(a)
  <2>1. n \in 0..n
    OBVIOUS
  <2> QED
    BY <1>1, <2>1
<1> HIDE DEF h
<1> QED
  BY <1>2, <1>3, <1>4, TotalFrom

\* The sum of a mark on the members of K counts them.
LEMMA TotalCounts ==
  ASSUME NEW n \in Nat, NEW K, K \subseteq 1..n, NEW a \in Numbers(n),
         \A i \in 1..n : a[i] = IF i \in K THEN 1 ELSE 0
  PROVE  Total(a) = Cardinality(K)
<1> DEFINE Upto(k) == K \cap (1..k)
           h == [k \in 0..n |-> Cardinality(Upto(k))]
<1>1. \A k \in 0..n : IsFiniteSet(Upto(k)) /\ Cardinality(Upto(k)) \in Int
  <2> TAKE k \in 0..n
  <2>1. IsFiniteSet(1..k)
    BY FS_Interval
  <2>2. IsFiniteSet(K \cap (1..k))
    BY <2>1, FS_Intersection
  <2> QED
    BY <2>2, FS_CardinalityType
<1>2. h \in [0..n -> Int]
  BY <1>1
<1>3. h[0] = 0
  <2>1. Upto(0) = {}
    OBVIOUS
  <2> QED
    BY <2>1, FS_EmptySet
<1>4. ASSUME NEW k \in 1..n PROVE h[k] = h[k - 1] + a[k]
  <2>1. k \in 0..n /\ k - 1 \in 0..n
    OBVIOUS
  <2>2. h[k] = Cardinality(Upto(k)) /\ h[k - 1] = Cardinality(Upto(k - 1))
    BY <2>1
  <2>3. k \notin Upto(k - 1) /\ IsFiniteSet(Upto(k - 1)) /\ Cardinality(Upto(k - 1)) \in Int
    BY <1>1, <2>1
  <2>4. CASE k \in K
    <3>1. Upto(k) = Upto(k - 1) \cup {k}
      BY <2>4
    <3>2. Cardinality(Upto(k - 1) \cup {k}) = Cardinality(Upto(k - 1)) + 1
      <4> HIDE DEF Upto
      <4> QED
        BY <2>3, FS_AddElement
    <3> QED
      BY <2>2, <2>4, <3>1, <3>2
  <2>5. CASE k \notin K
    <3>1. Upto(k) = Upto(k - 1)
      BY <2>5
    <3>2. h[k] = h[k - 1] + 0
      <4> HIDE DEF Upto, h
      <4> QED
        BY <2>2, <2>3, <3>1
    <3> QED
      BY <2>5, <3>2
  <2> QED
    BY <2>4, <2>5
<1>5. h[n] = Cardinality(K)
  <2>1. n \in 0..n
    OBVIOUS
  <2>2. Upto(n) = K
    <3> HIDE DEF h
    <3> QED
      OBVIOUS
  <2> QED
    BY <2>1, <2>2
<1> HIDE DEF h
<1> QED
  BY <1>2, <1>3, <1>4, <1>5, TotalFrom

-----------------------------------------------------------------------------
(* Ranks                                                                   *)

\* R orders the first n numbers: none is before itself, and of two one is before the other.
Orders(R, n) ==
  /\ \A i \in 1..n : <<i, i>> \notin R
  /\ \A i, j \in 1..n : i = j \/ <<i, j>> \in R \/ <<j, i>> \in R
  /\ \A i, j, k \in 1..n : <<i, j>> \in R /\ <<j, k>> \in R => <<i, k>> \in R
Before(R, n, i) == { j \in 1..n : <<j, i>> \in R }
Rank(R, n, i) == Cardinality(Before(R, n, i))

LEMMA RankIs ==
  ASSUME NEW n \in Nat, NEW R, Orders(R, n)
  PROVE  /\ \A i \in 1..n : Rank(R, n, i) \in 0..(n - 1)
         /\ \A i, j \in 1..n : <<i, j>> \in R => Rank(R, n, i) < Rank(R, n, j)
         /\ \A i, j \in 1..n : Rank(R, n, i) = Rank(R, n, j) => i = j
<1>1. IsFiniteSet(1..n) /\ Cardinality(1..n) = n
  BY FS_Interval
<1>2. \A i \in 1..n : IsFiniteSet(Before(R, n, i)) /\ Rank(R, n, i) \in Nat
  <2> TAKE i \in 1..n
  <2>1. Before(R, n, i) \in SUBSET (1..n)
    BY DEF Before
  <2>2. IsFiniteSet(Before(R, n, i))
    BY <1>1, <2>1, FS_Subset
  <2> QED
    BY <2>2, FS_CardinalityType DEF Rank
<1>3. ASSUME NEW i \in 1..n PROVE Rank(R, n, i) \in 0..(n - 1)
  <2>1. IsFiniteSet((1..n) \ {i}) /\ Cardinality((1..n) \ {i}) = n - 1
    BY <1>1, FS_RemoveElement
  <2>2. Before(R, n, i) \in SUBSET ((1..n) \ {i})
    BY DEF Before, Orders
  <2>3. Rank(R, n, i) <= n - 1
    BY <2>1, <2>2, FS_Subset DEF Rank
  <2> QED
    BY <1>2, <2>3
<1>4. ASSUME NEW i \in 1..n, NEW j \in 1..n, <<i, j>> \in R
      PROVE  Rank(R, n, i) < Rank(R, n, j)
  <2>1. Before(R, n, i) \in SUBSET Before(R, n, j)
    BY <1>4 DEF Before, Orders
  <2>2. i \in Before(R, n, j) /\ i \notin Before(R, n, i)
    BY <1>4 DEF Before, Orders
  <2>3. /\ Cardinality(Before(R, n, i)) <= Cardinality(Before(R, n, j))
        /\ Cardinality(Before(R, n, j)) = Cardinality(Before(R, n, i)) => Before(R, n, j) = Before(R, n, i)
    BY <1>2, <2>1, FS_Subset
  <2>4. Rank(R, n, i) <= Rank(R, n, j) /\ Rank(R, n, i) # Rank(R, n, j)
    BY <2>2, <2>3 DEF Rank
  <2> QED
    BY <1>2, <2>4
<1>5. ASSUME NEW i \in 1..n, NEW j \in 1..n, Rank(R, n, i) = Rank(R, n, j) PROVE i = j
  <2>1. <<i, j>> \in R => Rank(R, n, i) < Rank(R, n, j)
    BY <1>4
  <2>2. <<j, i>> \in R => Rank(R, n, j) < Rank(R, n, i)
    BY <1>4
  <2>3. Rank(R, n, i) \in Nat
    BY <1>2
  <2>4. ~(Rank(R, n, i) < Rank(R, n, j)) /\ ~(Rank(R, n, j) < Rank(R, n, i))
    BY <1>5, <2>3
  <2> QED
    BY <2>1, <2>2, <2>4 DEF Orders
<1> QED
  BY <1>3, <1>4, <1>5

\* As many as asked for have the lowest ranks.
LEMMA RankCounts ==
  ASSUME NEW n \in Nat, NEW R, Orders(R, n), NEW m \in 0..n
  PROVE  Cardinality({ i \in 1..n : Rank(R, n, i) < m }) = m
<1> DEFINE T == { i \in 1..n : Rank(R, n, i) < m }
           f == [i \in 1..n |-> Rank(R, n, i)]
           g == [i \in T |-> Rank(R, n, i)]
<1>1. f \in Injection(1..n, 0..(n - 1))
  BY RankIs DEF Injection, IsInjective
<1>2. /\ IsFiniteSet(1..n) /\ Cardinality(1..n) = n
      /\ IsFiniteSet(0..(n - 1)) /\ Cardinality(0..(n - 1)) = n
  <2>1. IsFiniteSet(1..n) /\ Cardinality(1..n) = IF 1 > n THEN 0 ELSE n - 1 + 1
    BY FS_Interval
  <2>2. IsFiniteSet(0..(n - 1)) /\ Cardinality(0..(n - 1)) = IF 0 > n - 1 THEN 0 ELSE (n - 1) - 0 + 1
    <3>1. 0 \in Int /\ n - 1 \in Int
      OBVIOUS
    <3> HIDE DEF f, g, T
    <3> QED
      BY <3>1, FS_Interval
  <2>3. (IF 1 > n THEN 0 ELSE n - 1 + 1) = n /\ (IF 0 > n - 1 THEN 0 ELSE (n - 1) - 0 + 1) = n
    OBVIOUS
  <2> QED
    BY <2>1, <2>2, <2>3
<1>3. f \in Surjection(1..n, 0..(n - 1))
  <2> HIDE DEF f
  <2> QED
    BY <1>1, <1>2, FS_Injection
<1>4. \A k \in 0..(m - 1) : \E i \in T : g[i] = k
  <2> TAKE k \in 0..(m - 1)
  <2>1. k \in 0..(n - 1) /\ k < m
    OBVIOUS
  <2>2. PICK i \in 1..n : f[i] = k
    BY <1>3, <2>1 DEF Surjection
  <2> QED
    BY <2>1, <2>2
<1>5. \A i \in T : g[i] \in 0..(m - 1)
  BY RankIs
<1>6. \A i, j \in T : g[i] = g[j] => i = j
  BY RankIs
<1>7. g \in Bijection(T, 0..(m - 1))
  <2>1. g \in [T -> 0..(m - 1)]
    BY <1>5
  <2>2. DOMAIN g = T
    OBVIOUS
  <2> HIDE DEF g, T
  <2> QED
    BY <1>4, <1>6, <2>1, <2>2 DEF Bijection, Injection, Surjection, IsInjective
<1>8. T \in SUBSET (1..n)
  OBVIOUS
<1> HIDE DEF T, g
<1>9. IsFiniteSet(T)
  BY <1>2, <1>8, FS_Subset
<1>10. Cardinality(0..(m - 1)) = Cardinality(T)
  BY <1>7, <1>9, FS_Bijection DEF ExistsBijection
<1>11. Cardinality(0..(m - 1)) = m
  BY FS_Interval
<1> QED
  BY <1>10, <1>11 DEF T

\* The largest remainders, then the largest weights, then the first.
ByRest(rest, weight, n) == { p \in (1..n) \X (1..n) : ByRemainder(rest, weight, p[1], p[2]) }

LEMMA ByRestOrders ==
  ASSUME NEW n \in Nat, NEW rest \in Numbers(n), NEW weight \in Numbers(n)
  PROVE  /\ Orders(ByRest(rest, weight, n), n)
         /\ \A i, j \in 1..n : <<i, j>> \in ByRest(rest, weight, n) <=> ByRemainder(rest, weight, i, j)
<1>1. \A i, j \in 1..n : <<i, j>> \in ByRest(rest, weight, n) <=> ByRemainder(rest, weight, i, j)
  BY DEF ByRest
<1>2. \A i \in 1..n : rest[i] \in Int /\ weight[i] \in Int
  BY NumbersAre
<1>3. \A i \in 1..n : ~ByRemainder(rest, weight, i, i)
  BY <1>2 DEF ByRemainder
<1>4. \A i, j \in 1..n : i = j \/ ByRemainder(rest, weight, i, j) \/ ByRemainder(rest, weight, j, i)
  BY <1>2 DEF ByRemainder
<1>5. ASSUME NEW i \in 1..n, NEW j \in 1..n, NEW k \in 1..n,
             ByRemainder(rest, weight, i, j), ByRemainder(rest, weight, j, k)
      PROVE  ByRemainder(rest, weight, i, k)
  <2>1. /\ rest[i] \in Int /\ rest[j] \in Int /\ rest[k] \in Int
        /\ weight[i] \in Int /\ weight[j] \in Int /\ weight[k] \in Int
    BY <1>2
  <2> QED
    BY <1>5, <2>1 DEF ByRemainder
<1> QED
  BY <1>1, <1>3, <1>4, <1>5 DEF Orders

\* Spread gives one more to as many as asked for: to the first of that order.
LEMMA SpreadIs ==
  ASSUME NEW n \in Nat, NEW parts \in Numbers(n), NEW rest \in Numbers(n), NEW weight \in Numbers(n),
         NEW extra \in 0..n
  PROVE  LET out == Spread(parts, rest, weight, extra) IN
         /\ out \in Numbers(n) /\ Total(out) = Total(parts) + extra
         /\ \A i \in 1..n : out[i] = parts[i] \/ out[i] = parts[i] + 1
         /\ \A i, j \in 1..n :
              ByRemainder(rest, weight, i, j) /\ parts[i] >= parts[j] => out[i] >= out[j]
<1> DEFINE R == ByRest(rest, weight, n)
           K == { i \in 1..n : Rank(R, n, i) < extra }
           mark == [i \in 1..n |-> IF i \in K THEN 1 ELSE 0]
           out == [i \in 1..n |-> parts[i] + mark[i]]
<1>1. Orders(R, n) /\ \A i, j \in 1..n : <<i, j>> \in R <=> ByRemainder(rest, weight, i, j)
  BY ByRestOrders
<1>2. DOMAIN parts = 1..n /\ \A i \in 1..n : parts[i] \in Int
  BY NumbersAre
<1>3. \A i \in 1..n : { j \in 1..n : ByRemainder(rest, weight, j, i) } = Before(R, n, i)
  BY <1>1 DEF Before
<1>4. Spread(parts, rest, weight, extra) = out
  <2>1. Spread(parts, rest, weight, extra) =
          [i \in 1..n |-> parts[i] +
             (IF Cardinality({ j \in 1..n : ByRemainder(rest, weight, j, i) }) < extra THEN 1 ELSE 0)]
    BY <1>2 DEF Spread
  <2>2. \A i \in 1..n :
          (IF Cardinality({ j \in 1..n : ByRemainder(rest, weight, j, i) }) < extra THEN 1 ELSE 0) = mark[i]
    BY <1>3 DEF Rank
  <2> HIDE DEF mark
  <2> QED
    BY <2>1, <2>2
<1>5. mark \in Numbers(n) /\ \A i \in 1..n : mark[i] = (IF i \in K THEN 1 ELSE 0) /\ mark[i] \in {0, 1}
  BY DEF Numbers
<1>6. Cardinality(K) = extra
  BY <1>1, RankCounts
<1>7. K \subseteq 1..n
  OBVIOUS
<1>8. \A i, j \in 1..n : <<i, j>> \in R => (j \in K => i \in K)
  <2> SUFFICES ASSUME NEW i \in 1..n, NEW j \in 1..n, <<i, j>> \in R, Rank(R, n, j) < extra
               PROVE  Rank(R, n, i) < extra
    OBVIOUS
  <2>1. Rank(R, n, i) < Rank(R, n, j) /\ Rank(R, n, i) \in 0..(n - 1) /\ Rank(R, n, j) \in 0..(n - 1)
    BY <1>1, RankIs
  <2> QED
    BY <2>1
<1> HIDE DEF K, mark, R
<1>9. Total(mark) = extra
  BY <1>5, <1>6, <1>7, TotalCounts
<1>10. out \in Numbers(n) /\ \A i \in 1..n : out[i] = parts[i] + mark[i]
  <2>1. \A i \in 1..n : parts[i] + mark[i] \in Int
    BY <1>2, <1>5
  <2> QED
    BY <2>1 DEF Numbers
<1> HIDE DEF out
<1>11. Total(out) = Total(parts) + extra
  BY <1>5, <1>9, <1>10, TotalPlus
<1>12. \A i \in 1..n : out[i] = parts[i] \/ out[i] = parts[i] + 1
  BY <1>2, <1>5, <1>10
<1>13. ASSUME NEW i \in 1..n, NEW j \in 1..n, ByRemainder(rest, weight, i, j), parts[i] >= parts[j]
       PROVE  out[i] >= out[j]
  <2>0. <<i, j>> \in R
    BY <1>1, <1>13
  <2>4. j \in K => i \in K
    BY <1>8, <2>0
  <2>5. mark[i] = (IF i \in K THEN 1 ELSE 0) /\ mark[j] = (IF j \in K THEN 1 ELSE 0)
    BY <1>5
  <2>1. mark[i] >= mark[j] /\ mark[i] \in {0, 1} /\ mark[j] \in {0, 1}
    BY <2>4, <2>5
  <2>2. parts[i] \in Int /\ parts[j] \in Int /\ out[i] = parts[i] + mark[i] /\ out[j] = parts[j] + mark[j]
    BY <1>2, <1>10
  <2> QED
    BY <1>13, <2>1, <2>2
<1> QED
  BY <1>4, <1>10, <1>11, <1>12, <1>13

-----------------------------------------------------------------------------
(* Shares of a number                                                      *)

LEMMA DivMod ==
  ASSUME NEW a \in Nat, NEW b \in Nat \ {0}
  PROVE  /\ a \div b \in Nat /\ a % b \in Nat /\ a % b <= b - 1
         /\ a = b * (a \div b) + (a % b)
  OBVIOUS

LEMMA TimesLess ==
  ASSUME NEW c \in Nat, NEW a \in Int, NEW b \in Int, a <= b
  PROVE  c * a <= c * b
<1>1. b - a \in Nat
  OBVIOUS
<1>2. c * (b - a) \in Nat
  BY <1>1
<1>3. c * (b - a) = c * b - c * a
  OBVIOUS
<1> QED
  BY <1>2, <1>3

\* The smaller factor.
LEMMA TimesCancel ==
  ASSUME NEW c \in Nat \ {0}, NEW a \in Int, NEW b \in Int, c * a < c * b
  PROVE  a < b
<1> SUFFICES ASSUME b <= a PROVE FALSE
  OBVIOUS
<1>1. c * b <= c * a
  BY TimesLess
<1>2. c * a \in Int /\ c * b \in Int
  OBVIOUS
<1> QED
  BY <1>1, <1>2

\* More is divided into more.
LEMMA DivGrows ==
  ASSUME NEW a \in Nat, NEW b \in Nat, NEW c \in Nat \ {0}, a >= b
  PROVE  /\ a \div c >= b \div c
         /\ a \div c = b \div c => a % c >= b % c
<1>1. /\ a \div c \in Nat /\ a % c \in Nat /\ a % c <= c - 1 /\ a = c * (a \div c) + (a % c)
      /\ b \div c \in Nat /\ b % c \in Nat /\ b % c <= c - 1 /\ b = c * (b \div c) + (b % c)
  BY DivMod
<1> DEFINE p == a \div c
           q == b \div c
           r == a % c
           s == b % c
<1> HIDE DEF p, q, r, s
<1>2. /\ p \in Nat /\ r \in Nat /\ r <= c - 1 /\ a = c * p + r
      /\ q \in Nat /\ s \in Nat /\ s <= c - 1 /\ b = c * q + s
  BY <1>1 DEF p, q, r, s
<1>3. p >= q
  <2>1. c * q < c * (p + 1)
    <3>1. c * (p + 1) = c * p + c /\ c * p \in Int /\ c * q \in Int
      BY <1>2
    <3> QED
      BY <1>2, <3>1
  <2>2. q < p + 1
    BY <1>2, <2>1, TimesCancel
  <2> QED
    BY <1>2, <2>2
<1>4. p = q => r >= s
  <2>1. c * p \in Int /\ c * q \in Int
    BY <1>2
  <2> QED
    BY <1>2, <2>1
<1> QED
  BY <1>3, <1>4 DEF p, q, r, s

\* One of the numbers is no more than their sum.
LEMMA TotalAtLeast ==
  ASSUME NEW n \in Nat, NEW a \in Numbers(n), \A i \in 1..n : a[i] >= 0, NEW i \in 1..n
  PROVE  Total(a) >= a[i]
<1> DEFINE mark == [j \in 1..n |-> IF j \in {i} THEN 1 ELSE 0]
           b == [j \in 1..n |-> a[i] * mark[j]]
<1>1. a[i] \in Int /\ \A j \in 1..n : a[j] \in Int
  BY NumbersAre
<1>2. mark \in Numbers(n) /\ \A j \in 1..n : mark[j] = IF j \in {i} THEN 1 ELSE 0
  BY DEF Numbers
<1> HIDE DEF mark
<1>3. Total(mark) = 1
  <2>1. {i} \subseteq 1..n
    OBVIOUS
  <2>2. Total(mark) = Cardinality({i})
    BY <1>2, <2>1, TotalCounts
  <2> QED
    BY <2>2, FS_Singleton
<1>4. \A j \in 1..n : mark[j] \in Int
  BY <1>2
<1>5. b \in Numbers(n) /\ \A j \in 1..n : b[j] = a[i] * mark[j]
  BY <1>1, <1>4 DEF Numbers
<1> HIDE DEF b
<1>6. Total(b) = a[i] * Total(mark)
  BY <1>1, <1>2, <1>5, TotalTimes
<1>7. \A j \in 1..n : b[j] <= a[j]
  <2> TAKE j \in 1..n
  <2>1. b[j] = a[i] * mark[j] /\ mark[j] = IF j \in {i} THEN 1 ELSE 0
    BY <1>2, <1>5
  <2>2. CASE j = i
    BY <1>1, <2>1, <2>2
  <2>3. CASE j # i
    <3>1. b[j] = 0
      BY <1>1, <2>1, <2>3
    <3> QED
      BY <3>1
  <2> QED
    BY <2>2, <2>3
<1>8. Total(b) <= Total(a)
  BY <1>5, <1>7, TotalLess
<1>9. Total(a) \in Int /\ Total(b) = a[i]
  BY <1>1, <1>3, <1>6, TotalNumber
<1> QED
  BY <1>1, <1>8, <1>9

\* total in proportion to the weights, rounded down: fewer than n are left over.
LEMMA SharesAre ==
  ASSUME NEW n \in Nat \ {0}, NEW weight \in Numbers(n), \A i \in 1..n : weight[i] >= 0,
         NEW total \in Nat, Total(weight) # 0
  PROVE  LET raw == Total(weight)
             parts == [i \in 1..n |-> (total * weight[i]) \div raw]
             rest == [i \in 1..n |-> (total * weight[i]) % raw]
         IN  /\ parts \in Numbers(n) /\ rest \in Numbers(n) /\ \A i \in 1..n : parts[i] >= 0
             /\ total - Total(parts) \in 0..(n - 1)
             /\ \A i, j \in 1..n : weight[i] > weight[j] =>
                  parts[i] > parts[j] \/ (parts[i] = parts[j] /\ ByRemainder(rest, weight, i, j))
<1> DEFINE raw == Total(weight)
           a == [i \in 1..n |-> total * weight[i]]
           parts == [i \in 1..n |-> (total * weight[i]) \div raw]
           rest == [i \in 1..n |-> (total * weight[i]) % raw]
           b == [i \in 1..n |-> raw * parts[i]]
           full == [i \in 1..n |-> raw - 1]
           none == [i \in 1..n |-> 0]
<1>1. \A i \in 1..n : weight[i] \in Nat
  BY NumbersAre
<1>2. raw \in Nat \ {0}
  <2>1. 1 \in 1..n
    OBVIOUS
  <2>2. Total(weight) >= weight[1] /\ Total(weight) \in Int
    BY <2>1, TotalAtLeast, TotalNumber
  <2> QED
    BY <1>1, <2>1, <2>2
<1> HIDE DEF raw
<1>3. \A i \in 1..n : total * weight[i] \in Nat
  BY <1>1
<1>4. \A i \in 1..n : /\ parts[i] \in Nat /\ rest[i] \in Nat /\ rest[i] <= raw - 1
                      /\ a[i] \in Nat /\ a[i] = total * weight[i] /\ a[i] = raw * parts[i] + rest[i]
  <2> TAKE i \in 1..n
  <2>1. parts[i] = a[i] \div raw /\ rest[i] = a[i] % raw /\ a[i] = total * weight[i] /\ a[i] \in Nat
    BY <1>3
  <2> HIDE DEF parts, rest, a
  <2> QED
    BY <1>2, <2>1, DivMod
<1>5. a \in Numbers(n) /\ parts \in Numbers(n) /\ rest \in Numbers(n)
  <2>1. \A i \in 1..n : total * weight[i] \in Int /\ (total * weight[i]) \div raw \in Int
                        /\ (total * weight[i]) % raw \in Int
    BY <1>2, <1>3
  <2> QED
    BY <2>1 DEF Numbers
<1>6. b \in Numbers(n) /\ \A i \in 1..n : b[i] = raw * parts[i]
  <2>1. \A i \in 1..n : raw * parts[i] \in Int
    <3> HIDE DEF parts
    <3> QED
      BY <1>2, <1>4
  <2> HIDE DEF parts
  <2> QED
    BY <2>1 DEF Numbers
<1>7. full \in Numbers(n) /\ none \in Numbers(n) /\ \A i \in 1..n : full[i] = raw - 1 /\ none[i] = 0
  BY <1>2 DEF Numbers
<1>8. \A i, j \in 1..n : weight[i] > weight[j] =>
        parts[i] > parts[j] \/ (parts[i] = parts[j] /\ ByRemainder(rest, weight, i, j))
  <2> SUFFICES ASSUME NEW i \in 1..n, NEW j \in 1..n, weight[i] > weight[j]
               PROVE  parts[i] > parts[j] \/ (parts[i] = parts[j] /\ ByRemainder(rest, weight, i, j))
    OBVIOUS
  <2>1. total * weight[j] <= total * weight[i]
    <3>1. weight[j] \in Int /\ weight[i] \in Int /\ weight[j] <= weight[i]
      BY <1>1
    <3> QED
      BY <3>1, TimesLess
  <2>2. /\ (total * weight[i]) \div raw >= (total * weight[j]) \div raw
        /\ (total * weight[i]) \div raw = (total * weight[j]) \div raw =>
             (total * weight[i]) % raw >= (total * weight[j]) % raw
    <3> DEFINE u == total * weight[i]
               v == total * weight[j]
    <3>1. u \in Nat /\ v \in Nat /\ v <= u
      BY <1>3, <2>1
    <3> HIDE DEF u, v
    <3>2. u \div raw >= v \div raw /\ (u \div raw = v \div raw => u % raw >= v % raw)
      BY <1>2, <3>1, DivGrows
    <3> QED
      BY <3>2 DEF u, v
  <2>3. parts[i] >= parts[j] /\ (parts[i] = parts[j] => rest[i] >= rest[j])
    BY <2>2
  <2>4. parts[i] \in Nat /\ parts[j] \in Nat /\ rest[i] \in Nat /\ rest[j] \in Nat
    BY <1>4
  <2> HIDE DEF parts, rest
  <2> QED
    BY <2>3, <2>4 DEF ByRemainder
<1> HIDE DEF a, parts, rest, b, full, none
<1>9. Total(a) = total * raw
  BY <1>4, <1>5, TotalTimes DEF raw
<1>10. Total(b) = raw * Total(parts)
  BY <1>2, <1>5, <1>6, TotalTimes
<1>11. Total(a) = Total(b) + Total(rest)
  <2>1. \A i \in 1..n : a[i] = b[i] + rest[i]
    BY <1>4, <1>6
  <2> QED
    BY <1>5, <1>6, <2>1, TotalPlus
<1>12. Total(rest) >= 0 /\ Total(rest) <= n * (raw - 1)
  <2>1. Total(none) <= Total(rest)
    <3>1. \A i \in 1..n : none[i] <= rest[i]
      BY <1>4, <1>7
    <3> QED
      BY <1>5, <1>7, <3>1, TotalLess
  <2>2. Total(rest) <= Total(full)
    <3>1. \A i \in 1..n : rest[i] <= full[i]
      BY <1>4, <1>7
    <3> QED
      BY <1>5, <1>7, <3>1, TotalLess
  <2>3. Total(none) = n * 0 /\ Total(full) = n * (raw - 1)
    <3>1. raw - 1 \in Int /\ 0 \in Int /\ n \in Nat
      BY <1>2
    <3> QED
      BY <1>7, <3>1, TotalSame
  <2>4. Total(rest) \in Int
    BY <1>5, TotalNumber
  <2> QED
    BY <2>1, <2>2, <2>3, <2>4
<1>13. Total(parts) \in Int /\ Total(rest) \in Int
  BY <1>5, TotalNumber
<1> DEFINE d == total - Total(parts)
<1>14. d \in Int /\ raw * d = Total(rest)
  <2>1. raw * d = raw * total - raw * Total(parts)
    BY <1>2, <1>13
  <2>2. raw * total = raw * Total(parts) + Total(rest)
    <3>1. total * raw = raw * total
      BY <1>2
    <3> QED
      BY <1>9, <1>10, <1>11, <3>1
  <2>3. raw * total \in Int /\ raw * Total(parts) \in Int
    BY <1>2, <1>13
  <2> QED
    BY <1>13, <2>1, <2>2, <2>3
<1> HIDE DEF d
<1>15. -1 < d
  <2>1. raw * (-1) < raw * d
    BY <1>2, <1>12, <1>13, <1>14
  <2> QED
    BY <1>2, <1>14, <2>1, TimesCancel
<1>16. d < n
  <2>1. n * (raw - 1) = raw * n - n /\ raw * n \in Int
    BY <1>2
  <2>2. raw * d < raw * n
    BY <1>12, <1>13, <1>14, <2>1
  <2> QED
    BY <1>2, <1>14, <2>2, TimesCancel
<1>17. d \in 0..(n - 1)
  BY <1>14, <1>15, <1>16
<1>18. \A i \in 1..n : parts[i] >= 0
  BY <1>4
<1> QED
  BY <1>5, <1>8, <1>17, <1>18 DEF raw, d, parts, rest

\* Spread over shares keeps the order of the weights.
LEMMA SpreadShares ==
  ASSUME NEW n \in Nat \ {0}, NEW weight \in Numbers(n), \A i \in 1..n : weight[i] >= 0,
         NEW total \in Nat, Total(weight) # 0
  PROVE  LET raw == Total(weight)
             parts == [i \in 1..n |-> (total * weight[i]) \div raw]
             rest == [i \in 1..n |-> (total * weight[i]) % raw]
             out == Spread(parts, rest, weight, total - Total(parts))
         IN  /\ out \in Numbers(n) /\ Total(out) = total /\ \A i \in 1..n : out[i] >= 0
             /\ \A i, j \in 1..n : weight[i] > weight[j] => out[i] >= out[j]
<1> DEFINE raw == Total(weight)
           parts == [i \in 1..n |-> (total * weight[i]) \div raw]
           rest == [i \in 1..n |-> (total * weight[i]) % raw]
           extra == total - Total(parts)
           out == Spread(parts, rest, weight, extra)
<1>1. /\ parts \in Numbers(n) /\ rest \in Numbers(n) /\ \A i \in 1..n : parts[i] >= 0
      /\ extra \in 0..(n - 1)
      /\ \A i, j \in 1..n : weight[i] > weight[j] =>
           parts[i] > parts[j] \/ (parts[i] = parts[j] /\ ByRemainder(rest, weight, i, j))
  BY SharesAre
<1> HIDE DEF raw, parts, rest
<1>2. Total(parts) \in Int /\ extra = total - Total(parts) /\ \A i \in 1..n : parts[i] \in Int
  BY <1>1, TotalNumber, NumbersAre
<1> HIDE DEF extra
<1>3. extra \in 0..n
  BY <1>1
<1>4. /\ out \in Numbers(n) /\ Total(out) = Total(parts) + extra
      /\ \A i \in 1..n : out[i] = parts[i] \/ out[i] = parts[i] + 1
      /\ \A i, j \in 1..n : ByRemainder(rest, weight, i, j) /\ parts[i] >= parts[j] => out[i] >= out[j]
  BY <1>1, <1>3, SpreadIs
<1> HIDE DEF out
<1>5. Total(out) = total
  BY <1>2, <1>3, <1>4
<1>6. \A i \in 1..n : out[i] >= 0
  <2> TAKE i \in 1..n
  <2>1. parts[i] \in Int /\ parts[i] >= 0
    BY <1>1, <1>2
  <2>2. out[i] = parts[i] \/ out[i] = parts[i] + 1
    BY <1>4
  <2> QED
    BY <2>1, <2>2
<1>7. ASSUME NEW i \in 1..n, NEW j \in 1..n, weight[i] > weight[j] PROVE out[i] >= out[j]
  <2>1. parts[i] \in Int /\ parts[j] \in Int
    BY <1>2
  <2>2. CASE parts[i] > parts[j]
    BY <1>4, <2>1, <2>2
  <2>3. CASE parts[i] = parts[j] /\ ByRemainder(rest, weight, i, j)
    BY <1>4, <2>1, <2>3
  <2> QED
    BY <1>1, <1>7, <2>2, <2>3
<1> QED
  BY <1>4, <1>5, <1>6, <1>7 DEF out, extra, raw, parts, rest

\* _scale_nights: the nights expected, and no city below one proposed for less.
LEMMA ScaleNightsIs ==
  ASSUME NEW n \in Nat \ {0}, NEW nights \in Numbers(n), \A i \in 1..n : nights[i] >= 0,
         NEW expected \in Nat
  PROVE  LET out == ScaleNights(nights, expected) IN
         /\ out \in Numbers(n) /\ Total(out) = expected /\ \A i \in 1..n : out[i] >= 0
         /\ \A i, j \in 1..n : nights[i] > nights[j] => out[i] >= out[j]
<1> DEFINE raw == Total(nights)
           even == [i \in 1..n |-> expected \div n + (IF i <= expected % n THEN 1 ELSE 0)]
           parts == [i \in 1..n |-> (expected * nights[i]) \div raw]
           rest == [i \in 1..n |-> (expected * nights[i]) % raw]
<1>1. Len(nights) = n /\ \A i \in 1..n : nights[i] \in Nat
  BY NumbersAre
<1>2. raw \in Int /\ raw >= 0
  <2>1. 1 \in 1..n
    OBVIOUS
  <2>2. raw >= nights[1] /\ raw \in Int
    BY <2>1, TotalAtLeast, TotalNumber
  <2> QED
    BY <1>1, <2>1, <2>2
<1>3. ScaleNights(nights, expected) =
        CASE raw = 0 -> even [] raw # 0 /\ raw = expected -> nights
          [] OTHER -> Spread(parts, rest, nights, expected - Total(parts))
  BY <1>1 DEF ScaleNights
<1>4. CASE raw = 0
  <2> DEFINE q == expected \div n
             r == expected % n
             base == [i \in 1..n |-> q]
             mark == [i \in 1..n |-> IF i \in 1..r THEN 1 ELSE 0]
  <2>1. q \in Nat /\ r \in Nat /\ r <= n - 1 /\ expected = n * q + r
    BY DivMod
  <2>2. base \in Numbers(n) /\ \A i \in 1..n : base[i] = q
    BY <2>1 DEF Numbers
  <2>3. mark \in Numbers(n) /\ \A i \in 1..n : mark[i] = (IF i \in 1..r THEN 1 ELSE 0)
    BY DEF Numbers
  <2>4. even = [i \in 1..n |-> q + (IF i <= r THEN 1 ELSE 0)]
    OBVIOUS
  <2> HIDE DEF q, r, even
  <2>5. \A i \in 1..n : q + (IF i <= r THEN 1 ELSE 0) \in Int /\ q + (IF i <= r THEN 1 ELSE 0) >= 0
    BY <2>1
  <2>6. even \in Numbers(n) /\ \A i \in 1..n : even[i] >= 0 /\ even[i] = q + (IF i <= r THEN 1 ELSE 0)
    BY <2>4, <2>5 DEF Numbers
  <2>7. \A i \in 1..n : even[i] = base[i] + mark[i]
    BY <2>1, <2>2, <2>3, <2>6
  <2>8. Total(base) = n * q
    <3> HIDE DEF base
    <3>1. q \in Int
      BY <2>1
    <3> QED
      BY <2>2, <3>1, TotalSame
  <2>9. Total(mark) = r
    <3> HIDE DEF mark
    <3>1. 1..r \subseteq 1..n
      BY <2>1
    <3>2. Total(mark) = Cardinality(1..r)
      BY <2>3, <3>1, TotalCounts
    <3>3. r \in Int /\ 1 \in Int
      BY <2>1
    <3>4. Cardinality(1..r) = IF 1 > r THEN 0 ELSE r - 1 + 1
      BY <3>3, FS_Interval
    <3>5. (IF 1 > r THEN 0 ELSE r - 1 + 1) = r
      BY <2>1
    <3> QED
      BY <3>2, <3>4, <3>5
  <2> HIDE DEF base, mark
  <2>10. Total(even) = Total(base) + Total(mark)
    BY <2>2, <2>3, <2>6, <2>7, TotalPlus
  <2>11. Total(even) = expected
    BY <2>1, <2>8, <2>9, <2>10
  <2>12. \A i \in 1..n : nights[i] <= 0
    BY <1>4, TotalAtLeast
  <2>13. \A i, j \in 1..n : ~(nights[i] > nights[j])
    BY <1>1, <2>12
  <2>14. ScaleNights(nights, expected) = even
    BY <1>3, <1>4
  <2> QED
    BY <2>6, <2>11, <2>13, <2>14
<1>5. CASE raw # 0 /\ raw = expected
  <2>1. ScaleNights(nights, expected) = nights
    BY <1>3, <1>5
  <2>2. \A i, j \in 1..n : nights[i] > nights[j] => nights[i] >= nights[j]
    BY <1>1
  <2> QED
    BY <1>5, <2>1, <2>2
<1>6. CASE raw # 0 /\ raw # expected
  <2>1. ScaleNights(nights, expected) = Spread(parts, rest, nights, expected - Total(parts))
    BY <1>3, <1>6
  <2>2. LET new == Spread(parts, rest, nights, expected - Total(parts)) IN
        /\ new \in Numbers(n) /\ Total(new) = expected /\ \A i \in 1..n : new[i] >= 0
        /\ \A i, j \in 1..n : nights[i] > nights[j] => new[i] >= new[j]
    BY <1>6, SpreadShares
  <2> HIDE DEF parts, rest
  <2> QED
    BY <2>1, <2>2
<1> QED
  BY <1>4, <1>5, <1>6

\* One day for every stop.
Days1(n) == { p \in Numbers(n) : \A i \in 1..n : p[i] >= 1 }

LEMMA DaysAre ==
  ASSUME NEW n \in Nat, NEW p \in Days1(n)
  PROVE  p \in Numbers(n) /\ Total(p) \in Int /\ Total(p) >= n
<1> DEFINE ones == [i \in 1..n |-> 1]
<1>1. p \in Numbers(n) /\ \A i \in 1..n : p[i] >= 1
  BY DEF Days1
<1>2. ones \in Numbers(n) /\ \A i \in 1..n : ones[i] = 1
  BY DEF Numbers
<1> HIDE DEF ones
<1>3. Total(ones) = n * 1
  BY <1>2, TotalSame
<1>4. Total(ones) <= Total(p)
  BY <1>1, <1>2, TotalLess
<1> QED
  BY <1>1, <1>3, <1>4, TotalNumber

\* The largest gives one, as long as there are too many.
LEMMA GiveOneIs ==
  ASSUME NEW n \in Nat \ {0}, NEW p \in Days1(n), NEW total \in Nat, total >= n
  PROVE  /\ GiveOne(p, total) \in Days1(n)
         /\ Total(p) <= total => GiveOne(p, total) = p
         /\ Total(p) > total => Total(GiveOne(p, total)) = Total(p) - 1
<1> DEFINE MostOf(i) == \A j \in DOMAIN p : p[i] > p[j] \/ (p[i] = p[j] /\ i <= j)
           i == CHOOSE i \in DOMAIN p : MostOf(i)
<1>1. p \in Numbers(n) /\ (\A k \in 1..n : p[k] >= 1) /\ DOMAIN p = 1..n /\ \A k \in 1..n : p[k] \in Int
  BY NumbersAre DEF Days1
<1>2. \E k \in DOMAIN p : MostOf(k)
  <2>1. \E k \in 1..n : \A j \in 1..n : p[j] < p[k] \/ (p[j] = p[k] /\ k <= j)
    <3> DEFINE A == 1..n
    <3>1. A \subseteq 1..n /\ A # {} /\ \A k \in A : p[k] \in Int
      BY <1>1
    <3> HIDE DEF A
    <3>2. \E k \in A : \A j \in A : p[j] < p[k] \/ (p[j] = p[k] /\ k <= j)
      BY <3>1, FirstBest
    <3> QED
      BY <3>2 DEF A
  <2>2. PICK k \in 1..n : \A j \in 1..n : p[j] < p[k] \/ (p[j] = p[k] /\ k <= j)
    BY <2>1
  <2>3. MostOf(k)
    BY <1>1, <2>2
  <2> QED
    BY <1>1, <2>3
<1>3. i \in DOMAIN p /\ MostOf(i)
  BY <1>2
<1>4. i \in 1..n /\ \A j \in 1..n : p[i] > p[j] \/ p[i] = p[j]
  BY <1>1, <1>3
<1>5. GiveOne(p, total) = IF Total(p) <= total \/ p[i] <= 1 THEN p ELSE [p EXCEPT ![i] = @ - 1]
  BY DEF GiveOne
<1> HIDE DEF i
<1>6. Total(p) \in Int /\ p[i] \in Int
  BY <1>1, <1>4, TotalNumber
<1>7. CASE Total(p) <= total
  <2>1. GiveOne(p, total) = p /\ ~(Total(p) > total)
    BY <1>5, <1>6, <1>7
  <2> QED
    BY <2>1
<1>8. CASE Total(p) > total
  <2> DEFINE new == [p EXCEPT ![i] = @ - 1]
             mark == [j \in 1..n |-> IF j \in {i} THEN 1 ELSE 0]
             ones == [j \in 1..n |-> 1]
  <2>1. ones \in Numbers(n) /\ \A j \in 1..n : ones[j] = 1
    BY DEF Numbers
  <2>2. mark \in Numbers(n) /\ \A j \in 1..n : mark[j] = IF j \in {i} THEN 1 ELSE 0
    BY DEF Numbers
  <2> HIDE DEF ones, mark
  <2>3. p[i] > 1
    <3> SUFFICES ASSUME p[i] <= 1 PROVE FALSE
      BY <1>6
    <3>1. \A j \in 1..n : p[j] <= ones[j]
      BY <1>1, <1>4, <1>6, <2>1
    <3>2. Total(p) <= Total(ones)
      BY <1>1, <2>1, <3>1, TotalLess
    <3>3. Total(ones) = n * 1
      BY <2>1, TotalSame
    <3> QED
      BY <1>6, <1>8, <3>2, <3>3
  <2>4. GiveOne(p, total) = new
    BY <1>5, <1>6, <1>8, <2>3
  <2>5. new = [j \in 1..n |-> IF j = i THEN p[i] - 1 ELSE p[j]]
    BY <1>1, <1>4
  <2> HIDE DEF new
  <2>6. \A j \in 1..n : new[j] \in Int /\ new[j] >= 1
    BY <1>1, <1>6, <2>3, <2>5
  <2>7. new \in Numbers(n)
    <3>1. new = [j \in 1..n |-> new[j]]
      BY <2>5
    <3> QED
      BY <2>6, <3>1 DEF Numbers
  <2>8. Total(mark) = 1
    <3>1. {i} \subseteq 1..n
      BY <1>4
    <3>2. Total(mark) = Cardinality({i})
      BY <2>2, <3>1, TotalCounts
    <3> QED
      BY <3>2, FS_Singleton
  <2>9. \A j \in 1..n : p[j] = new[j] + mark[j]
    <3> TAKE j \in 1..n
    <3>1. mark[j] = (IF j = i THEN 1 ELSE 0) /\ new[j] = (IF j = i THEN p[i] - 1 ELSE p[j]) /\ p[j] \in Int
      BY <1>1, <2>2, <2>5
    <3> QED
      BY <1>6, <3>1
  <2>10. Total(p) = Total(new) + Total(mark)
    BY <1>1, <2>2, <2>7, <2>9, TotalPlus
  <2>11. Total(new) = Total(p) - 1
    BY <2>7, <2>8, <2>10, TotalNumber
  <2>12. new \in Days1(n)
    BY <2>6, <2>7 DEF Days1
  <2> QED
    BY <1>6, <1>8, <2>4, <2>11, <2>12
<1> QED
  BY <1>6, <1>7, <1>8

\* The days are right, or were too few from the start.
LEMMA ShrinkIs ==
  ASSUME NEW n \in Nat \ {0}, NEW p \in Days1(n), NEW total \in Nat, total >= n
  PROVE  /\ Shrink(p, total) \in Days1(n)
         /\ Total(p) <= total => Shrink(p, total) = p
         /\ Total(p) > total => Total(Shrink(p, total)) = total
<1> DEFINE m == Total(p)
           D == Days1(n)
           step == [e \in (1..m) \X D |-> GiveOne(e[2], total)]
           Up(f) == f = [k \in 0..m |-> IF k = 0 THEN p ELSE GiveOne(f[k - 1], total)]
<1>1. m \in Nat
  BY DaysAre
<1>2. Shrink(p, total) = (CHOOSE f : Up(f))[m]
  BY DEF Shrink
<1>3. step \in [(1..m) \X D -> D] /\ \A k \in 1..m, x \in D : step[<<k, x>>] = GiveOne(x, total)
  <2>1. \A e \in (1..m) \X D : GiveOne(e[2], total) \in D
    BY GiveOneIs
  <2> HIDE DEF D, m
  <2> QED
    BY <2>1
<1>4. p \in D
  OBVIOUS
<1> HIDE DEF m, D, step
<1>5. PICK g \in [0..m -> D] : Steps(g, p, step, m)
  BY <1>1, <1>3, <1>4, Iterates
<1>6. \A k \in 0..m : g[k] = IF k = 0 THEN p ELSE GiveOne(g[k - 1], total)
  <2> TAKE k \in 0..m
  <2>1. g[k] = IF k = 0 THEN p ELSE step[<<k, g[k - 1]>>]
    BY <1>5 DEF Steps
  <2>2. k # 0 => k \in 1..m /\ k - 1 \in 0..m
    BY <1>1
  <2>3. k # 0 => g[k - 1] \in D
    BY <1>5, <2>2
  <2> QED
    BY <1>3, <2>1, <2>2, <2>3
<1>7. Up(g)
  <2>1. g = [k \in 0..m |-> g[k]]
    BY <1>5
  <2> QED
    BY <1>6, <2>1
<1> DEFINE f == CHOOSE x : Up(x)
<1>8. Up(f)
  BY <1>7
<1> HIDE DEF f
<1>9. /\ f[0] = p
      /\ \A k \in 0..(m - 1) : f[k + 1] = GiveOne(f[k], total)
  <2>1. 0 \in 0..m
    BY <1>1
  <2>2. \A k \in 0..(m - 1) : k + 1 \in 0..m /\ k + 1 # 0 /\ (k + 1) - 1 = k
    BY <1>1
  <2>3. \A k \in 0..m : f[k] = IF k = 0 THEN p ELSE GiveOne(f[k - 1], total)
    BY <1>8
  <2> HIDE DEF Up
  <2> QED
    BY <2>1, <2>2, <2>3
<1> DEFINE Good(k) == /\ f[k] \in D
                      /\ m <= total => f[k] = p
                      /\ m > total => Total(f[k]) = total \/ (Total(f[k]) = m - k /\ m - k > total)
           S == { k \in 0..m : Good(k) }
<1>10. 0 \in S
  <2>1. Good(0)
    BY <1>1, <1>4, <1>9 DEF m
  <2> QED
    BY <1>1, <2>1
<1>11. ASSUME NEW k \in 0..(m - 1), k \in S PROVE k + 1 \in S
  <2>1. Good(k) /\ k + 1 \in 0..m /\ k \in Int
    BY <1>1, <1>11
  <2>2. f[k] \in Days1(n) /\ f[k + 1] = GiveOne(f[k], total)
    BY <1>9, <2>1 DEF D
  <2>3. /\ f[k + 1] \in Days1(n)
        /\ Total(f[k]) <= total => f[k + 1] = f[k]
        /\ Total(f[k]) > total => Total(f[k + 1]) = Total(f[k]) - 1
    BY <2>2, GiveOneIs
  <2>4. Total(f[k]) \in Int
    BY <2>2, DaysAre
  <2>5. CASE m <= total
    <3>1. f[k] = p /\ Total(f[k]) = m
      BY <2>1, <2>5 DEF m
    <3> QED
      BY <1>1, <2>1, <2>3, <2>5, <3>1 DEF D
  <2>6. CASE m > total
    <3>1. CASE Total(f[k]) = total
      <4>1. f[k + 1] = f[k]
        BY <2>3, <2>4, <3>1
      <4> QED
        BY <1>1, <2>1, <2>3, <2>6, <3>1, <4>1 DEF D
    <3>2. CASE Total(f[k]) = m - k /\ m - k > total
      <4>1. Total(f[k + 1]) = m - k - 1
        BY <2>3, <3>2
      <4>2. Total(f[k + 1]) = total \/ (Total(f[k + 1]) = m - (k + 1) /\ m - (k + 1) > total)
        BY <1>1, <2>1, <3>2, <4>1
      <4> QED
        BY <1>1, <2>1, <2>3, <2>6, <4>2 DEF D
    <3> QED
      BY <2>1, <2>6, <3>1, <3>2
  <2> QED
    BY <1>1, <2>5, <2>6
<1>12. m \in S
  <2> HIDE DEF S
  <2> QED
    BY <1>1, <1>10, <1>11, Climbs
<1>13. Good(m) /\ ~(m - m > total)
  BY <1>1, <1>12
<1>14. Shrink(p, total) = f[m]
  BY <1>2 DEF f
<1> HIDE DEF f
<1> QED
  BY <1>13, <1>14 DEF m, D

\* _largest_remainder_partition: a day at least for every stop, and all the days.
LEMMA PartitionIs ==
  ASSUME NEW n \in Nat \ {0}, NEW weight \in Days1(n), NEW total \in Nat, total >= n
  PROVE  Partition(total, weight) \in Days1(n) /\ Total(Partition(total, weight)) = total
<1> DEFINE sum == Total(weight)
           shares == [i \in 1..n |-> (total * weight[i]) \div sum]
           rest == [i \in 1..n |-> (total * weight[i]) % sum]
           base == [i \in 1..n |-> IF shares[i] < 1 THEN 1 ELSE shares[i]]
           parts == Shrink(base, total)
           extra == total - Total(parts)
           out == Spread(parts, rest, weight, extra)
<1>1. weight \in Numbers(n) /\ (\A i \in 1..n : weight[i] >= 0) /\ DOMAIN weight = 1..n
  <2>1. weight \in Numbers(n) /\ \A i \in 1..n : weight[i] >= 1
    BY DEF Days1
  <2>2. DOMAIN weight = 1..n /\ \A i \in 1..n : weight[i] \in Int
    BY <2>1, NumbersAre
  <2> QED
    BY <2>1, <2>2
<1>2. sum # 0
  BY DaysAre
<1>3. Partition(total, weight) = out
  BY <1>1 DEF Partition
<1>4. /\ shares \in Numbers(n) /\ rest \in Numbers(n)
      /\ total - Total(shares) \in 0..(n - 1)
  BY <1>1, <1>2, SharesAre
<1> HIDE DEF sum, shares, rest
<1>5. \A i \in 1..n : shares[i] \in Int
  BY <1>4, NumbersAre
<1>6. base \in Days1(n) /\ \A i \in 1..n : shares[i] <= base[i]
  <2>1. \A i \in 1..n : base[i] \in Int /\ base[i] >= 1 /\ shares[i] <= base[i]
    BY <1>5
  <2>2. base \in Numbers(n)
    BY <1>5 DEF Numbers
  <2> HIDE DEF base
  <2> QED
    BY <2>1, <2>2 DEF Days1
<1> HIDE DEF base
<1>7. /\ parts \in Days1(n)
      /\ Total(base) <= total => parts = base
      /\ Total(base) > total => Total(parts) = total
  BY <1>6, ShrinkIs
<1>8. Total(base) \in Int /\ base \in Numbers(n)
  BY <1>6, DaysAre
<1> HIDE DEF parts
<1>9. parts \in Numbers(n) /\ Total(parts) \in Int /\ \A i \in 1..n : parts[i] >= 1 /\ parts[i] \in Int
  <2>1. parts \in Numbers(n) /\ Total(parts) \in Int
    BY <1>7, DaysAre
  <2> QED
    BY <1>7, <2>1, NumbersAre DEF Days1
<1>10. extra \in 0..n
  <2>1. CASE Total(base) > total
    <3>1. Total(parts) = total
      BY <1>7, <2>1
    <3> QED
      BY <3>1
  <2>2. CASE Total(base) <= total
    <3>1. Total(shares) <= Total(base)
      BY <1>4, <1>6, <1>8, TotalLess
    <3>2. Total(shares) \in Int
      BY <1>4, TotalNumber
    <3>3. parts = base
      BY <1>7, <2>2
    <3> QED
      BY <1>4, <1>8, <2>2, <3>1, <3>2, <3>3
  <2> QED
    BY <1>8, <2>1, <2>2
<1>11. extra = total - Total(parts)
  OBVIOUS
<1> HIDE DEF extra
<1>12. /\ out \in Numbers(n) /\ Total(out) = Total(parts) + extra
       /\ \A i \in 1..n : out[i] = parts[i] \/ out[i] = parts[i] + 1
  <2>1. parts \in Numbers(n) /\ rest \in Numbers(n) /\ weight \in Numbers(n)
    BY <1>1, <1>4, <1>9
  <2>2. n \in Nat /\ extra \in 0..n
    BY <1>10
  <2>3. LET new == Spread(parts, rest, weight, extra) IN
        /\ new \in Numbers(n) /\ Total(new) = Total(parts) + extra
        /\ \A i \in 1..n : new[i] = parts[i] \/ new[i] = parts[i] + 1
        /\ \A i, j \in 1..n : ByRemainder(rest, weight, i, j) /\ parts[i] >= parts[j] => new[i] >= new[j]
    BY <2>1, <2>2, SpreadIs
  <2> QED
    BY <2>3
<1> HIDE DEF out
<1>13. Total(out) = total
  BY <1>9, <1>11, <1>12
<1>14. out \in Days1(n)
  <2>1. \A i \in 1..n : out[i] >= 1
    BY <1>9, <1>12
  <2> QED
    BY <1>12, <2>1 DEF Days1
<1> QED
  BY <1>3, <1>13, <1>14

-----------------------------------------------------------------------------
(* The route a crew proposes                                               *)

\* One stop fewer, if there are too many.
LEMMA MergeOneIs ==
  ASSUME NEW s \in Seq(Nat), NEW limit \in Nat \ {0}
  PROVE  /\ MergeOne(s, limit) \in Seq(Nat)
         /\ Len(s) <= limit => MergeOne(s, limit) = s
         /\ Len(s) > limit => Len(MergeOne(s, limit)) = Len(s) - 1
<1> DEFINE n == Len(s)
           A == 2..n
           f == [k \in 1..n |-> -s[k]]
           Least(i) == \A j \in 2..n : s[i] < s[j] \/ (s[i] = s[j] /\ i <= j)
           i == CHOOSE i \in 2..n : Least(i)
           joined == [s EXCEPT ![i - 1] = @ + s[i]]
<1>1. n \in Nat /\ s \in [1..n -> Nat] /\ \A k \in 1..n : s[k] \in Nat
  OBVIOUS
<1>2. MergeOne(s, limit) = IF n <= limit THEN s ELSE RemoveAt(joined, i)
  BY DEF MergeOne
<1> HIDE DEF n
<1>0. Len(s) = n
  BY DEF n
<1>3. CASE n <= limit
  <2>1. MergeOne(s, limit) = s /\ ~(n > limit)
    BY <1>1, <1>2, <1>3
  <2> QED
    BY <1>0, <2>1
<1>4. CASE n > limit
  <2>1. A \subseteq 1..n /\ A # {} /\ \A k \in A : f[k] \in Int
    BY <1>1, <1>4
  <2>2. PICK k \in A : \A j \in A : f[j] < f[k] \/ (f[j] = f[k] /\ k <= j)
    <3> HIDE DEF A, f
    <3> QED
      BY <1>1, <2>1, FirstBest
  <2>3. Least(k) /\ k \in 2..n
    <3>1. k \in 2..n /\ k \in 1..n
      BY <1>1
    <3>2. \A j \in 2..n : j \in 1..n /\ f[j] = -s[j] /\ s[j] \in Nat
      BY <1>1
    <3>3. \A j \in 2..n : f[j] < f[k] \/ (f[j] = f[k] /\ k <= j)
      BY <2>2
    <3> HIDE DEF f
    <3> QED
      BY <3>1, <3>2, <3>3
  <2>4. i \in 2..n
    <3> HIDE DEF Least
    <3> QED
      BY <2>3
  <2> HIDE DEF i
  <2>5. i \in 1..n /\ i - 1 \in 1..n /\ s[i] \in Nat /\ s[i - 1] + s[i] \in Nat
    BY <1>1, <2>4
  <2>6. joined \in [1..n -> Nat]
    BY <1>1, <2>5
  <2> HIDE DEF joined
  <2>7. joined \in Seq(Nat) /\ Len(joined) = n
    <3>1. joined \in Seq(Nat)
      BY <1>1, <2>6, IsASeq
    <3> QED
      BY <1>1, <2>6, <3>1, LenProperties
  <2>8. RemoveAt(joined, i) \in Seq(Nat) /\ Len(RemoveAt(joined, i)) = n - 1
    BY <2>5, <2>7, RemoveAtIs
  <2>9. MergeOne(s, limit) = RemoveAt(joined, i)
    BY <1>1, <1>2, <1>4
  <2>10. ~(n <= limit)
    BY <1>1, <1>4
  <2> QED
    BY <1>0, <2>8, <2>9, <2>10
<1> QED
  BY <1>1, <1>3, <1>4

\* consolidate_route_cities: no more stops than there may be, and at least one.
LEMMA ConsolidateIs ==
  ASSUME NEW s \in Seq(Nat), s # <<>>, NEW limit \in Nat \ {0}
  PROVE  LET out == Consolidate(s, limit) IN
         /\ out \in Seq(Nat) /\ Len(out) \in 1..limit
         /\ Len(out) = Len(s) => out = s
<1> DEFINE n == Len(s)
           D == Seq(Nat)
           step == [e \in (1..n) \X D |-> MergeOne(e[2], limit)]
           Up(f) == f = [k \in 0..n |-> IF k = 0 THEN s ELSE MergeOne(f[k - 1], limit)]
<1>1. n \in Nat /\ n >= 1
  BY EmptySeq
<1>2. Consolidate(s, limit) = (CHOOSE f : Up(f))[n]
  BY DEF Consolidate
<1>3. step \in [(1..n) \X D -> D] /\ \A k \in 1..n, x \in D : step[<<k, x>>] = MergeOne(x, limit)
  <2>1. \A e \in (1..n) \X D : MergeOne(e[2], limit) \in D
    BY MergeOneIs
  <2> HIDE DEF D, n
  <2> QED
    BY <2>1
<1>4. s \in D
  OBVIOUS
<1> HIDE DEF n, D, step
<1>5. PICK g \in [0..n -> D] : Steps(g, s, step, n)
  BY <1>1, <1>3, <1>4, Iterates
<1>6. \A k \in 0..n : g[k] = IF k = 0 THEN s ELSE MergeOne(g[k - 1], limit)
  <2> TAKE k \in 0..n
  <2>1. g[k] = IF k = 0 THEN s ELSE step[<<k, g[k - 1]>>]
    BY <1>5 DEF Steps
  <2>2. k # 0 => k \in 1..n /\ k - 1 \in 0..n
    BY <1>1
  <2>3. k # 0 => g[k - 1] \in D
    BY <1>5, <2>2
  <2> QED
    BY <1>3, <2>1, <2>2, <2>3
<1>7. Up(g)
  <2>1. g = [k \in 0..n |-> g[k]]
    BY <1>5
  <2> QED
    BY <1>6, <2>1
<1> DEFINE f == CHOOSE x : Up(x)
<1>8. Up(f)
  BY <1>7
<1> HIDE DEF f
<1>9. /\ f[0] = s
      /\ \A k \in 0..(n - 1) : f[k + 1] = MergeOne(f[k], limit)
  <2>1. 0 \in 0..n
    BY <1>1
  <2>2. \A k \in 0..(n - 1) : k + 1 \in 0..n /\ k + 1 # 0 /\ (k + 1) - 1 = k
    BY <1>1
  <2>3. \A k \in 0..n : f[k] = IF k = 0 THEN s ELSE MergeOne(f[k - 1], limit)
    BY <1>8
  <2> HIDE DEF Up
  <2> QED
    BY <2>1, <2>2, <2>3
<1> DEFINE Good(k) == /\ f[k] \in D
                      /\ Len(f[k]) \in 1..n
                      /\ Len(f[k]) = n => f[k] = s
                      /\ Len(f[k]) <= limit \/ Len(f[k]) <= n - k
           S == { k \in 0..n : Good(k) }
<1>10. 0 \in S
  <2>1. Good(0)
    BY <1>1, <1>4, <1>9 DEF n
  <2> QED
    BY <1>1, <2>1
<1>11. ASSUME NEW k \in 0..(n - 1), k \in S PROVE k + 1 \in S
  <2>1. Good(k) /\ k + 1 \in 0..n /\ k \in Int
    BY <1>1, <1>11
  <2>2. f[k] \in Seq(Nat) /\ f[k + 1] = MergeOne(f[k], limit)
    BY <1>9, <2>1 DEF D
  <2>3. /\ f[k + 1] \in Seq(Nat)
        /\ Len(f[k]) <= limit => f[k + 1] = f[k]
        /\ Len(f[k]) > limit => Len(f[k + 1]) = Len(f[k]) - 1
    BY <2>2, MergeOneIs
  <2>4. Len(f[k]) \in 1..n
    BY <2>1
  <2>5. CASE Len(f[k]) <= limit
    <3>1. f[k + 1] = f[k]
      BY <2>3, <2>5
    <3> QED
      BY <2>1, <2>5, <3>1
  <2>6. CASE Len(f[k]) > limit
    <3>1. Len(f[k + 1]) = Len(f[k]) - 1 /\ Len(f[k]) <= n - k
      BY <2>1, <2>3, <2>4, <2>6
    <3>2. Len(f[k + 1]) \in 1..n /\ Len(f[k + 1]) # n /\ Len(f[k + 1]) <= n - (k + 1)
      BY <1>1, <2>1, <2>4, <2>6, <3>1
    <3> QED
      BY <2>1, <2>3, <3>2 DEF D
  <2> QED
    BY <1>1, <2>4, <2>5, <2>6
<1>12. n \in S
  <2> HIDE DEF S
  <2> QED
    BY <1>1, <1>10, <1>11, Climbs
<1>13. Good(n)
  BY <1>12
<1>14. Len(f[n]) \in 1..limit
  <2>1. Len(f[n]) \in 1..n /\ (Len(f[n]) <= limit \/ Len(f[n]) <= n - n)
    BY <1>13
  <2> QED
    BY <1>1, <2>1
<1>15. Consolidate(s, limit) = f[n]
  BY <1>2 DEF f
<1> HIDE DEF f
<1> QED
  BY <1>13, <1>14, <1>15 DEF n, D

\* The sum of the first k numbers of a list is the k-th of its sums.
LEMMA TotalOfFirst ==
  ASSUME NEW n \in Nat, NEW a \in Numbers(n), NEW f \in [0..n -> Int], f[0] = 0,
         \A k \in 1..n : f[k] = f[k - 1] + a[k], NEW m \in 0..n
  PROVE  Total(SubSeq(a, 1, m)) = f[m]
<1> DEFINE b == SubSeq(a, 1, m)
           g == [k \in 0..m |-> f[k]]
<1>1. a \in Seq(Int) /\ Len(a) = n
  BY NumbersAre
<1>2. b = [k \in 1..m |-> a[k]]
  BY <1>1
<1>3. \A k \in 1..m : k \in 1..n /\ a[k] \in Int
  BY NumbersAre
<1> HIDE DEF b
<1>4. b \in Numbers(m) /\ \A k \in 1..m : b[k] = a[k]
  BY <1>2, <1>3 DEF Numbers
<1>5. g \in [0..m -> Int] /\ g[0] = 0 /\ g[m] = f[m]
  OBVIOUS
<1>6. \A k \in 1..m : g[k] = g[k - 1] + b[k]
  <2> TAKE k \in 1..m
  <2>1. k \in 1..n /\ k \in 0..m /\ k - 1 \in 0..m
    OBVIOUS
  <2> QED
    BY <1>4, <2>1
<1>7. m \in Nat
  OBVIOUS
<1> HIDE DEF g
<1> QED
  BY <1>4, <1>5, <1>6, <1>7, TotalFrom DEF b

\* The sums of a list of days: they grow, and every day up to the last sum is between two.
LEMMA SumsOfDays ==
  ASSUME NEW n \in Nat, NEW a \in Days1(n), NEW f \in [0..n -> Int], f[0] = 0,
         \A k \in 1..n : f[k] = f[k - 1] + a[k]
  PROVE  /\ \A j \in 0..n : \A i \in 0..j : f[i] <= f[j]
         /\ \A d \in 1..f[n] : \E i \in 1..n : f[i - 1] < d /\ d <= f[i]
<1>1. \A k \in 1..n : a[k] \in Int /\ a[k] >= 1
  <2>1. a \in Numbers(n) /\ \A k \in 1..n : a[k] >= 1
    BY DEF Days1
  <2> QED
    BY <2>1, NumbersAre
<1>2. \A k \in 0..n : f[k] \in Int
  OBVIOUS
<1> DEFINE Grown(k) == \A i \in 0..k : f[i] <= f[k]
           S == { k \in 0..n : Grown(k) }
           Held1(k) == \A d \in 1..f[k] : \E i \in 1..k : f[i - 1] < d /\ d <= f[i]
           T == { k \in 0..n : Held1(k) }
<1>3. 0 \in S
  BY <1>2
<1>4. ASSUME NEW k \in 0..(n - 1), k \in S PROVE k + 1 \in S
  <2>1. k + 1 \in 0..n /\ k + 1 \in 1..n /\ (k + 1) - 1 = k /\ k \in 0..n
    OBVIOUS
  <2>2. f[k + 1] = f[k] + a[k + 1] /\ f[k] \in Int /\ a[k + 1] \in Int /\ a[k + 1] >= 1
    BY <1>1, <1>2, <2>1
  <2>3. \A i \in 0..(k + 1) : f[i] <= f[k + 1]
    <3> TAKE i \in 0..(k + 1)
    <3>1. i = k + 1 \/ i \in 0..k
      OBVIOUS
    <3>2. i \in 0..k => f[i] <= f[k] /\ f[i] \in Int
      BY <1>2, <1>4, <2>1
    <3>3. f[k + 1] \in Int
      BY <2>2
    <3> QED
      BY <2>2, <3>1, <3>2, <3>3
  <2> QED
    BY <2>1, <2>3
<1>5. 0 \in T
  OBVIOUS
<1>6. ASSUME NEW k \in 0..(n - 1), k \in T PROVE k + 1 \in T
  <2>1. k + 1 \in 0..n /\ k + 1 \in 1..n /\ (k + 1) - 1 = k /\ k \in 0..n /\ k + 1 \in 1..(k + 1)
    OBVIOUS
  <2>2. f[k] \in Int /\ f[k + 1] \in Int
    BY <1>2, <2>1
  <2>3. \A d \in 1..f[k + 1] : \E i \in 1..(k + 1) : f[i - 1] < d /\ d <= f[i]
    <3> TAKE d \in 1..f[k + 1]
    <3>1. CASE d <= f[k]
      <4>1. d \in 1..f[k]
        BY <2>2, <3>1
      <4>2. PICK i \in 1..k : f[i - 1] < d /\ d <= f[i]
        BY <1>6, <4>1
      <4>3. i \in 1..(k + 1)
        OBVIOUS
      <4> QED
        BY <4>2, <4>3
    <3>2. CASE ~(d <= f[k])
      <4>1. f[(k + 1) - 1] < d /\ d <= f[k + 1]
        BY <2>1, <2>2, <3>2
      <4> QED
        BY <2>1, <4>1
    <3> QED
      BY <3>1, <3>2
  <2> QED
    BY <2>1, <2>3
<1>7. \A j \in 0..n : j \in S
  <2> HIDE DEF S
  <2> TAKE j \in 0..n
  <2>1. j \in Nat /\ \A k \in 0..(j - 1) : k \in 0..(n - 1)
    OBVIOUS
  <2> QED
    BY <1>3, <1>4, <2>1, Climbs
<1>8. n \in T
  <2> HIDE DEF T
  <2> QED
    BY <1>5, <1>6, Climbs
<1> QED
  BY <1>7, <1>8

\* Windows between sums that grow do not meet.
LEMMA WindowsApart ==
  ASSUME NEW n \in Nat, NEW f \in [0..n -> Int], NEW i \in 1..n, NEW j \in 1..n, f[i] <= f[j - 1]
  PROVE  ((1 + f[i - 1])..f[i]) \cap ((1 + f[j - 1])..f[j]) = {}
<1>1. f[i - 1] \in Int /\ f[i] \in Int /\ f[j - 1] \in Int /\ f[j] \in Int
  OBVIOUS
<1> QED
  BY <1>1

\* The windows that lists of nights and of days make.
Windows(n, nights, spans, f) ==
  [i \in 1..n |-> [nights |-> nights[i], arrival |-> 1 + f[i - 1], departure |-> f[i]]]

LEMMA WindowsLast ==
  ASSUME NEW n \in Nat, NEW nights, NEW spans, NEW f, NEW route, route = Windows(n, nights, spans, f)
  PROVE  DOMAIN route = 1..n /\ Len(route) = n /\ \A i \in 1..n : route[i].nights = nights[i]
BY DEF Windows

LEMMA WindowsFit ==
  ASSUME NEW n \in Nat \ {0}, NEW days \in Nat \ {0}, NEW nights \in Numbers(n), Total(nights) = days - 1,
         NEW spans \in Days1(n), NEW f \in [0..n -> Int], f[0] = 0, f[n] = days,
         \A k \in 1..n : f[k] = f[k - 1] + spans[k]
  PROVE  FitsWindow(Windows(n, nights, spans, f), days)
<1> DEFINE route == Windows(n, nights, spans, f)
<1>1. /\ DOMAIN route = 1..n
      /\ \A i \in 1..n : /\ route[i].nights = nights[i] /\ route[i].arrival = 1 + f[i - 1]
                         /\ route[i].departure = f[i]
  BY DEF Windows
<1>2. /\ \A j \in 0..n : \A i \in 0..j : f[i] <= f[j]
      /\ \A d \in 1..f[n] : \E i \in 1..n : f[i - 1] < d /\ d <= f[i]
  BY SumsOfDays
<1>3. \A k \in 0..n : f[k] \in Int
  OBVIOUS
<1>4. \A k \in 1..n : spans[k] \in Int /\ spans[k] >= 1
  <2>1. spans \in Numbers(n) /\ \A k \in 1..n : spans[k] >= 1
    BY DEF Days1
  <2> QED
    BY <2>1, NumbersAre
<1>5. route # <<>>
  <2>1. 1 \in DOMAIN route
    BY <1>1
  <2> HIDE DEF route
  <2> QED
    BY <2>1
<1> HIDE DEF route
<1>6. \A i \in 1..n : /\ f[i - 1] \in Int /\ f[i] \in Int /\ f[i - 1] >= 0 /\ f[i] <= days /\ f[i] > f[i - 1]
  <2> TAKE i \in 1..n
  <2>1. i - 1 \in 0..n /\ i \in 0..n /\ 0 \in 0..(i - 1) /\ n \in 0..n /\ i \in 0..n
    OBVIOUS
  <2>2. f[i - 1] \in Int /\ f[i] \in Int
    BY <1>3, <2>1
  <2>3. f[0] <= f[i - 1] /\ f[i] <= f[n]
    BY <1>2, <2>1
  <2>4. f[i] = f[i - 1] + spans[i] /\ spans[i] \in Int /\ spans[i] >= 1
    BY <1>4
  <2> QED
    BY <2>2, <2>3, <2>4
<1>7. \A i \in DOMAIN route : route[i].arrival \in 1..days /\ route[i].departure \in 1..days
                              /\ route[i].arrival <= route[i].departure
  <2> SUFFICES ASSUME NEW i \in 1..n
               PROVE  route[i].arrival \in 1..days /\ route[i].departure \in 1..days
                      /\ route[i].arrival <= route[i].departure
    BY <1>1
  <2>1. route[i].arrival = 1 + f[i - 1] /\ route[i].departure = f[i]
    BY <1>1
  <2>2. /\ f[i - 1] \in Int /\ f[i] \in Int /\ f[i - 1] >= 0 /\ f[i] <= days /\ f[i] > f[i - 1]
    BY <1>6
  <2> QED
    BY <2>1, <2>2
<1>8. \A i \in 1..n : Held(route[i]) = (1 + f[i - 1])..f[i]
  BY <1>1 DEF Held
<1>9. \A i, j \in 1..n : i < j => Held(route[i]) \cap Held(route[j]) = {}
  <2> SUFFICES ASSUME NEW i \in 1..n, NEW j \in 1..n, i < j
               PROVE  Held(route[i]) \cap Held(route[j]) = {}
    OBVIOUS
  <2>1. j - 1 \in 0..n /\ i \in 0..(j - 1)
    OBVIOUS
  <2>2. f[i] <= f[j - 1] /\ f[i] \in Int /\ f[j - 1] \in Int /\ f[i - 1] \in Int /\ f[j] \in Int
    BY <1>2, <1>6, <2>1
  <2>3. ((1 + f[i - 1])..f[i]) \cap ((1 + f[j - 1])..f[j]) = {}
    <3>1. n \in Nat /\ f \in [0..n -> Int] /\ f[i] <= f[j - 1]
      BY <2>2
    <3> QED
      BY <3>1, WindowsApart
  <2> QED
    BY <1>8, <2>3
<1>10. \A i, j \in DOMAIN route : i # j => Held(route[i]) \cap Held(route[j]) = {}
  <2> SUFFICES ASSUME NEW i \in 1..n, NEW j \in 1..n, i # j
               PROVE  Held(route[i]) \cap Held(route[j]) = {}
    BY <1>1
  <2>1. i < j \/ j < i
    OBVIOUS
  <2> QED
    BY <1>9, <2>1
<1>11. Total([i \in DOMAIN route |-> route[i].nights]) = days - 1
  <2>1. nights = [i \in 1..n |-> nights[i]]
    BY DEF Numbers
  <2>2. [i \in DOMAIN route |-> route[i].nights] = [i \in 1..n |-> nights[i]]
    BY <1>1
  <2> QED
    BY <2>1, <2>2
<1>12. UNION { Held(route[i]) : i \in DOMAIN route } = 1..days
  <2>1. ASSUME NEW i \in 1..n PROVE Held(route[i]) \subseteq 1..days
    <3>1. f[i - 1] \in Int /\ f[i] \in Int /\ f[i - 1] >= 0 /\ f[i] <= days
      BY <1>6
    <3>2. (1 + f[i - 1])..f[i] \subseteq 1..days
      BY <3>1
    <3> QED
      BY <1>8, <3>2
  <2>2. ASSUME NEW d \in 1..days PROVE \E i \in 1..n : d \in Held(route[i])
    <3>1. PICK i \in 1..n : f[i - 1] < d /\ d <= f[i]
      BY <1>2
    <3>2. f[i - 1] \in Int /\ f[i] \in Int
      BY <1>6
    <3>3. d \in (1 + f[i - 1])..f[i]
      BY <3>1, <3>2
    <3> QED
      BY <1>8, <3>3
  <2> DEFINE U == UNION { Held(route[i]) : i \in 1..n }
  <2>3. U \subseteq 1..days
    BY <2>1
  <2>4. 1..days \subseteq U
    BY <2>2
  <2>5. U = UNION { Held(route[i]) : i \in DOMAIN route }
    BY <1>1
  <2> HIDE DEF U
  <2> QED
    BY <2>3, <2>4, <2>5
<1> QED
  BY <1>5, <1>7, <1>10, <1>11, <1>12 DEF FitsWindow, route

\* EVERY DAY ONCE.  Whatever nights a crew proposes for a trip of any length, the route
\* made of them (normalize_route_windows) passes the check of the worker, has no more
\* cities than the trip has room for and gives none fewer nights than one proposed for less.
THEOREM ProposalsFit ==
  ASSUME NEW proposed \in Seq(Nat), proposed # <<>>, NEW days \in Nat \ {0}
  PROVE  ProposalFits(proposed, days, Normalize(proposed, days))
<1> DEFINE kept == Consolidate(proposed, MaxCities(days))
           nights == ScaleNights(kept, days - 1)
           weight == [i \in DOMAIN nights |-> nights[i] + 1]
           spans == Partition(days, weight)
           n == Len(kept)
           first(i) == 1 + Total(SubSeq(spans, 1, i - 1))
           route == Normalize(proposed, days)
<1>1. MaxCities(days) \in Nat \ {0} /\ MaxCities(days) <= days
  <2>1. MaxCities(days) \in 1..5 /\ MaxCities(days) <= days
    BY MaxCitiesIs
  <2> QED
    BY <2>1
<1>2. /\ kept \in Seq(Nat) /\ n \in 1..MaxCities(days)
      /\ n = Len(proposed) => kept = proposed
  BY <1>1, ConsolidateIs
<1>3. route = [i \in DOMAIN nights |-> [nights |-> nights[i], arrival |-> first(i),
                                        departure |-> first(i) + spans[i] - 1]]
  BY DEF Normalize
<1> HIDE DEF kept
<1>4. n \in Nat \ {0} /\ n <= days /\ n <= MaxCities(days)
  BY <1>1, <1>2
<1>5. kept \in Numbers(n) /\ \A i \in 1..n : kept[i] >= 0
  <2>1. kept \in Seq(Nat)
    BY <1>2
  <2>2. kept \in [1..n -> Nat]
    BY <2>1
  <2>3. kept \in [1..n -> Int] /\ \A i \in 1..n : kept[i] \in Nat
    BY <2>2
  <2> QED
    BY <2>3 DEF Numbers
<1> HIDE DEF n, nights, route, spans
<1>6. days - 1 \in Nat
  OBVIOUS
<1>7. /\ nights \in Numbers(n) /\ Total(nights) = days - 1 /\ \A i \in 1..n : nights[i] >= 0
      /\ \A i, j \in 1..n : kept[i] > kept[j] => nights[i] >= nights[j]
  <2>1. LET out == ScaleNights(kept, days - 1) IN
        /\ out \in Numbers(n) /\ Total(out) = days - 1 /\ \A i \in 1..n : out[i] >= 0
        /\ \A i, j \in 1..n : kept[i] > kept[j] => out[i] >= out[j]
    BY <1>4, <1>5, <1>6, ScaleNightsIs
  <2> QED
    BY <2>1 DEF nights
<1>8. DOMAIN nights = 1..n /\ \A i \in 1..n : nights[i] \in Int
  <2>1. nights \in Numbers(n) /\ n \in Nat
    BY <1>4, <1>7
  <2> QED
    BY <2>1, NumbersAre
<1>9. weight \in Days1(n)
  <2>1. \A i \in 1..n : nights[i] + 1 \in Int /\ nights[i] + 1 >= 1
    BY <1>7, <1>8
  <2>2. weight = [i \in 1..n |-> nights[i] + 1]
    BY <1>8
  <2> QED
    BY <2>1, <2>2 DEF Days1, Numbers
<1> HIDE DEF weight
<1>10. spans \in Days1(n) /\ Total(spans) = days
  <2>1. days \in Nat /\ days >= n
    BY <1>4
  <2> QED
    BY <1>4, <1>9, <2>1, PartitionIs DEF spans
<1>11. spans \in Numbers(n) /\ \A i \in 1..n : spans[i] \in Int
  <2>1. spans \in Numbers(n) /\ n \in Nat
    BY <1>4, <1>10 DEF Days1
  <2> QED
    BY <2>1, NumbersAre
<1>12. PICK f \in [0..n -> Int] : /\ f[0] = 0 /\ Total(spans) = f[n]
                                  /\ \A k \in 1..n : f[k] = f[k - 1] + spans[k]
  <2>1. n \in Nat
    BY <1>4
  <2> QED
    BY <1>11, <2>1, TotalNumber
<1>13. \A i \in 1..n : first(i) = 1 + f[i - 1] /\ first(i) + spans[i] - 1 = f[i]
  <2> TAKE i \in 1..n
  <2>1. i - 1 \in 0..n /\ n \in Nat
    BY <1>4
  <2>2. Total(SubSeq(spans, 1, i - 1)) = f[i - 1]
    BY <1>11, <1>12, <2>1, TotalOfFirst
  <2>3. f[i] = f[i - 1] + spans[i] /\ spans[i] \in Int /\ f[i - 1] \in Int
    BY <1>11, <1>12, <2>1
  <2>4. first(i) = 1 + f[i - 1]
    BY <2>2
  <2> HIDE DEF first
  <2> QED
    BY <2>3, <2>4
<1>14. route = Windows(n, nights, spans, f)
  <2> HIDE DEF first
  <2> QED
    BY <1>3, <1>8, <1>13 DEF Windows
<1>15. FitsWindow(route, days)
  <2>1. f[n] = days
    BY <1>10, <1>12
  <2> QED
    BY <1>4, <1>7, <1>10, <1>12, <1>14, <2>1, WindowsFit
<1>16. DOMAIN route = 1..n /\ Len(route) = n /\ \A i \in 1..n : route[i].nights = nights[i]
  <2>1. n \in Nat
    BY <1>4
  <2> QED
    BY <1>14, <2>1, WindowsLast
<1>17. Len(route) <= MaxCities(days)
  BY <1>4, <1>16
<1>18. ASSUME NEW i \in DOMAIN route, NEW j \in DOMAIN route,
              Len(route) = Len(proposed) /\ proposed[i] > proposed[j]
       PROVE  route[i].nights >= route[j].nights
  <2>1. kept = proposed /\ i \in 1..n /\ j \in 1..n
    BY <1>2, <1>16, <1>18 DEF n
  <2> QED
    BY <1>7, <1>16, <1>18, <2>1
<1> QED
  BY <1>15, <1>17, <1>18 DEF ProposalFits, route

\* PROPOSED ROUTES AND CITIES of every call.
THEOREM ProposedRoutesFit == Spec => []ProposedRouteFits
<1>1. CallInv => ProposedRouteFits
  <2> SUFFICES ASSUME CallInv, call.done PROVE ProposedRouteFits
    BY DEF ProposedRouteFits
  <2>1. CASE call.fn = "proposal"
    <3> DEFINE nights == call.in.nights
               days == call.in.days
    <3>1. call.in \in ProposalInputs /\ call.out = Normalize(nights, days)
      BY <2>1 DEF CallInv, Of
    <3>2. nights \in (UNION { [1..k -> 0..3] : k \in 1..4 }) \cup [1..6 -> {0, 5}] /\ days \in 1..10 \cup {14}
      BY <3>1 DEF ProposalInputs
    <3> HIDE DEF nights, days
    <3>3. PICK k \in 1..6 : nights \in [1..k -> Nat]
      <4>1. CASE nights \in [1..6 -> {0, 5}]
        <5>1. nights \in [1..6 -> Nat] /\ 6 \in 1..6
          BY <4>1
        <5> QED
          BY <5>1
      <4>2. CASE \E k \in 1..4 : nights \in [1..k -> 0..3]
        <5>1. PICK k \in 1..4 : nights \in [1..k -> 0..3]
          BY <4>2
        <5>2. nights \in [1..k -> Nat] /\ k \in 1..6
          BY <5>1
        <5> QED
          BY <5>2
      <4>3. nights \in UNION { [1..k -> 0..3] : k \in 1..4 } => \E k \in 1..4 : nights \in [1..k -> 0..3]
        OBVIOUS
      <4>4. nights \in UNION { [1..k -> 0..3] : k \in 1..4 } \/ nights \in [1..6 -> {0, 5}]
        BY <3>2
      <4> QED
        BY <4>1, <4>2, <4>3, <4>4
    <3>4. nights \in Seq(Nat) /\ nights # <<>>
      <4>1. nights \in Seq(Nat)
        BY <3>3, IsASeq
      <4>2. 1 \in DOMAIN nights
        BY <3>3
      <4> QED
        BY <4>1, <4>2
    <3>5. days \in Nat \ {0}
      BY <3>2
    <3>6. ProposalFits(nights, days, Normalize(nights, days))
      BY <3>4, <3>5, ProposalsFit
    <3> QED
      BY <2>1, <3>1, <3>6 DEF ProposedRouteFits, nights, days
  <2>2. CASE call.fn = "cities"
    <3> DEFINE in == call.in
               S == DOMAIN MCNorm
    <3>1. in \in CityInputs /\ call.out = SuggestCities(in)
      BY <2>2 DEF CallInv, Of
    <3>2. /\ in.persisted \in NamesUpTo(1) /\ in.draft \in NamesUpTo(2)
          /\ in.count \in {1, 2} /\ in.days \in {4, 5, 7}
          /\ in.answer \in { [form |-> "candidates", cities |-> <<x, y>>] : x \in Candidate,
                               y \in { z \in Candidate : z.nights = 2 } } \cup
                           { [form |-> f, cities |-> <<x>>] : f \in {"list", "city", "error", "other"},
                               x \in { z \in Candidate : z.nights = 2 } }
      BY <3>1 DEF CityInputs
    <3>3. Candidate \subseteq CityNights(S)
      <4>1. \A c \in S : \A k \in {-1, 0, 2} : [city |-> c, nights |-> k] \in CityNights(S)
        BY DEF CityNights
      <4> SUFFICES ASSUME NEW x \in Candidate PROVE x \in CityNights(S)
        OBVIOUS
      <4>2. PICK c \in S : \E k \in {-1, 0, 2} : x = [city |-> c, nights |-> k]
        BY DEF Candidate
      <4> HIDE DEF S
      <4> QED
        BY <4>1, <4>2
    <3> HIDE DEF in, S
    <3>4. CandidatesOf(in.answer) \in Seq(CityNights(S))
      <4>1. CASE \E x \in Candidate, y \in Candidate : in.answer = [form |-> "candidates", cities |-> <<x, y>>]
        <5>1. PICK x \in Candidate, y \in Candidate : in.answer = [form |-> "candidates", cities |-> <<x, y>>]
          BY <4>1
        <5>2. CandidatesOf(in.answer) = <<x, y>>
          BY <5>1 DEF CandidatesOf
        <5>3. x \in CityNights(S) /\ y \in CityNights(S)
          BY <3>3
        <5> QED
          BY <5>2, <5>3
      <4>2. CASE \E x \in Candidate : \E g \in {"list", "city", "error", "other"} :
                   in.answer = [form |-> g, cities |-> <<x>>]
        <5>1. PICK x \in Candidate : \E g \in {"list", "city", "error", "other"} :
                in.answer = [form |-> g, cities |-> <<x>>]
          BY <4>2
        <5>2. PICK g \in {"list", "city", "error", "other"} : in.answer = [form |-> g, cities |-> <<x>>]
          BY <5>1
        <5>3. x \in CityNights(S)
          BY <3>3
        <5>4. <<x>> \in Seq(CityNights(S)) /\ SubSeq(<<x>>, 1, 1) \in Seq(CityNights(S))
              /\ <<>> \in Seq(CityNights(S))
          BY <5>3
        <5>5. CandidatesOf(in.answer) \in {<<x>>, SubSeq(<<x>>, 1, 1), <<>>}
          BY <5>2 DEF CandidatesOf
        <5> QED
          BY <5>4, <5>5
      <4>3. CASE in.answer \in { [form |-> "candidates", cities |-> <<x, y>>] : x \in Candidate,
                                    y \in { z \in Candidate : z.nights = 2 } }
        <5>1. \E x \in Candidate, y \in Candidate : in.answer = [form |-> "candidates", cities |-> <<x, y>>]
          BY <4>3
        <5> QED
          BY <4>1, <5>1
      <4>4. CASE in.answer \in { [form |-> f, cities |-> <<x>>] : f \in {"list", "city", "error", "other"},
                                    x \in { z \in Candidate : z.nights = 2 } }
        <5>1. \E x \in Candidate : \E g \in {"list", "city", "error", "other"} :
                in.answer = [form |-> g, cities |-> <<x>>]
          BY <4>4
        <5> QED
          BY <4>2, <5>1
      <4> QED
        BY <3>2, <4>3, <4>4
    <3>5. in.persisted \in Seq(S) /\ in.draft \in Seq(S)
      <4>1. \A m \in {1, 2} : \A s \in NamesUpTo(m) : s \in Seq(S)
        BY IsASeq DEF NamesUpTo, S
      <4> QED
        BY <3>2, <4>1
    <3>6. in.count \in Nat \ {0} /\ in.days \in Nat
      BY <3>2
    <3>7. SuggestionsFit(in, SuggestCities(in))
      BY <3>4, <3>5, <3>6, SuggestionsAreNew
    <3> QED
      BY <2>2, <3>1, <3>7 DEF ProposedRouteFits, in
  <2> QED
    BY <2>1, <2>2 DEF ProposedRouteFits
<1> QED
  BY <1>1, CallsAreAnswered, PTL

-----------------------------------------------------------------------------
(* CrewInputs: the items that are kept                                     *)

\* One number more.
LEMMA TotalAppend ==
  ASSUME NEW a \in Seq(Int), NEW x \in Int
  PROVE  Total(a) \in Int /\ Total(Append(a, x)) = Total(a) + x
<1> DEFINE n == Len(a)
           b == Append(a, x)
<1>1. n \in Nat /\ a \in [1..n -> Int]
  OBVIOUS
<1>2. /\ b \in Seq(Int) /\ Len(b) = n + 1 /\ b[n + 1] = x
      /\ \A k \in 1..n : b[k] = a[k]
  BY AppendProperties
<1>3. b \in [1..(n + 1) -> Int]
  <2>1. b \in Seq(Int) /\ Len(b) = n + 1
    BY <1>2
  <2> HIDE DEF b, n
  <2> QED
    BY <2>1
<1> HIDE DEF b, n
<1>4. a \in Numbers(n) /\ b \in Numbers(n + 1) /\ n + 1 \in Nat
  BY <1>1, <1>3 DEF Numbers
<1>5. PICK f \in [0..(n + 1) -> Int] : /\ f[0] = 0 /\ Total(b) = f[n + 1]
                                       /\ \A k \in 1..(n + 1) : f[k] = f[k - 1] + b[k]
  BY <1>4, TotalNumber
<1> DEFINE g == [k \in 0..n |-> f[k]]
<1>6. g \in [0..n -> Int] /\ g[0] = 0 /\ g[n] = f[n]
  <2>1. 0 \in 0..n /\ n \in 0..n /\ \A k \in 0..n : k \in 0..(n + 1)
    BY <1>1
  <2> QED
    BY <1>5, <2>1
<1>7. \A k \in 1..n : g[k] = g[k - 1] + a[k]
  <2> TAKE k \in 1..n
  <2>1. k \in 0..n /\ k - 1 \in 0..n /\ k \in 1..(n + 1)
    BY <1>1
  <2> QED
    BY <1>2, <1>5, <2>1
<1> HIDE DEF g
<1>8. Total(a) = f[n]
  BY <1>1, <1>4, <1>6, <1>7, TotalFrom
<1>9. f[n + 1] = f[n] + x /\ f[n] \in Int
  <2>1. n + 1 \in 1..(n + 1) /\ n \in 0..(n + 1) /\ (n + 1) - 1 = n
    BY <1>1
  <2> QED
    BY <1>2, <1>5, <2>1
<1> QED
  BY <1>5, <1>8, <1>9 DEF b

LEMMA TotalNone == Total(<<>>) = 0
<1> DEFINE f == [k \in 0..0 |-> 0]
<1>1. <<>> \in Seq(Int) /\ Len(<<>>) = 0
  OBVIOUS
<1>2. Sums(f, <<>>)
  BY DEF Sums
<1> HIDE DEF f
<1>3. Total(<<>>) = f[0]
  BY <1>1, <1>2, TotalIs
<1> QED
  BY <1>3 DEF f

\* Only has every item at a position of K.
LEMMA OnlyHasAll ==
  ASSUME NEW S, NEW ps \in Seq(S), NEW K
  PROVE  Range(Only(ps, K)) = { ps[k] : k \in K \cap (1..Len(ps)) }
<1> DEFINE n == Len(ps)
           f == CHOOSE g : Selects(g, ps, K)
           Has(k) == \A j \in K \cap (1..k) : ps[j] \in Range(f[k])
           S0 == { k \in 0..n : f[k] \in Seq(S) /\ Has(k) }
<1>1. n \in Nat /\ \A k \in 1..n : ps[k] \in S
  OBVIOUS
<1>2. Selects(f, ps, K)
  BY OnlyDefined
<1>3. Only(ps, K) = f[n]
  BY DEF Only, Selects
<1> HIDE DEF f
<1>4. 0 \in S0
  <2>1. f[0] = <<>> /\ 0 \in 0..n
    BY <1>1, <1>2 DEF Selects
  <2>2. <<>> \in Seq(S)
    OBVIOUS
  <2>3. f[0] \in Seq(S)
    BY <2>1, <2>2
  <2>4. Has(0)
    OBVIOUS
  <2> QED
    BY <2>1, <2>3, <2>4
<1>5. ASSUME NEW k \in 0..(n - 1), k \in S0 PROVE k + 1 \in S0
  <2>1. k + 1 \in 1..n /\ k + 1 \in 0..n /\ k + 1 # 0 /\ (k + 1) - 1 = k /\ k \in Nat
    BY <1>1
  <2>2. f[k + 1] = IF k + 1 \in K THEN Append(f[k], ps[k + 1]) ELSE f[k]
    BY <1>2, <2>1 DEF Selects
  <2>3. f[k] \in Seq(S)
    BY <1>5
  <2>4. Has(k)
    BY <1>5
  <2>5. \A j \in K \cap (1..(k + 1)) : j \in K \cap (1..k) \/ (j = k + 1 /\ k + 1 \in K)
    BY <2>1
  <2>6. CASE k + 1 \notin K
    <3>1. f[k + 1] = f[k]
      BY <2>2, <2>6
    <3>2. Has(k + 1)
      BY <2>4, <2>5, <2>6, <3>1
    <3> QED
      BY <2>1, <2>3, <3>1, <3>2
  <2>7. CASE k + 1 \in K
    <3> DEFINE t == f[k]
               u == Append(t, ps[k + 1])
    <3>1. /\ u \in Seq(S) /\ Len(u) = Len(t) + 1 /\ u[Len(t) + 1] = ps[k + 1]
          /\ \A j \in 1..Len(t) : u[j] = t[j]
      BY <1>1, <2>1, <2>3, AppendProperties
    <3>2. f[k + 1] = u
      BY <2>2, <2>7
    <3>3. t \in Seq(S)
      BY <2>3
    <3> HIDE DEF t, u
    <3>4. u \in Seq(S)
      BY <3>1
    <3>5. DOMAIN u = 1..Len(u) /\ DOMAIN t = 1..Len(t) /\ Len(t) \in Nat
      BY <3>3, <3>4
    <3>6. Range(t) \subseteq Range(u) /\ ps[k + 1] \in Range(u)
      <4>1. \A j \in DOMAIN t : j \in DOMAIN u /\ u[j] = t[j]
        BY <3>1, <3>5
      <4>2. Len(t) + 1 \in DOMAIN u
        BY <3>1, <3>5
      <4> QED
        BY <3>1, <4>1, <4>2 DEF Range
    <3>7. Has(k + 1)
      <4>1. \A j \in K \cap (1..k) : ps[j] \in Range(t)
        BY <2>4 DEF t
      <4> QED
        BY <2>5, <3>2, <3>6, <4>1
    <3> QED
      BY <2>1, <3>2, <3>4, <3>7
  <2> QED
    BY <2>6, <2>7
<1>6. n \in S0
  <2> HIDE DEF S0
  <2> QED
    BY <1>1, <1>4, <1>5, Climbs
<1>7. \A j \in K \cap (1..n) : ps[j] \in Range(f[n])
  BY <1>6
<1> DEFINE os == Only(ps, K)
<1>8. PICK at \in [1..Len(os) -> 1..n] : \A j \in DOMAIN at : at[j] \in K /\ os[j] = ps[at[j]]
  BY OnlyIs
<1>9. os \in Seq(S)
  BY OnlyIs
<1> HIDE DEF os, n
<1>10. \A j \in DOMAIN os : os[j] \in { ps[k] : k \in K \cap (1..n) }
  <2>1. DOMAIN os = 1..Len(os)
    BY <1>9
  <2> QED
    BY <1>8, <2>1
<1>11. Range(os) = { ps[k] : k \in K \cap (1..n) }
  BY <1>3, <1>7, <1>10 DEF Range, os
<1> QED
  BY <1>11 DEF os, n

\* A visited key.
Key == [id : Nat, size : Nat, here : BOOLEAN]

\* How many items Only keeps, and their characters and separators.
Weighed(keys, K) == [i \in 1..Len(keys) |-> IF i \in K THEN keys[i].size + 1 ELSE 0]

LEMMA KeySizesAre ==
  ASSUME NEW t \in Seq(Key), NEW k \in Key
  PROVE  /\ KeySizes(t) \in Seq(Int) /\ Len(KeySizes(t)) = Len(t)
         /\ KeySizes(Append(t, k)) = Append(KeySizes(t), k.size)
<1> DEFINE u == Append(t, k)
<1>1. Len(t) \in Nat /\ DOMAIN t = 1..Len(t) /\ \A i \in 1..Len(t) : t[i] \in Key
  OBVIOUS
<1>2. /\ u \in Seq(Key) /\ Len(u) = Len(t) + 1 /\ u[Len(t) + 1] = k
      /\ \A i \in 1..Len(t) : u[i] = t[i]
  BY AppendProperties
<1>3. DOMAIN u = 1..(Len(t) + 1)
  <2>1. u \in Seq(Key)
    BY <1>2
  <2> HIDE DEF u
  <2> QED
    BY <1>2, <2>1
<1> HIDE DEF u
<1>4. KeySizes(t) \in [1..Len(t) -> Int]
  BY <1>1 DEF KeySizes, Key
<1>5. KeySizes(t) \in Seq(Int) /\ Len(KeySizes(t)) = Len(t)
  <2>1. KeySizes(t) \in Seq(Int)
    BY <1>1, <1>4, IsASeq
  <2> QED
    BY <1>1, <1>4, <2>1, LenProperties
<1> DEFINE v == Append(KeySizes(t), k.size)
<1>6. k.size \in Int
  BY DEF Key
<1>7. /\ v \in Seq(Int) /\ Len(v) = Len(t) + 1 /\ v[Len(t) + 1] = k.size
      /\ \A i \in 1..Len(t) : v[i] = KeySizes(t)[i]
  BY <1>5, <1>6, AppendProperties
<1>8. v = [i \in 1..(Len(t) + 1) |-> v[i]]
  <2>1. v \in Seq(Int)
    BY <1>7
  <2> HIDE DEF v
  <2> QED
    BY <1>7, <2>1
<1> HIDE DEF v
<1>9. \A i \in 1..(Len(t) + 1) : v[i] = u[i].size
  <2> TAKE i \in 1..(Len(t) + 1)
  <2>1. CASE i = Len(t) + 1
    BY <1>2, <1>7, <2>1
  <2>2. CASE i # Len(t) + 1
    <3>1. i \in 1..Len(t)
      BY <1>1, <2>2
    <3> QED
      BY <1>1, <1>2, <1>7, <3>1 DEF KeySizes
  <2> QED
    BY <2>1, <2>2
<1>10. KeySizes(u) = [i \in 1..(Len(t) + 1) |-> u[i].size]
  BY <1>3 DEF KeySizes
<1>11. KeySizes(u) = v
  BY <1>8, <1>9, <1>10
<1> QED
  BY <1>5, <1>11 DEF u, v

LEMMA OnlyWeighs ==
  ASSUME NEW keys \in Seq(Key), NEW K
  PROVE  LET kept == Only(keys, K) IN
         /\ kept \in Seq(Key) /\ Len(kept) = Cardinality(K \cap (1..Len(keys)))
         /\ Weighed(keys, K) \in Numbers(Len(keys))
         /\ Total(KeySizes(kept)) + Len(kept) = Total(Weighed(keys, K))
         /\ Total(KeySizes(kept)) \in Int
<1> DEFINE n == Len(keys)
           f == CHOOSE g : Selects(g, keys, K)
           mark == [i \in 1..n |-> IF i \in K \cap (1..n) THEN 1 ELSE 0]
           w == Weighed(keys, K)
           lens == [k \in 0..n |-> Len(f[k])]
           sums == [k \in 0..n |-> Total(KeySizes(f[k])) + Len(f[k])]
           S0 == { k \in 0..n : f[k] \in Seq(Key) }
<1>1. n \in Nat /\ \A k \in 1..n : keys[k] \in Key
  OBVIOUS
<1>2. Selects(f, keys, K)
  BY OnlyDefined
<1>3. Only(keys, K) = f[n]
  BY DEF Only, Selects
<1> HIDE DEF f
<1>4. f[0] = <<>> /\ \A k \in 1..n : f[k] = IF k \in K THEN Append(f[k - 1], keys[k]) ELSE f[k - 1]
  <2>1. 0 \in 0..n /\ \A k \in 1..n : k \in 0..n /\ k # 0
    BY <1>1
  <2> QED
    BY <1>2, <2>1 DEF Selects
<1>5. \A k \in 0..n : f[k] \in Seq(Key)
  <2>1. 0 \in S0
    <3>1. <<>> \in Seq(Key)
      OBVIOUS
    <3>2. 0 \in 0..n
      BY <1>1
    <3>3. f[0] \in Seq(Key)
      BY <1>4, <3>1
    <3> HIDE DEF n
    <3> QED
      BY <3>2, <3>3
  <2>2. ASSUME NEW k \in 0..(n - 1), k \in S0 PROVE k + 1 \in S0
    <3>1. k + 1 \in 1..n /\ k + 1 \in 0..n /\ (k + 1) - 1 = k
      BY <1>1
    <3>2. f[k] \in Seq(Key) /\ keys[k + 1] \in Key
      BY <1>1, <2>2, <3>1
    <3>3. Append(f[k], keys[k + 1]) \in Seq(Key)
      BY <3>2, AppendProperties
    <3>4. f[k + 1] \in Seq(Key)
      BY <1>4, <3>1, <3>2, <3>3
    <3> QED
      BY <3>1, <3>4
  <2> TAKE k \in 0..n
  <2>3. k \in Nat /\ \A j \in 0..(k - 1) : j \in 0..(n - 1)
    BY <1>1
  <2> HIDE DEF S0
  <2>4. k \in S0
    BY <2>1, <2>2, <2>3, Climbs
  <2> QED
    BY <2>4 DEF S0
<1>6. \A k \in 0..n : /\ Len(f[k]) \in Nat /\ Total(KeySizes(f[k])) \in Int
  <2> TAKE k \in 0..n
  <2>1. f[k] \in Seq(Key)
    BY <1>5
  <2>2. [id |-> 0, size |-> 0, here |-> TRUE] \in Key
    BY DEF Key
  <2>3. KeySizes(f[k]) \in Seq(Int)
    BY <2>1, <2>2, KeySizesAre
  <2>4. 0 \in Int
    OBVIOUS
  <2>5. Total(KeySizes(f[k])) \in Int
    BY <2>3, <2>4, TotalAppend
  <2>6. Len(f[k]) \in Nat
    BY <2>1
  <2> QED
    BY <2>5, <2>6
<1>7. \A i \in 1..n : keys[i].size \in Int
  BY <1>1 DEF Key
<1>8. w \in Numbers(n) /\ \A i \in 1..n : w[i] = IF i \in K THEN keys[i].size + 1 ELSE 0
  <2>1. \A i \in 1..n : (IF i \in K THEN keys[i].size + 1 ELSE 0) \in Int
    BY <1>7
  <2> QED
    BY <2>1 DEF Numbers, Weighed
<1>9. mark \in Numbers(n) /\ \A i \in 1..n : mark[i] = IF i \in K \cap (1..n) THEN 1 ELSE 0
  BY DEF Numbers
<1>10. \A k \in 1..n : /\ k - 1 \in 0..n /\ k \in 0..n
  BY <1>1
<1> HIDE DEF mark, w, S0
<1>11. lens \in [0..n -> Int] /\ lens[0] = 0 /\ lens[n] = Len(f[n])
  <2>1. 0 \in 0..n /\ n \in 0..n /\ \A k \in 0..n : Len(f[k]) \in Int
    BY <1>1, <1>6
  <2>2. Len(f[0]) = 0
    BY <1>4
  <2> QED
    BY <2>1, <2>2
<1>12. sums \in [0..n -> Int] /\ sums[0] = 0 /\ sums[n] = Total(KeySizes(f[n])) + Len(f[n])
  <2>1. 0 \in 0..n /\ n \in 0..n /\ \A k \in 0..n : Total(KeySizes(f[k])) + Len(f[k]) \in Int
    BY <1>1, <1>6
  <2>2. KeySizes(<<>>) = <<>> /\ Len(<<>>) = 0
    BY DEF KeySizes
  <2>3. Total(KeySizes(f[0])) + Len(f[0]) = 0
    BY <1>4, <2>2, TotalNone
  <2> QED
    BY <2>1, <2>3
<1>13. ASSUME NEW k \in 1..n PROVE lens[k] = lens[k - 1] + mark[k] /\ sums[k] = sums[k - 1] + w[k]
  <2>1. /\ lens[k] = Len(f[k]) /\ lens[k - 1] = Len(f[k - 1])
        /\ sums[k] = Total(KeySizes(f[k])) + Len(f[k])
        /\ sums[k - 1] = Total(KeySizes(f[k - 1])) + Len(f[k - 1])
    BY <1>10
  <2>2. f[k - 1] \in Seq(Key) /\ keys[k] \in Key
    BY <1>1, <1>5, <1>10
  <2>3. /\ Len(f[k - 1]) \in Nat /\ Total(KeySizes(f[k - 1])) \in Int /\ keys[k].size \in Int
    BY <1>6, <1>7, <1>10
  <2> HIDE DEF lens, sums
  <2>4. CASE k \in K
    <3>1. f[k] = Append(f[k - 1], keys[k]) /\ mark[k] = 1 /\ w[k] = keys[k].size + 1
      BY <1>4, <1>8, <1>9, <2>4
    <3>2. Len(f[k]) = Len(f[k - 1]) + 1
      BY <2>2, <3>1, AppendProperties
    <3>3. KeySizes(f[k - 1]) \in Seq(Int) /\ KeySizes(f[k]) = Append(KeySizes(f[k - 1]), keys[k].size)
      BY <2>2, <3>1, KeySizesAre
    <3>4. Total(KeySizes(f[k])) = Total(KeySizes(f[k - 1])) + keys[k].size
      BY <2>3, <3>3, TotalAppend
    <3> QED
      BY <2>1, <2>3, <3>1, <3>2, <3>4
  <2>5. CASE k \notin K
    <3>1. f[k] = f[k - 1] /\ mark[k] = 0 /\ w[k] = 0
      BY <1>4, <1>8, <1>9, <2>5
    <3> QED
      BY <2>1, <2>3, <3>1
  <2> QED
    BY <2>4, <2>5
<1> HIDE DEF lens, sums
<1>14. Total(mark) = Len(f[n])
  BY <1>1, <1>9, <1>11, <1>13, TotalFrom
<1>15. Total(w) = Total(KeySizes(f[n])) + Len(f[n])
  BY <1>1, <1>8, <1>12, <1>13, TotalFrom
<1>16. Total(mark) = Cardinality(K \cap (1..n))
  <2>1. K \cap (1..n) \subseteq 1..n
    OBVIOUS
  <2> QED
    BY <1>1, <1>9, <2>1, TotalCounts
<1>17. f[n] \in Seq(Key) /\ Total(KeySizes(f[n])) \in Int
  <2>1. n \in 0..n
    BY <1>1
  <2> QED
    BY <1>5, <1>6, <2>1
<1> QED
  BY <1>3, <1>8, <1>14, <1>15, <1>16, <1>17 DEF w

-----------------------------------------------------------------------------
(* The largest count that fits                                             *)

\* What is known of the bounds after k rounds: nothing above hi fits, what is below lo
\* does, and the interval between them is shorter.
Narrowed(fits, top, s, k) ==
  /\ s.lo \in 0..(top + 1) /\ s.hi \in -1..top /\ s.lo <= s.hi + 1
  /\ IF s.lo = 0 THEN s.best = 0 ELSE s.best = s.lo - 1 /\ fits[s.lo - 1]
  /\ \A n \in 0..top : n > s.hi => ~fits[n]
  /\ s.lo > s.hi \/ s.hi - s.lo + 1 <= top + 1 - k

LEMMA HalveNarrows ==
  ASSUME NEW top \in Nat, NEW fits, \A i, j \in 0..top : i <= j /\ fits[j] => fits[i],
         NEW s \in [lo : Int, hi : Int, best : Int], NEW k \in 0..top, Narrowed(fits, top, s, k)
  PROVE  Narrowed(fits, top, Halve(fits, s), k + 1)
<1> DEFINE mid == (s.lo + s.hi) \div 2
           new == Halve(fits, s)
<1>1. s = [lo |-> s.lo, hi |-> s.hi, best |-> s.best] /\ s.lo \in Int /\ s.hi \in Int /\ s.best \in Int
  OBVIOUS
<1>2. /\ s.lo \in 0..(top + 1) /\ s.hi \in -1..top /\ s.lo <= s.hi + 1
      /\ IF s.lo = 0 THEN s.best = 0 ELSE s.best = s.lo - 1 /\ fits[s.lo - 1]
      /\ \A n \in 0..top : n > s.hi => ~fits[n]
      /\ s.lo > s.hi \/ s.hi - s.lo + 1 <= top + 1 - k
  BY DEF Narrowed
<1>3. CASE s.lo > s.hi
  <2>1. new = s
    BY <1>3 DEF Halve
  <2> QED
    BY <1>2, <1>3, <2>1 DEF Narrowed
<1>4. CASE ~(s.lo > s.hi)
  <2>1. mid \in Int /\ s.lo <= mid /\ mid <= s.hi /\ mid \in 0..top
    BY <1>1, <1>2, <1>4
  <2>2. new = IF fits[mid] THEN [s EXCEPT !.lo = mid + 1, !.best = mid] ELSE [s EXCEPT !.hi = mid - 1]
    BY <1>4 DEF Halve
  <2> HIDE DEF mid, new
  <2>3. CASE fits[mid]
    <3>1. new.lo = mid + 1 /\ new.hi = s.hi /\ new.best = mid
      BY <2>2, <2>3
    <3>2. new.lo \in 0..(top + 1) /\ new.hi \in -1..top /\ new.lo <= new.hi + 1 /\ new.lo # 0
      BY <1>1, <1>2, <2>1, <3>1
    <3>3. new.best = new.lo - 1 /\ fits[new.lo - 1]
      <4>1. new.lo - 1 = mid
        BY <2>1, <3>1
      <4> QED
        BY <2>3, <3>1, <4>1
    <3>4. \A n \in 0..top : n > new.hi => ~fits[n]
      BY <1>2, <3>1
    <3>5. new.hi - new.lo + 1 <= top + 1 - (k + 1)
      BY <1>1, <1>2, <1>4, <2>1, <3>1
    <3> QED
      BY <3>2, <3>3, <3>4, <3>5 DEF Narrowed, new
  <2>4. CASE ~fits[mid]
    <3>1. new.lo = s.lo /\ new.hi = mid - 1 /\ new.best = s.best
      BY <1>1, <2>2, <2>4
    <3>2. new.lo \in 0..(top + 1) /\ new.hi \in -1..top /\ new.lo <= new.hi + 1
      BY <1>1, <1>2, <2>1, <3>1
    <3>3. IF new.lo = 0 THEN new.best = 0 ELSE new.best = new.lo - 1 /\ fits[new.lo - 1]
      BY <1>2, <3>1
    <3>4. \A n \in 0..top : n > new.hi => ~fits[n]
      <4> SUFFICES ASSUME NEW n \in 0..top, n > new.hi, fits[n] PROVE FALSE
        OBVIOUS
      <4>1. mid <= n
        BY <2>1, <3>1
      <4> QED
        BY <2>1, <2>4, <4>1
    <3>5. new.hi - new.lo + 1 <= top + 1 - (k + 1)
      BY <1>1, <1>2, <1>4, <2>1, <3>1
    <3> QED
      BY <3>2, <3>3, <3>4, <3>5 DEF Narrowed, new
  <2> QED
    BY <2>3, <2>4
<1> QED
  BY <1>3, <1>4

\* The binary search finds the largest count that fits, and 0 if there is none.
LEMMA SearchIs ==
  ASSUME NEW top \in Nat, NEW fits, \A i, j \in 0..top : i <= j /\ fits[j] => fits[i]
  PROVE  LET m == Search(fits, top) IN
         /\ m \in 0..top /\ (m > 0 => fits[m]) /\ (fits[0] => fits[m])
         /\ \A n \in 0..top : n > m => ~fits[n]
<1> DEFINE r == top + 1
           D == [lo : Int, hi : Int, best : Int]
           start == [lo |-> 0, hi |-> top, best |-> 0]
           step == [e \in (1..r) \X D |-> Halve(fits, e[2])]
           Up(f) == f = [n \in 0..(top + 1) |-> IF n = 0 THEN [lo |-> 0, hi |-> top, best |-> 0]
                                               ELSE Halve(fits, f[n - 1])]
<1>1. Search(fits, top) = (CHOOSE f : Up(f))[top + 1].best
  BY DEF Search
<1>2. r \in Nat /\ start \in D
  OBVIOUS
<1>3. ASSUME NEW s \in D PROVE Halve(fits, s) \in D
  <2> DEFINE mid == (s.lo + s.hi) \div 2
  <2>1. mid \in Int /\ mid + 1 \in Int /\ mid - 1 \in Int
    OBVIOUS
  <2>2. Halve(fits, s) \in { s, [s EXCEPT !.lo = mid + 1, !.best = mid], [s EXCEPT !.hi = mid - 1] }
    BY DEF Halve
  <2> HIDE DEF mid
  <2>3. [s EXCEPT !.lo = mid + 1, !.best = mid] \in D /\ [s EXCEPT !.hi = mid - 1] \in D
    BY <2>1
  <2> QED
    BY <2>2, <2>3
<1>4. step \in [(1..r) \X D -> D] /\ \A k \in 1..r, s \in D : step[<<k, s>>] = Halve(fits, s)
  <2>1. \A e \in (1..r) \X D : Halve(fits, e[2]) \in D
    BY <1>3
  <2> HIDE DEF D
  <2> QED
    BY <2>1
<1> HIDE DEF D, step, start
<1>5. PICK g \in [0..r -> D] : Steps(g, start, step, r)
  BY <1>2, <1>4, Iterates
<1>6. \A k \in 0..r : g[k] = IF k = 0 THEN start ELSE Halve(fits, g[k - 1])
  <2> TAKE k \in 0..r
  <2>1. g[k] = IF k = 0 THEN start ELSE step[<<k, g[k - 1]>>]
    BY <1>5 DEF Steps
  <2>2. k # 0 => k \in 1..r /\ k - 1 \in 0..r
    OBVIOUS
  <2>3. k # 0 => g[k - 1] \in D
    BY <1>5, <2>2
  <2> QED
    BY <1>4, <2>1, <2>2, <2>3
<1>7. Up(g)
  <2>1. g = [k \in 0..(top + 1) |-> g[k]]
    BY <1>5
  <2> QED
    BY <1>6, <2>1 DEF start
<1> DEFINE f == CHOOSE x : Up(x)
<1>8. Up(f)
  BY <1>7
<1> HIDE DEF f
<1>9. /\ f[0] = start
      /\ \A k \in 0..top : f[k + 1] = Halve(fits, f[k])
  <2>1. 0 \in 0..(top + 1)
    OBVIOUS
  <2>2. \A k \in 0..top : k + 1 \in 0..(top + 1) /\ k + 1 # 0 /\ (k + 1) - 1 = k
    OBVIOUS
  <2>3. \A k \in 0..(top + 1) : f[k] = IF k = 0 THEN start ELSE Halve(fits, f[k - 1])
    BY <1>8 DEF start
  <2> HIDE DEF Up
  <2> QED
    BY <2>1, <2>2, <2>3
<1> DEFINE S == { k \in 0..r : f[k] \in D /\ Narrowed(fits, top, f[k], k) }
<1>10. 0 \in S
  <2>1. Narrowed(fits, top, start, 0)
    <3>1. start.lo = 0 /\ start.hi = top /\ start.best = 0
      BY DEF start
    <3> QED
      BY <3>1 DEF Narrowed
  <2>2. 0 \in 0..r
    OBVIOUS
  <2> QED
    BY <1>2, <1>9, <2>1, <2>2
<1>11. ASSUME NEW k \in 0..(r - 1), k \in S PROVE k + 1 \in S
  <2>1. k \in 0..top /\ k + 1 \in 0..r
    OBVIOUS
  <2>2. f[k] \in D /\ Narrowed(fits, top, f[k], k) /\ f[k + 1] = Halve(fits, f[k])
    BY <1>9, <1>11, <2>1
  <2>3. f[k + 1] \in D
    BY <1>3, <2>2
  <2>4. Narrowed(fits, top, f[k + 1], k + 1)
    BY <2>1, <2>2, HalveNarrows DEF D
  <2> QED
    BY <2>1, <2>3, <2>4
<1>12. f[r] \in D /\ Narrowed(fits, top, f[r], r)
  <2>1. r \in S
    <3> HIDE DEF S, r
    <3> QED
      BY <1>2, <1>10, <1>11, Climbs
  <2> QED
    BY <2>1
<1> DEFINE s == f[r]
<1>13. /\ s.lo \in 0..(top + 1) /\ s.hi \in -1..top /\ s.lo <= s.hi + 1
       /\ IF s.lo = 0 THEN s.best = 0 ELSE s.best = s.lo - 1 /\ fits[s.lo - 1]
       /\ \A n \in 0..top : n > s.hi => ~fits[n]
       /\ s.lo > s.hi \/ s.hi - s.lo + 1 <= top + 1 - (top + 1)
  BY <1>12 DEF Narrowed
<1>14. Search(fits, top) = s.best
  BY <1>1 DEF f
<1> HIDE DEF s
<1>15. s.lo = s.hi + 1
  BY <1>13
<1>16. CASE s.lo = 0
  <2>1. s.best = 0 /\ \A n \in 0..top : ~fits[n]
    BY <1>13, <1>15, <1>16
  <2> QED
    BY <1>14, <2>1
<1>17. CASE s.lo # 0
  <2>1. s.best = s.lo - 1 /\ fits[s.lo - 1] /\ s.hi = s.lo - 1 /\ s.lo - 1 \in 0..top
    BY <1>13, <1>15, <1>17
  <2> QED
    BY <1>13, <1>14, <2>1
<1> QED
  BY <1>16, <1>17

-----------------------------------------------------------------------------
(* Characters                                                              *)

LEMMA TotalNat ==
  ASSUME NEW a \in Seq(Nat)
  PROVE  Total(a) \in Nat
<1> DEFINE n == Len(a)
           none == [i \in 1..n |-> 0]
<1>1. n \in Nat /\ a \in [1..n -> Nat]
  OBVIOUS
<1> HIDE DEF n
<1>2. a \in Numbers(n) /\ \A i \in 1..n : a[i] \in Nat
  BY <1>1 DEF Numbers
<1>3. none \in Numbers(n) /\ \A i \in 1..n : none[i] = 0
  BY DEF Numbers
<1> HIDE DEF none
<1>4. Total(none) = n * 0
  BY <1>1, <1>3, TotalSame
<1>5. Total(none) <= Total(a)
  <2>1. \A i \in 1..n : none[i] <= a[i]
    BY <1>2, <1>3
  <2> QED
    BY <1>1, <1>2, <1>3, <2>1, TotalLess
<1>6. Total(a) \in Int
  BY <1>1, <1>2, TotalNumber
<1> QED
  BY <1>1, <1>4, <1>5, <1>6

LEMMA JoinedNat ==
  ASSUME NEW a \in Seq(Nat)
  PROVE  Joined(a) \in Nat /\ Joined(a) = IF Len(a) = 0 THEN 0 ELSE Total(a) + Len(a) - 1
<1>1. Len(a) \in Nat /\ (a = <<>> <=> Len(a) = 0)
  BY EmptySeq
<1>2. Total(a) \in Nat
  BY TotalNat
<1> QED
  BY <1>1, <1>2 DEF Joined

LEMMA KeySizesNat ==
  ASSUME NEW keys \in Seq(Key)
  PROVE  KeySizes(keys) \in Seq(Nat) /\ Len(KeySizes(keys)) = Len(keys)
<1>1. Len(keys) \in Nat /\ DOMAIN keys = 1..Len(keys) /\ \A i \in 1..Len(keys) : keys[i] \in Key
  OBVIOUS
<1>2. KeySizes(keys) \in [1..Len(keys) -> Nat]
  BY <1>1 DEF KeySizes, Key
<1>3. KeySizes(keys) \in Seq(Nat)
  BY <1>1, <1>2, IsASeq
<1> QED
  BY <1>1, <1>2, <1>3, LenProperties

\* Keeping more takes more room.
LEMMA JoinedGrows ==
  ASSUME NEW keys \in Seq(Key), NEW K, NEW L, K \subseteq L
  PROVE  Joined(KeySizes(Only(keys, K))) <= Joined(KeySizes(Only(keys, L)))
<1> DEFINE n == Len(keys)
           few == Only(keys, K)
           many == Only(keys, L)
           v == Weighed(keys, K)
           w == Weighed(keys, L)
<1>1. n \in Nat /\ \A i \in 1..n : keys[i] \in Key
  OBVIOUS
<1>2. /\ few \in Seq(Key) /\ Len(few) = Cardinality(K \cap (1..n)) /\ v \in Numbers(n)
      /\ Total(KeySizes(few)) + Len(few) = Total(v) /\ Total(KeySizes(few)) \in Int
  BY OnlyWeighs
<1>3. /\ many \in Seq(Key) /\ Len(many) = Cardinality(L \cap (1..n)) /\ w \in Numbers(n)
      /\ Total(KeySizes(many)) + Len(many) = Total(w) /\ Total(KeySizes(many)) \in Int
  BY OnlyWeighs
<1>4. \A i \in 1..n : v[i] <= w[i]
  <2> TAKE i \in 1..n
  <2>1. keys[i].size \in Nat
    BY <1>1 DEF Key
  <2>2. v[i] = (IF i \in K THEN keys[i].size + 1 ELSE 0) /\ w[i] = (IF i \in L THEN keys[i].size + 1 ELSE 0)
    BY DEF Weighed
  <2>3. i \in K => i \in L
    OBVIOUS
  <2> HIDE DEF v, w
  <2> QED
    BY <2>1, <2>2, <2>3
<1> HIDE DEF n, few, many, v, w
<1>5. Total(v) <= Total(w) /\ Total(v) \in Int /\ Total(w) \in Int
  BY <1>1, <1>2, <1>3, <1>4, TotalLess, TotalNumber
<1>6. Cardinality(K \cap (1..n)) <= Cardinality(L \cap (1..n))
  <2>1. IsFiniteSet(1..n)
    BY <1>1, FS_Interval
  <2>2. IsFiniteSet(L \cap (1..n))
    BY <2>1, FS_Intersection
  <2>3. K \cap (1..n) \in SUBSET (L \cap (1..n))
    OBVIOUS
  <2> QED
    BY <2>2, <2>3, FS_Subset
<1>7. /\ KeySizes(few) \in Seq(Nat) /\ Len(KeySizes(few)) = Len(few)
      /\ KeySizes(many) \in Seq(Nat) /\ Len(KeySizes(many)) = Len(many)
  BY <1>2, <1>3, KeySizesNat
<1>8. /\ Joined(KeySizes(few)) \in Nat /\ Joined(KeySizes(many)) \in Nat
      /\ Joined(KeySizes(few)) = IF Len(few) = 0 THEN 0 ELSE Total(KeySizes(few)) + Len(few) - 1
      /\ Joined(KeySizes(many)) = IF Len(many) = 0 THEN 0 ELSE Total(KeySizes(many)) + Len(many) - 1
  BY <1>7, JoinedNat
<1>9. Len(few) \in Nat
  <2>1. few \in Seq(Key)
    BY <1>2
  <2> QED
    BY <2>1
<1>10. Len(many) \in Nat
  <2>1. many \in Seq(Key)
    BY <1>3
  <2> QED
    BY <2>1
<1>11. Len(few) <= Len(many)
  BY <1>2, <1>3, <1>6
<1>12. CASE Len(few) = 0
  <2>1. Joined(KeySizes(few)) = 0 /\ Joined(KeySizes(many)) \in Nat
    BY <1>8, <1>12
  <2> QED
    BY <2>1 DEF few, many
<1>13. CASE Len(few) # 0
  <2>1. Len(many) # 0
    BY <1>9, <1>10, <1>11, <1>13
  <2>2. Joined(KeySizes(few)) = Total(v) - 1
    BY <1>2, <1>8, <1>9, <1>13
  <2>3. Joined(KeySizes(many)) = Total(w) - 1
    BY <1>3, <1>8, <1>10, <2>1
  <2> QED
    BY <1>5, <2>2, <2>3 DEF few, many
<1> QED
  BY <1>12, <1>13

-----------------------------------------------------------------------------
(* _select_visited_keys                                                    *)

\* Of the overnight city first, then the latest.
KeptLonger(keys, i, j) == IF keys[i].here # keys[j].here THEN keys[i].here ELSE i > j
ByHere(keys, n) == { p \in (1..n) \X (1..n) : KeptLonger(keys, p[1], p[2]) }
First(keys, n) == { i \in 1..Len(keys) : Rank(ByHere(keys, Len(keys)), Len(keys), i) < n }

LEMMA ByHereOrders ==
  ASSUME NEW keys \in Seq(Key)
  PROVE  LET n == Len(keys) IN
         /\ Orders(ByHere(keys, n), n)
         /\ \A i, j \in 1..n : <<i, j>> \in ByHere(keys, n) <=> KeptLonger(keys, i, j)
<1> DEFINE n == Len(keys)
<1>1. n \in Nat /\ \A i \in 1..n : keys[i].here \in BOOLEAN
  <2>1. n \in Nat /\ \A i \in 1..n : keys[i] \in Key
    OBVIOUS
  <2> QED
    BY <2>1 DEF Key
<1> HIDE DEF n
<1>2. \A i, j \in 1..n : <<i, j>> \in ByHere(keys, n) <=> KeptLonger(keys, i, j)
  BY DEF ByHere
<1>3. \A i \in 1..n : ~KeptLonger(keys, i, i)
  BY <1>1 DEF KeptLonger
<1>4. \A i, j \in 1..n : i = j \/ KeptLonger(keys, i, j) \/ KeptLonger(keys, j, i)
  BY <1>1 DEF KeptLonger
<1>5. ASSUME NEW i \in 1..n, NEW j \in 1..n, NEW k \in 1..n,
             KeptLonger(keys, i, j), KeptLonger(keys, j, k)
      PROVE  KeptLonger(keys, i, k)
  <2>1. keys[i].here \in BOOLEAN /\ keys[j].here \in BOOLEAN /\ keys[k].here \in BOOLEAN
    BY <1>1
  <2>2. i > j /\ j > k => i > k
    BY <1>1
  <2> QED
    BY <1>5, <2>1, <2>2 DEF KeptLonger
<1>6. Orders(ByHere(keys, n), n)
  BY <1>2, <1>3, <1>4, <1>5 DEF Orders
<1> QED
  BY <1>2, <1>6 DEF n

LEMMA SelectIs ==
  ASSUME NEW keys \in Seq(Key), NEW n \in 0..Len(keys)
  PROVE  /\ Select(keys, n) \in Seq(Key) /\ Len(Select(keys, n)) = n
         /\ Select(keys, n) = Only(keys, First(keys, n))
         /\ Range(Select(keys, n)) = { keys[k] : k \in First(keys, n) }
         /\ \A i \in First(keys, n) : \A j \in (1..Len(keys)) \ First(keys, n) : KeptLonger(keys, i, j)
<1> DEFINE top == Len(keys)
           R == ByHere(keys, top)
           K == First(keys, n)
<1>1. top \in Nat /\ DOMAIN keys = 1..top
  OBVIOUS
<1>2. Orders(R, top) /\ \A i, j \in 1..top : <<i, j>> \in R <=> KeptLonger(keys, i, j)
  BY ByHereOrders
<1>3. \A i \in 1..top : { j \in DOMAIN keys : KeptLonger(keys, j, i) } = Before(R, top, i)
  BY <1>1, <1>2 DEF Before
<1>4. Select(keys, n) = Only(keys, { i \in 1..top :
                          Cardinality({ j \in DOMAIN keys : KeptLonger(keys, j, i) }) < n })
  BY <1>1 DEF Select, KeptLonger
<1>5. { i \in 1..top : Cardinality({ j \in DOMAIN keys : KeptLonger(keys, j, i) }) < n } = K
  BY <1>3 DEF Rank, First
<1>6. Select(keys, n) = Only(keys, K)
  BY <1>4, <1>5
<1>7. Cardinality(K) = n /\ K \subseteq 1..top
  <2>1. Cardinality({ i \in 1..top : Rank(R, top, i) < n }) = n
    <3> HIDE DEF R, top
    <3>1. n \in 0..top
      BY DEF top
    <3> QED
      BY <1>1, <1>2, <3>1, RankCounts
  <2> QED
    BY <2>1 DEF First
<1> HIDE DEF K
<1>8. K \cap (1..top) = K
  BY <1>7
<1>9. Only(keys, K) \in Seq(Key) /\ Len(Only(keys, K)) = Cardinality(K \cap (1..top))
  BY OnlyWeighs
<1>10. Range(Only(keys, K)) = { keys[k] : k \in K }
  BY <1>8, OnlyHasAll
<1>11. ASSUME NEW i \in K, NEW j \in (1..top) \ K PROVE KeptLonger(keys, i, j)
  <2>1. i \in 1..top /\ j \in 1..top /\ Rank(R, top, i) < n /\ ~(Rank(R, top, j) < n)
    BY DEF K, First
  <2>2. Rank(R, top, i) \in 0..(top - 1) /\ Rank(R, top, j) \in 0..(top - 1)
    <3> HIDE DEF R, top
    <3> QED
      BY <1>1, <1>2, <2>1, RankIs
  <2>3. <<j, i>> \in R => Rank(R, top, j) < Rank(R, top, i)
    <3> HIDE DEF R, top
    <3> QED
      BY <1>1, <1>2, <2>1, RankIs
  <2>4. <<j, i>> \notin R /\ i # j
    <3> HIDE DEF R, top
    <3> QED
      BY <1>1, <2>1, <2>2, <2>3
  <2>5. <<i, j>> \in R
    <3> HIDE DEF R, top
    <3> QED
      BY <1>2, <2>1, <2>4 DEF Orders
  <2> QED
    BY <1>2, <2>1, <2>5
<1> HIDE DEF top, R
<1>12. \A i \in K : \A j \in (1..top) \ K : KeptLonger(keys, i, j)
  BY <1>11
<1> QED
  BY <1>6, <1>7, <1>8, <1>9, <1>10, <1>12 DEF top, K

\* Keeping a key more takes more room; keeping none takes none.
LEMMA SelectGrows ==
  ASSUME NEW keys \in Seq(Key), NEW m \in 0..Len(keys), NEW n \in 0..Len(keys), m <= n
  PROVE  Joined(KeySizes(Select(keys, m))) <= Joined(KeySizes(Select(keys, n)))
<1> DEFINE top == Len(keys)
           R == ByHere(keys, top)
<1>1. top \in Nat
  OBVIOUS
<1>2. First(keys, m) \subseteq First(keys, n)
  <2>1. \A i \in 1..top : Rank(R, top, i) \in 0..(top - 1)
    <3>1. Orders(R, top)
      BY ByHereOrders
    <3> HIDE DEF R, top
    <3> QED
      BY <1>1, <3>1, RankIs
  <2>2. \A i \in 1..top : Rank(R, top, i) < m => Rank(R, top, i) < n
    <3> HIDE DEF R
    <3> TAKE i \in 1..top
    <3>1. Rank(R, top, i) \in Int
      BY <2>1
    <3> QED
      BY <3>1
  <2> QED
    BY <2>2 DEF First
<1>3. Select(keys, m) = Only(keys, First(keys, m)) /\ Select(keys, n) = Only(keys, First(keys, n))
  BY SelectIs
<1> QED
  BY <1>2, <1>3, JoinedGrows

-----------------------------------------------------------------------------
(* The cuts                                                                *)

\* The prompt fields, the stops of the route taken from S.
Inputs(S) == [rest : Nat, visited : Seq(Key), prior : Seq(Nat), route : [stops : Seq(S), prose : Nat],
              prefs : Nat, target : 0..7]

\* Their characters.
Chars(rest, visited, prior, route, prefs) ==
  rest + Joined(KeySizes(visited)) + Joined(prior) + RouteSize(route) + prefs

LEMMA InputsAre ==
  ASSUME NEW S, NEW in \in Inputs(S)
  PROVE  /\ in = [rest |-> in.rest, visited |-> in.visited, prior |-> in.prior, route |-> in.route,
                  prefs |-> in.prefs, target |-> in.target]
         /\ in.rest \in Nat /\ in.visited \in Seq(Key) /\ in.prior \in Seq(Nat)
         /\ in.route \in [stops : Seq(S), prose : Nat] /\ in.prefs \in Nat /\ in.target \in 0..7
<1> DEFINE V == Seq(Key)
           P == Seq(Nat)
           R == [stops : Seq(S), prose : Nat]
<1>1. in \in [rest : Nat, visited : V, prior : P, route : R, prefs : Nat, target : 0..7]
  BY DEF Inputs
<1> HIDE DEF V, P, R
<1>2. /\ in = [rest |-> in.rest, visited |-> in.visited, prior |-> in.prior, route |-> in.route,
               prefs |-> in.prefs, target |-> in.target]
      /\ in.rest \in Nat /\ in.visited \in V /\ in.prior \in P
      /\ in.route \in R /\ in.prefs \in Nat /\ in.target \in 0..7
  BY <1>1
<1> QED
  BY <1>2 DEF V, P, R

LEMMA InputsOf ==
  ASSUME NEW S, NEW rest \in Nat, NEW visited \in Seq(Key), NEW prior \in Seq(Nat),
         NEW route \in [stops : Seq(S), prose : Nat], NEW prefs \in Nat, NEW target \in 0..7
  PROVE  [rest |-> rest, visited |-> visited, prior |-> prior, route |-> route,
          prefs |-> prefs, target |-> target] \in Inputs(S)
  BY DEF Inputs

LEMMA RouteSizeNat ==
  ASSUME NEW S, NEW route \in [stops : Seq(S), prose : Nat]
  PROVE  RouteSize(route) \in Nat
<1> DEFINE Q == Seq(S)
<1>1. route \in [stops : Q, prose : Nat]
  OBVIOUS
<1> HIDE DEF Q
<1>2. route.stops \in Q /\ route.prose \in Nat
  BY <1>1
<1>3. Len(route.stops) \in Nat
  BY <1>2 DEF Q
<1> QED
  BY <1>2, <1>3 DEF RouteSize

LEMMA SizeIs ==
  ASSUME NEW S, NEW in \in Inputs(S)
  PROVE  /\ Size(in) = Chars(in.rest, in.visited, in.prior, in.route, in.prefs)
         /\ in.rest \in Nat /\ Joined(KeySizes(in.visited)) \in Nat /\ Joined(in.prior) \in Nat
         /\ RouteSize(in.route) \in Nat /\ in.prefs \in Nat /\ Size(in) \in Nat
         /\ Fits(in) <=> Size(in) <= Budget
<1>1. in.visited \in Seq(Key)
  BY InputsAre
<1>2. in.prior \in Seq(Nat)
  BY InputsAre
<1>3. in.route \in [stops : Seq(S), prose : Nat]
  BY InputsAre
<1>4. in.rest \in Nat /\ in.prefs \in Nat
  BY InputsAre
<1>5. KeySizes(in.visited) \in Seq(Nat)
  BY <1>1, KeySizesNat
<1>6. Joined(KeySizes(in.visited)) \in Nat /\ Joined(in.prior) \in Nat
  BY <1>2, <1>5, JoinedNat
<1>7. RouteSize(in.route) \in Nat
  BY <1>3, RouteSizeNat
<1> QED
  BY <1>4, <1>6, <1>7 DEF Size, Chars, Fits

\* One field replaced.
LEMMA Replaced ==
  ASSUME NEW S, NEW in \in Inputs(S)
  PROVE  /\ \A x : [in EXCEPT !.visited = x] =
              [rest |-> in.rest, visited |-> x, prior |-> in.prior, route |-> in.route,
               prefs |-> in.prefs, target |-> in.target]
         /\ \A x : [in EXCEPT !.prior = x] =
              [rest |-> in.rest, visited |-> in.visited, prior |-> x, route |-> in.route,
               prefs |-> in.prefs, target |-> in.target]
         /\ \A x : [in EXCEPT !.route = x] =
              [rest |-> in.rest, visited |-> in.visited, prior |-> in.prior, route |-> x,
               prefs |-> in.prefs, target |-> in.target]
         /\ \A x : [in EXCEPT !.prefs = x] =
              [rest |-> in.rest, visited |-> in.visited, prior |-> in.prior, route |-> in.route,
               prefs |-> x, target |-> in.target]
<1>1. in = [rest |-> in.rest, visited |-> in.visited, prior |-> in.prior, route |-> in.route,
            prefs |-> in.prefs, target |-> in.target]
  BY InputsAre
<1> QED
  BY <1>1

LEMMA VisitedReplaced ==
  ASSUME NEW S, NEW in \in Inputs(S), NEW x \in Seq(Key)
  PROVE  LET new == [in EXCEPT !.visited = x] IN
         /\ new \in Inputs(S)
         /\ new.rest = in.rest /\ new.visited = x /\ new.prior = in.prior /\ new.route = in.route
         /\ new.prefs = in.prefs /\ new.target = in.target
<1> DEFINE new == [in EXCEPT !.visited = x]
<1>1. new = [rest |-> in.rest, visited |-> x, prior |-> in.prior, route |-> in.route,
             prefs |-> in.prefs, target |-> in.target]
  BY Replaced
<1> HIDE DEF new
<1>2. new \in Inputs(S)
  BY <1>1, InputsAre, InputsOf
<1> QED
  BY <1>1, <1>2 DEF new

LEMMA PriorReplaced ==
  ASSUME NEW S, NEW in \in Inputs(S), NEW x \in Seq(Nat)
  PROVE  LET new == [in EXCEPT !.prior = x] IN
         /\ new \in Inputs(S)
         /\ new.rest = in.rest /\ new.visited = in.visited /\ new.prior = x /\ new.route = in.route
         /\ new.prefs = in.prefs /\ new.target = in.target
<1> DEFINE new == [in EXCEPT !.prior = x]
<1>1. new = [rest |-> in.rest, visited |-> in.visited, prior |-> x, route |-> in.route,
             prefs |-> in.prefs, target |-> in.target]
  BY Replaced
<1> HIDE DEF new
<1>2. new \in Inputs(S)
  BY <1>1, InputsAre, InputsOf
<1> QED
  BY <1>1, <1>2 DEF new

LEMMA RouteReplaced ==
  ASSUME NEW S, NEW in \in Inputs(S), NEW x \in [stops : Seq(S), prose : Nat]
  PROVE  LET new == [in EXCEPT !.route = x] IN
         /\ new \in Inputs(S)
         /\ new.rest = in.rest /\ new.visited = in.visited /\ new.prior = in.prior /\ new.route = x
         /\ new.prefs = in.prefs /\ new.target = in.target
<1> DEFINE new == [in EXCEPT !.route = x]
<1>1. new = [rest |-> in.rest, visited |-> in.visited, prior |-> in.prior, route |-> x,
             prefs |-> in.prefs, target |-> in.target]
  BY Replaced
<1> HIDE DEF new
<1>2. new \in Inputs(S)
  BY <1>1, InputsAre, InputsOf
<1> QED
  BY <1>1, <1>2 DEF new

LEMMA PrefsReplaced ==
  ASSUME NEW S, NEW in \in Inputs(S), NEW x \in Nat
  PROVE  LET new == [in EXCEPT !.prefs = x] IN
         /\ new \in Inputs(S)
         /\ new.rest = in.rest /\ new.visited = in.visited /\ new.prior = in.prior /\ new.route = in.route
         /\ new.prefs = x /\ new.target = in.target
<1> DEFINE new == [in EXCEPT !.prefs = x]
<1>1. new = [rest |-> in.rest, visited |-> in.visited, prior |-> in.prior, route |-> in.route,
             prefs |-> x, target |-> in.target]
  BY Replaced
<1> HIDE DEF new
<1>2. new \in Inputs(S)
  BY <1>1, InputsAre, InputsOf
<1> QED
  BY <1>1, <1>2 DEF new

\* _slim_already_visited_to_fit: as many keys as fit.
LEMMA SlimVisitedIs ==
  ASSUME NEW S, NEW in \in Inputs(S)
  PROVE  \E m \in 0..Len(in.visited) :
           /\ SlimVisited(in) = [in EXCEPT !.visited = Select(in.visited, m)]
           /\ m > 0 => Fits(SlimVisited(in))
           /\ Fits([in EXCEPT !.visited = Select(in.visited, 0)]) => Fits(SlimVisited(in))
           /\ \A n \in 0..Len(in.visited) : n > m => ~Fits([in EXCEPT !.visited = Select(in.visited, n)])
<1> DEFINE top == Len(in.visited)
           With(n) == [in EXCEPT !.visited = Select(in.visited, n)]
           fits == [n \in 0..top |-> Fits(With(n))]
           m == Search(fits, top)
<1>1. in.visited \in Seq(Key)
  BY InputsAre
<1>2. top \in Nat
  BY <1>1
<1>3. \A i, j \in 0..top : i <= j /\ Fits(With(j)) => Fits(With(i))
  <2> SUFFICES ASSUME NEW i \in 0..top, NEW j \in 0..top, i <= j, Fits(With(j)) PROVE Fits(With(i))
    OBVIOUS
  <2>1. Select(in.visited, i) \in Seq(Key) /\ Select(in.visited, j) \in Seq(Key)
    BY <1>1, SelectIs
  <2>2. Joined(KeySizes(Select(in.visited, i))) <= Joined(KeySizes(Select(in.visited, j)))
    BY <1>1, SelectGrows
  <2> DEFINE a == With(i)
             b == With(j)
  <2>3. /\ a \in Inputs(S) /\ a.rest = in.rest /\ a.visited = Select(in.visited, i) /\ a.prior = in.prior
        /\ a.route = in.route /\ a.prefs = in.prefs
    BY <2>1, VisitedReplaced
  <2>4. /\ b \in Inputs(S) /\ b.rest = in.rest /\ b.visited = Select(in.visited, j) /\ b.prior = in.prior
        /\ b.route = in.route /\ b.prefs = in.prefs
    BY <2>1, VisitedReplaced
  <2>5. Fits(b)
    OBVIOUS
  <2> HIDE DEF a, b, With, top
  <2>6. /\ Size(a) = Chars(in.rest, a.visited, in.prior, in.route, in.prefs)
        /\ Joined(KeySizes(a.visited)) \in Nat /\ (Fits(a) <=> Size(a) <= Budget)
    BY <2>3, SizeIs
  <2>7. /\ Size(b) = Chars(in.rest, b.visited, in.prior, in.route, in.prefs)
        /\ Joined(KeySizes(b.visited)) \in Nat /\ (Fits(b) <=> Size(b) <= Budget)
    BY <2>4, SizeIs
  <2>8. /\ in.rest \in Nat /\ Joined(in.prior) \in Nat /\ RouteSize(in.route) \in Nat /\ in.prefs \in Nat
    BY SizeIs
  <2>9. Joined(KeySizes(a.visited)) <= Joined(KeySizes(b.visited))
    BY <2>2, <2>3, <2>4
  <2>10. Fits(a)
    BY <2>5, <2>6, <2>7, <2>8, <2>9, BudgetAssumption DEF Chars
  <2> QED
    BY <2>10 DEF a
<1>4. \A n \in 0..top : fits[n] = Fits(With(n))
  OBVIOUS
<1>5. \A i, j \in 0..top : i <= j /\ fits[j] => fits[i]
  BY <1>3, <1>4
<1>6. SlimVisited(in) = With(m)
  BY DEF SlimVisited
<1> HIDE DEF top, With, fits, m
<1>7. /\ m \in 0..top /\ (m > 0 => fits[m]) /\ (fits[0] => fits[m])
      /\ \A n \in 0..top : n > m => ~fits[n]
  BY <1>2, <1>5, SearchIs DEF m
<1>8. 0 \in 0..top
  BY <1>2
<1>9. /\ m > 0 => Fits(With(m))
      /\ Fits(With(0)) => Fits(With(m))
      /\ \A n \in 0..top : n > m => ~Fits(With(n))
  BY <1>4, <1>7, <1>8
<1> QED
  BY <1>6, <1>7, <1>9 DEF top, With

\* _slim_prior_days_to_fit: too long with no line left only.
LEMMA SlimPriorIs ==
  ASSUME NEW S, NEW in \in Inputs(S)
  PROVE  \E x \in Seq(Nat) : /\ SlimPrior(in) = [in EXCEPT !.prior = x]
                             /\ Fits(SlimPrior(in)) \/ x = <<>>
<1> DEFINE n == Len(in.prior)
           good == { k \in 0..n - 1 : Fits([in EXCEPT !.prior = SubSeq(in.prior, k + 1, n)]) }
           x == IF good = {} THEN <<>> ELSE SubSeq(in.prior, Min(good) + 1, n)
<1>1. in.prior \in Seq(Nat)
  BY InputsAre
<1>2. n \in Nat
  BY <1>1
<1>3. SlimPrior(in) = [in EXCEPT !.prior = x]
  <2>1. \A k \in 0..n - 1 : [in EXCEPT !.prior = SubSeq(@, k + 1, Len(@))] =
                            [in EXCEPT !.prior = SubSeq(in.prior, k + 1, n)]
    OBVIOUS
  <2> QED
    BY <2>1 DEF SlimPrior
<1>4. good # {} => Min(good) \in good
  <2>1. good \subseteq Nat
    BY <1>2
  <2> HIDE DEF good
  <2>2. good # {} => \E k \in good : \A j \in good : k <= j
    BY <2>1, LeastOf
  <2> QED
    BY <2>2 DEF Min
<1>5. CASE good = {}
  <2>1. x = <<>> /\ <<>> \in Seq(Nat)
    BY <1>5
  <2> QED
    BY <1>3, <2>1
<1>6. CASE good # {}
  <2>1. Min(good) \in good /\ x = SubSeq(in.prior, Min(good) + 1, n)
    BY <1>4, <1>6
  <2>2. Min(good) \in 0..(n - 1) /\ Fits([in EXCEPT !.prior = SubSeq(in.prior, Min(good) + 1, n)])
    BY <2>1
  <2> HIDE DEF good, x
  <2>3. x \in Seq(Nat)
    <3>1. Min(good) + 1 \in 1..(n + 1) /\ n \in 0..n
      BY <1>2, <2>2
    <3> QED
      BY <1>1, <2>1, <3>1
  <2>4. Fits(SlimPrior(in))
    BY <1>3, <2>1, <2>2
  <2> QED
    BY <1>3, <2>3, <2>4
<1> QED
  BY <1>5, <1>6

\* A stop of the overnight city, or one that holds the day.
SaysWhere(s) == s.city = Today.city \/ (s.arrival <= Today.day /\ Today.day <= s.departure)
Stub == [city |-> Today.city, arrival |-> Today.day, departure |-> Today.day]

\* _slim_city_route_to_fit: a route that is left says where the day is spent.
LEMMA SlimRouteIs ==
  ASSUME NEW S, Stub \in S, NEW in \in Inputs(S)
  PROVE  \E x \in [stops : Seq(S), prose : Nat] :
           /\ SlimRoute(in) = [in EXCEPT !.route = x]
           /\ Fits(SlimRoute(in)) \/ x.stops = <<>>
           /\ x.stops # <<>> => \E s \in Range(x.stops) : SaysWhere(s)
<1> DEFINE stops == in.route.stops
           K == { i \in DOMAIN stops : stops[i].city = Today.city \/
                    (stops[i].arrival <= Today.day /\ Today.day <= stops[i].departure) }
           kept == Only(stops, K)
           window == Windowed(in.route)
           none == [stops |-> <<>>, prose |-> 0]
           fits(r) == stops # <<>> /\ Fits([in EXCEPT !.route = r])
<1>1. stops \in Seq(S)
  <2> DEFINE Q == Seq(S)
  <2>1. in.route \in [stops : Q, prose : Nat]
    BY InputsAre
  <2> HIDE DEF Q
  <2>2. stops \in Q
    BY <2>1
  <2> QED
    BY <2>2 DEF Q
<1>2. /\ MinimalRoute = [stops |-> <<Stub>>, prose |-> 0] /\ <<Stub>> \in Seq(S)
      /\ \E s \in Range(<<Stub>>) : SaysWhere(s)
  <2>1. MinimalRoute = [stops |-> <<Stub>>, prose |-> 0]
    BY DEF MinimalRoute, Stub
  <2>2. <<Stub>> \in Seq(S)
    OBVIOUS
  <2>3. Stub \in Range(<<Stub>>)
    <3>1. 1 \in DOMAIN <<Stub>> /\ <<Stub>>[1] = Stub
      OBVIOUS
    <3> QED
      BY <3>1 DEF Range
  <2>4. SaysWhere(Stub)
    BY DEF SaysWhere, Stub
  <2> QED
    BY <2>1, <2>2, <2>3, <2>4
<1>3. kept \in Seq(S) /\ (kept # <<>> => \E s \in Range(kept) : SaysWhere(s))
  <2>1. kept \in Seq(S)
    BY <1>1, OnlyIs
  <2>2. Range(kept) = { stops[k] : k \in K \cap (1..Len(stops)) }
    BY <1>1, OnlyHasAll
  <2>3. ASSUME kept # <<>> PROVE \E s \in Range(kept) : SaysWhere(s)
    <3>1. kept[1] \in Range(kept)
      <4>1. Len(kept) \in Nat /\ Len(kept) # 0 /\ DOMAIN kept = 1..Len(kept)
        <5> HIDE DEF kept
        <5> QED
          BY <2>1, <2>3, EmptySeq
      <4>2. 1 \in DOMAIN kept
        BY <4>1
      <4> HIDE DEF kept
      <4> QED
        BY <4>2 DEF Range
    <3>2. PICK k \in K : kept[1] = stops[k]
      BY <2>2, <3>1
    <3>3. SaysWhere(kept[1])
      BY <3>2 DEF SaysWhere
    <3> QED
      BY <3>1, <3>3
  <2> QED
    BY <2>1, <2>3
<1>4. window = IF kept = <<>> THEN MinimalRoute ELSE [stops |-> kept, prose |-> 0]
  BY DEF Windowed
<1>5. SlimRoute(in) = [in EXCEPT !.route = IF fits(window) THEN window
                                           ELSE IF fits(MinimalRoute) THEN MinimalRoute ELSE none]
  BY DEF SlimRoute
<1> HIDE DEF K, kept, window, stops
<1>6. window.stops \in Seq(S) /\ window.prose = 0 /\ window = [stops |-> window.stops, prose |-> 0]
      /\ \E s \in Range(window.stops) : SaysWhere(s)
  <2>1. CASE kept = <<>>
    BY <1>2, <1>4, <2>1
  <2>2. CASE kept # <<>>
    <3>1. window = [stops |-> kept, prose |-> 0]
      BY <1>4, <2>2
    <3>2. window.stops = kept /\ window.prose = 0 /\ window = [stops |-> window.stops, prose |-> 0]
      BY <3>1
    <3> QED
      BY <1>3, <2>2, <3>2
  <2> QED
    BY <2>1, <2>2
<1>7. \A q \in Seq(S) : [stops |-> q, prose |-> 0] \in [stops : Seq(S), prose : Nat]
  OBVIOUS
<1>8. CASE fits(window)
  <2>1. window \in [stops : Seq(S), prose : Nat]
    BY <1>6, <1>7
  <2>2. SlimRoute(in) = [in EXCEPT !.route = window] /\ Fits(SlimRoute(in))
    BY <1>5, <1>8
  <2> QED
    BY <1>6, <2>1, <2>2
<1>9. CASE ~fits(window) /\ fits(MinimalRoute)
  <2>1. MinimalRoute \in [stops : Seq(S), prose : Nat]
    BY <1>2, <1>7
  <2>2. SlimRoute(in) = [in EXCEPT !.route = MinimalRoute] /\ Fits(SlimRoute(in))
    BY <1>5, <1>9
  <2>3. MinimalRoute.stops = <<Stub>>
    BY <1>2
  <2> QED
    BY <1>2, <2>1, <2>2, <2>3
<1>10. CASE ~fits(window) /\ ~fits(MinimalRoute)
  <2>1. <<>> \in Seq(S)
    OBVIOUS
  <2>2. none \in [stops : Seq(S), prose : Nat]
    BY <1>7, <2>1
  <2>3. SlimRoute(in) = [in EXCEPT !.route = none] /\ none.stops = <<>>
    BY <1>5, <1>10
  <2> QED
    BY <2>2, <2>3
<1> QED
  BY <1>8, <1>9, <1>10

\* _slim_preferences_to_fit: as many characters as fit.
LEMMA SlimPrefsIs ==
  ASSUME NEW S, NEW in \in Inputs(S)
  PROVE  \E m \in 0..in.prefs :
           /\ SlimPrefs(in) = [in EXCEPT !.prefs = m]
           /\ m > 0 => Fits(SlimPrefs(in))
           /\ m < in.prefs => ~Fits([in EXCEPT !.prefs = m + 1])
<1> DEFINE top == in.prefs
           With(n) == [in EXCEPT !.prefs = n]
           fits == [n \in 0..top |-> Fits(With(n))]
           m == Search(fits, top)
<1>1. top \in Nat
  BY InputsAre
<1>2. \A i, j \in 0..top : i <= j /\ Fits(With(j)) => Fits(With(i))
  <2> SUFFICES ASSUME NEW i \in 0..top, NEW j \in 0..top, i <= j, Fits(With(j)) PROVE Fits(With(i))
    OBVIOUS
  <2> DEFINE a == With(i)
             b == With(j)
  <2>1. i \in Nat /\ j \in Nat
    BY <1>1
  <2>2. /\ a \in Inputs(S) /\ a.rest = in.rest /\ a.visited = in.visited /\ a.prior = in.prior
        /\ a.route = in.route /\ a.prefs = i
    BY <2>1, PrefsReplaced
  <2>3. /\ b \in Inputs(S) /\ b.rest = in.rest /\ b.visited = in.visited /\ b.prior = in.prior
        /\ b.route = in.route /\ b.prefs = j
    BY <2>1, PrefsReplaced
  <2>4. Fits(b)
    OBVIOUS
  <2> HIDE DEF a, b, With, top
  <2>5. /\ Size(a) = Chars(in.rest, in.visited, in.prior, in.route, i)
        /\ (Fits(a) <=> Size(a) <= Budget)
    BY <2>2, SizeIs
  <2>6. /\ Size(b) = Chars(in.rest, in.visited, in.prior, in.route, j)
        /\ (Fits(b) <=> Size(b) <= Budget)
    BY <2>3, SizeIs
  <2>7. /\ in.rest \in Nat /\ Joined(KeySizes(in.visited)) \in Nat /\ Joined(in.prior) \in Nat
        /\ RouteSize(in.route) \in Nat
    BY SizeIs
  <2>8. Fits(a)
    BY <2>1, <2>4, <2>5, <2>6, <2>7, BudgetAssumption DEF Chars
  <2> QED
    BY <2>8 DEF a
<1>3. \A n \in 0..top : fits[n] = Fits(With(n))
  OBVIOUS
<1>4. \A i, j \in 0..top : i <= j /\ fits[j] => fits[i]
  BY <1>2, <1>3
<1>5. SlimPrefs(in) = With(m)
  BY DEF SlimPrefs
<1> HIDE DEF top, With, fits, m
<1>6. /\ m \in 0..top /\ (m > 0 => fits[m])
      /\ \A n \in 0..top : n > m => ~fits[n]
  BY <1>1, <1>4, SearchIs DEF m
<1>7. m < top => m + 1 \in 0..top /\ m + 1 > m
  BY <1>1, <1>6
<1>8. /\ m > 0 => Fits(With(m))
      /\ m < top => ~Fits(With(m + 1))
  BY <1>3, <1>6, <1>7
<1> QED
  BY <1>5, <1>6, <1>8 DEF top, With

-----------------------------------------------------------------------------
(* The prompt that a crew gets                                             *)

\* Keys are listed once.
Distinct(keys) == \A i, j \in 1..Len(keys) : keys[i] = keys[j] => i = j

\* The first cut, if it is made: of the visited keys those kept longest, and no more
\* of them go than must.
LEMMA VisitedCut ==
  ASSUME NEW S, NEW in \in Inputs(S), Distinct(in.visited)
  PROVE  LET v == IF Fits(in) THEN in ELSE SlimVisited(in) IN
         /\ v \in Inputs(S) /\ v = [in EXCEPT !.visited = v.visited]
         /\ v.prior = in.prior /\ v.route = in.route /\ v.prefs = in.prefs /\ v.target = in.target
         /\ Fits(v) \/ v.visited = <<>>
         /\ Fits([in EXCEPT !.visited = <<>>]) => Fits(v)
         /\ \A n \in 1..Len(in.visited) :
              Fits([in EXCEPT !.visited = Select(in.visited, n)]) => Len(v.visited) >= n
         /\ \A i, j \in DOMAIN in.visited :
              in.visited[i] \in Range(v.visited) /\ in.visited[j] \notin Range(v.visited)
              => KeptLonger(in.visited, i, j)
<1> DEFINE keys == in.visited
           top == Len(keys)
           v == IF Fits(in) THEN in ELSE SlimVisited(in)
<1>1. keys \in Seq(Key)
  BY InputsAre
<1>2. top \in Nat /\ DOMAIN keys = 1..top
  BY <1>1
<1>3. CASE Fits(in)
  <2>1. v = in
    BY <1>3
  <2>2. in = [in EXCEPT !.visited = in.visited]
    <3>1. in = [rest |-> in.rest, visited |-> in.visited, prior |-> in.prior, route |-> in.route,
                prefs |-> in.prefs, target |-> in.target]
      BY InputsAre
    <3> QED
      BY <3>1
  <2>3. \A n \in 1..Len(in.visited) : Len(in.visited) >= n
    BY <1>2
  <2>4. \A j \in DOMAIN in.visited : in.visited[j] \in Range(in.visited)
    BY DEF Range
  <2> HIDE DEF v
  <2> QED
    BY <1>3, <2>1, <2>2, <2>3, <2>4 DEF v
<1>4. CASE ~Fits(in)
  <2>1. PICK m \in 0..top :
           /\ SlimVisited(in) = [in EXCEPT !.visited = Select(keys, m)]
           /\ m > 0 => Fits(SlimVisited(in))
           /\ Fits([in EXCEPT !.visited = Select(keys, 0)]) => Fits(SlimVisited(in))
           /\ \A n \in 0..top : n > m => ~Fits([in EXCEPT !.visited = Select(keys, n)])
    BY SlimVisitedIs
  <2>2. v = [in EXCEPT !.visited = Select(keys, m)] /\ v = SlimVisited(in)
    BY <1>4, <2>1
  <2>3. /\ Select(keys, m) \in Seq(Key) /\ Len(Select(keys, m)) = m
        /\ Range(Select(keys, m)) = { keys[k] : k \in First(keys, m) }
        /\ \A i \in First(keys, m) : \A j \in (1..top) \ First(keys, m) : KeptLonger(keys, i, j)
    BY <1>1, SelectIs
  <2> HIDE DEF v
  <2>4. /\ v \in Inputs(S) /\ v.visited = Select(keys, m) /\ v.prior = in.prior
        /\ v.route = in.route /\ v.prefs = in.prefs /\ v.target = in.target
    <3>1. Select(keys, m) \in Seq(Key)
      BY <2>3
    <3> HIDE DEF keys
    <3> QED
      BY <2>2, <3>1, VisitedReplaced
  <2>5. Select(keys, 0) = <<>>
    <3>1. 0 \in 0..top
      BY <1>2
    <3>2. Select(keys, 0) \in Seq(Key) /\ Len(Select(keys, 0)) = 0
      BY <1>1, <3>1, SelectIs
    <3> QED
      BY <3>2, EmptySeq
  <2>6. Fits(v) \/ v.visited = <<>>
    <3>1. CASE m = 0
      BY <2>4, <2>5, <3>1
    <3>2. CASE m # 0
      <4>1. m > 0
        BY <1>2, <3>2
      <4> QED
        BY <2>1, <2>2, <4>1
    <3> QED
      BY <3>1, <3>2
  <2>7. Fits([in EXCEPT !.visited = <<>>]) => Fits(v)
    BY <2>1, <2>2, <2>5
  <2>8. \A n \in 1..top : Fits([in EXCEPT !.visited = Select(keys, n)]) => Len(v.visited) >= n
    <3> SUFFICES ASSUME NEW n \in 1..top, Fits([in EXCEPT !.visited = Select(keys, n)])
                 PROVE  Len(v.visited) >= n
      OBVIOUS
    <3>1. ~(n > m) /\ n \in 0..top
      BY <1>2, <2>1
    <3>2. Len(v.visited) = m
      BY <2>3, <2>4
    <3> QED
      BY <1>2, <3>1, <3>2
  <2>9. \A i, j \in 1..top : keys[i] \in Range(v.visited) /\ keys[j] \notin Range(v.visited)
          => KeptLonger(keys, i, j)
    <3> SUFFICES ASSUME NEW i \in 1..top, NEW j \in 1..top,
                        keys[i] \in Range(v.visited), keys[j] \notin Range(v.visited)
                 PROVE  KeptLonger(keys, i, j)
      OBVIOUS
    <3>1. Range(v.visited) = { keys[k] : k \in First(keys, m) }
      BY <2>3, <2>4
    <3>2. PICK k \in First(keys, m) : keys[i] = keys[k]
      BY <3>1
    <3>3. k = i
      <4>1. k \in 1..top
        BY DEF First
      <4> QED
        BY <3>2, <4>1 DEF Distinct
    <3>4. j \notin First(keys, m)
      BY <3>1
    <3> QED
      BY <2>3, <3>3, <3>4
  <2>10. v = [in EXCEPT !.visited = v.visited]
    BY <2>2, <2>4
  <2> QED
    BY <1>2, <2>4, <2>6, <2>7, <2>8, <2>9, <2>10 DEF v
<1> QED
  BY <1>3, <1>4

\* A retry adds its hint to what is sent, and asks for seven places at most.
LEMMA RetriesFit ==
  ASSUME NEW S, NEW in \in Inputs(S), Fits(in), NEW attempt \in 0..2
  PROVE  /\ Size(PlanRetry(in, attempt)) <= Budget + HintSize + 1
         /\ PlanRetry(in, attempt).target \in in.target..Max({in.target, 7})
<1> DEFINE out == PlanRetry(in, attempt)
           t == in.target
<1>1. /\ in = [rest |-> in.rest, visited |-> in.visited, prior |-> in.prior, route |-> in.route,
               prefs |-> in.prefs, target |-> in.target]
      /\ in.prefs \in Nat /\ t \in 0..7
  BY InputsAre
<1>2. /\ Size(in) = Chars(in.rest, in.visited, in.prior, in.route, in.prefs)
      /\ in.rest \in Nat /\ Joined(KeySizes(in.visited)) \in Nat /\ Joined(in.prior) \in Nat
      /\ RouteSize(in.route) \in Nat /\ Size(in) <= Budget /\ Size(in) \in Nat
  BY SizeIs
<1>3. Budget \in Nat /\ HintSize \in Nat
  BY BudgetAssumption
<1>4. Max({t, 7}) \in {t, 7} /\ Max({t, 7}) >= 7 /\ Max({t, 7}) >= t
  <2>1. t \in Int /\ 7 \in Int
    BY <1>1
  <2> HIDE DEF t
  <2> QED
    BY <2>1, Larger
<1>5. Min({t + 2, 7}) \in {t + 2, 7} /\ Min({t + 2, 7}) <= 7
  <2>1. t + 2 \in Int /\ 7 \in Int
    BY <1>1
  <2>2. LET s == Min({t + 2, 7, 7}) IN s \in {t + 2, 7, 7} /\ s <= 7
    BY <2>1, Smallest
  <2>3. {t + 2, 7, 7} = {t + 2, 7}
    OBVIOUS
  <2> QED
    BY <2>2, <2>3
<1>6. CASE attempt = 0
  <2>1. out = in
    BY <1>6 DEF PlanRetry
  <2>2. t \in t..Max({t, 7})
    BY <1>1, <1>4
  <2>3. Size(in) <= Budget + HintSize + 1
    BY <1>2, <1>3
  <2> QED
    BY <2>1, <2>2, <2>3
<1>7. CASE attempt # 0
  <2> DEFINE more == HintSize + (IF in.prefs = 0 THEN 0 ELSE 1)
             asked == IF attempt = 1 THEN t ELSE Min({t + 2, 7})
  <2>1. out = [in EXCEPT !.prefs = in.prefs + HintSize + (IF in.prefs = 0 THEN 0 ELSE 1), !.target = asked]
    BY <1>7 DEF PlanRetry
  <2>2. out = [rest |-> in.rest, visited |-> in.visited, prior |-> in.prior, route |-> in.route,
               prefs |-> in.prefs + HintSize + (IF in.prefs = 0 THEN 0 ELSE 1), target |-> asked]
    BY <1>1, <2>1
  <2>3. /\ out.rest = in.rest /\ out.visited = in.visited /\ out.prior = in.prior
        /\ out.route = in.route /\ out.prefs = in.prefs + HintSize + (IF in.prefs = 0 THEN 0 ELSE 1)
        /\ out.target = asked
    BY <2>2
  <2> HIDE DEF out, asked
  <2>4. Size(out) = in.rest + Joined(KeySizes(in.visited)) + Joined(in.prior) + RouteSize(in.route) + out.prefs
    BY <2>3 DEF Size
  <2>5. out.prefs <= in.prefs + HintSize + 1 /\ out.prefs \in Nat
    BY <1>1, <1>3, <2>3
  <2>6. Size(out) <= Size(in) + HintSize + 1
    BY <1>1, <1>2, <1>3, <2>4, <2>5 DEF Chars
  <2>7. Size(out) \in Nat
    BY <1>2, <2>4, <2>5
  <2>8. Size(out) <= Budget + HintSize + 1
    BY <1>2, <1>3, <2>6, <2>7
  <2>9. asked \in t..Max({t, 7})
    <3>1. asked = t \/ asked = Min({t + 2, 7})
      BY DEF asked
    <3>2. Min({t + 2, 7}) \in t..Max({t, 7})
      <4> DEFINE s == Min({t + 2, 7})
                 u == Max({t, 7})
      <4>1. s \in {t + 2, 7} /\ s <= 7 /\ u \in {t, 7} /\ u >= 7 /\ t \in 0..7
        BY <1>1, <1>4, <1>5
      <4> HIDE DEF s, u
      <4>2. s \in t..u
        BY <4>1
      <4> QED
        BY <4>2 DEF s, u
    <3>3. t \in t..Max({t, 7})
      BY <1>1, <1>4
    <3> QED
      BY <3>1, <3>2, <3>3
  <2> QED
    BY <2>3, <2>8, <2>9 DEF out
<1> QED
  BY <1>6, <1>7

\* One key more takes its characters and a separator.
LEMMA JoinedAppend ==
  ASSUME NEW keys \in Seq(Key), NEW b \in Key
  PROVE  /\ Append(keys, b) \in Seq(Key)
         /\ Joined(KeySizes(keys)) \in Nat /\ Joined(KeySizes(Append(keys, b))) \in Nat
         /\ Joined(KeySizes(Append(keys, b))) <= Joined(KeySizes(keys)) + b.size + 1
<1> DEFINE more == Append(keys, b)
<1>1. more \in Seq(Key) /\ Len(more) = Len(keys) + 1 /\ Len(keys) \in Nat
  BY AppendProperties
<1>2. b.size \in Nat
  BY DEF Key
<1>3. KeySizes(more) = Append(KeySizes(keys), b.size) /\ KeySizes(keys) \in Seq(Int)
  BY KeySizesAre
<1> HIDE DEF more
<1>4. /\ KeySizes(keys) \in Seq(Nat) /\ Len(KeySizes(keys)) = Len(keys)
      /\ KeySizes(more) \in Seq(Nat) /\ Len(KeySizes(more)) = Len(more)
  BY <1>1, KeySizesNat
<1>5. Total(KeySizes(more)) = Total(KeySizes(keys)) + b.size
  <2> DEFINE sizes == KeySizes(keys)
             z == b.size
  <2>1. sizes \in Seq(Int) /\ z \in Int /\ KeySizes(more) = Append(sizes, z)
    BY <1>2, <1>3
  <2> HIDE DEF sizes, z
  <2>2. Total(Append(sizes, z)) = Total(sizes) + z
    BY <2>1, TotalAppend
  <2> QED
    BY <2>1, <2>2 DEF sizes, z
<1>6. Total(KeySizes(keys)) \in Nat
  BY <1>4, TotalNat
<1>7. /\ Joined(KeySizes(keys)) \in Nat /\ Joined(KeySizes(more)) \in Nat
      /\ Joined(KeySizes(keys)) = IF Len(keys) = 0 THEN 0 ELSE Total(KeySizes(keys)) + Len(keys) - 1
      /\ Joined(KeySizes(more)) = IF Len(more) = 0 THEN 0 ELSE Total(KeySizes(more)) + Len(more) - 1
  BY <1>4, JoinedNat
<1>8. Total(KeySizes(keys)) = 0 \/ Len(keys) # 0 \/ Total(KeySizes(keys)) > 0
  BY <1>6
<1>9. Len(keys) = 0 => Total(KeySizes(keys)) = 0
  <2>1. Len(keys) = 0 => KeySizes(keys) = <<>>
    BY <1>4, EmptySeq
  <2> QED
    BY <2>1, TotalNone
<1>10. Joined(KeySizes(more)) <= Joined(KeySizes(keys)) + b.size + 1
  BY <1>1, <1>2, <1>5, <1>6, <1>7, <1>9
<1> QED
  BY <1>1, <1>7, <1>10 DEF more

LEMMA BanIs ==
  ASSUME NEW b \in Ban
  PROVE  b \in Key /\ b.size \in Nat
<1>1. b = [id |-> b.id, size |-> b.size, here |-> b.here]
  BY DEF Ban
<1>2. b.id \in {0} /\ b.size \in {1, 3} /\ b.here \in BOOLEAN
  BY DEF Ban
<1>3. b.id \in Nat /\ b.size \in Nat /\ b.here \in BOOLEAN
  BY <1>2
<1> QED
  BY <1>1, <1>3 DEF Key

\* What two keys more take.
LEMMA JoinedWithBans ==
  ASSUME NEW vis \in Seq(Key), NEW attempt \in 1..2, NEW b \in Key
  PROVE  LET bans == [i \in 1..attempt |-> b] IN
         /\ Joined(KeySizes(vis \o bans)) \in Nat
         /\ Joined(KeySizes(vis \o bans)) <= Joined(KeySizes(vis)) + attempt * (b.size + 1)
<1> DEFINE bans == [i \in 1..attempt |-> b]
           one == Append(vis, b)
           two == Append(one, b)
           z == b.size
<1>1. z \in Nat
  BY DEF Key
<1>2. /\ one \in Seq(Key) /\ Joined(KeySizes(vis)) \in Nat /\ Joined(KeySizes(one)) \in Nat
      /\ Joined(KeySizes(one)) <= Joined(KeySizes(vis)) + z + 1
  BY JoinedAppend
<1>3. attempt = 1 => vis \o bans = one
  <2>1. attempt = 1 => bans = <<b>>
    OBVIOUS
  <2>2. vis \o <<b>> = one
    OBVIOUS
  <2> HIDE DEF bans, one
  <2> QED
    BY <2>1, <2>2
<1>4. attempt = 2 => vis \o bans = two
  <2>1. attempt = 2 => bans = <<b, b>>
    OBVIOUS
  <2>2. vis \o <<b, b>> = two
    OBVIOUS
  <2> HIDE DEF bans, two
  <2> QED
    BY <2>1, <2>2
<1> HIDE DEF one
<1>5. /\ Joined(KeySizes(two)) \in Nat
      /\ Joined(KeySizes(two)) <= Joined(KeySizes(one)) + z + 1
  BY <1>2, JoinedAppend
<1> DEFINE j0 == Joined(KeySizes(vis))
           j1 == Joined(KeySizes(one))
           j2 == Joined(KeySizes(two))
           jb == Joined(KeySizes(vis \o bans))
<1>6. (attempt = 1 => jb = j1) /\ (attempt = 2 => jb = j2)
  <2> HIDE DEF bans, two
  <2> QED
    BY <1>3, <1>4
<1> HIDE DEF j0, j1, j2, jb, z, bans, two
<1>7. jb \in Nat /\ jb <= j0 + attempt * (z + 1)
  <2>1. j0 \in Nat /\ j1 \in Nat /\ j2 \in Nat /\ j1 <= j0 + z + 1 /\ j2 <= j1 + z + 1
    BY <1>2, <1>5 DEF j0, j1, j2
  <2>2. attempt = 1 \/ attempt = 2
    OBVIOUS
  <2>3. CASE attempt = 1
    <3>1. jb = j1 /\ attempt * (z + 1) = z + 1
      BY <1>1, <1>6, <2>3
    <3> QED
      BY <1>1, <2>1, <3>1
  <2>4. CASE attempt = 2
    <3>1. jb = j2 /\ attempt * (z + 1) = z + 1 + z + 1
      BY <1>1, <1>6, <2>4
    <3> QED
      BY <1>1, <2>1, <3>1
  <2> QED
    BY <2>2, <2>3, <2>4
<1> QED
  BY <1>7 DEF jb, j0, z, bans

\* A suggestion's retry exceeds the budget by its hint and its bans.
LEMMA SuggestionRetriesFit ==
  ASSUME NEW S, NEW in \in Inputs(S), Fits(in), NEW attempt \in 0..2, NEW b \in Ban
  PROVE  Size(SuggestRetry(in, attempt, [i \in 1..attempt |-> b]))
           <= Budget + HintSize + 1 + attempt * (b.size + 1)
<1> DEFINE bans == [i \in 1..attempt |-> b]
           out == SuggestRetry(in, attempt, bans)
           vis == in.visited
           prefs == in.prefs + HintSize + (IF in.prefs = 0 THEN 0 ELSE 1)
<1>1. /\ in = [rest |-> in.rest, visited |-> in.visited, prior |-> in.prior, route |-> in.route,
               prefs |-> in.prefs, target |-> in.target]
      /\ in.prefs \in Nat /\ vis \in Seq(Key)
  BY InputsAre
<1>2. /\ Size(in) = Chars(in.rest, vis, in.prior, in.route, in.prefs)
      /\ in.rest \in Nat /\ Joined(KeySizes(vis)) \in Nat /\ Joined(in.prior) \in Nat
      /\ RouteSize(in.route) \in Nat /\ Size(in) <= Budget /\ Size(in) \in Nat
  BY SizeIs
<1>3. Budget \in Nat /\ HintSize \in Nat
  BY BudgetAssumption
<1>4. b \in Key /\ b.size \in Nat
  BY BanIs
<1> DEFINE ban == attempt * (b.size + 1)
           j0 == Joined(KeySizes(vis))
           jb == Joined(KeySizes(vis \o bans))
<1>5. attempt # 0 => jb \in Nat /\ jb <= j0 + ban
  <2>1. attempt # 0 => attempt \in 1..2
    OBVIOUS
  <2> QED
    BY <1>1, <1>4, <2>1, JoinedWithBans
<1>8. ban \in Nat /\ (attempt = 0 => ban = 0)
  <2>1. attempt = 0 \/ attempt = 1 \/ attempt = 2
    OBVIOUS
  <2> QED
    BY <1>4, <2>1
<1> HIDE DEF bans, vis, ban
<1>6. CASE attempt = 0
  <2>1. out = in
    BY <1>6 DEF SuggestRetry
  <2> HIDE DEF out
  <2>2. Size(out) <= Budget + HintSize + 1 + ban
    BY <1>2, <1>3, <1>6, <1>8, <2>1
  <2> QED
    BY <2>2 DEF out, bans, ban
<1>7. CASE attempt # 0
  <2>1. out = [in EXCEPT !.prefs = prefs, !.visited = vis \o bans]
    BY <1>7 DEF SuggestRetry, vis
  <2>2. out = [rest |-> in.rest, visited |-> vis \o bans, prior |-> in.prior, route |-> in.route,
               prefs |-> prefs, target |-> in.target]
    BY <1>1, <2>1
  <2>3. /\ out.rest = in.rest /\ out.visited = vis \o bans /\ out.prior = in.prior
        /\ out.route = in.route /\ out.prefs = prefs
    BY <2>2
  <2> HIDE DEF out
  <2> DEFINE jp == Joined(in.prior)
             rs == RouteSize(in.route)
  <2>4. Size(out) = in.rest + jb + jp + rs + prefs
    BY <2>3 DEF Size
  <2>5. prefs <= in.prefs + HintSize + 1 /\ prefs \in Nat
    BY <1>1, <1>3
  <2>6. Size(in) = in.rest + j0 + jp + rs + in.prefs
    BY <1>2 DEF Chars
  <2>7. /\ jp \in Nat /\ rs \in Nat /\ j0 \in Nat /\ in.rest \in Nat /\ in.prefs \in Nat
        /\ Size(in) <= Budget
    BY <1>1, <1>2
  <2>8. jb \in Nat /\ jb <= j0 + ban
    BY <1>5, <1>7
  <2> HIDE DEF jp, rs, j0, jb, prefs
  <2>9. Size(out) <= Size(in) + HintSize + 1 + ban
    BY <1>3, <1>8, <2>4, <2>5, <2>6, <2>7, <2>8
  <2>10. Size(out) \in Nat /\ Size(in) \in Nat
    BY <1>8, <2>4, <2>5, <2>6, <2>7, <2>8
  <2>11. Size(out) <= Budget + HintSize + 1 + ban
    BY <1>3, <1>8, <2>7, <2>9, <2>10
  <2> QED
    BY <2>11 DEF out, bans, ban
<1> QED
  BY <1>6, <1>7 DEF bans, out, ban

\* THE PROMPT FITS.  Whatever the fields of a crew's prompt hold, what slim_crew_inputs
\* leaves of them fits the budget or nothing is left to cut; the fields go in order and
\* no cut takes more than it must; a retry exceeds the budget by its hint and bans only.
THEOREM PromptFitsTheBudget ==
  ASSUME NEW S, Stub \in S, NEW in \in Inputs(S), Distinct(in.visited)
  PROVE  InputsFit(in, Slim(in))
<1> DEFINE v == IF Fits(in) THEN in ELSE SlimVisited(in)
           p == IF Fits(v) THEN v ELSE SlimPrior(v)
           r == IF Fits(p) THEN p ELSE SlimRoute(p)
           out == IF Fits(r) THEN r ELSE SlimPrefs(r)
<1>1. Slim(in) = out
  BY DEF Slim
<1>2. /\ v \in Inputs(S) /\ v = [in EXCEPT !.visited = v.visited]
      /\ v.prior = in.prior /\ v.route = in.route /\ v.prefs = in.prefs /\ v.target = in.target
      /\ Fits(v) \/ v.visited = <<>>
      /\ Fits([in EXCEPT !.visited = <<>>]) => Fits(v)
      /\ \A n \in 1..Len(in.visited) :
           Fits([in EXCEPT !.visited = Select(in.visited, n)]) => Len(v.visited) >= n
      /\ \A i, j \in DOMAIN in.visited :
           in.visited[i] \in Range(v.visited) /\ in.visited[j] \notin Range(v.visited)
           => KeptLonger(in.visited, i, j)
  BY VisitedCut
<1> HIDE DEF v
<1>3. /\ p \in Inputs(S) /\ p.visited = v.visited /\ p.route = in.route /\ p.prefs = in.prefs
      /\ Fits(v) => p = v
      /\ Fits(p) \/ p.prior = <<>>
      /\ p.prior # in.prior => ~Fits(v)
  <2>1. CASE Fits(v)
    <3>1. p = v
      BY <2>1
    <3> HIDE DEF p
    <3> QED
      BY <1>2, <2>1, <3>1
  <2>2. CASE ~Fits(v)
    <3>1. PICK x \in Seq(Nat) : SlimPrior(v) = [v EXCEPT !.prior = x] /\ (Fits(SlimPrior(v)) \/ x = <<>>)
      BY <1>2, SlimPriorIs
    <3>2. p = SlimPrior(v)
      BY <2>2
    <3>3. LET new == [v EXCEPT !.prior = x] IN
          /\ new \in Inputs(S) /\ new.visited = v.visited /\ new.prior = x /\ new.route = v.route
          /\ new.prefs = v.prefs
      BY <1>2, PriorReplaced
    <3>4. /\ p \in Inputs(S) /\ p.visited = v.visited /\ p.prior = x /\ p.route = v.route
          /\ p.prefs = v.prefs
      BY <3>1, <3>2, <3>3
    <3> HIDE DEF p
    <3> QED
      BY <1>2, <2>2, <3>1, <3>2, <3>4
  <2> QED
    BY <2>1, <2>2
<1> HIDE DEF p
<1>4. /\ r \in Inputs(S) /\ r.visited = p.visited /\ r.prior = p.prior /\ r.prefs = p.prefs
      /\ Fits(p) => r = p
      /\ Fits(r) \/ r.route.stops = <<>>
      /\ r.route # in.route => ~Fits(p) /\
           (r.route.stops # <<>> => \E s \in Range(r.route.stops) : SaysWhere(s))
  <2>1. CASE Fits(p)
    <3>1. r = p
      BY <2>1
    <3> HIDE DEF r
    <3> QED
      BY <1>3, <2>1, <3>1
  <2>2. CASE ~Fits(p)
    <3>1. PICK x \in [stops : Seq(S), prose : Nat] :
            /\ SlimRoute(p) = [p EXCEPT !.route = x]
            /\ Fits(SlimRoute(p)) \/ x.stops = <<>>
            /\ x.stops # <<>> => \E s \in Range(x.stops) : SaysWhere(s)
      BY <1>3, SlimRouteIs
    <3>2. r = SlimRoute(p)
      BY <2>2
    <3>3. LET new == [p EXCEPT !.route = x] IN
          /\ new \in Inputs(S) /\ new.visited = p.visited /\ new.prior = p.prior /\ new.route = x
          /\ new.prefs = p.prefs
      BY <1>3, RouteReplaced
    <3>4. /\ r \in Inputs(S) /\ r.visited = p.visited /\ r.prior = p.prior /\ r.route = x
          /\ r.prefs = p.prefs
      BY <3>1, <3>2, <3>3
    <3> HIDE DEF r
    <3> QED
      BY <2>2, <3>1, <3>2, <3>4
  <2> QED
    BY <2>1, <2>2
<1> HIDE DEF r
<1>5. /\ out \in Inputs(S) /\ out.visited = r.visited /\ out.prior = r.prior /\ out.route = r.route
      /\ Fits(r) => out = r
      /\ Fits(out) \/ out.prefs = 0
      /\ out.prefs # r.prefs => ~Fits(r)
      /\ out.prefs < r.prefs => ~Fits([out EXCEPT !.prefs = out.prefs + 1])
  <2>1. CASE Fits(r)
    <3>1. out = r
      BY <2>1
    <3>2. r.prefs \in Nat
      BY <1>4, InputsAre
    <3>3. ~(r.prefs < r.prefs)
      BY <3>2
    <3> HIDE DEF out
    <3> QED
      BY <1>4, <2>1, <3>1, <3>3
  <2>2. CASE ~Fits(r)
    <3>1. PICK m \in 0..r.prefs :
            /\ SlimPrefs(r) = [r EXCEPT !.prefs = m]
            /\ m > 0 => Fits(SlimPrefs(r))
            /\ m < r.prefs => ~Fits([r EXCEPT !.prefs = m + 1])
      BY <1>4, SlimPrefsIs
    <3>2. out = SlimPrefs(r)
      BY <2>2
    <3>3. m \in Nat
      OBVIOUS
    <3>4. LET new == [r EXCEPT !.prefs = m] IN
          /\ new \in Inputs(S) /\ new.visited = r.visited /\ new.prior = r.prior /\ new.route = r.route
          /\ new.prefs = m
      BY <1>4, <3>3, PrefsReplaced
    <3>5. /\ out \in Inputs(S) /\ out.visited = r.visited /\ out.prior = r.prior /\ out.route = r.route
          /\ out.prefs = m
      BY <3>1, <3>2, <3>4
    <3>6. [[r EXCEPT !.prefs = m] EXCEPT !.prefs = m + 1] = [r EXCEPT !.prefs = m + 1]
      OBVIOUS
    <3>7. [out EXCEPT !.prefs = out.prefs + 1] = [r EXCEPT !.prefs = m + 1]
      BY <3>1, <3>2, <3>5, <3>6
    <3>8. Fits(out) \/ out.prefs = 0
      BY <3>1, <3>2, <3>3, <3>5
    <3> HIDE DEF out
    <3> QED
      BY <2>2, <3>1, <3>5, <3>7, <3>8
  <2> QED
    BY <2>1, <2>2
<1> HIDE DEF out
<1>6. out.visited = v.visited /\ out.prior = p.prior /\ out.route = r.route /\ r.prefs = in.prefs
      /\ r.visited = v.visited
  BY <1>3, <1>4, <1>5
<1>7. Fits(out) \/ Empty(out)
  <2> SUFFICES ASSUME ~Fits(out) PROVE Empty(out)
    OBVIOUS
  <2>1. ~Fits(r) /\ out.prefs = 0
    BY <1>5
  <2>2. ~Fits(p) /\ r.route.stops = <<>>
    BY <1>4, <2>1
  <2>3. ~Fits(v) /\ p.prior = <<>>
    BY <1>3, <2>2
  <2>4. v.visited = <<>>
    BY <1>2, <2>3
  <2> QED
    BY <1>6, <2>1, <2>2, <2>3, <2>4 DEF Empty
<1>8. out.prior # in.prior => out.visited = <<>>
  BY <1>2, <1>3, <1>6
<1>9. out.route # in.route => out.prior = <<>>
  BY <1>3, <1>4, <1>6
<1>10. out.prefs # in.prefs => out.route.stops = <<>>
  BY <1>4, <1>5, <1>6
<1>11. \A n \in 1..Len(in.visited) :
         Fits([in EXCEPT !.visited = Select(in.visited, n)]) => Len(out.visited) >= n
  BY <1>2, <1>6
<1>12. Fits([in EXCEPT !.visited = <<>>]) => out = [in EXCEPT !.visited = out.visited]
  <2> SUFFICES ASSUME Fits([in EXCEPT !.visited = <<>>]) PROVE out = [in EXCEPT !.visited = out.visited]
    OBVIOUS
  <2>1. Fits(v)
    BY <1>2
  <2>2. p = v
    BY <1>3, <2>1
  <2>3. r = v
    BY <1>4, <2>1, <2>2
  <2>4. out = v
    BY <1>5, <2>1, <2>3
  <2> QED
    BY <1>2, <2>4
<1>13. out.prefs < in.prefs => Size([out EXCEPT !.prefs = @ + 1]) > Budget
  <2> SUFFICES ASSUME out.prefs < in.prefs PROVE Size([out EXCEPT !.prefs = out.prefs + 1]) > Budget
    OBVIOUS
  <2> DEFINE more == [out EXCEPT !.prefs = out.prefs + 1]
  <2>1. ~Fits(more)
    BY <1>5, <1>6
  <2>2. out.prefs \in Nat
    BY <1>5, InputsAre
  <2>3. out.prefs + 1 \in Nat
    BY <2>2
  <2>4. more \in Inputs(S)
    BY <1>5, <2>3, PrefsReplaced
  <2> HIDE DEF more
  <2>5. Size(more) \in Nat /\ (Fits(more) <=> Size(more) <= Budget)
    BY <2>4, SizeIs
  <2>6. Size(more) > Budget
    BY <2>1, <2>5, BudgetAssumption
  <2> QED
    BY <2>6 DEF more
<1>14. \A i, j \in DOMAIN in.visited :
         /\ in.visited[i] \in Range(out.visited) /\ in.visited[j] \notin Range(out.visited)
         => \/ in.visited[i].here /\ ~in.visited[j].here
            \/ in.visited[i].here = in.visited[j].here /\ i > j
  <2> SUFFICES ASSUME NEW i \in DOMAIN in.visited, NEW j \in DOMAIN in.visited,
                      in.visited[i] \in Range(out.visited), in.visited[j] \notin Range(out.visited)
               PROVE  \/ in.visited[i].here /\ ~in.visited[j].here
                      \/ in.visited[i].here = in.visited[j].here /\ i > j
    OBVIOUS
  <2>1. KeptLonger(in.visited, i, j)
    BY <1>2, <1>6
  <2>2. in.visited[i].here \in BOOLEAN /\ in.visited[j].here \in BOOLEAN
    <3>1. in.visited \in Seq(Key)
      BY InputsAre
    <3>2. in.visited[i] \in Key /\ in.visited[j] \in Key
      BY <3>1
    <3> QED
      BY <3>2 DEF Key
  <2> QED
    BY <2>1, <2>2 DEF KeptLonger
<1>15. out.route # in.route /\ out.route.stops # <<>> =>
         \E s \in Range(out.route.stops) :
           s.city = Today.city \/ (s.arrival <= Today.day /\ Today.day <= s.departure)
  BY <1>4, <1>6 DEF SaysWhere
<1>16. out.target = in.target
  <2>1. v.target = in.target
    BY <1>2
  <2>2. p.target = v.target
    <3>1. CASE Fits(v)
      BY <1>3, <3>1
    <3>2. CASE ~Fits(v)
      <4>1. PICK x \in Seq(Nat) : SlimPrior(v) = [v EXCEPT !.prior = x]
        BY <1>2, SlimPriorIs
      <4>2. [v EXCEPT !.prior = x].target = v.target
        BY <1>2, PriorReplaced
      <4> QED
        BY <3>2, <4>1, <4>2 DEF p
    <3> QED
      BY <3>1, <3>2
  <2>3. r.target = p.target
    <3>1. CASE Fits(p)
      BY <1>4, <3>1
    <3>2. CASE ~Fits(p)
      <4>1. PICK x \in [stops : Seq(S), prose : Nat] : SlimRoute(p) = [p EXCEPT !.route = x]
        BY <1>3, SlimRouteIs
      <4>2. [p EXCEPT !.route = x].target = p.target
        BY <1>3, RouteReplaced
      <4> QED
        BY <3>2, <4>1, <4>2 DEF r
    <3> QED
      BY <3>1, <3>2
  <2>4. out.target = r.target
    <3>1. CASE Fits(r)
      BY <1>5, <3>1
    <3>2. CASE ~Fits(r)
      <4>1. PICK m \in 0..r.prefs : SlimPrefs(r) = [r EXCEPT !.prefs = m]
        BY <1>4, SlimPrefsIs
      <4>2. m \in Nat
        OBVIOUS
      <4>3. [r EXCEPT !.prefs = m].target = r.target
        BY <1>4, <4>2, PrefsReplaced
      <4> QED
        BY <3>2, <4>1, <4>3 DEF out
    <3> QED
      BY <3>1, <3>2
  <2> QED
    BY <2>1, <2>2, <2>3, <2>4
<1>17. Fits(out) => \A attempt \in 0..2 :
         /\ Size(PlanRetry(out, attempt)) <= Budget + HintSize + 1
         /\ PlanRetry(out, attempt).target \in in.target..Max({in.target, 7})
  BY <1>5, <1>16, RetriesFit
<1>18. Fits(out) => \A attempt \in 0..2, b \in Ban :
         Size(SuggestRetry(out, attempt, [i \in 1..attempt |-> b]))
           <= Budget + HintSize + 1 + attempt * (b.size + 1)
  BY <1>5, SuggestionRetriesFit
<1>19. InputsFit(in, out)
  BY <1>7, <1>8, <1>9, <1>10, <1>11, <1>12, <1>13, <1>14, <1>15, <1>17, <1>18 DEF InputsFit
<1> QED
  BY <1>1, <1>19

\* What a list of keys and a route of a call are made of.
LEMMA ListOfKeys ==
  ASSUME NEW n \in Nat, NEW v, v \in KeyLists(n)
  PROVE  \E s \in [1..n -> {1, 3}], h \in [1..n -> BOOLEAN] :
           v = [i \in 1..n |-> [id |-> i, size |-> s[i], here |-> h[i]]]
BY DEF KeyLists

LEMMA RouteOf ==
  ASSUME NEW r, r \in Routes
  PROVE  \E q \in {0, 3} :
           \E ss \in { <<>>, <<[city |-> "b", arrival |-> 1, departure |-> 1],
                             [city |-> "a", arrival |-> 2, departure |-> 3]>>,
                     <<[city |-> "b", arrival |-> 1, departure |-> 1]>>,
                     <<[city |-> "b", arrival |-> 1, departure |-> 4],
                       [city |-> "a", arrival |-> 5, departure |-> 6]>> } :
             r = [stops |-> ss, prose |-> q]
BY DEF Routes

\* THE PROMPT of every call.
THEOREM PromptsFit == Spec => []PromptFits
<1>1. CallInv => PromptFits
  <2> SUFFICES ASSUME CallInv, call.fn = "inputs", call.done PROVE PromptFits
    BY DEF PromptFits
  <2> DEFINE in == call.in
             S == [city : {"a", "b", Today.city}, arrival : Int \cup {Today.day},
                   departure : Int \cup {Today.day}]
  <2>1. in \in PromptInputs /\ call.out = Slim(in)
    BY DEF CallInv, Of
  <2>2. Stub \in S
    BY DEF Stub
  <2>3. /\ in.rest \in {0, 8} /\ in.visited \in UNION { KeyLists(n) : n \in 0..3 }
        /\ in.prior \in {<<>>, <<2>>, <<1, 3>>, <<3, 1>>} /\ in.route \in Routes
        /\ in.prefs \in {0, 6} /\ in.target \in {3, 6}
        /\ in = [rest |-> in.rest, visited |-> in.visited, prior |-> in.prior, route |-> in.route,
                 prefs |-> in.prefs, target |-> in.target]
    <3> DEFINE V == UNION { KeyLists(n) : n \in 0..3 }
    <3>1. in \in [rest : {0, 8}, visited : V, prior : {<<>>, <<2>>, <<1, 3>>, <<3, 1>>},
                  route : Routes, prefs : {0, 6}, target : {3, 6}]
      BY <2>1 DEF PromptInputs
    <3> HIDE DEF in, V
    <3>2. /\ in.rest \in {0, 8} /\ in.visited \in V
          /\ in.prior \in {<<>>, <<2>>, <<1, 3>>, <<3, 1>>} /\ in.route \in Routes
          /\ in.prefs \in {0, 6} /\ in.target \in {3, 6}
          /\ in = [rest |-> in.rest, visited |-> in.visited, prior |-> in.prior, route |-> in.route,
                   prefs |-> in.prefs, target |-> in.target]
      BY <3>1
    <3> QED
      BY <3>2 DEF V
  <2> HIDE DEF in
  <2>4. in.visited \in Seq(Key) /\ Distinct(in.visited)
    <3>a. in.visited \in UNION { KeyLists(n) : n \in 0..3 }
      BY <2>3
    <3>1. PICK n \in 0..3 : in.visited \in KeyLists(n)
      BY <3>a
    <3>b. \A v : v \in KeyLists(n)
            => \E s \in [1..n -> {1, 3}], h \in [1..n -> BOOLEAN] :
                 v = [i \in 1..n |-> [id |-> i, size |-> s[i], here |-> h[i]]]
      BY ListOfKeys
    <3>2. PICK s \in [1..n -> {1, 3}] :
            \E h \in [1..n -> BOOLEAN] : in.visited = [i \in 1..n |-> [id |-> i, size |-> s[i], here |-> h[i]]]
      BY <3>1, <3>b, Zenon
    <3>3. PICK h \in [1..n -> BOOLEAN] : in.visited = [i \in 1..n |-> [id |-> i, size |-> s[i], here |-> h[i]]]
      BY <3>2
    <3>4. \A i \in 1..n : [id |-> i, size |-> s[i], here |-> h[i]] \in Key
      <4>1. \A i \in 1..n : i \in Nat /\ s[i] \in Nat /\ h[i] \in BOOLEAN
        OBVIOUS
      <4> QED
        BY <4>1 DEF Key
    <3>5. in.visited \in [1..n -> Key] /\ \A i \in 1..n : in.visited[i].id = i
      BY <3>3, <3>4
    <3>6. in.visited \in Seq(Key)
      BY <3>5, IsASeq
    <3>7. Len(in.visited) = n
      BY <3>5, <3>6, LenProperties
    <3> QED
      BY <3>5, <3>6, <3>7 DEF Distinct
  <2>5. in.prior \in Seq(Nat)
    <3>1. in.prior \in {<<>>, <<2>>, <<1, 3>>, <<3, 1>>}
      BY <2>3
    <3>2. << >> \in Seq(Nat)
      OBVIOUS
    <3>3. <<2>> \in Seq(Nat)
      OBVIOUS
    <3>4. <<1, 3>> \in Seq(Nat)
      OBVIOUS
    <3>5. <<3, 1>> \in Seq(Nat)
      OBVIOUS
    <3> QED
      BY <3>1, <3>2, <3>3, <3>4, <3>5, Zenon
  <2>6. in.route \in [stops : Seq(S), prose : Nat]
    <3>1. \A c \in {"a", "b"}, k, l \in Nat : [city |-> c, arrival |-> k, departure |-> l] \in S
      OBVIOUS
    <3> DEFINE b1 == [city |-> "b", arrival |-> 1, departure |-> 1]
               a2 == [city |-> "a", arrival |-> 2, departure |-> 3]
               b4 == [city |-> "b", arrival |-> 1, departure |-> 4]
               a5 == [city |-> "a", arrival |-> 5, departure |-> 6]
    <3>2. b1 \in S /\ a2 \in S /\ b4 \in S /\ a5 \in S
      BY <3>1
    <3>a. in.route \in Routes
      BY <2>3
    <3>b. \A r : r \in Routes
            => \E q \in {0, 3} : \E ss \in { <<>>, <<b1, a2>>, <<b1>>, <<b4, a5>> } :
                 r = [stops |-> ss, prose |-> q]
      BY RouteOf
    <3>3. PICK q \in {0, 3} : \E ss \in { <<>>, <<b1, a2>>, <<b1>>, <<b4, a5>> } :
            in.route = [stops |-> ss, prose |-> q]
      BY <3>a, <3>b, Zenon
    <3> HIDE DEF S, b1, a2, b4, a5
    <3> DEFINE Q == Seq(S)
    <3>c. << >> \in Q
      OBVIOUS
    <3>d. <<b1, a2>> \in Q
      BY <3>2
    <3>e. <<b1>> \in Q
      BY <3>2
    <3>f. <<b4, a5>> \in Q
      BY <3>2
    <3> HIDE DEF Q
    <3>4. \A ss \in { <<>>, <<b1, a2>>, <<b1>>, <<b4, a5>> } : ss \in Q
      BY <3>c, <3>d, <3>e, <3>f, Zenon
    <3>5. PICK ss \in Q : in.route = [stops |-> ss, prose |-> q]
      BY <3>3, <3>4, Zenon
    <3>6. q \in Nat
      OBVIOUS
    <3>7. in.route \in [stops : Q, prose : Nat]
      BY <3>5, <3>6
    <3> QED
      BY <3>7 DEF Q
  <2> HIDE DEF S
  <2>7. in \in Inputs(S)
    <3>1. in.rest \in Nat /\ in.prefs \in Nat /\ in.target \in 0..7
      BY <2>3
    <3>2. [rest |-> in.rest, visited |-> in.visited, prior |-> in.prior, route |-> in.route,
           prefs |-> in.prefs, target |-> in.target] \in Inputs(S)
      BY <2>4, <2>5, <2>6, <3>1, InputsOf
    <3> QED
      BY <2>3, <3>2
  <2>8. InputsFit(in, Slim(in))
    BY <2>2, <2>4, <2>7, PromptFitsTheBudget
  <2> QED
    BY <2>1, <2>8 DEF PromptFits, in
<1> QED
  BY <1>1, CallsAreAnswered, PTL
=============================================================================
