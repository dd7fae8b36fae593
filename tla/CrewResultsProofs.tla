------------------------ MODULE CrewResultsProofs ------------------------
(***************************************************************************)
(* Proofs about CrewResults: whatever a crew returns and whichever lookups *)
(* fail, the day that is saved is usable, only what was rejected is        *)
(* banned, and a suggestion that is saved fits its day and its hint; for   *)
(* every catalogue, every bound on the day and every number of attempts.   *)
(***************************************************************************)
EXTENDS CrewResults, FiniteSetTheorems, SequenceTheorems, WellFoundedInduction, TLAPS

\* No two places are one venue.
Apart(ps) ==
  \A i, j \in DOMAIN ps : i # j => Tokens(ps[i]) \cap Tokens(ps[j]) = {}

\* What trimming a day may not do: bring in places, pair venues, lose a meal that the day
\* had, or its only stop without food.
TrimmedFrom(ps, day, breakfast, crawl) ==
  /\ Range(ps) \subseteq Range(day)
  /\ Apart(day) => Apart(ps)
  /\ MealsMissing(ps, breakfast) => MealsMissing(day, breakfast)
  /\ ~crawl /\ NonFood(ps) = 0 => NonFood(day) = 0

\* Nothing is left to trim.
Trimmed(ps, breakfast, crawl) ==
  ~ /\ Len(ps) > MinPlaces
    /\ Overloaded(ps)
    /\ DOMAIN ps \ Protected(ps, breakfast, crawl) # {}

Code == SuggestCode \cup {"dedupe_empty", "quality_empty", "missing_meals", "quality_hard_fail",
                          "safety_rejected", "crew_failed", None}

JobType == [kind : {"plan", "suggest"}, pc : {"ask", "saved", "failed"}, amap : BOOLEAN,
            attempt : 0..(MaxAttempts - 1), banned : SUBSET STRING, breakfast : BOOLEAN, crawl : BOOLEAN, hint : Hint \cup {{}},
            existing : Seq(PlaceType), met : Seq(PlaceType), result : Seq(PlaceType),
            tags : SUBSET {"wrong_city", "food_only_day", "missing_meals"}, code : Code]

\* Some place of each of these names had to be rejected.
HadToGo(names) ==
  \A n \in names : \E p \in Crew :
    /\ p.name = n
    /\ \/ ~Usable(p, ProfileNames) \/ ~Usable(Enriched(p, {}), ProfileNames)
       \/ Tokens(p) \cap Visited # {}

\* The inductive invariant.
JobInv == job \in JobType /\ PlannedDayIsUsable /\ BannedWereRejected /\ SuggestionFits

-----------------------------------------------------------------------------
(* Numbers, and functions defined by recursion over them                   *)

Less == { e \in Nat \X Nat : e[1] < e[2] }

\* A set of numbers that is not empty has a least one.
LEMMA LeastOf ==
  ASSUME NEW S, S \subseteq Nat, S # {}
  PROVE  \E m \in S : \A n \in S : m <= n
<1>1. IsWellFoundedOn(Less, Nat)
  BY NatLessThanWellFounded DEF OpToRel, Less
<1>2. PICK m \in S : \A n \in S : <<n, m>> \notin Less
  BY <1>1, WFMin
<1>3. ASSUME NEW n \in S PROVE m <= n
  <2>1. n \in Nat /\ m \in Nat /\ <<n, m>> \notin Less
    BY <1>2
  <2>2. ~(n < m)
    BY <2>1 DEF Less
  <2> QED
    BY <2>1, <2>2
<1> QED
  BY <1>3

\* What Min and Max of positions are.
LEMMA MinMax ==
  ASSUME NEW n \in Nat, NEW S, S \subseteq 1..n, S # {}
  PROVE  Min(S) \in S /\ Max(S) \in S
<1>1. Min(S) \in S
  <2>1. S \subseteq Nat
    OBVIOUS
  <2>2. \E m \in S : \A k \in S : m <= k
    BY <2>1, LeastOf
  <2> QED
    BY <2>2 DEF Min
<1>2. Max(S) \in S
  <2> DEFINE R == { k \in 0..n : n - k \in S }
  <2>1. PICK k \in S : TRUE
    OBVIOUS
  <2>2. n - k \in R /\ R \subseteq Nat
    <3>1. k \in 1..n /\ n - k \in 0..n /\ n - (n - k) = k
      BY <2>1
    <3> QED
      BY <2>1, <3>1
  <2>3. PICK m \in R : \A j \in R : m <= j
    <3> HIDE DEF R
    <3> QED
      BY <2>2, LeastOf
  <2>4. ASSUME NEW j \in S PROVE j <= n - m
    <3>1. j \in 1..n /\ n - j \in 0..n /\ n - (n - j) = j
      BY <2>4
    <3>2. n - j \in R
      BY <3>1
    <3>3. m <= n - j /\ m \in 0..n
      BY <2>3, <3>2
    <3> QED
      BY <3>1, <3>3
  <2>5. n - m \in S
    BY <2>3
  <2> QED
    BY <2>4, <2>5 DEF Max
<1> QED
  BY <1>1, <1>2

\* A set that holds 0, and k + 1 with each k below n that it holds, holds n.
LEMMA Climbs ==
  ASSUME NEW n \in Nat, NEW S, 0 \in S, \A k \in 0..(n - 1) : k \in S => k + 1 \in S
  PROVE  n \in S
<1> DEFINE Out == { k \in 0..n : k \notin S }
<1>1. SUFFICES ASSUME n \notin S PROVE FALSE
  OBVIOUS
<1>2. Out \subseteq Nat /\ Out # {}
  BY <1>1
<1> HIDE DEF Out
<1>3. PICK m \in Out : \A k \in Out : m <= k
  BY <1>2, LeastOf
<1>4. m # 0 /\ m \in 0..n /\ m \notin S
  BY <1>3 DEF Out
<1>5. m - 1 \in 0..(n - 1) /\ (m - 1) + 1 = m /\ m - 1 \in 0..n /\ ~(m <= m - 1)
  BY <1>4
<1>6. m - 1 \in S
  BY <1>3, <1>5 DEF Out
<1> QED
  BY <1>4, <1>5, <1>6

\* f starts from base, and each of its values up to n is a step from the one before.
Steps(f, base, step, n) ==
  \A k \in 0..n : f[k] = IF k = 0 THEN base ELSE step[<<k, f[k - 1]>>]

\* A recursion over the numbers up to n, with values in D, has a solution.
LEMMA Iterates ==
  ASSUME NEW n \in Nat, NEW D, NEW base \in D, NEW step \in [(1..n) \X D -> D]
  PROVE  \E f \in [0..n -> D] : Steps(f, base, step, n)
<1> DEFINE S == { k \in 0..n : \E f \in [0..k -> D] : Steps(f, base, step, k) }
<1>1. 0 \in S
  <2> DEFINE z == [k \in 0..0 |-> base]
  <2>1. z \in [0..0 -> D] /\ Steps(z, base, step, 0)
    BY DEF Steps
  <2> QED
    BY <2>1
<1>2. ASSUME NEW k \in 0..(n - 1), k \in S PROVE k + 1 \in S
  <2>1. PICK f \in [0..k -> D] : Steps(f, base, step, k)
    BY <1>2
  <2> DEFINE g == [j \in 0..(k + 1) |-> IF j = k + 1 THEN step[<<k + 1, f[k]>>] ELSE f[j]]
  <2>2. k + 1 \in 1..n /\ k + 1 \in 0..n /\ k \in 0..k
    OBVIOUS
  <2>3. step[<<k + 1, f[k]>>] \in D
    BY <2>2
  <2>4. g \in [0..(k + 1) -> D]
    BY <2>3
  <2>5. \A j \in 0..k : f[j] = IF j = 0 THEN base ELSE step[<<j, f[j - 1]>>]
    BY <2>1 DEF Steps
  <2>6. ASSUME NEW j \in 0..(k + 1)
        PROVE  g[j] = IF j = 0 THEN base ELSE step[<<j, g[j - 1]>>]
    <3>1. CASE j = 0
      <4>1. 0 \in 0..k /\ 0 # k + 1
        OBVIOUS
      <4>2. f[0] = base
        BY <2>5, <4>1
      <4> QED
        BY <3>1, <4>1, <4>2
    <3>2. CASE j = k + 1
      <4>1. j - 1 = k /\ j # 0 /\ k \in 0..(k + 1) /\ k # k + 1
        BY <3>2
      <4>2. g[j - 1] = f[k]
        BY <4>1
      <4> QED
        BY <3>2, <4>1, <4>2
    <3>3. CASE j # 0 /\ j # k + 1
      <4>1. j \in 0..k /\ j - 1 \in 0..k /\ j - 1 \in 0..(k + 1) /\ j - 1 # k + 1
        BY <3>3
      <4>2. f[j] = step[<<j, f[j - 1]>>]
        BY <2>5, <3>3, <4>1
      <4>3. g[j] = f[j] /\ g[j - 1] = f[j - 1]
        BY <3>3, <4>1
      <4> QED
        BY <3>3, <4>2, <4>3
    <3> QED
      BY <3>1, <3>2, <3>3
  <2>7. Steps(g, base, step, k + 1)
    BY <2>6 DEF Steps
  <2> QED
    BY <2>2, <2>4, <2>7
<1> HIDE DEF S
<1>3. n \in S
  BY <1>1, <1>2, Climbs
<1> QED
  BY <1>3 DEF S

-----------------------------------------------------------------------------
(* Sequences of places                                                     *)

\* A sequence less one member: which members stay, and that it was shorter by one.
LEMMA RemoveAtIs ==
  ASSUME NEW S, NEW s \in Seq(S), NEW i \in 1..Len(s)
  PROVE  /\ RemoveAt(s, i) \in Seq(S) /\ Len(RemoveAt(s, i)) = Len(s) - 1
         /\ \A j \in 1..(Len(s) - 1) : RemoveAt(s, i)[j] = IF j < i THEN s[j] ELSE s[j + 1]
<1> DEFINE a == SubSeq(s, 1, i - 1)
           b == SubSeq(s, i + 1, Len(s))
<1>1. Len(s) \in Nat /\ i \in Nat /\ i >= 1 /\ i <= Len(s) /\ \A j \in 1..Len(s) : s[j] \in S
  OBVIOUS
<1>2. a \in Seq(S) /\ Len(a) = i - 1 /\ \A j \in 1..(i - 1) : a[j] = s[j]
  <2>1. 1 \in Int /\ i - 1 \in Int /\ \A j \in 1..(i - 1) : s[j] \in S
    BY <1>1
  <2>2. /\ a \in Seq(S) /\ Len(a) = IF 1 <= i - 1 THEN (i - 1) - 1 + 1 ELSE 0
        /\ \A j \in 1..((i - 1) - 1 + 1) : a[j] = s[1 + j - 1]
    BY <2>1, SubSeqProperties
  <2> QED
    BY <1>1, <2>2
<1>3. b \in Seq(S) /\ Len(b) = Len(s) - i /\ \A j \in 1..(Len(s) - i) : b[j] = s[i + j]
  <2>1. i + 1 \in Int /\ Len(s) \in Int /\ \A j \in (i + 1)..Len(s) : s[j] \in S
    BY <1>1
  <2>2. /\ b \in Seq(S) /\ Len(b) = IF i + 1 <= Len(s) THEN Len(s) - (i + 1) + 1 ELSE 0
        /\ \A j \in 1..(Len(s) - (i + 1) + 1) : b[j] = s[i + 1 + j - 1]
    BY <2>1, SubSeqProperties
  <2> QED
    BY <1>1, <2>2
<1> HIDE DEF a, b
<1>4. /\ a \o b \in Seq(S) /\ Len(a \o b) = Len(a) + Len(b)
      /\ \A j \in 1..(Len(a) + Len(b)) :
           (a \o b)[j] = IF j <= Len(a) THEN a[j] ELSE b[j - Len(a)]
  BY <1>2, <1>3, ConcatProperties
<1>5. RemoveAt(s, i) = a \o b
  BY DEF RemoveAt, a, b
<1>6. ASSUME NEW j \in 1..(Len(s) - 1)
      PROVE  (a \o b)[j] = IF j < i THEN s[j] ELSE s[j + 1]
  <2>1. j \in 1..(Len(a) + Len(b))
    BY <1>1, <1>2, <1>3
  <2>2. CASE j < i
    <3>1. j <= Len(a) /\ j \in 1..(i - 1)
      BY <1>1, <1>2, <2>2
    <3> QED
      BY <1>2, <1>4, <2>1, <2>2, <3>1
  <2>3. CASE ~(j < i)
    <3>1. ~(j <= Len(a)) /\ j - Len(a) \in 1..(Len(s) - i) /\ i + (j - Len(a)) = j + 1
      BY <1>1, <1>2, <2>3
    <3>2. (a \o b)[j] = b[j - Len(a)]
      BY <1>4, <2>1, <3>1
    <3>3. b[j - Len(a)] = s[j + 1]
      BY <1>3, <3>1
    <3> QED
      BY <2>3, <3>2, <3>3
  <2> QED
    BY <2>2, <2>3
<1>7. RemoveAt(s, i) \in Seq(S) /\ Len(RemoveAt(s, i)) = Len(a) + Len(b)
  BY <1>4, <1>5
<1>8. Len(a) + Len(b) = Len(s) - 1
  BY <1>1, <1>2, <1>3
<1>9. \A j \in 1..(Len(s) - 1) : RemoveAt(s, i)[j] = IF j < i THEN s[j] ELSE s[j + 1]
  BY <1>5, <1>6
<1> QED
  BY <1>7, <1>8, <1>9

\* f lists, for every number of first places, those at the positions K.
Selects(f, ps, K) ==
  f = [n \in 0..Len(ps) |->
        IF n = 0 THEN <<>> ELSE IF n \in K THEN Append(f[n - 1], ps[n]) ELSE f[n - 1]]

\* The recursive definition of Only has a solution.
LEMMA OnlyDefined ==
  ASSUME NEW S, NEW ps \in Seq(S), NEW K
  PROVE  \E f : Selects(f, ps, K)
<1> DEFINE n == Len(ps)
           step == [e \in (1..n) \X Seq(S) |->
                      IF e[1] \in K THEN Append(e[2], ps[e[1]]) ELSE e[2]]
<1>1. n \in Nat /\ <<>> \in Seq(S) /\ \A k \in 1..n : ps[k] \in S
  OBVIOUS
<1>2. step \in [(1..n) \X Seq(S) -> Seq(S)]
  <2>1. ASSUME NEW e \in (1..n) \X Seq(S)
        PROVE  (IF e[1] \in K THEN Append(e[2], ps[e[1]]) ELSE e[2]) \in Seq(S)
    <3>1. e[1] \in 1..n /\ e[2] \in Seq(S)
      OBVIOUS
    <3> QED
      BY <1>1, <3>1, AppendProperties
  <2> QED
    BY <2>1
<1>3. \A k \in 1..n, t \in Seq(S) :
        step[<<k, t>>] = IF k \in K THEN Append(t, ps[k]) ELSE t
  OBVIOUS
<1> HIDE DEF step, n
<1>4. PICK f \in [0..n -> Seq(S)] : Steps(f, <<>>, step, n)
  BY <1>1, <1>2, Iterates
<1> DEFINE h == [k \in 0..n |->
                   IF k = 0 THEN <<>> ELSE IF k \in K THEN Append(f[k - 1], ps[k]) ELSE f[k - 1]]
<1>5. ASSUME NEW k \in 0..n PROVE f[k] = h[k]
  <2>1. f[k] = IF k = 0 THEN <<>> ELSE step[<<k, f[k - 1]>>]
    BY <1>4 DEF Steps
  <2>2. k # 0 => k \in 1..n /\ k - 1 \in 0..n
    BY <1>1
  <2>3. k # 0 => f[k - 1] \in Seq(S)
    BY <1>4, <2>2
  <2> QED
    BY <1>3, <2>1, <2>2, <2>3
<1>6. f = h
  BY <1>5
<1> QED
  BY <1>6 DEF Selects, n

\* Only has the places at the positions K, each once and in their order.
LEMMA OnlyIs ==
  ASSUME NEW S, NEW ps \in Seq(S), NEW K
  PROVE  /\ Only(ps, K) \in Seq(S)
         /\ \E at \in [1..Len(Only(ps, K)) -> 1..Len(ps)] :
              /\ \A j \in DOMAIN at : at[j] \in K /\ Only(ps, K)[j] = ps[at[j]]
              /\ \A j, k \in DOMAIN at : j # k => at[j] # at[k]
<1> DEFINE n == Len(ps)
           f == CHOOSE g : Selects(g, ps, K)
           Upto(at, k) ==
             /\ at \in [1..Len(f[k]) -> 1..k]
             /\ \A j \in 1..Len(f[k]) : at[j] \in K /\ f[k][j] = ps[at[j]]
             /\ \A i, j \in 1..Len(f[k]) : i # j => at[i] # at[j]
           S0 == { k \in 0..n : f[k] \in Seq(S) /\ \E at : Upto(at, k) }
<1>1. n \in Nat /\ \A k \in 1..n : ps[k] \in S
  OBVIOUS
<1>2. Selects(f, ps, K)
  BY OnlyDefined
<1>3. Only(ps, K) = f[n]
  BY DEF Only, Selects
<1> HIDE DEF f
<1>4. 0 \in S0
  <2>1. f[0] = <<>> /\ 0 \in 0..n
    BY <1>1, <1>2 DEF Selects
  <2>2. <<>> \in Seq(S) /\ Len(<<>>) = 0 /\ \A j \in 1..0 : FALSE
    OBVIOUS
  <2> DEFINE at == [j \in 1..0 |-> 1]
  <2>3. at \in [1..0 -> 1..0]
    BY <2>2
  <2>4. Upto(at, 0)
    BY <2>1, <2>2, <2>3
  <2> QED
    BY <2>1, <2>2, <2>4
<1>5. ASSUME NEW k \in 0..(n - 1), k \in S0 PROVE k + 1 \in S0
  <2>1. k + 1 \in 1..n /\ k + 1 \in 0..n /\ k + 1 # 0 /\ (k + 1) - 1 = k /\ k \in Nat
    BY <1>1
  <2>2. f[k + 1] = IF k + 1 \in K THEN Append(f[k], ps[k + 1]) ELSE f[k]
    BY <1>2, <2>1 DEF Selects
  <2>3. f[k] \in Seq(S) /\ Len(f[k]) \in Nat
    BY <1>5
  <2>4. PICK at : Upto(at, k)
    BY <1>5
  <2>5. CASE k + 1 \notin K
    <3>1. f[k + 1] = f[k]
      BY <2>2, <2>5
    <3>2. at \in [1..Len(f[k]) -> 1..(k + 1)]
      <4>1. \A j \in 1..k : j \in 1..(k + 1)
        BY <2>1
      <4> QED
        BY <2>4, <4>1
    <3>3. Upto(at, k + 1)
      BY <2>4, <3>1, <3>2
    <3> QED
      BY <2>1, <2>3, <3>1, <3>3
  <2>6. CASE k + 1 \in K
    <3> DEFINE t == f[k]
               u == Append(t, ps[k + 1])
               bt == [j \in 1..(Len(t) + 1) |-> IF j = Len(t) + 1 THEN k + 1 ELSE at[j]]
    <3>1. /\ u \in Seq(S) /\ Len(u) = Len(t) + 1 /\ u[Len(t) + 1] = ps[k + 1]
          /\ \A j \in 1..Len(t) : u[j] = t[j]
      BY <1>1, <2>1, <2>3, AppendProperties
    <3>2. f[k + 1] = u
      BY <2>2, <2>6
    <3>3. /\ \A j \in 1..(Len(t) + 1) : j = Len(t) + 1 \/ j \in 1..Len(t)
          /\ \A j \in 1..Len(t) : j # Len(t) + 1
          /\ Len(t) + 1 \in 1..(Len(t) + 1)
      BY <2>3
    <3>4. \A j \in 1..Len(t) : at[j] \in 1..k /\ at[j] \in 1..(k + 1) /\ at[j] # k + 1
      <4>1. \A j \in 1..Len(t) : at[j] \in 1..k
        BY <2>4
      <4>2. \A i \in 1..k : i \in 1..(k + 1) /\ i # k + 1
        BY <2>1
      <4> QED
        BY <4>1, <4>2
    <3> HIDE DEF t, u
    <3>5. bt \in [1..Len(u) -> 1..(k + 1)]
      <4>1. k + 1 \in 1..(k + 1)
        BY <2>1
      <4> QED
        BY <3>1, <3>3, <3>4, <4>1
    <3>6. \A j \in 1..Len(u) : bt[j] \in K /\ u[j] = ps[bt[j]]
      BY <2>4, <2>6, <3>1, <3>3 DEF t
    <3>7. \A i, j \in 1..Len(u) : i # j => bt[i] # bt[j]
      BY <2>4, <3>1, <3>3, <3>4 DEF t
    <3>8. Upto(bt, k + 1)
      BY <3>2, <3>5, <3>6, <3>7
    <3> QED
      BY <2>1, <3>1, <3>2, <3>8
  <2> QED
    BY <2>5, <2>6
<1> HIDE DEF S0
<1>6. n \in S0
  BY <1>1, <1>4, <1>5, Climbs
<1>7. f[n] \in Seq(S) /\ \E at : Upto(at, n)
  BY <1>6 DEF S0
<1>8. PICK at : Upto(at, n)
  BY <1>7
<1> DEFINE os == Only(ps, K)
<1>9. /\ os \in Seq(S) /\ at \in [1..Len(os) -> 1..n]
      /\ \A j \in 1..Len(os) : at[j] \in K /\ os[j] = ps[at[j]]
      /\ \A j, k \in 1..Len(os) : j # k => at[j] # at[k]
  BY <1>3, <1>7, <1>8
<1> HIDE DEF os
<1>10. DOMAIN at = 1..Len(os)
  BY <1>9
<1> QED
  BY <1>9, <1>10 DEF os

\* p is new beside the places of out.
NewBeside(out, p, visited) ==
  /\ Tokens(p) \cap visited = {}
  /\ \A q \in Range(out) : Tokens(p) \cap Tokens(q) = {}

\* f lists, for every number of first places, those that are new.
Dedupes(f, ps, visited) ==
  f = [n \in 0..Len(ps) |->
        IF n = 0 THEN <<>>
        ELSE IF NewBeside(f[n - 1], ps[n], visited) THEN Append(f[n - 1], ps[n]) ELSE f[n - 1]]

\* The recursive definition of Dedupe has a solution.
LEMMA DedupeDefined ==
  ASSUME NEW S, NEW ps \in Seq(S), NEW visited
  PROVE  \E f : Dedupes(f, ps, visited)
<1> DEFINE n == Len(ps)
           step == [e \in (1..n) \X Seq(S) |->
                      IF NewBeside(e[2], ps[e[1]], visited) THEN Append(e[2], ps[e[1]]) ELSE e[2]]
<1>1. n \in Nat /\ <<>> \in Seq(S) /\ \A k \in 1..n : ps[k] \in S
  OBVIOUS
<1>2. step \in [(1..n) \X Seq(S) -> Seq(S)]
  <2>1. ASSUME NEW e \in (1..n) \X Seq(S)
        PROVE  (IF NewBeside(e[2], ps[e[1]], visited) THEN Append(e[2], ps[e[1]]) ELSE e[2]) \in Seq(S)
    <3>1. e[1] \in 1..n /\ e[2] \in Seq(S)
      OBVIOUS
    <3> QED
      BY <1>1, <3>1, AppendProperties
  <2> QED
    BY <2>1
<1>3. \A k \in 1..n, t \in Seq(S) :
        step[<<k, t>>] = IF NewBeside(t, ps[k], visited) THEN Append(t, ps[k]) ELSE t
  OBVIOUS
<1> HIDE DEF step, n
<1>4. PICK f \in [0..n -> Seq(S)] : Steps(f, <<>>, step, n)
  BY <1>1, <1>2, Iterates
<1> DEFINE h == [k \in 0..n |->
                   IF k = 0 THEN <<>>
                   ELSE IF NewBeside(f[k - 1], ps[k], visited) THEN Append(f[k - 1], ps[k])
                   ELSE f[k - 1]]
<1>5. ASSUME NEW k \in 0..n PROVE f[k] = h[k]
  <2>1. f[k] = IF k = 0 THEN <<>> ELSE step[<<k, f[k - 1]>>]
    BY <1>4 DEF Steps
  <2>2. k # 0 => k \in 1..n /\ k - 1 \in 0..n
    BY <1>1
  <2>3. k # 0 => f[k - 1] \in Seq(S)
    BY <1>4, <2>2
  <2> QED
    BY <1>3, <2>1, <2>2, <2>3
<1>6. f = h
  BY <1>5
<1> QED
  BY <1>6 DEF Dedupes, n

\* The members of a longer sequence, and no two of them one venue if the last one is new.
LEMMA AppendNew ==
  ASSUME NEW S, NEW t \in Seq(S), NEW p \in S
  PROVE  /\ Append(t, p) \in Seq(S) /\ Range(Append(t, p)) = Range(t) \cup {p}
         /\ Append(t, p) # <<>>
         /\ Apart(t) /\ (\A q \in Range(t) : Tokens(p) \cap Tokens(q) = {}) => Apart(Append(t, p))
<1> DEFINE u == Append(t, p)
           m == Len(t) + 1
<1>1. /\ u \in Seq(S) /\ Len(u) = m /\ u[m] = p /\ \A j \in 1..Len(t) : u[j] = t[j]
  BY AppendProperties
<1>2. /\ DOMAIN t = 1..Len(t) /\ DOMAIN u = 1..m /\ m \in 1..m
      /\ \A j \in 1..m : j \in 1..Len(t) \/ j = m
      /\ \A j \in 1..Len(t) : j \in 1..m
  BY <1>1
<1>3. u # <<>>
  BY <1>1, <1>2
<1> HIDE DEF u, m
<1>4. Range(u) = Range(t) \cup {p}
  <2>1. ASSUME NEW x \in Range(u) PROVE x \in Range(t) \cup {p}
    <3>1. PICK j \in 1..m : x = u[j]
      BY <1>2, <2>1 DEF Range
    <3> QED
      BY <1>1, <1>2, <3>1 DEF Range
  <2>2. ASSUME NEW x \in Range(t) \cup {p} PROVE x \in Range(u)
    <3>1. CASE x = p
      BY <1>1, <1>2, <3>1 DEF Range
    <3>2. CASE x \in Range(t)
      <4>1. PICK j \in 1..Len(t) : x = t[j]
        BY <1>2, <3>2 DEF Range
      <4> QED
        BY <1>1, <1>2, <4>1 DEF Range
    <3> QED
      BY <2>2, <3>1, <3>2
  <2> QED
    BY <2>1, <2>2
<1>5. ASSUME Apart(t), \A q \in Range(t) : Tokens(p) \cap Tokens(q) = {}
      PROVE  Apart(u)
  <2>1. \A j \in 1..Len(t) : Tokens(p) \cap Tokens(t[j]) = {}
    BY <1>2, <1>5 DEF Range
  <2>2. \A i, j \in 1..Len(t) : i # j => Tokens(t[i]) \cap Tokens(t[j]) = {}
    BY <1>2, <1>5 DEF Apart
  <2>3. ASSUME NEW i \in 1..m, NEW j \in 1..m, i # j PROVE Tokens(u[i]) \cap Tokens(u[j]) = {}
    <3>1. CASE i \in 1..Len(t) /\ j \in 1..Len(t)
      BY <1>1, <2>2, <2>3, <3>1
    <3>2. CASE i = m
      BY <1>1, <1>2, <2>1, <2>3, <3>2
    <3>3. CASE j = m
      <4>1. i \in 1..Len(t)
        BY <1>2, <2>3, <3>3
      <4>2. Tokens(p) \cap Tokens(t[i]) = {}
        BY <2>1, <4>1
      <4> QED
        BY <1>1, <3>3, <4>1, <4>2
    <3> QED
      BY <1>2, <2>3, <3>1, <3>2, <3>3
  <2> QED
    BY <1>2, <2>3 DEF Apart
<1> QED
  BY <1>1, <1>3, <1>4, <1>5 DEF u

\* Dedupe has places of ps that are not visited, no two of them one venue; and it has none
\* only if all are visited.
LEMMA DedupeIs ==
  ASSUME NEW S, NEW ps \in Seq(S), NEW visited
  PROVE  /\ Dedupe(ps, visited) \in Seq(S)
         /\ Range(Dedupe(ps, visited)) \subseteq Range(ps)
         /\ \A q \in Range(Dedupe(ps, visited)) : Tokens(q) \cap visited = {}
         /\ Apart(Dedupe(ps, visited))
         /\ Dedupe(ps, visited) = <<>> => \A q \in Range(ps) : Tokens(q) \cap visited # {}
<1> DEFINE n == Len(ps)
           f == CHOOSE g : Dedupes(g, ps, visited)
           Good(k) == /\ f[k] \in Seq(S) /\ Range(f[k]) \subseteq Range(ps)
                      /\ \A q \in Range(f[k]) : Tokens(q) \cap visited = {}
                      /\ Apart(f[k])
                      /\ f[k] = <<>> => \A i \in 1..k : Tokens(ps[i]) \cap visited # {}
           S0 == { k \in 0..n : Good(k) }
<1>1. n \in Nat /\ DOMAIN ps = 1..n /\ \A k \in 1..n : ps[k] \in S
  OBVIOUS
<1>2. Dedupes(f, ps, visited)
  BY DedupeDefined
<1>3. Dedupe(ps, visited) = f[n]
  BY DEF Dedupe, Dedupes, NewBeside
<1> HIDE DEF f
<1>4. 0 \in S0
  <2>1. f[0] = <<>> /\ 0 \in 0..n
    BY <1>1, <1>2 DEF Dedupes
  <2>2. <<>> \in Seq(S) /\ Range(<<>>) = {} /\ Apart(<<>>) /\ \A i \in 1..0 : FALSE
    BY DEF Range, Apart
  <2>3. Good(0)
    BY <2>1, <2>2
  <2> QED
    BY <2>1, <2>3
<1>5. ASSUME NEW k \in 0..(n - 1), k \in S0 PROVE k + 1 \in S0
  <2> DEFINE p == ps[k + 1]
  <2>1. /\ k + 1 \in 1..n /\ k + 1 \in 0..n /\ k + 1 # 0 /\ (k + 1) - 1 = k /\ k \in Nat
        /\ \A i \in 1..(k + 1) : i = k + 1 \/ i \in 1..k
    BY <1>1
  <2>2. f[k + 1] = IF NewBeside(f[k], p, visited) THEN Append(f[k], p) ELSE f[k]
    BY <1>2, <2>1 DEF Dedupes
  <2>3. Good(k)
    BY <1>5
  <2>4. p \in S /\ p \in Range(ps)
    BY <1>1, <2>1 DEF Range
  <2> HIDE DEF p
  <2>5. CASE NewBeside(f[k], p, visited)
    <3>1. f[k + 1] = Append(f[k], p)
      BY <2>2, <2>5
    <3>2. /\ Append(f[k], p) \in Seq(S) /\ Range(Append(f[k], p)) = Range(f[k]) \cup {p}
          /\ Append(f[k], p) # <<>> /\ Apart(Append(f[k], p))
      BY <2>3, <2>4, <2>5, AppendNew DEF NewBeside
    <3>3. Tokens(p) \cap visited = {}
      BY <2>5 DEF NewBeside
    <3>4. Good(k + 1)
      BY <2>3, <2>4, <3>1, <3>2, <3>3
    <3> QED
      BY <2>1, <3>4
  <2>6. CASE ~NewBeside(f[k], p, visited)
    <3>1. f[k + 1] = f[k]
      BY <2>2, <2>6
    <3>2. ASSUME f[k] = <<>> PROVE Tokens(p) \cap visited # {}
      <4>1. Range(f[k]) = {}
        BY <3>2 DEF Range
      <4> QED
        BY <2>6, <4>1 DEF NewBeside
    <3>3. Good(k + 1)
      BY <2>1, <2>3, <3>1, <3>2 DEF p
    <3> QED
      BY <2>1, <3>3
  <2> QED
    BY <2>5, <2>6
<1> HIDE DEF S0
<1>6. n \in S0
  BY <1>1, <1>4, <1>5, Climbs
<1>7. Good(n)
  BY <1>6 DEF S0
<1>8. Dedupe(ps, visited) = <<>> => \A q \in Range(ps) : Tokens(q) \cap visited # {}
  BY <1>1, <1>3, <1>7 DEF Range
<1> QED
  BY <1>3, <1>7, <1>8

-----------------------------------------------------------------------------
(* Meals                                                                   *)

\* The positions of stops are finitely many.
LEMMA FoodFinite ==
  ASSUME NEW ps \in Seq(PlaceType)
  PROVE  /\ DOMAIN ps = 1..Len(ps) /\ Len(ps) \in Nat
         /\ Food(ps) \subseteq DOMAIN ps /\ Unlabelled(ps) \subseteq Food(ps)
         /\ IsFiniteSet(DOMAIN ps) /\ IsFiniteSet(Unlabelled(ps))
<1>1. DOMAIN ps = 1..Len(ps) /\ Len(ps) \in Nat
  OBVIOUS
<1>2. Food(ps) \subseteq DOMAIN ps /\ Unlabelled(ps) \subseteq Food(ps)
  BY DEF Food, Unlabelled
<1>3. IsFiniteSet(DOMAIN ps)
  BY <1>1, FS_Interval
<1>4. Unlabelled(ps) \in SUBSET DOMAIN ps
  BY <1>2
<1> QED
  BY <1>1, <1>2, <1>3, <1>4, FS_Subset

\* A stop for a meal: used grows; a stop that is left and has the label of the meal is not
\* the only one; and without the label an unlabelled stop is taken while there is one.
LEMMA WithMealIs ==
  ASSUME NEW ps \in Seq(PlaceType), NEW used, used \subseteq DOMAIN ps, NEW meal
  PROVE  /\ used \subseteq WithMeal(ps, used, meal)
         /\ WithMeal(ps, used, meal) \subseteq DOMAIN ps
         /\ \A i \in Food(ps) \ WithMeal(ps, used, meal) : ps[i].meal = meal =>
              \E j \in Food(ps) : j # i /\ ps[j].meal = meal
         /\ \A i \in Unlabelled(ps) \ WithMeal(ps, used, meal) : meal \notin Labelled(ps) =>
              \E j \in Unlabelled(ps) \ used : WithMeal(ps, used, meal) = used \cup {j}
<1> DEFINE mine == { i \in Food(ps) \ used : ps[i].meal = meal }
           any == Unlabelled(ps) \ used
           W == WithMeal(ps, used, meal)
<1>1. W = used \cup (IF mine # {} THEN {Min(mine)} ELSE IF any # {} THEN {Min(any)} ELSE {})
  BY DEF WithMeal
<1>2. /\ DOMAIN ps = 1..Len(ps) /\ Len(ps) \in Nat /\ Food(ps) \subseteq 1..Len(ps)
      /\ Unlabelled(ps) \subseteq 1..Len(ps)
  BY FoodFinite
<1>3. mine # {} => Min(mine) \in mine
  <2>1. mine \subseteq 1..Len(ps)
    BY <1>2
  <2> QED
    BY <1>2, <2>1, MinMax
<1>4. any # {} => Min(any) \in any
  <2>1. any \subseteq 1..Len(ps)
    BY <1>2
  <2> QED
    BY <1>2, <2>1, MinMax
<1> HIDE DEF W
<1>5. used \subseteq W /\ W \subseteq DOMAIN ps
  BY <1>1, <1>2, <1>3, <1>4
<1>6. ASSUME NEW i \in Food(ps) \ W, ps[i].meal = meal
      PROVE  \E j \in Food(ps) : j # i /\ ps[j].meal = meal
  <2>1. i \in mine
    BY <1>5, <1>6
  <2>2. Min(mine) \in mine /\ Min(mine) \in W
    BY <1>1, <1>3, <2>1
  <2> QED
    BY <1>6, <2>2
<1>7. ASSUME NEW i \in Unlabelled(ps) \ W, meal \notin Labelled(ps)
      PROVE  \E j \in Unlabelled(ps) \ used : W = used \cup {j}
  <2>1. mine = {}
    BY <1>7 DEF Labelled
  <2>2. i \in any
    BY <1>5, <1>7
  <2>3. Min(any) \in any /\ W = used \cup {Min(any)}
    BY <1>1, <1>4, <2>1, <2>2
  <2> QED
    BY <2>3
<1> QED
  BY <1>5, <1>6, <1>7 DEF W

\* Each meal that no label covers has an unlabelled stop of its own, as long as one is left.
LEMMA WithMealCounts ==
  ASSUME NEW ps \in Seq(PlaceType), NEW used, used \subseteq DOMAIN ps, NEW meal,
         NEW X, IsFiniteSet(X), meal \notin X,
         NEW i \in Unlabelled(ps), i \notin WithMeal(ps, used, meal),
         Cardinality(X \ Labelled(ps)) <= Cardinality(Unlabelled(ps) \cap used)
  PROVE  Cardinality((X \cup {meal}) \ Labelled(ps))
           <= Cardinality(Unlabelled(ps) \cap WithMeal(ps, used, meal))
<1> DEFINE W == WithMeal(ps, used, meal)
           U == Unlabelled(ps)
           L == Labelled(ps)
<1>1. IsFiniteSet(U)
  BY FoodFinite
<1>2. used \subseteq W
  BY WithMealIs
<1>3. meal \notin L => \E j \in U \ used : W = used \cup {j}
  BY WithMealIs
<1>4. /\ IsFiniteSet(U \cap W) /\ IsFiniteSet(U \cap used) /\ IsFiniteSet(X \ L)
      /\ Cardinality(U \cap W) \in Nat /\ Cardinality(U \cap used) \in Nat
      /\ Cardinality(X \ L) \in Nat
  BY <1>1, FS_Intersection, FS_Difference, FS_CardinalityType
<1>0. Cardinality(X \ L) <= Cardinality(U \cap used)
  OBVIOUS
<1> HIDE DEF W, U, L
<1>5. CASE meal \in L
  <2>1. (X \cup {meal}) \ L = X \ L
    BY <1>5
  <2>2. U \cap used \in SUBSET (U \cap W)
    BY <1>2
  <2>3. Cardinality(U \cap used) <= Cardinality(U \cap W)
    BY <1>4, <2>2, FS_Subset
  <2>4. Cardinality((X \cup {meal}) \ L) = Cardinality(X \ L)
    BY <2>1
  <2>5. Cardinality((X \cup {meal}) \ L) <= Cardinality(U \cap W)
    BY <1>0, <1>4, <2>3, <2>4
  <2> QED
    BY <2>5 DEF W, U, L
<1>6. CASE meal \notin L
  <2>1. PICK j \in U \ used : W = used \cup {j}
    BY <1>3, <1>6
  <2>2. (X \cup {meal}) \ L = (X \ L) \cup {meal} /\ meal \notin X \ L
    BY <1>6
  <2>3. U \cap W = (U \cap used) \cup {j} /\ j \notin U \cap used
    BY <2>1
  <2>4. Cardinality((X \cup {meal}) \ L) = Cardinality(X \ L) + 1
    BY <1>4, <2>2, FS_AddElement
  <2>5. Cardinality(U \cap W) = Cardinality(U \cap used) + 1
    BY <1>4, <2>3, FS_AddElement
  <2>6. Cardinality((X \cup {meal}) \ L) <= Cardinality(U \cap W)
    BY <1>0, <1>4, <2>4, <2>5
  <2> QED
    BY <2>6 DEF W, U, L
<1> QED
  BY <1>5, <1>6

\* A stop that no meal needs: another one has its label, and without it there are still
\* unlabelled stops for the meals that have no label.
LEMMA MealIndicesIs ==
  ASSUME NEW ps \in Seq(PlaceType), NEW breakfast \in BOOLEAN,
         NEW i \in Food(ps), i \notin MealIndices(ps, breakfast)
  PROVE  /\ ps[i].meal \in Required(breakfast) =>
              \E j \in Food(ps) : j # i /\ ps[j].meal = ps[i].meal
         /\ i \in Unlabelled(ps) =>
              Cardinality(Required(breakfast) \ Labelled(ps)) <= Cardinality(Unlabelled(ps) \ {i})
<1> DEFINE early == IF breakfast THEN WithMeal(ps, {}, "breakfast") ELSE {}
           noon == WithMeal(ps, early, "lunch")
           all == WithMeal(ps, noon, "dinner")
           X == IF breakfast THEN {"breakfast"} ELSE {}
           U == Unlabelled(ps)
           L == Labelled(ps)
<1>1. MealIndices(ps, breakfast) = all
  BY DEF MealIndices
<1>2. early \subseteq DOMAIN ps
  BY WithMealIs
<1>3. early \subseteq noon /\ noon \subseteq DOMAIN ps
  <2> HIDE DEF early
  <2> QED
    BY <1>2, WithMealIs
<1>4. noon \subseteq all /\ all \subseteq DOMAIN ps
  <2> HIDE DEF noon
  <2> QED
    BY <1>3, WithMealIs
<1>5. i \notin all /\ i \notin noon /\ i \notin early
  BY <1>1, <1>3, <1>4
<1>6. ASSUME ps[i].meal \in Required(breakfast)
      PROVE  \E j \in Food(ps) : j # i /\ ps[j].meal = ps[i].meal
  <2>1. \/ ps[i].meal = "breakfast" /\ breakfast
        \/ ps[i].meal = "lunch" \/ ps[i].meal = "dinner"
    BY <1>6 DEF Required
  <2>2. CASE ps[i].meal = "breakfast" /\ breakfast
    <3>1. i \notin WithMeal(ps, {}, "breakfast")
      BY <1>5, <2>2
    <3> QED
      BY <2>2, <3>1, WithMealIs
  <2>3. CASE ps[i].meal = "lunch"
    <3> HIDE DEF early
    <3> QED
      BY <1>2, <1>5, <2>3, WithMealIs
  <2>4. CASE ps[i].meal = "dinner"
    <3> HIDE DEF noon
    <3> QED
      BY <1>3, <1>5, <2>4, WithMealIs
  <2> QED
    BY <2>1, <2>2, <2>3, <2>4
<1>7. ASSUME i \in U
      PROVE  Cardinality(Required(breakfast) \ L) <= Cardinality(U \ {i})
  <2>1. /\ Cardinality({}) = 0 /\ IsFiniteSet({}) /\ {} \ L = {} /\ U \cap {} = {}
        /\ IsFiniteSet(X)
    BY FS_EmptySet, FS_Singleton
  <2>2. Cardinality(X \ L) <= Cardinality(U \cap early)
    <3>1. CASE breakfast
      <4>1. i \notin WithMeal(ps, {}, "breakfast")
        BY <1>5, <3>1
      <4>2. Cardinality({} \ L) <= Cardinality(U \cap {})
        BY <2>1
      <4>3. Cardinality(({} \cup {"breakfast"}) \ L) <= Cardinality(U \cap WithMeal(ps, {}, "breakfast"))
        BY <1>7, <2>1, <4>1, <4>2, WithMealCounts
      <4>4. {} \cup {"breakfast"} = X /\ WithMeal(ps, {}, "breakfast") = early
        BY <3>1
      <4> QED
        BY <4>3, <4>4
    <3>2. CASE ~breakfast
      <4>1. X = {} /\ early = {}
        BY <3>2
      <4>2. X \ L = {} /\ U \cap early = {}
        BY <4>1
      <4>3. Cardinality(X \ L) = 0 /\ Cardinality(U \cap early) = 0
        BY <2>1, <4>2
      <4> QED
        BY <4>3
    <3> QED
      BY <3>1, <3>2
  <2>3. "lunch" \notin X /\ "dinner" \notin X \cup {"lunch"}
    OBVIOUS
  <2>4. Required(breakfast) = (X \cup {"lunch"}) \cup {"dinner"}
    BY DEF Required
  <2>5. Cardinality((X \cup {"lunch"}) \ L) <= Cardinality(U \cap noon)
    <3> HIDE DEF early, X
    <3> QED
      BY <1>2, <1>5, <1>7, <2>1, <2>2, <2>3, WithMealCounts
  <2>6. IsFiniteSet(X \cup {"lunch"})
    BY <2>1, FS_AddElement
  <2>7. Cardinality(((X \cup {"lunch"}) \cup {"dinner"}) \ L) <= Cardinality(U \cap all)
    <3> HIDE DEF early, noon, X
    <3> QED
      BY <1>3, <1>5, <1>7, <2>3, <2>5, <2>6, WithMealCounts
  <2>8. U \cap all \in SUBSET (U \ {i})
    BY <1>5
  <2>9. IsFiniteSet(U) /\ IsFiniteSet(U \ {i}) /\ IsFiniteSet(U \cap all)
    BY FoodFinite, FS_Difference, FS_Intersection
  <2>10. Cardinality(U \cap all) <= Cardinality(U \ {i})
    BY <2>8, <2>9, FS_Subset
  <2>11. IsFiniteSet(((X \cup {"lunch"}) \cup {"dinner"}) \ L)
    BY <2>6, FS_AddElement, FS_Difference
  <2>12. /\ Cardinality(U \cap all) \in Nat /\ Cardinality(U \ {i}) \in Nat
         /\ Cardinality(((X \cup {"lunch"}) \cup {"dinner"}) \ L) \in Nat
    BY <2>9, <2>11, FS_CardinalityType
  <2> HIDE DEF all, X, U, L
  <2> QED
    BY <2>4, <2>7, <2>10, <2>12
<1> QED
  BY <1>6, <1>7

-----------------------------------------------------------------------------
(* Trimming                                                                *)

\* at tells where the places that are left stood when the one at i has gone.
Stood(at, ps, i) ==
  /\ at \in [1..(Len(ps) - 1) -> 1..Len(ps)]
  /\ \A j \in 1..(Len(ps) - 1) : at[j] # i /\ RemoveAt(ps, i)[j] = ps[at[j]]
  /\ \A j, k \in 1..(Len(ps) - 1) : j # k => at[j] # at[k]
  /\ \A m \in 1..Len(ps) : m # i => \E j \in 1..(Len(ps) - 1) : at[j] = m

\* What is left of a day when a place goes: the other positions, each once.
LEMMA RemoveAtPositions ==
  ASSUME NEW ps \in Seq(PlaceType), NEW i \in 1..Len(ps)
  PROVE  \E at : Stood(at, ps, i)
<1> DEFINE n == Len(ps)
           at == [j \in 1..(n - 1) |-> IF j < i THEN j ELSE j + 1]
<1>1. /\ n \in Nat
      /\ \A j \in 1..(n - 1) : RemoveAt(ps, i)[j] = IF j < i THEN ps[j] ELSE ps[j + 1]
  <2>1. n \in Nat
    OBVIOUS
  <2>2. \A j \in 1..(Len(ps) - 1) : RemoveAt(ps, i)[j] = IF j < i THEN ps[j] ELSE ps[j + 1]
    BY RemoveAtIs, Zenon
  <2> QED
    BY <2>1, <2>2
<1> HIDE DEF n
<1>2. \A j \in 1..(n - 1) : /\ at[j] \in 1..n /\ at[j] # i /\ RemoveAt(ps, i)[j] = ps[at[j]]
                            /\ at[j] = IF j < i THEN j ELSE j + 1
  BY <1>1 DEF n
<1>3. \A j, k \in 1..(n - 1) : j # k => at[j] # at[k]
  BY <1>1, <1>2
<1>4. \A m \in 1..n : m # i => \E j \in 1..(n - 1) : at[j] = m
  <2>1. SUFFICES ASSUME NEW m \in 1..n, m # i
                 PROVE  \E j \in 1..(n - 1) : at[j] = m
    OBVIOUS
  <2>2. CASE m < i
    <3>1. m \in 1..(n - 1)
      BY <1>1, <2>2 DEF n
    <3> QED
      BY <1>2, <2>2, <3>1
  <2>3. CASE m > i
    <3>1. m - 1 \in 1..(n - 1) /\ ~(m - 1 < i) /\ (m - 1) + 1 = m
      BY <1>1, <2>1, <2>3 DEF n
    <3> QED
      BY <1>2, <3>1
  <2> QED
    BY <1>1, <2>1, <2>2, <2>3 DEF n
<1>5. at \in [1..(n - 1) -> 1..n]
  BY <1>2
<1> HIDE DEF at
<1>6. Stood(at, ps, i)
  BY <1>2, <1>3, <1>4, <1>5 DEF Stood, n
<1> QED
  BY <1>6

\* A place that no meal needs and that is not the only one without food may go.
LEMMA RemovedFrom ==
  ASSUME NEW ps \in Seq(PlaceType), NEW breakfast \in BOOLEAN, NEW crawl \in BOOLEAN,
         NEW i \in DOMAIN ps \ Protected(ps, breakfast, crawl)
  PROVE  TrimmedFrom(RemoveAt(ps, i), ps, breakfast, crawl)
<1> DEFINE n == Len(ps)
           ts == RemoveAt(ps, i)
           R == Required(breakfast)
           U == Unlabelled(ps)
           V == Unlabelled(ts)
<1>1. n \in Nat /\ DOMAIN ps = 1..n /\ i \in 1..n
  OBVIOUS
<1>2. ts \in Seq(PlaceType) /\ Len(ts) = n - 1 /\ DOMAIN ts = 1..(n - 1)
  <2>1. ts \in Seq(PlaceType) /\ Len(ts) = n - 1
    BY <1>1, RemoveAtIs, Zenon
  <2> HIDE DEF ts
  <2> QED
    BY <2>1
<1>0. PICK at : Stood(at, ps, i)
  BY <1>1, RemoveAtPositions
<1>3. /\ at \in [1..(n - 1) -> 1..n]
      /\ \A j \in 1..(n - 1) : at[j] # i /\ ts[j] = ps[at[j]]
      /\ \A j, k \in 1..(n - 1) : j # k => at[j] # at[k]
      /\ \A m \in 1..n : m # i => \E j \in 1..(n - 1) : at[j] = m
  BY <1>0 DEF Stood
<1>4. i \notin MealIndices(ps, breakfast)
  BY DEF Protected
<1> HIDE DEF n, ts
<1>5. Range(ts) \subseteq Range(ps)
  BY <1>1, <1>2, <1>3 DEF Range
<1>6. Apart(ps) => Apart(ts)
  BY <1>1, <1>2, <1>3 DEF Apart
<1>7. \A j \in 1..(n - 1) : /\ j \in Food(ts) <=> at[j] \in Food(ps)
                            /\ j \in V <=> at[j] \in U
  BY <1>1, <1>2, <1>3 DEF Food, Unlabelled
<1>8. \A m \in 1..n : m # i => \E j \in 1..(n - 1) : at[j] = m /\ ts[j] = ps[m]
  BY <1>3
<1>9. Food(ps) \subseteq 1..n /\ U \subseteq Food(ps) /\ IsFiniteSet(U)
  BY <1>1, FoodFinite
<1>10. V \subseteq Food(ts) /\ Food(ts) \subseteq 1..(n - 1) /\ IsFiniteSet(V)
  BY <1>2, FoodFinite
<1>11. ASSUME NEW m \in Food(ps), m # i PROVE ps[m].meal \in Labelled(ts)
  <2>1. PICK j \in 1..(n - 1) : at[j] = m /\ ts[j] = ps[m]
    BY <1>8, <1>9, <1>11
  <2>2. j \in Food(ts)
    BY <1>7, <1>11, <2>1
  <2> QED
    BY <2>1, <2>2 DEF Labelled
<1>12. R \ Labelled(ts) \subseteq R \ Labelled(ps)
  <2>1. SUFFICES ASSUME NEW r \in R, r \in Labelled(ps) PROVE r \in Labelled(ts)
    OBVIOUS
  <2>2. PICK m \in Food(ps) : r = ps[m].meal
    BY <2>1 DEF Labelled
  <2>3. CASE m # i
    BY <1>11, <2>2, <2>3
  <2>4. CASE m = i
    <3>1. PICK k \in Food(ps) : k # i /\ ps[k].meal = r
      BY <1>4, <2>1, <2>2, <2>4, MealIndicesIs
    <3> QED
      BY <1>11, <3>1
  <2> QED
    BY <2>3, <2>4
<1>13. Cardinality(U \ {i}) <= Cardinality(V)
  <2> DEFINE to == [m \in U \ {i} |-> CHOOSE j \in 1..(n - 1) : at[j] = m]
  <2>1. ASSUME NEW m \in U \ {i} PROVE to[m] \in V /\ at[to[m]] = m
    <3>1. \E j \in 1..(n - 1) : at[j] = m
      BY <1>8, <1>9, <2>1
    <3>2. to[m] \in 1..(n - 1) /\ at[to[m]] = m
      BY <2>1, <3>1
    <3> HIDE DEF to
    <3> QED
      BY <1>7, <2>1, <3>2
  <2>2. to \in [U \ {i} -> V]
    BY <2>1
  <2> HIDE DEF to
  <2>3. to \in Injection(U \ {i}, V)
    BY <2>1, <2>2 DEF Injection, IsInjective
  <2> QED
    BY <1>10, <2>3, FS_Injection
<1>14. MealsMissing(ts, breakfast) => MealsMissing(ps, breakfast)
  <2>1. IsFiniteSet(R)
    <3>1. IsFiniteSet({"lunch"}) /\ IsFiniteSet({"dinner"}) /\ IsFiniteSet({"breakfast"})
      BY FS_Singleton
    <3>2. IsFiniteSet({"lunch"} \cup {"dinner"})
      BY <3>1, FS_Union
    <3>3. IsFiniteSet(({"lunch"} \cup {"dinner"}) \cup {"breakfast"})
      BY <3>1, <3>2, FS_Union
    <3>4. R \in SUBSET (({"lunch"} \cup {"dinner"}) \cup {"breakfast"})
      BY DEF Required
    <3> QED
      BY <3>3, <3>4, FS_Subset
  <2>2. IsFiniteSet(R \ Labelled(ps)) /\ IsFiniteSet(R \ Labelled(ts)) /\ IsFiniteSet(U \ {i})
    BY <1>9, <2>1, FS_Difference
  <2>3. /\ Cardinality(R \ Labelled(ps)) \in Nat /\ Cardinality(R \ Labelled(ts)) \in Nat
        /\ Cardinality(U) \in Nat /\ Cardinality(V) \in Nat /\ Cardinality(U \ {i}) \in Nat
    BY <1>9, <1>10, <2>2, FS_CardinalityType
  <2>4. Cardinality(R \ Labelled(ts)) <= Cardinality(R \ Labelled(ps))
    <3>1. (R \ Labelled(ts)) \in SUBSET (R \ Labelled(ps))
      BY <1>12
    <3> QED
      BY <2>2, <3>1, FS_Subset
  <2>5. CASE i \in U
    <3>1. Cardinality(R \ Labelled(ps)) <= Cardinality(U \ {i})
      BY <1>4, <1>9, <2>5, MealIndicesIs
    <3>2. Cardinality(R \ Labelled(ts)) <= Cardinality(V)
      <4> HIDE DEF R, U, V
      <4> QED
        BY <1>13, <2>3, <2>4, <3>1
    <3>3. ~(Cardinality(R \ Labelled(ts)) > Cardinality(V))
      <4> HIDE DEF R, U, V
      <4> QED
        BY <2>3, <3>2
    <3> QED
      BY <3>3 DEF MealsMissing, Labelled
  <2>6. CASE i \notin U
    <3>1. U \ {i} = U
      BY <2>6
    <3>2. Cardinality(U) <= Cardinality(V)
      BY <1>13, <3>1
    <3>3. Cardinality(R \ Labelled(ts)) > Cardinality(V) =>
            Cardinality(R \ Labelled(ps)) > Cardinality(U)
      <4> HIDE DEF R, U, V
      <4> QED
        BY <2>3, <2>4, <3>2
    <3> QED
      BY <3>3 DEF MealsMissing, Labelled
  <2> QED
    BY <2>5, <2>6
<1>15. ASSUME ~crawl, NonFood(ts) = 0 PROVE NonFood(ps) = 0
  <2>1. IsFiniteSet(DOMAIN ts) /\ IsFiniteSet(DOMAIN ps)
    BY <1>1, <1>2, FS_Interval
  <2>2. IsFiniteSet(DOMAIN ts \ Food(ts)) /\ IsFiniteSet(DOMAIN ps \ Food(ps))
    BY <2>1, FS_Difference
  <2>3. DOMAIN ts \ Food(ts) = {}
    BY <1>15, <2>2, FS_EmptySet DEF NonFood
  <2>4. DOMAIN ps \ Food(ps) = {}
    <3> DEFINE other == DOMAIN ps \ Food(ps)
    <3>1. SUFFICES ASSUME other # {} PROVE FALSE
      OBVIOUS
    <3>2. Min(other) \in other
      <4>1. other \subseteq 1..n
        BY <1>1
      <4> HIDE DEF other
      <4> QED
        BY <1>1, <3>1, <4>1, MinMax
    <3>3. Min(other) # i
      BY <1>15, <3>1 DEF Protected
    <3>4. PICK j \in 1..(n - 1) : at[j] = Min(other)
      BY <1>1, <1>8, <3>2, <3>3
    <3>5. j \notin Food(ts)
      BY <1>7, <3>2, <3>4
    <3> QED
      BY <1>2, <2>3, <3>5
  <2> QED
    BY <2>4, FS_EmptySet DEF NonFood
<1> QED
  BY <1>5, <1>6, <1>14, <1>15 DEF TrimmedFrom, ts

\* What is protected are stops of the day.
LEMMA ProtectedIs ==
  ASSUME NEW ps \in Seq(PlaceType), NEW breakfast \in BOOLEAN, NEW crawl \in BOOLEAN
  PROVE  Protected(ps, breakfast, crawl) \subseteq DOMAIN ps
<1> DEFINE early == IF breakfast THEN WithMeal(ps, {}, "breakfast") ELSE {}
           noon == WithMeal(ps, early, "lunch")
           all == WithMeal(ps, noon, "dinner")
           other == DOMAIN ps \ Food(ps)
<1>1. MealIndices(ps, breakfast) = all
  BY DEF MealIndices
<1>2. early \subseteq DOMAIN ps
  BY WithMealIs
<1>3. noon \subseteq DOMAIN ps
  <2> HIDE DEF early
  <2> QED
    BY <1>2, WithMealIs
<1>4. all \subseteq DOMAIN ps
  <2> HIDE DEF noon
  <2> QED
    BY <1>3, WithMealIs
<1>5. other # {} => Min(other) \in other
  <2>1. other \subseteq 1..Len(ps) /\ Len(ps) \in Nat
    BY FoodFinite
  <2> HIDE DEF other
  <2> QED
    BY <2>1, MinMax
<1>6. Protected(ps, breakfast, crawl) =
        all \cup (IF crawl \/ other = {} THEN {} ELSE {Min(other)})
  BY <1>1 DEF Protected
<1> HIDE DEF all
<1> QED
  BY <1>4, <1>5, <1>6

\* TrimmedFrom relates a day to itself, and what is trimmed in two steps.
LEMMA TrimmedFromSelf ==
  ASSUME NEW ps, NEW breakfast, NEW crawl
  PROVE  TrimmedFrom(ps, ps, breakfast, crawl)
BY DEF TrimmedFrom

LEMMA TrimmedFromTwice ==
  ASSUME NEW ps, NEW qs, NEW rs, NEW breakfast, NEW crawl,
         TrimmedFrom(ps, qs, breakfast, crawl), TrimmedFrom(qs, rs, breakfast, crawl)
  PROVE  TrimmedFrom(ps, rs, breakfast, crawl)
BY DEF TrimmedFrom

\* One step of trimming: the day is one place shorter, or there is nothing to trim.
LEMMA TrimOneIs ==
  ASSUME NEW ps \in Seq(PlaceType), NEW breakfast \in BOOLEAN, NEW crawl \in BOOLEAN
  PROVE  /\ TrimOne(ps, breakfast, crawl) \in Seq(PlaceType)
         /\ TrimmedFrom(TrimOne(ps, breakfast, crawl), ps, breakfast, crawl)
         /\ IF Trimmed(ps, breakfast, crawl)
            THEN TrimOne(ps, breakfast, crawl) = ps
            ELSE Len(TrimOne(ps, breakfast, crawl)) = Len(ps) - 1
<1> DEFINE open == DOMAIN ps \ Protected(ps, breakfast, crawl)
           ts == TrimOne(ps, breakfast, crawl)
<1>1. CASE Trimmed(ps, breakfast, crawl)
  <2>1. ts = ps
    BY <1>1 DEF Trimmed, TrimOne
  <2> HIDE DEF ts
  <2>2. TrimmedFrom(ts, ps, breakfast, crawl)
    BY <2>1, TrimmedFromSelf
  <2> QED
    BY <1>1, <2>1, <2>2 DEF ts
<1>2. CASE ~Trimmed(ps, breakfast, crawl)
  <2>1. ts = RemoveAt(ps, Max(open)) /\ open # {}
    BY <1>2 DEF Trimmed, TrimOne
  <2>2. open \subseteq 1..Len(ps) /\ Len(ps) \in Nat
    OBVIOUS
  <2> HIDE DEF open, ts
  <2>3. Max(open) \in open /\ Max(open) \in 1..Len(ps)
    BY <2>1, <2>2, MinMax
  <2>4. ts \in Seq(PlaceType) /\ Len(ts) = Len(ps) - 1
    BY <2>1, <2>3, RemoveAtIs
  <2>5. TrimmedFrom(ts, ps, breakfast, crawl)
    BY <2>1, <2>3, RemovedFrom DEF open
  <2> QED
    BY <1>2, <2>4, <2>5 DEF ts
<1> QED
  BY <1>1, <1>2

\* f lists the day after every number of steps.
Trims(f, ps, breakfast, crawl) ==
  f = [n \in 0..Len(ps) |-> IF n = 0 THEN ps ELSE TrimOne(f[n - 1], breakfast, crawl)]

\* The recursive definition of Trim has a solution.
LEMMA TrimDefined ==
  ASSUME NEW ps \in Seq(PlaceType), NEW breakfast \in BOOLEAN, NEW crawl \in BOOLEAN
  PROVE  \E f : Trims(f, ps, breakfast, crawl)
<1> DEFINE n == Len(ps)
           D == Seq(PlaceType)
           step == [e \in (1..n) \X D |-> TrimOne(e[2], breakfast, crawl)]
<1>1. n \in Nat /\ ps \in D
  OBVIOUS
<1>2. step \in [(1..n) \X D -> D]
  <2>1. ASSUME NEW e \in (1..n) \X D PROVE TrimOne(e[2], breakfast, crawl) \in D
    <3>1. e[2] \in Seq(PlaceType)
      OBVIOUS
    <3> QED
      BY <3>1, TrimOneIs
  <2> QED
    BY <2>1
<1>3. \A k \in 1..n, t \in D : step[<<k, t>>] = TrimOne(t, breakfast, crawl)
  OBVIOUS
<1> HIDE DEF step, n, D
<1>4. PICK f \in [0..n -> D] : Steps(f, ps, step, n)
  BY <1>1, <1>2, Iterates
<1> DEFINE h == [k \in 0..n |-> IF k = 0 THEN ps ELSE TrimOne(f[k - 1], breakfast, crawl)]
<1>5. ASSUME NEW k \in 0..n PROVE f[k] = h[k]
  <2>1. f[k] = IF k = 0 THEN ps ELSE step[<<k, f[k - 1]>>]
    BY <1>4 DEF Steps
  <2>2. k # 0 => k \in 1..n /\ k - 1 \in 0..n
    BY <1>1
  <2>3. k # 0 => f[k - 1] \in D
    BY <1>4, <2>2
  <2> QED
    BY <1>3, <2>1, <2>2, <2>3
<1>6. f = h
  BY <1>5
<1> QED
  BY <1>6 DEF Trims, n

\* A trimmed day: nothing is left to trim, and it was trimmed from the day given.
LEMMA TrimIs ==
  ASSUME NEW ps \in Seq(PlaceType), NEW breakfast \in BOOLEAN, NEW crawl \in BOOLEAN
  PROVE  /\ Trim(ps, breakfast, crawl) \in Seq(PlaceType)
         /\ TrimmedFrom(Trim(ps, breakfast, crawl), ps, breakfast, crawl)
         /\ Trimmed(Trim(ps, breakfast, crawl), breakfast, crawl)
<1> DEFINE n == Len(ps)
           f == CHOOSE g : Trims(g, ps, breakfast, crawl)
           Good(k) == /\ f[k] \in Seq(PlaceType)
                      /\ TrimmedFrom(f[k], ps, breakfast, crawl)
                      /\ Trimmed(f[k], breakfast, crawl) \/ Len(f[k]) = n - k
           S0 == { k \in 0..n : Good(k) }
<1>1. n \in Nat
  OBVIOUS
<1>2. Trims(f, ps, breakfast, crawl)
  BY TrimDefined
<1>3. Trim(ps, breakfast, crawl) = f[n]
  BY DEF Trim, Trims
<1> HIDE DEF f
<1>4. 0 \in S0
  <2>1. f[0] = ps /\ 0 \in 0..n
    BY <1>1, <1>2 DEF Trims
  <2>2. Good(0)
    BY <1>1, <2>1, TrimmedFromSelf
  <2> QED
    BY <2>1, <2>2
<1>5. ASSUME NEW k \in 0..(n - 1), k \in S0 PROVE k + 1 \in S0
  <2>1. k + 1 \in 0..n /\ k + 1 # 0 /\ (k + 1) - 1 = k /\ k \in Nat
    BY <1>1
  <2>2. f[k + 1] = TrimOne(f[k], breakfast, crawl)
    BY <1>2, <2>1 DEF Trims
  <2>3. Good(k)
    BY <1>5
  <2>4. /\ f[k + 1] \in Seq(PlaceType)
        /\ TrimmedFrom(f[k + 1], f[k], breakfast, crawl)
        /\ IF Trimmed(f[k], breakfast, crawl) THEN f[k + 1] = f[k]
           ELSE Len(f[k + 1]) = Len(f[k]) - 1
    <3>1. f[k] \in Seq(PlaceType)
      BY <2>3
    <3>2. /\ TrimOne(f[k], breakfast, crawl) \in Seq(PlaceType)
          /\ TrimmedFrom(TrimOne(f[k], breakfast, crawl), f[k], breakfast, crawl)
          /\ IF Trimmed(f[k], breakfast, crawl)
             THEN TrimOne(f[k], breakfast, crawl) = f[k]
             ELSE Len(TrimOne(f[k], breakfast, crawl)) = Len(f[k]) - 1
      <4> HIDE DEF n
      <4> QED
        BY <3>1, TrimOneIs
    <3> QED
      BY <2>2, <3>2
  <2>5. TrimmedFrom(f[k + 1], ps, breakfast, crawl)
    BY <2>3, <2>4, TrimmedFromTwice
  <2>6. Trimmed(f[k + 1], breakfast, crawl) \/ Len(f[k + 1]) = n - (k + 1)
    <3>1. CASE Trimmed(f[k], breakfast, crawl)
      BY <2>4, <3>1
    <3>2. CASE ~Trimmed(f[k], breakfast, crawl)
      <4>1. Len(f[k]) = n - k /\ Len(f[k + 1]) = Len(f[k]) - 1
        BY <2>3, <2>4, <3>2
      <4> QED
        BY <1>1, <2>1, <4>1
    <3> QED
      BY <3>1, <3>2
  <2> QED
    BY <2>1, <2>4, <2>5, <2>6
<1> HIDE DEF S0
<1>6. n \in S0
  BY <1>1, <1>4, <1>5, Climbs
<1>7. Good(n)
  BY <1>6 DEF S0
<1>8. Trimmed(f[n], breakfast, crawl)
  <2>1. CASE Len(f[n]) = n - n
    <3>1. ~(Len(f[n]) > MinPlaces)
      BY <1>1, <2>1, RulesAssumption
    <3> QED
      BY <3>1 DEF Trimmed
  <2> QED
    BY <1>7, <2>1
<1> QED
  BY <1>3, <1>7, <1>8

\* The open places of a day are usable places of it, no two of them one venue if that held.
LEMMA OpenIs ==
  ASSUME NEW ps \in Seq(PlaceType), NEW names
  PROVE  /\ Open(ps, names) \in Seq(PlaceType)
         /\ Range(Open(ps, names)) \subseteq Range(ps)
         /\ \A q \in Range(Open(ps, names)) : Usable(q, names)
         /\ Apart(ps) => Apart(Open(ps, names))
<1> DEFINE K == { i \in DOMAIN ps : Usable(ps[i], names) }
           os == Only(ps, K)
<1>1. Open(ps, names) = os
  BY DEF Open
<1>2. os \in Seq(PlaceType)
  BY OnlyIs
<1>3. PICK at \in [1..Len(os) -> 1..Len(ps)] :
        /\ \A j \in DOMAIN at : at[j] \in K /\ os[j] = ps[at[j]]
        /\ \A j, k \in DOMAIN at : j # k => at[j] # at[k]
  <2> HIDE DEF K
  <2> QED
    BY OnlyIs
<1> HIDE DEF os
<1>4. DOMAIN os = 1..Len(os) /\ DOMAIN at = 1..Len(os) /\ DOMAIN ps = 1..Len(ps)
  BY <1>2
<1>5. \A q \in Range(os) : q \in Range(ps) /\ Usable(q, names)
  BY <1>3, <1>4 DEF Range
<1>6. Apart(ps) => Apart(os)
  BY <1>3, <1>4 DEF Apart
<1> QED
  BY <1>1, <1>2, <1>5, <1>6

\* A day that passed the filter: its places are usable places of the day, and nothing is left
\* to trim.
LEMMA FilteredIs ==
  ASSUME NEW ps \in Seq(PlaceType), NEW names, NEW breakfast \in BOOLEAN, NEW crawl \in BOOLEAN,
         NEW day, day = Filtered(ps, names, breakfast, crawl)
  PROVE  /\ day \in Seq(PlaceType) /\ Range(day) \subseteq Range(ps)
         /\ \A q \in Range(day) : Usable(q, names)
         /\ Apart(ps) => Apart(day)
         /\ TrimmedFrom(day, Open(ps, names), breakfast, crawl)
         /\ Trimmed(day, breakfast, crawl)
<1> DEFINE os == Open(ps, names)
<1>1. /\ os \in Seq(PlaceType) /\ Range(os) \subseteq Range(ps)
      /\ \A q \in Range(os) : Usable(q, names)
      /\ Apart(ps) => Apart(os)
  BY OpenIs
<1>2. day = Trim(os, breakfast, crawl)
  BY DEF Filtered
<1> HIDE DEF os
<1>3. /\ day \in Seq(PlaceType) /\ TrimmedFrom(day, os, breakfast, crawl)
      /\ Trimmed(day, breakfast, crawl)
  BY <1>1, <1>2, TrimIs
<1>4. Range(day) \subseteq Range(os) /\ (Apart(os) => Apart(day))
  BY <1>3 DEF TrimmedFrom
<1> QED
  BY <1>1, <1>3, <1>4 DEF os

-----------------------------------------------------------------------------
(* One attempt                                                             *)

\* A place that was looked up, or not.
LEMMA EnrichedIs ==
  ASSUME NEW p \in Crew, NEW missed
  PROVE  /\ Enriched(p, missed) \in PlaceType
         /\ Enriched(p, missed).name = p.name /\ KeyName(Enriched(p, missed)) = KeyName(p)
         /\ IdToken(Enriched(p, missed)) \cap Visited = {}
         /\ Enriched(p, missed) = p \/ Enriched(p, missed) = Enriched(p, {})
<1>1. p \in PlaceType /\ p.name \in DOMAIN Lookup
  BY CrewAssumption
<1> DEFINE v == Lookup[p.name]
           off == IF v.off = None THEN p.off ELSE v.off
           id == IF v.id # None /\ (job.amap \/ p.id = None) THEN v.id ELSE p.id
<1>2. v \in [id : STRING \cup {None}, closed : BOOLEAN, off : BOOLEAN \cup {None}]
  BY CrewAssumption
<1> HIDE DEF v
<1>3. /\ Applied(p) \in PlaceType /\ Applied(p).name = p.name /\ Applied(p).key = p.key
      /\ Applied(p).id = id
  <2>1. off \in BOOLEAN /\ id \in STRING \cup {None}
    BY <1>1, <1>2 DEF PlaceType
  <2>2. Applied(p) = [p EXCEPT !.closed = v.closed, !.off = off, !.id = id]
    BY <1>1 DEF Applied, v, PlaceType
  <2> HIDE DEF off, id
  <2> QED
    BY <1>1, <1>2, <2>1, <2>2 DEF PlaceType
<1>4. IdToken(p) \cap Visited = {} /\ IdToken(Applied(p)) \cap Visited = {}
  <2>1. IdToken(p) \cap Visited = {} /\ IdToken(v) \cap Visited = {}
    BY CrewAssumption DEF v
  <2>2. IdToken(Applied(p)) = IdToken(p) \/ IdToken(Applied(p)) = IdToken(v)
    BY <1>3 DEF IdToken
  <2> QED
    BY <2>1, <2>2
<1>5. Enriched(p, missed) = p \/ (Enriched(p, missed) = Applied(p) /\ NeedsLookup(p))
  BY DEF Enriched
<1>6. NeedsLookup(p) => Enriched(p, {}) = Applied(p)
  BY DEF Enriched
<1>7. KeyName(Applied(p)) = KeyName(p)
  BY <1>3 DEF KeyName
<1> QED
  BY <1>1, <1>3, <1>4, <1>5, <1>6, <1>7

\* What is left of what the crew returned, before the filter.
Met(ps, missed) == Dedupe(EnrichedAll(Dedupe(ps, Visited), missed), Visited)

\* All of it comes from the crew, nothing is visited, no two places are one venue; and
\* nothing is left only if all was visited.
LEMMA MetIs ==
  ASSUME NEW ps \in Seq(Crew), NEW missed
  PROVE  /\ Met(ps, missed) \in Seq(PlaceType)
         /\ \A q \in Range(Met(ps, missed)) : \E p \in Crew : q = Enriched(p, missed)
         /\ \A q \in Range(Met(ps, missed)) : Tokens(q) \cap Visited = {}
         /\ Apart(Met(ps, missed))
         /\ Met(ps, missed) = <<>> => \A q \in Range(ps) : Tokens(q) \cap Visited # {}
<1> DEFINE us == Dedupe(ps, Visited)
           es == EnrichedAll(us, missed)
           met == Dedupe(es, Visited)
<1>1. /\ us \in Seq(Crew) /\ \A q \in Range(us) : Tokens(q) \cap Visited = {}
      /\ us = <<>> => \A q \in Range(ps) : Tokens(q) \cap Visited # {}
  BY DedupeIs
<1>2. es = [i \in DOMAIN us |-> Enriched(us[i], missed)]
  BY DEF EnrichedAll
<1> HIDE DEF us, es
<1>3. DOMAIN us = 1..Len(us) /\ Len(us) \in Nat /\ \A i \in 1..Len(us) : us[i] \in Crew
  BY <1>1
<1>4. /\ es \in Seq(PlaceType) /\ DOMAIN es = 1..Len(us)
      /\ \A i \in 1..Len(us) : es[i] = Enriched(us[i], missed)
  <2>1. \A i \in 1..Len(us) : Enriched(us[i], missed) \in PlaceType
    BY <1>3, EnrichedIs
  <2> QED
    BY <1>2, <1>3, <2>1
<1>5. /\ met \in Seq(PlaceType) /\ Range(met) \subseteq Range(es)
      /\ \A q \in Range(met) : Tokens(q) \cap Visited = {}
      /\ Apart(met)
      /\ met = <<>> => \A q \in Range(es) : Tokens(q) \cap Visited # {}
  BY <1>4, DedupeIs
<1> HIDE DEF met
<1>6. \A q \in Range(met) : \E p \in Crew : q = Enriched(p, missed)
  BY <1>3, <1>4, <1>5 DEF Range
<1>7. met = <<>> => us = <<>>
  <2>1. SUFFICES ASSUME met = <<>>, us # <<>> PROVE FALSE
    OBVIOUS
  <2>2. 1 \in 1..Len(us)
    BY <1>1, <1>3, <2>1
  <2> DEFINE p == us[1]
             q == Enriched(p, missed)
  <2>3. p \in Crew /\ p \in Range(us) /\ q \in Range(es)
    BY <1>3, <1>4, <2>2 DEF Range
  <2>4. Tokens(p) \cap Visited = {} /\ Tokens(q) \cap Visited # {}
    BY <1>1, <1>5, <2>1, <2>3
  <2> HIDE DEF p
  <2>5. q.name = p.name /\ KeyName(q) = KeyName(p) /\ IdToken(q) \cap Visited = {}
    BY <2>3, EnrichedIs
  <2> HIDE DEF q
  <2>6. Tokens(q) \subseteq Tokens(p) \cup IdToken(q)
    BY <2>5 DEF Tokens
  <2> QED
    BY <2>4, <2>5, <2>6
<1> QED
  BY <1>1, <1>5, <1>6, <1>7 DEF Met, met, es, us

\* The names that an attempt bans.
LEMMA BansAreJust ==
  ASSUME NEW ps \in Seq(Crew), NEW missed
  PROVE  /\ Met(ps, missed) = <<>> =>
              HadToGo(Labels(ps)) /\ Labels(ps) \subseteq STRING
         /\ LET gone == { p.name : p \in { q \in Range(Met(ps, missed)) : ~Usable(q, ProfileNames) } }
            IN  HadToGo(gone) /\ gone \subseteq STRING
<1> DEFINE met == Met(ps, missed)
<1>1. /\ \A q \in Range(met) : \E p \in Crew : q = Enriched(p, missed)
      /\ met = <<>> => \A q \in Range(ps) : Tokens(q) \cap Visited # {}
  BY MetIs
<1> HIDE DEF met
<1>2. \A p \in Crew : p.name \in STRING
  BY CrewAssumption DEF PlaceType
<1>3. ASSUME met = <<>> PROVE HadToGo(Labels(ps)) /\ Labels(ps) \subseteq STRING
  <2>1. ASSUME NEW n \in Labels(ps)
        PROVE  n \in STRING /\ \E p \in Crew : p.name = n /\ Tokens(p) \cap Visited # {}
    <3>1. PICK i \in DOMAIN ps : n = ps[i].name
      BY <2>1 DEF Labels
    <3>2. ps[i] \in Crew /\ ps[i] \in Range(ps)
      BY <3>1 DEF Range
    <3> QED
      BY <1>1, <1>2, <1>3, <3>1, <3>2
  <2> QED
    BY <2>1 DEF HadToGo
<1>4. ASSUME NEW q \in Range(met), ~Usable(q, ProfileNames)
      PROVE  /\ q.name \in STRING
             /\ \E p \in Crew : /\ p.name = q.name
                                /\ ~Usable(p, ProfileNames) \/ ~Usable(Enriched(p, {}), ProfileNames)
  <2>1. PICK p \in Crew : q = Enriched(p, missed)
    BY <1>1
  <2>2. p.name = q.name /\ (q = p \/ q = Enriched(p, {}))
    BY <2>1, EnrichedIs
  <2> QED
    BY <1>2, <1>4, <2>2
<1> QED
  BY <1>3, <1>4 DEF HadToGo, met

\* A day that passed the filter with enough places is usable.
LEMMA DayIsUsable ==
  ASSUME NEW met \in Seq(PlaceType), Apart(met), \A q \in Range(met) : Tokens(q) \cap Visited = {},
         NEW breakfast \in BOOLEAN, NEW crawl \in BOOLEAN,
         NEW day, day = Filtered(met, ProfileNames, breakfast, crawl), Len(day) >= 3
  PROVE  /\ day \in Seq(PlaceType)
         /\ \A i \in DOMAIN day : Usable(day[i], ProfileNames) /\ Tokens(day[i]) \cap Visited = {}
         /\ \A i, j \in DOMAIN day : i # j => Tokens(day[i]) \cap Tokens(day[j]) = {}
         /\ Overloaded(day) =>
              Len(day) = MinPlaces \/ Protected(day, breakfast, crawl) = DOMAIN day
         /\ MealsMissing(day, breakfast) => MealsMissing(Open(met, ProfileNames), breakfast)
         /\ FoodOnly(day, crawl) => NonFood(Open(met, ProfileNames)) = 0
<1>1. /\ day \in Seq(PlaceType) /\ Range(day) \subseteq Range(met)
      /\ \A q \in Range(day) : Usable(q, ProfileNames)
      /\ Apart(met) => Apart(day)
      /\ TrimmedFrom(day, Open(met, ProfileNames), breakfast, crawl)
      /\ Trimmed(day, breakfast, crawl)
  BY FilteredIs
<1>2. \A i \in DOMAIN day : day[i] \in Range(day)
  BY DEF Range
<1>3. \A i \in DOMAIN day : Usable(day[i], ProfileNames) /\ Tokens(day[i]) \cap Visited = {}
  BY <1>1, <1>2
<1>4. \A i, j \in DOMAIN day : i # j => Tokens(day[i]) \cap Tokens(day[j]) = {}
  BY <1>1 DEF Apart
<1>5. ASSUME Overloaded(day)
      PROVE  Len(day) = MinPlaces \/ Protected(day, breakfast, crawl) = DOMAIN day
  <2>1. Protected(day, breakfast, crawl) \subseteq DOMAIN day
    BY <1>1, ProtectedIs
  <2>2. ~(Len(day) > MinPlaces) \/ DOMAIN day \ Protected(day, breakfast, crawl) = {}
    BY <1>1, <1>5 DEF Trimmed
  <2>3. Len(day) \in Nat /\ Len(day) >= 3
    BY <1>1
  <2>4. ~(Len(day) > MinPlaces) => Len(day) = MinPlaces
    BY <2>3, RulesAssumption
  <2> QED
    BY <2>1, <2>2, <2>4
<1>6. MealsMissing(day, breakfast) => MealsMissing(Open(met, ProfileNames), breakfast)
  BY <1>1 DEF TrimmedFrom
<1>7. ASSUME FoodOnly(day, crawl) PROVE NonFood(Open(met, ProfileNames)) = 0
  <2>1. IsFiniteSet(DOMAIN day)
    BY <1>1, FoodFinite
  <2>2. NonFood(day) \in Nat
    BY <2>1, FS_Difference, FS_CardinalityType DEF NonFood
  <2>3. NonFood(day) = 0 /\ ~crawl
    BY <1>7, <2>2 DEF FoodOnly
  <2> QED
    BY <1>1, <2>3 DEF TrimmedFrom
<1> QED
  BY <1>1, <1>3, <1>4, <1>5, <1>6, <1>7

-----------------------------------------------------------------------------
(* Steps                                                                   *)

\* A day without a stop that is not food.
LEMMA NoNonFood ==
  ASSUME NEW ps \in Seq(PlaceType)
  PROVE  NonFood(ps) \in Nat /\ (NonFood(ps) = 0 <=> \A i \in DOMAIN ps : IsFood(ps[i]))
<1>1. IsFiniteSet(DOMAIN ps)
  BY FoodFinite
<1>2. IsFiniteSet(DOMAIN ps \ Food(ps))
  BY <1>1, FS_Difference
<1>3. NonFood(ps) \in Nat /\ (NonFood(ps) = 0 <=> DOMAIN ps \ Food(ps) = {})
  BY <1>2, FS_CardinalityType, FS_EmptySet DEF NonFood
<1>4. DOMAIN ps \ Food(ps) = {} <=> \A i \in DOMAIN ps : IsFood(ps[i])
  BY DEF Food
<1> QED
  BY <1>3, <1>4

\* A suggestion that no check refuses.
LEMMA SuggestionIs ==
  ASSUME job \in JobType, NEW p \in PlaceType, Fault(p) = None
  PROVE  /\ Usable(p, ProfileNames) /\ p.minutes > 0
         /\ {p.name, KeyName(p)} \cap (Visited \cup job.banned) = {}
         /\ \A i \in DOMAIN job.existing : Tokens(p) \cap Tokens(job.existing[i]) = {}
         /\ Len(job.existing) < MaxPlaces
         /\ ~Mismatch(p, job.hint)
         /\ FoodOnly(Append(job.existing, p), job.crawl) => HintCategory(job.hint) = "food"
<1> DEFINE f == SuggestionFault(p, job.existing, Visited \cup job.banned, ProfileNames)
           es == job.existing
<1>1. es \in Seq(PlaceType) /\ p.minutes \in Int
  BY DEF JobType, PlaceType
<1>2. f = None /\ ~Mismatch(p, job.hint) /\ ~Unbalanced(p, es, job.hint, job.crawl)
  BY RulesAssumption DEF Fault, SuggestCode
<1>3. /\ ~(Len(es) >= MaxPlaces) /\ ~(p.minutes < 1) /\ ~p.closed /\ ~p.off
      /\ Tokens(p) \cap ((Visited \cup job.banned) \cup UNION { Tokens(es[i]) : i \in DOMAIN es }) = {}
      /\ ~WasVisited(p, ProfileNames)
  BY <1>2, RulesAssumption DEF SuggestionFault, SuggestCode
<1> HIDE DEF es
<1>4. ASSUME NEW i \in DOMAIN es PROVE Tokens(p) \cap Tokens(es[i]) = {}
  BY <1>3
<1>5. {p.name, KeyName(p)} \subseteq Tokens(p)
  BY DEF Tokens
<1>6. {p.name, KeyName(p)} \cap (Visited \cup job.banned) = {}
  BY <1>3, <1>5
<1>7. ASSUME FoodOnly(Append(es, p), job.crawl), HintCategory(job.hint) # "food" PROVE FALSE
  <2> DEFINE u == Append(es, p)
  <2>1. /\ u \in Seq(PlaceType) /\ Len(u) = Len(es) + 1 /\ u[Len(es) + 1] = p
        /\ \A j \in 1..Len(es) : u[j] = es[j]
    BY <1>1, AppendProperties
  <2> HIDE DEF u
  <2>2. DOMAIN u = 1..(Len(es) + 1) /\ DOMAIN es = 1..Len(es) /\ Len(es) \in Nat
    BY <1>1, <2>1
  <2>3. ~job.crawl /\ Len(u) >= 3 /\ NonFood(u) < 1
    BY <1>7 DEF FoodOnly, u
  <2>4. \A i \in DOMAIN u : IsFood(u[i])
    BY <2>1, <2>3, NoNonFood
  <2>5. IsFood(p) /\ \A i \in DOMAIN es : IsFood(es[i])
    <3>1. Len(es) + 1 \in DOMAIN u /\ \A i \in 1..Len(es) : i \in DOMAIN u
      BY <2>2
    <3> QED
      BY <2>1, <2>2, <2>4, <3>1
  <2>6. NonFood(es) = 0
    BY <1>1, <2>5, NoNonFood
  <2>7. Len(es) >= 2
    BY <2>1, <2>2, <2>3
  <2> QED
    BY <1>2, <1>7, <2>3, <2>5, <2>6, <2>7 DEF Unbalanced, WantsNonFood
<1>8. ~(Len(es) >= MaxPlaces) => Len(es) < MaxPlaces
  BY <1>1, RulesAssumption
<1> QED
  BY <1>1, <1>2, <1>3, <1>4, <1>6, <1>7, <1>8 DEF Usable, es

\* A job that has failed.
LEMMA FailedStep ==
  ASSUME job \in JobType, NEW code \in Code, Failed(code)
  PROVE  /\ job' \in JobType /\ job'.pc = "failed" /\ job'.kind = job.kind
         /\ job'.banned = job.banned /\ job'.amap = job.amap
BY DEF Failed, JobType

\* The next attempt, or the end of the last one.
LEMMA RetryStep ==
  ASSUME job \in JobType, job.pc = "ask", NEW code \in Code, NEW names \in SUBSET STRING,
         Retry(code, names)
  PROVE  /\ job' \in JobType /\ job'.pc # "saved" /\ job'.kind = job.kind
         /\ job'.amap = job.amap
         /\ job'.banned \subseteq job.banned \cup names
<1>1. CASE MayRetry
  <2>1. job' = [job EXCEPT !.attempt = @ + 1, !.banned = @ \cup names, !.code = code]
    BY <1>1 DEF Retry
  <2>2. job.attempt + 1 \in 0..(MaxAttempts - 1)
    BY <1>1, CrewAssumption DEF MayRetry, JobType
  <2> QED
    BY <2>1, <2>2 DEF JobType
<1>2. CASE ~MayRetry
  <2>1. Failed(code)
    BY <1>2 DEF Retry
  <2> QED
    BY <2>1, FailedStep
<1> QED
  BY <1>1, <1>2

\* A day that is saved, or refused by the tags of the crew's own report or by the safety gate.
LEMMA SaveStep ==
  ASSUME job \in JobType, NEW ps \in Seq(PlaceType), NEW met \in Seq(PlaceType),
         NEW tags \in SUBSET {"missing_meals"}, Save(ps, met, tags)
  PROVE  /\ job' \in JobType /\ job'.kind = job.kind /\ job'.banned = job.banned
         /\ job'.amap = job.amap
         /\ job'.breakfast = job.breakfast /\ job'.crawl = job.crawl /\ job'.attempt = job.attempt
         /\ job'.pc = "saved" => job'.result = ps /\ job'.met = met /\ tags \subseteq job'.tags
<1>1. PICK report \in SUBSET {"wrong_city", "food_only_day"} :
        LET all == Merged(report, tags) IN
        IF HardFail(all) THEN Failed("quality_hard_fail")
        ELSE \/ job' = [job EXCEPT !.pc = "saved", !.result = ps, !.met = met,
                                   !.tags = all, !.code = None]
             \/ Failed("safety_rejected")
  BY Zenon DEF Save
<1> DEFINE all == Merged(report, tags)
<1>2. tags \subseteq all /\ all \in SUBSET {"wrong_city", "food_only_day", "missing_meals"}
  BY DEF Merged
<1> HIDE DEF all
<1>3. CASE Failed("quality_hard_fail") \/ Failed("safety_rejected")
  <2>1. /\ job' \in JobType /\ job'.pc = "failed" /\ job'.kind = job.kind
        /\ job'.banned = job.banned /\ job'.amap = job.amap
    <3>1. "quality_hard_fail" \in Code /\ "safety_rejected" \in Code
      BY DEF Code
    <3> QED
      BY <1>3, <3>1, FailedStep
  <2>2. /\ job'.breakfast = job.breakfast /\ job'.crawl = job.crawl
        /\ job'.attempt = job.attempt
    BY <1>3 DEF Failed, JobType
  <2> QED
    BY <2>1, <2>2
<1>4. CASE job' = [job EXCEPT !.pc = "saved", !.result = ps, !.met = met,
                              !.tags = all, !.code = None]
  BY <1>2, <1>4 DEF JobType, Code
<1> QED
  BY <1>1, <1>3, <1>4 DEF all

\* The job starts in order.
LEMMA StartsInOrder ==
  ASSUME CrewInit
  PROVE  JobInv
<1>1. job \in JobType /\ job.pc = "ask" /\ job.banned = {}
  <2>1. <<>> \in Seq(PlaceType) /\ 0 \in 0..(MaxAttempts - 1) /\ {} \in SUBSET STRING
    BY CrewAssumption
  <2>2. CASE PlanRequest
    <3>1. PICK crawl \in BOOLEAN, breakfast \in BOOLEAN, amap \in BOOLEAN :
            job = [NoJob EXCEPT !.kind = "plan", !.pc = "ask", !.crawl = crawl,
                                !.breakfast = breakfast, !.amap = amap]
      BY <2>2, Zenon DEF PlanRequest, Crawls, Providers
    <3> QED
      BY <2>1, <3>1 DEF NoJob, JobType, Code
  <2>3. CASE SuggestRequest
    <3>1. PICK crawl \in BOOLEAN, h \in Hint, ps \in Existing, amap \in BOOLEAN :
            job = [NoJob EXCEPT !.kind = "suggest", !.pc = "ask", !.crawl = crawl,
                                !.hint = h, !.existing = ps, !.amap = amap]
      BY <2>3, Zenon DEF SuggestRequest, Crawls, Providers
    <3>2. ps \in Seq(PlaceType)
      BY CrewAssumption
    <3> QED
      BY <2>1, <3>1, <3>2 DEF NoJob, JobType, Code
  <2> QED
    BY <2>2, <2>3 DEF CrewInit
<1> QED
  BY <1>1 DEF JobInv, PlannedDayIsUsable, BannedWereRejected, SuggestionFits

\* What is banned stays deserved: the lookups of a job are made with one provider.
LEMMA BansStayJust ==
  ASSUME BannedWereRejected, job'.amap = job.amap, job'.kind = job.kind,
         NEW names, job.kind = "plan" => HadToGo(names), job'.banned \subseteq job.banned \cup names
  PROVE  BannedWereRejected'
<1>1. \A p \in Crew : Enriched(p, {})' = Enriched(p, {})
  BY DEF Enriched, Applied, NeedsLookup
<1>2. SUFFICES ASSUME job.kind = "plan", NEW n \in job'.banned
               PROVE  \E p \in Crew :
                        /\ p.name = n
                        /\ \/ ~Usable(p, ProfileNames) \/ ~Usable(Enriched(p, {})', ProfileNames)
                           \/ Tokens(p) \cap Visited # {}
  BY DEF BannedWereRejected
<1>3. \E p \in Crew :
        /\ p.name = n
        /\ \/ ~Usable(p, ProfileNames) \/ ~Usable(Enriched(p, {}), ProfileNames)
           \/ Tokens(p) \cap Visited # {}
  BY <1>2 DEF BannedWereRejected, HadToGo
<1> QED
  BY <1>1, <1>3

\* A step that saves nothing and bans what had to go keeps the invariant.
LEMMA UnsavedStep ==
  ASSUME JobInv, job' \in JobType, job'.pc # "saved", job'.kind = job.kind,
         job'.amap = job.amap, NEW names, job.kind = "plan" => HadToGo(names), job'.banned \subseteq job.banned \cup names
  PROVE  JobInv'
<1>1. BannedWereRejected'
  BY BansStayJust DEF JobInv
<1> QED
  BY <1>1 DEF JobInv, PlannedDayIsUsable, SuggestionFits

\* One attempt at a day.
LEMMA PlanDayKeeps ==
  ASSUME JobInv, NEW ps \in Seq(Crew), NEW missed, PlanDay(ps, missed)
  PROVE  JobInv'
<1> DEFINE met == Met(ps, missed)
           day == Filtered(met, ProfileNames, job.breakfast, job.crawl)
           gone == { p.name : p \in { q \in Range(met) : ~Usable(q, ProfileNames) } }
<1>1. /\ job \in JobType /\ job.kind = "plan" /\ job.pc = "ask"
      /\ job.breakfast \in BOOLEAN /\ job.crawl \in BOOLEAN
  BY DEF JobInv, JobType, PlanDay
<1>2. /\ met \in Seq(PlaceType) /\ Apart(met)
      /\ \A q \in Range(met) : Tokens(q) \cap Visited = {}
  BY MetIs
<1>3. /\ met = <<>> => HadToGo(Labels(ps)) /\ Labels(ps) \in SUBSET STRING
      /\ HadToGo(gone) /\ gone \in SUBSET STRING
  BY BansAreJust
<1>4. /\ Rejected("dedupe_empty", ps) = Labels(ps)
      /\ Rejected("quality_empty", met) = gone
      /\ Rejected("missing_meals", day) = {} /\ Rejected("food_only_day", day) = {}
  BY DEF Rejected
<1>5. \/ met = <<>> /\ Retry("dedupe_empty", Labels(ps))
      \/ Retry("quality_empty", gone)
      \/ Retry("missing_meals", {})
      \/ Retry("food_only_day", {})
      \/ /\ Len(day) >= 3 /\ MealsMissing(day, job.breakfast) /\ ~MayRetry
         /\ Save(day, met, {"missing_meals"})
      \/ /\ Len(day) >= 3 /\ ~MealsMissing(day, job.breakfast) /\ ~FoodOnly(day, job.crawl)
         /\ Save(day, met, {})
  <2>1. Len(day) < 3 \/ Len(day) >= 3
    <3>1. day \in Seq(PlaceType)
      BY <1>1, <1>2, FilteredIs
    <3> HIDE DEF day
    <3> QED
      BY <3>1
  <2>2. /\ job.kind = "plan" /\ job.pc = "ask"
        /\ IF met = <<>> THEN Retry("dedupe_empty", Rejected("dedupe_empty", ps))
           ELSE IF Len(day) < 3 THEN Retry("quality_empty", Rejected("quality_empty", met))
           ELSE IF MealsMissing(day, job.breakfast)
                THEN IF MayRetry
                     THEN Retry("missing_meals", Rejected("missing_meals", day))
                     ELSE Save(day, met, {"missing_meals"})
           ELSE IF FoodOnly(day, job.crawl)
                THEN Retry("food_only_day", Rejected("food_only_day", day))
           ELSE Save(day, met, {})
    BY DEF PlanDay, Met
  <2> HIDE DEF met, day, gone
  <2> QED
    BY <1>4, <2>1, <2>2
<1> HIDE DEF met, day, gone
<1>6. ASSUME NEW code \in Code, NEW names \in SUBSET STRING, Retry(code, names), HadToGo(names)
      PROVE  JobInv'
  BY <1>1, <1>6, RetryStep, UnsavedStep
<1>7. ASSUME NEW tags \in SUBSET {"missing_meals"}, Save(day, met, tags), Len(day) >= 3,
             \/ MealsMissing(day, job.breakfast) /\ ~MayRetry /\ tags = {"missing_meals"}
             \/ ~MealsMissing(day, job.breakfast) /\ ~FoodOnly(day, job.crawl)
      PROVE  JobInv'
  <2>1. /\ day \in Seq(PlaceType)
        /\ \A i \in DOMAIN day : Usable(day[i], ProfileNames) /\ Tokens(day[i]) \cap Visited = {}
        /\ \A i, j \in DOMAIN day : i # j => Tokens(day[i]) \cap Tokens(day[j]) = {}
        /\ Overloaded(day) =>
             Len(day) = MinPlaces \/ Protected(day, job.breakfast, job.crawl) = DOMAIN day
        /\ MealsMissing(day, job.breakfast) =>
             MealsMissing(Open(met, ProfileNames), job.breakfast)
        /\ FoodOnly(day, job.crawl) => NonFood(Open(met, ProfileNames)) = 0
    BY <1>1, <1>2, <1>7, DayIsUsable DEF day
  <2>2. /\ job' \in JobType /\ job'.kind = job.kind /\ job'.banned = job.banned
        /\ job'.breakfast = job.breakfast /\ job'.crawl = job.crawl /\ job'.attempt = job.attempt
        /\ job'.amap = job.amap
        /\ job'.pc = "saved" => job'.result = day /\ job'.met = met /\ tags \subseteq job'.tags
    BY <1>1, <1>2, <1>7, <2>1, SaveStep
  <2>3. CASE job'.pc # "saved"
    <3>1. HadToGo({}) /\ job'.banned \subseteq job.banned \cup {}
      BY <2>2 DEF HadToGo
    <3> QED
      BY <2>2, <2>3, <3>1, UnsavedStep
  <2>4. CASE job'.pc = "saved"
    <3>1. job'.result = day /\ job'.met = met /\ tags \subseteq job'.tags
      BY <2>2, <2>4
    <3>2. MealsMissing(day, job.breakfast) =>
            job.attempt + 1 = MaxAttempts /\ "missing_meals" \in job'.tags
      <4>1. ~MayRetry => job.attempt + 1 = MaxAttempts
        BY <1>1, CrewAssumption DEF MayRetry, JobType
      <4> QED
        BY <1>7, <3>1, <4>1
    <3>3. FoodOnly(day, job.crawl) => MealsMissing(day, job.breakfast)
      BY <1>7
    <3>4. PlannedDayIsUsable'
      BY <1>7, <2>1, <2>2, <3>1, <3>2, <3>3 DEF PlannedDayIsUsable
    <3>5. BannedWereRejected' /\ SuggestionFits'
      <4>1. HadToGo({}) /\ job'.banned \subseteq job.banned \cup {}
        BY <2>2 DEF HadToGo
      <4> QED
        BY <1>1, <2>2, <4>1, BansStayJust DEF JobInv, SuggestionFits
    <3> QED
      BY <2>2, <3>4, <3>5 DEF JobInv
  <2> QED
    BY <2>3, <2>4
<1>8. "dedupe_empty" \in Code /\ "quality_empty" \in Code /\ "missing_meals" \in Code
  BY DEF Code
<1>9. "food_only_day" \in Code /\ HadToGo({}) /\ {} \in SUBSET STRING
  BY DEF Code, SuggestCode, HadToGo
<1>10. {} \in SUBSET {"missing_meals"} /\ {"missing_meals"} \in SUBSET {"missing_meals"}
  OBVIOUS
<1>11. CASE met = <<>> /\ Retry("dedupe_empty", Labels(ps))
  BY <1>3, <1>6, <1>8, <1>11
<1>12. CASE Retry("quality_empty", gone)
  BY <1>3, <1>6, <1>8, <1>12
<1>13. CASE Retry("missing_meals", {})
  BY <1>6, <1>8, <1>9, <1>13
<1>14. CASE Retry("food_only_day", {})
  BY <1>6, <1>9, <1>14
<1>15. CASE /\ Len(day) >= 3 /\ MealsMissing(day, job.breakfast) /\ ~MayRetry
            /\ Save(day, met, {"missing_meals"})
  BY <1>7, <1>10, <1>15
<1>16. CASE /\ Len(day) >= 3 /\ ~MealsMissing(day, job.breakfast) /\ ~FoodOnly(day, job.crawl)
            /\ Save(day, met, {})
  BY <1>7, <1>10, <1>16
<1> QED
  BY <1>5, <1>11, <1>12, <1>13, <1>14, <1>15, <1>16

\* One attempt at a place.
LEMMA SuggestPlaceKeeps ==
  ASSUME JobInv, NEW p \in PlaceType, SuggestPlace(p)
  PROVE  JobInv'
<1>1. job \in JobType /\ job.kind = "suggest" /\ job.pc = "ask"
  BY DEF JobInv, SuggestPlace
<1>2. ASSUME job' \in JobType, job'.pc # "saved", job'.kind = job.kind PROVE JobInv'
  BY <1>1, <1>2 DEF JobInv, PlannedDayIsUsable, BannedWereRejected, SuggestionFits
<1>3. Fault(p) \in Code
  BY DEF Fault, SuggestionFault, Code, SuggestCode
<1>4. Refused(p) \in SUBSET STRING
  BY DEF Refused, KeyName, PlaceType
<1>5. CASE Retry(Fault(p), Refused(p))
  BY <1>1, <1>2, <1>3, <1>4, <1>5, RetryStep
<1>6. CASE Failed(Fault(p)) \/ Failed("safety_rejected")
  <2>1. "safety_rejected" \in Code
    BY DEF Code
  <2> QED
    BY <1>1, <1>2, <1>3, <1>6, <2>1, FailedStep
<1>7. CASE Fault(p) = None /\ job' = [job EXCEPT !.pc = "saved", !.result = <<p>>, !.code = None]
  <2>1. <<p>> \in Seq(PlaceType) /\ <<p>>[1] = p
    OBVIOUS
  <2>2. /\ job' \in JobType /\ job'.kind = job.kind /\ job'.pc = "saved" /\ job'.result = <<p>>
        /\ job'.banned = job.banned /\ job'.existing = job.existing /\ job'.hint = job.hint
        /\ job'.crawl = job.crawl
    BY <1>1, <1>7, <2>1 DEF JobType, Code
  <2>3. SuggestionFits'
    <3>1. job'.result[1] = p
      BY <2>1, <2>2
    <3> QED
      BY <1>1, <1>7, <2>2, <3>1, SuggestionIs DEF SuggestionFits
  <2>4. PlannedDayIsUsable' /\ BannedWereRejected'
    BY <1>1, <2>2 DEF PlannedDayIsUsable, BannedWereRejected
  <2> QED
    BY <2>2, <2>3, <2>4 DEF JobInv
<1> QED
  BY <1>5, <1>6, <1>7 DEF SuggestPlace

\* A step of a job.
LEMMA StepKeeps ==
  ASSUME JobInv, [CrewNext]_vars
  PROVE  JobInv'
<1>1. ASSUME NEW n \in 0..MaxDay, NEW ps \in [1..n -> Crew], NEW missed \in Missed, PlanDay(ps, missed)
      PROVE  JobInv'
  <2>1. n \in Nat
    BY CrewAssumption
  <2>2. ps \in Seq(Crew)
    BY <2>1
  <2> QED
    BY <1>1, <2>2, PlanDayKeeps
<1>2. ASSUME NEW p \in Crew, NEW missed \in Missed, SuggestPlace(Enriched(p, missed))
      PROVE  JobInv'
  <2>1. Enriched(p, missed) \in PlaceType
    BY EnrichedIs
  <2> QED
    BY <1>2, <2>1, SuggestPlaceKeeps
<1>3. CASE CrewFails
  <2>1. job \in JobType /\ Failed("crew_failed") /\ "crew_failed" \in Code
    BY <1>3 DEF JobInv, CrewFails, Code
  <2>2. /\ job' \in JobType /\ job'.pc = "failed" /\ job'.kind = job.kind
        /\ job'.banned \subseteq job.banned \cup {} /\ job'.amap = job.amap
    BY <2>1, FailedStep
  <2>3. HadToGo({})
    BY DEF HadToGo
  <2> QED
    BY <2>2, <2>3, UnsavedStep
<1>4. CASE UNCHANGED vars
  <2>1. job' = job /\ HadToGo({})
    BY <1>4 DEF vars, HadToGo
  <2>2. BannedWereRejected'
    BY <2>1, BansStayJust DEF JobInv
  <2> QED
    BY <2>1, <2>2 DEF JobInv, JobType, PlannedDayIsUsable, SuggestionFits
<1> QED
  BY <1>1, <1>2, <1>3, <1>4 DEF CrewNext

\* The invariant holds throughout (trips/plan_day_agent_pipeline.py, trips/suggest_place.py).
THEOREM JobsKeepInvariant == CrewSpec => []JobInv
<1>1. CrewInit => JobInv
  BY StartsInOrder
<1>2. JobInv /\ [CrewNext]_vars => JobInv'
  BY StepKeeps
<1> QED
  BY <1>1, <1>2, PTL DEF CrewSpec

\* Whatever the crew returns and whichever lookups fail, a day that is saved is open, new and
\* without doubles as far as was looked up; trimming took no meal that the day had and not its
\* only stop without food (_run_plan_day_and_persist, filter_quality_places).
THEOREM SavedDaysAreUsable == CrewSpec => []PlannedDayIsUsable
<1>1. JobInv => PlannedDayIsUsable
  BY DEF JobInv
<1> QED
  BY <1>1, JobsKeepInvariant, PTL

\* Retries ban only what had to be rejected (labels_to_ban_after_failure).
THEOREM BansAreDeserved == CrewSpec => []BannedWereRejected
<1>1. JobInv => BannedWereRejected
  BY DEF JobInv
<1> QED
  BY <1>1, JobsKeepInvariant, PTL

\* A suggested place that is saved is open, new, not on the day, what the hint asks for, and
\* no further food for a day of food alone (_suggest_place_sync).
THEOREM SavedSuggestionsFit == CrewSpec => []SuggestionFits
<1>1. JobInv => SuggestionFits
  BY DEF JobInv
<1> QED
  BY <1>1, JobsKeepInvariant, PTL

\* No hint and no day exclude every place: the checks of the hint and of the balance agree
\* on some category (day_balance.py).
THEOREM HintsLeaveAChoice == CrewSpec => []HintIsSatisfiable
<1>1. ASSUME NEW q \in Crew, NEW c \in {"food", "museum", "park"}
      PROVE  [q EXCEPT !.category = c].category = c
  <2>1. q \in PlaceType
    BY CrewAssumption
  <2> QED
    BY <2>1 DEF PlaceType
<1>2. HintIsSatisfiable
  <2>1. PICK q \in Crew : TRUE
    BY CrewAssumption
  <2> DEFINE c == IF HintCategory(job.hint) = None \/ HintCategory(job.hint) = "museum" THEN "museum"
                  ELSE HintCategory(job.hint)
             p == [q EXCEPT !.category = c]
  <2>2. c \in {"food", "museum", "park"}
    BY DEF HintCategory
  <2>3. p.category = c
    BY <1>1, <2>2
  <2> HIDE DEF p
  <2>4. ~Mismatch(p, job.hint)
    BY <2>3, RulesAssumption DEF Mismatch, RequiresNonFood, IsFood, Category, HintCategory
  <2>5. ~Unbalanced(p, job.existing, job.hint, job.crawl)
    BY <2>3 DEF Unbalanced, WantsNonFood, IsFood
  <2> QED
    BY <2>1, <2>2, <2>4, <2>5 DEF HintIsSatisfiable, p
<1> QED
  BY <1>2, PTL
=============================================================================
