-------------------------- MODULE DayPlacesProofs --------------------------
(***************************************************************************)
(* Proofs about DayPlaces, for the mixes of actors that MCDayPlaces has:   *)
(* the types, that no key placed is forgotten, none stands twice, an edit  *)
(* keeps the rest of its day, and a trip that is gone has no days.         *)
(***************************************************************************)
EXTENDS DayPlaces, FiniteSetTheorems, SequenceTheorems, WellFoundedInduction, TLAPS

Run == Planner \cup SyncPlanner

\* Which actors the theorems let act together: one edit, beside suggestions and
\* asynchronous runs while no claim is lost, beside suggestions whose claims may be
\* lost, or beside one synchronous request.
Mix(A) ==
  /\ \A v, w \in Editor \cap A : v = w
  /\ \/ A \cap SyncPlanner = {} /\ Loss \notin A
     \/ A \cap Run = {}
     \/ A \cap (Planner \cup Suggester) = {} /\ \A p, q \in SyncPlanner \cap A : p = q

Mixes == \A A \in Together : Mix(A)

-----------------------------------------------------------------------------
(* The inductive invariant                                                 *)

\* Who has not ended.
EditLeft(w) == edit[w].pc # "done"
SugLeft(s) == sug[s].pc # "done"
PlanLeft(p) == plan[p].pc # "done"

AsyncPc == {"read", "recheck", "put", "complete", "fail"}
SyncPc == {"heal", "slot", "live", "write", "undo", "rollback", "check", "unput", "cursors"}

SugBusy(s) == sug[s].pc \in {"read", "put", "complete", "fail"}
Claimed(p) == plan[p].pc \in AsyncPc
Busy(p) == plan[p].pc \in AsyncPc \cup SyncPc

\* A run that is going to put its day, one whose plan is made, and one that has put it
\* and not yet written the keys.
Before(p) == plan[p].pc \in {"read", "recheck", "put", "heal", "slot", "live", "write"}
Placing(p) == plan[p].pc \in {"recheck", "put", "live", "write"}
Placed(p) == plan[p].pc \in {"complete", "check", "unput", "cursors"}

\* The mix, read off the actors that have not ended.
Mixed ==
  /\ \A v, w \in Editor : EditLeft(v) /\ EditLeft(w) => v = w
  /\ \/ (\A p \in SyncPlanner : ~PlanLeft(p)) /\ stale = MaxStale
     \/ \A p \in Run : ~PlanLeft(p)
     \/ /\ \A p \in Planner : ~PlanLeft(p)
        /\ \A s \in Suggester : ~SugLeft(s)
        /\ \A p, q \in SyncPlanner : PlanLeft(p) /\ PlanLeft(q) => p = q
  /\ \A p \in Run : /\ plan[p].pc \in AsyncPc => p \in Planner
                    /\ plan[p].pc \in SyncPc => p \in SyncPlanner

\* One run at a time; an asynchronous one holds the claim, which is never lost, and so
\* does a suggestion where there are runs.
Claims ==
  /\ \A p, q \in Run : Busy(p) /\ Busy(q) => p = q
  /\ \A p \in Run : Claimed(p) =>
       trip.pdi = plan[p].day /\ trip.job = None /\ gone.pc = "idle"
  /\ \A s \in Suggester : SugBusy(s) /\ Exists /\ (\E p \in Run : PlanLeft(p)) => trip.job = s
  /\ trip.pdi # 0 => stale = MaxStale

\* The deletion of the trip: no run puts a day that it overlooks and that stays.
Deletion ==
  /\ Exists <=> gone.pc \notin {"days", "done"}
  /\ ~Exists => trip.pdi = 0 /\ trip.job = None
  /\ gone.pc # "idle" => ~Alive \/ \A p \in Run : ~PlanLeft(p)
  /\ gone.pc \in {"trip", "days", "done"} =>
       \A d \in DOMAIN days :
         d \in gone.left \/ \E p \in Run : plan[p].pc \in {"check", "unput"} /\ plan[p].day = d
  /\ gone.pc = "done" => gone.left = {}

\* The keys on days other than that of p.
Elsewhere(p) == Keys(DOMAIN days \ {plan[p].day})

\* The keys that stand on days are known: to the TRIP row, or to the run that is about to
\* write it.
KeysKnown ==
  /\ Exists /\ (\A p \in Run : ~Placed(p)) => Keys(DOMAIN days) \subseteq Range(trip.visited)
  /\ \A p \in Run :
       /\ Placing(p) \/ plan[p].pc = "slot" => Keys(DOMAIN days) \subseteq Range(plan[p].visited)
       /\ Placing(p) => /\ Keys(DOMAIN days) \cap Range(plan[p].new) = {}
                        /\ IsInjective(plan[p].new) /\ Len(plan[p].new) <= 2
       /\ Placed(p) => Keys(DOMAIN days) \subseteq Range(plan[p].visited) \cup Range(plan[p].new)
       /\ plan[p].pc \in {"recheck", "put", "complete"} =>
            Range(plan[p].new) \subseteq Range(plan[p].visited)
       /\ Exists /\ plan[p].pc \in {"check", "unput"} => Elsewhere(p) \subseteq Range(trip.visited)
       /\ Before(p) => plan[p].day \notin DOMAIN days

\* What a suggestion is about to append.
SugFits ==
  \A s \in Suggester : sug[s].pc = "put" =>
    sug[s].key \in Key \ Range(sug[s].prev) /\ sug[s].n < MaxPlaces

\* Some suggestion or run may yet choose keys by the list of the TRIP row.
MayChoose ==
  \/ \E s \in Suggester : SugLeft(s)
  \/ \E p \in Planner : PlanLeft(p)
  \/ \E p \in SyncPlanner : plan[p].pc \in {"idle", "heal"}

\* The keys an edit prunes stand on its own day at most, until it has written; and nobody
\* places them again, for they are visited as long as anyone chooses.
PruneSafe ==
  \A w \in Editor :
    /\ edit[w].pc \in {"idle", "done"} => edit[w].prune = {}
    /\ \A d \in DOMAIN days :
         d # edit[w].day \/ edit[w].pc \in {"read", "prune"} =>
           Range(days[d]) \cap edit[w].prune = {}
    /\ edit[w].pc = "write" => edit[w].prune \cap Range(edit[w].new) = {}
    /\ Exists /\ MayChoose => edit[w].prune \subseteq Range(trip.visited)
    /\ \A p \in Run :
         /\ plan[p].pc \in {"slot", "recheck", "put", "complete"} =>
              edit[w].prune \subseteq Range(plan[p].visited)
         /\ Placing(p) => edit[w].prune \cap Range(plan[p].new) = {}

\* The day an edit is about to write: if it has the number of places that was read, it has
\* the places that were read; and no run puts the day anew.
WriteSafe ==
  \A w \in Editor : edit[w].pc = "write" =>
    LET d == edit[w].day IN
    /\ IsInjective(edit[w].new) /\ Len(edit[w].new) <= edit[w].n
    /\ d \in DOMAIN days =>
         /\ Len(days[d]) >= edit[w].n
         /\ Len(days[d]) = edit[w].n =>
              /\ Range(edit[w].new) \subseteq Range(days[d])
              /\ \E k \in Key : Range(days[d]) \subseteq Range(edit[w].new) \cup {k}
    /\ \A p \in Run : Before(p) => plan[p].day # d
    /\ d \notin DOMAIN days => ~Exists \/ \A p \in Run : plan[p].pc # "idle"

IInv ==
  /\ TypeOK /\ Mixed /\ Claims /\ Deletion /\ KeysKnown /\ NoKeyTwice /\ SugFits
  /\ PruneSafe /\ WriteSafe

-----------------------------------------------------------------------------
(* Sequences and least numbers                                             *)

Less == { e \in Nat \X Nat : e[1] < e[2] }

\* A set of numbers that is not empty has a least one.
LEMMA LeastOf ==
  ASSUME NEW S, S \subseteq Nat, S # {}
  PROVE  \E m \in S : \A n \in S : m <= n
<1>1. IsWellFoundedOn(Less, Nat)
  BY NatLessThanWellFounded DEF OpToRel, Less
<1>2. PICK m \in S : \A n \in S : <<n, m>> \notin Less
  BY <1>1, WFMin
<1>3. ASSUME NEW n \in S PROVE m <= n
  <2>1. n \in Nat /\ m \in Nat /\ <<n, m>> \notin Less
    BY <1>2
  <2>2. ~(n < m)
    BY <2>1 DEF Less
  <2> QED
    BY <2>1, <2>2
<1> QED
  BY <1>3

\* A set that holds 0, and k + 1 with each k below n that it holds, holds n.
LEMMA Climbs ==
  ASSUME NEW n \in Nat, NEW S, 0 \in S, \A k \in 0..(n - 1) : k \in S => k + 1 \in S
  PROVE  n \in S
<1> DEFINE Out == { k \in 0..n : k \notin S }
<1>1. SUFFICES ASSUME n \notin S PROVE FALSE
  OBVIOUS
<1>2. Out \subseteq Nat /\ Out # {}
  BY <1>1
<1> HIDE DEF Out
<1>3. PICK m \in Out : \A k \in Out : m <= k
  BY <1>2, LeastOf
<1>4. m # 0 /\ m \in 0..n /\ m \notin S
  BY <1>3 DEF Out
<1>5. m - 1 \in 0..(n - 1) /\ (m - 1) + 1 = m /\ m - 1 \in 0..n /\ ~(m <= m - 1)
  BY <1>4
<1>6. m - 1 \in S
  BY <1>3, <1>5 DEF Out
<1> QED
  BY <1>4, <1>5, <1>6

\* f lists, for every number of first members of s, those that are not in ks.
Keeps(f, s, ks, n) ==
  f = [k \in 0..n |-> IF k = 0 THEN <<>>
                      ELSE IF s[k] \in ks THEN f[k - 1] ELSE Append(f[k - 1], s[k])]

\* The recursive definition of Without has a solution.
LEMMA KeepsAll ==
  ASSUME NEW s, NEW ks, NEW n \in Nat
  PROVE  \E f : Keeps(f, s, ks, n)
<1> DEFINE S == { k \in 0..n : \E f : Keeps(f, s, ks, k) }
<1>1. 0 \in S
  <2> DEFINE z == [k \in 0..0 |-> <<>>]
  <2>1. z = [k \in 0..0 |-> IF k = 0 THEN <<>>
                            ELSE IF s[k] \in ks THEN z[k - 1] ELSE Append(z[k - 1], s[k])]
    OBVIOUS
  <2>2. Keeps(z, s, ks, 0)
    BY <2>1 DEF Keeps
  <2> QED
    BY <2>2
<1>2. ASSUME NEW k \in 0..(n - 1), k \in S PROVE k + 1 \in S
  <2>1. PICK f : Keeps(f, s, ks, k)
    BY <1>2
  <2> DEFINE last == IF s[k + 1] \in ks THEN f[k] ELSE Append(f[k], s[k + 1])
             g == [j \in 0..(k + 1) |-> IF j = k + 1 THEN last ELSE f[j]]
             h == [j \in 0..(k + 1) |-> IF j = 0 THEN <<>>
                     ELSE IF s[j] \in ks THEN g[j - 1] ELSE Append(g[j - 1], s[j])]
  <2>2. ASSUME NEW j \in 0..(k + 1) PROVE g[j] = h[j]
    <3>1. CASE j = 0
      <4>1. f[0] = <<>> /\ 0 # k + 1
        BY <2>1 DEF Keeps
      <4> QED
        BY <3>1, <4>1
    <3>2. CASE j = k + 1
      <4>1. j - 1 = k /\ j # 0 /\ k \in 0..(k + 1) /\ k # k + 1
        BY <3>2
      <4>2. g[j - 1] = f[k]
        BY <4>1
      <4> QED
        BY <3>2, <4>1, <4>2
    <3>3. CASE j # 0 /\ j # k + 1
      <4>1. j \in 0..k /\ j - 1 \in 0..k /\ j - 1 \in 0..(k + 1) /\ j - 1 # k + 1
        BY <3>3
      <4>2. f[j] = IF s[j] \in ks THEN f[j - 1] ELSE Append(f[j - 1], s[j])
        BY <2>1, <3>3, <4>1 DEF Keeps
      <4>3. g[j] = f[j] /\ g[j - 1] = f[j - 1]
        BY <3>3, <4>1
      <4> QED
        BY <3>3, <4>2, <4>3
    <3> QED
      BY <3>1, <3>2, <3>3
  <2>3. g = h
    BY <2>2
  <2>4. Keeps(g, s, ks, k + 1)
    BY <2>3 DEF Keeps
  <2>5. k + 1 \in 0..n
    OBVIOUS
  <2> QED
    BY <2>4, <2>5
<1> HIDE DEF S
<1>3. n \in S
  BY <1>1, <1>2, Climbs
<1> QED
  BY <1>3 DEF S

\* The members of a longer sequence.
LEMMA RangeAppend ==
  ASSUME NEW S, NEW s \in Seq(S), NEW e \in S
  PROVE  /\ Append(s, e) \in Seq(S) /\ Len(Append(s, e)) = Len(s) + 1
         /\ Range(Append(s, e)) = Range(s) \cup {e}
         /\ IsInjective(s) /\ e \notin Range(s) => IsInjective(Append(s, e))
<1>1. /\ Append(s, e) \in Seq(S) /\ Len(Append(s, e)) = Len(s) + 1
      /\ \A i \in 1..Len(s) : Append(s, e)[i] = s[i]
      /\ Append(s, e)[Len(s) + 1] = e
  BY AppendProperties
<1>2. DOMAIN s = 1..Len(s) /\ DOMAIN Append(s, e) = 1..(Len(s) + 1) /\ Len(s) \in Nat
  BY <1>1
<1>3. Range(Append(s, e)) = Range(s) \cup {e}
  <2>1. ASSUME NEW x \in Range(Append(s, e)) PROVE x \in Range(s) \cup {e}
    <3>1. PICK i \in 1..(Len(s) + 1) : x = Append(s, e)[i]
      BY <1>2, <2>1 DEF Range
    <3>2. CASE i = Len(s) + 1
      BY <1>1, <3>1, <3>2
    <3>3. CASE i \in 1..Len(s)
      BY <1>1, <1>2, <3>1, <3>3 DEF Range
    <3> QED
      BY <1>2, <3>1, <3>2, <3>3
  <2>2. ASSUME NEW x \in Range(s) PROVE x \in Range(Append(s, e))
    <3>1. PICK i \in 1..Len(s) : x = s[i]
      BY <1>2, <2>2 DEF Range
    <3>2. i \in 1..(Len(s) + 1) /\ Append(s, e)[i] = x
      BY <1>1, <1>2, <3>1
    <3> QED
      BY <1>2, <3>2 DEF Range
  <2>3. e \in Range(Append(s, e))
    <3>1. Len(s) + 1 \in 1..(Len(s) + 1)
      BY <1>2
    <3> QED
      BY <1>1, <1>2, <3>1 DEF Range
  <2> QED
    BY <2>1, <2>2, <2>3
<1>4. ASSUME IsInjective(s), e \notin Range(s) PROVE IsInjective(Append(s, e))
  <2> DEFINE t == Append(s, e)
  <2>1. ASSUME NEW i \in 1..(Len(s) + 1), NEW j \in 1..(Len(s) + 1), t[i] = t[j] PROVE i = j
    <3>1. \A k \in 1..Len(s) : t[k] = s[k] /\ s[k] # e
      BY <1>1, <1>2, <1>4 DEF Range
    <3>2. \A k \in 1..(Len(s) + 1) : k \in 1..Len(s) \/ k = Len(s) + 1
      BY <1>2
    <3>3. CASE i \in 1..Len(s) /\ j \in 1..Len(s)
      BY <1>2, <1>4, <2>1, <3>1, <3>3 DEF IsInjective
    <3>4. CASE i = Len(s) + 1 \/ j = Len(s) + 1
      BY <1>1, <2>1, <3>1, <3>2, <3>4
    <3> QED
      BY <3>2, <3>3, <3>4
  <2> QED
    BY <1>2, <2>1 DEF IsInjective
<1> QED
  BY <1>1, <1>3, <1>4

\* Without takes away the keys given, and no other.
LEMMA WithoutIs ==
  ASSUME NEW S, NEW s \in Seq(S), NEW ks
  PROVE  Without(s, ks) \in Seq(S) /\ Range(Without(s, ks)) = Range(s) \ ks
<1> DEFINE n == Len(s)
           f == CHOOSE g : Keeps(g, s, ks, n)
           S0 == { k \in 0..n : f[k] \in Seq(S) /\ Range(f[k]) = { s[i] : i \in 1..k } \ ks }
<1>1. n \in Nat /\ DOMAIN s = 1..n /\ \A i \in 1..n : s[i] \in S
  OBVIOUS
<1>2. Keeps(f, s, ks, n)
  BY <1>1, KeepsAll
<1>3. Without(s, ks) = f[n]
  BY DEF Without, Keeps
<1> HIDE DEF f
<1>4. 0 \in S0
  <2>1. f[0] = <<>>
    BY <1>1, <1>2 DEF Keeps
  <2>2. Range(<<>>) = {} /\ { s[i] : i \in 1..0 } = {}
    BY DEF Range
  <2>3. f[0] \in Seq(S) /\ Range(f[0]) = { s[i] : i \in 1..0 } \ ks
    BY <2>1, <2>2
  <2> QED
    BY <1>1, <2>3
<1>5. ASSUME NEW k \in 0..(n - 1), k \in S0 PROVE k + 1 \in S0
  <2>1. k + 1 \in 1..n /\ k + 1 \in 0..n /\ k + 1 # 0 /\ (k + 1) - 1 = k
    BY <1>1
  <2>2. f[k + 1] = IF s[k + 1] \in ks THEN f[k] ELSE Append(f[k], s[k + 1])
    BY <1>2, <2>1 DEF Keeps
  <2>3. { s[i] : i \in 1..(k + 1) } = { s[i] : i \in 1..k } \cup {s[k + 1]}
    <3>1. \A i : i \in 1..(k + 1) <=> i \in 1..k \/ i = k + 1
      BY <1>1
    <3> QED
      BY <3>1
  <2>4. f[k] \in Seq(S) /\ Range(f[k]) = { s[i] : i \in 1..k } \ ks
    BY <1>5
  <2>5. s[k + 1] \in S
    BY <1>1, <2>1
  <2>6. CASE s[k + 1] \in ks
    BY <2>1, <2>2, <2>3, <2>4, <2>6
  <2>7. CASE s[k + 1] \notin ks
    <3>1. f[k + 1] \in Seq(S) /\ Range(f[k + 1]) = Range(f[k]) \cup {s[k + 1]}
      BY <2>2, <2>4, <2>5, <2>7, RangeAppend
    <3> QED
      BY <2>1, <2>3, <2>4, <2>7, <3>1
  <2> QED
    BY <2>6, <2>7
<1> HIDE DEF S0
<1>6. n \in S0
  BY <1>1, <1>4, <1>5, Climbs
<1>7. Range(s) = { s[i] : i \in 1..n }
  BY <1>1 DEF Range
<1> QED
  BY <1>3, <1>6, <1>7 DEF S0

\* Joined has the keys of both.
LEMMA JoinedIs ==
  ASSUME NEW S, NEW s \in Seq(S), NEW t \in Seq(S)
  PROVE  Joined(s, t) \in Seq(S) /\ Range(Joined(s, t)) = Range(s) \cup Range(t)
<1>1. /\ Without(t, Range(s)) \in Seq(S)
      /\ Range(Without(t, Range(s))) = Range(t) \ Range(s)
  BY WithoutIs
<1>2. Joined(s, t) \in Seq(S) /\ Range(Joined(s, t)) = Range(s) \cup Range(Without(t, Range(s)))
  BY <1>1, ConcatProperties, RangeConcatenation DEF Joined
<1> QED
  BY <1>1, <1>2

\* A sequence less one member: which members stay, and that it was shorter by one.
LEMMA RemoveAtIs ==
  ASSUME NEW S, NEW s \in Seq(S), NEW i \in 1..Len(s)
  PROVE  /\ RemoveAt(s, i) \in Seq(S) /\ Len(RemoveAt(s, i)) = Len(s) - 1
         /\ \A j \in 1..(Len(s) - 1) : RemoveAt(s, i)[j] = IF j < i THEN s[j] ELSE s[j + 1]
<1> DEFINE a == SubSeq(s, 1, i - 1)
           b == SubSeq(s, i + 1, Len(s))
<1>1. Len(s) \in Nat /\ i \in Nat /\ i >= 1 /\ i <= Len(s) /\ \A j \in 1..Len(s) : s[j] \in S
  OBVIOUS
<1>2. a \in Seq(S) /\ Len(a) = i - 1 /\ \A j \in 1..(i - 1) : a[j] = s[j]
  <2>1. 1 \in Int /\ i - 1 \in Int /\ \A j \in 1..(i - 1) : s[j] \in S
    BY <1>1
  <2>2. /\ a \in Seq(S) /\ Len(a) = IF 1 <= i - 1 THEN (i - 1) - 1 + 1 ELSE 0
        /\ \A j \in 1..((i - 1) - 1 + 1) : a[j] = s[1 + j - 1]
    BY <2>1, SubSeqProperties
  <2> QED
    BY <1>1, <2>2
<1>3. b \in Seq(S) /\ Len(b) = Len(s) - i /\ \A j \in 1..(Len(s) - i) : b[j] = s[i + j]
  <2>1. i + 1 \in Int /\ Len(s) \in Int /\ \A j \in (i + 1)..Len(s) : s[j] \in S
    BY <1>1
  <2>2. /\ b \in Seq(S) /\ Len(b) = IF i + 1 <= Len(s) THEN Len(s) - (i + 1) + 1 ELSE 0
        /\ \A j \in 1..(Len(s) - (i + 1) + 1) : b[j] = s[i + 1 + j - 1]
    BY <2>1, SubSeqProperties
  <2> QED
    BY <1>1, <2>2
<1> HIDE DEF a, b
<1>4. /\ a \o b \in Seq(S) /\ Len(a \o b) = Len(a) + Len(b)
      /\ \A j \in 1..(Len(a) + Len(b)) :
           (a \o b)[j] = IF j <= Len(a) THEN a[j] ELSE b[j - Len(a)]
  BY <1>2, <1>3, ConcatProperties
<1>5. RemoveAt(s, i) = a \o b
  BY DEF RemoveAt, a, b
<1>6. ASSUME NEW j \in 1..(Len(s) - 1)
      PROVE  (a \o b)[j] = IF j < i THEN s[j] ELSE s[j + 1]
  <2>1. j \in 1..(Len(a) + Len(b))
    BY <1>1, <1>2, <1>3
  <2>2. CASE j < i
    <3>1. j <= Len(a) /\ j \in 1..(i - 1)
      BY <1>1, <1>2, <2>2
    <3> QED
      BY <1>2, <1>4, <2>1, <2>2, <3>1
  <2>3. CASE ~(j < i)
    <3>1. ~(j <= Len(a)) /\ j - Len(a) \in 1..(Len(s) - i) /\ i + (j - Len(a)) = j + 1
      BY <1>1, <1>2, <2>3
    <3>2. (a \o b)[j] = b[j - Len(a)]
      BY <1>4, <2>1, <3>1
    <3>3. b[j - Len(a)] = s[j + 1]
      BY <1>3, <3>1
    <3> QED
      BY <2>3, <3>2, <3>3
  <2> QED
    BY <2>2, <2>3
<1>7. RemoveAt(s, i) \in Seq(S) /\ Len(RemoveAt(s, i)) = Len(a) + Len(b)
  BY <1>4, <1>5
<1>8. Len(a) + Len(b) = Len(s) - 1
  BY <1>1, <1>2, <1>3
<1>9. \A j \in 1..(Len(s) - 1) : RemoveAt(s, i)[j] = IF j < i THEN s[j] ELSE s[j + 1]
  BY <1>5, <1>6
<1> QED
  BY <1>7, <1>8, <1>9

\* If no member stands twice, the one removed is gone, and no member stands twice.
LEMMA RemoveAtKeeps ==
  ASSUME NEW S, NEW s \in Seq(S), NEW i \in 1..Len(s), IsInjective(s)
  PROVE  IsInjective(RemoveAt(s, i)) /\ Range(RemoveAt(s, i)) = Range(s) \ {s[i]}
<1> DEFINE t == RemoveAt(s, i)
           at == [j \in 1..(Len(s) - 1) |-> IF j < i THEN j ELSE j + 1]
<1>1. /\ t \in Seq(S) /\ Len(t) = Len(s) - 1 /\ Len(s) \in Nat
      /\ \A j \in 1..(Len(s) - 1) : t[j] = IF j < i THEN s[j] ELSE s[j + 1]
  BY RemoveAtIs
<1> HIDE DEF t
<1>2. \A j \in 1..(Len(s) - 1) : /\ at[j] \in 1..Len(s) /\ at[j] # i /\ t[j] = s[at[j]]
                                 /\ at[j] = IF j < i THEN j ELSE j + 1
  BY <1>1
<1>3. DOMAIN s = 1..Len(s) /\ DOMAIN t = 1..(Len(s) - 1)
  BY <1>1
<1>4. \A j, k \in 1..Len(s) : s[j] = s[k] => j = k
  BY <1>3 DEF IsInjective
<1>5. \A j, k \in 1..(Len(s) - 1) : at[j] = at[k] => j = k
  BY <1>1, <1>2
<1>6. \A m \in 1..Len(s) : m # i => \E j \in 1..(Len(s) - 1) : at[j] = m
  <2>1. SUFFICES ASSUME NEW m \in 1..Len(s), m # i
                 PROVE  \E j \in 1..(Len(s) - 1) : at[j] = m
    OBVIOUS
  <2>2. CASE m < i
    <3>1. m \in 1..(Len(s) - 1)
      BY <1>1, <2>2
    <3> QED
      BY <1>2, <2>2, <3>1
  <2>3. CASE m > i
    <3>1. m - 1 \in 1..(Len(s) - 1) /\ ~(m - 1 < i) /\ (m - 1) + 1 = m
      BY <1>1, <2>1, <2>3
    <3> QED
      BY <1>2, <3>1
  <2> QED
    BY <1>1, <2>1, <2>2, <2>3
<1> HIDE DEF at
<1>7. IsInjective(t)
  <2>1. ASSUME NEW j \in 1..(Len(s) - 1), NEW k \in 1..(Len(s) - 1), t[j] = t[k] PROVE j = k
    <3>1. at[j] = at[k]
      BY <1>2, <1>4, <2>1
    <3> QED
      BY <1>5, <3>1
  <2> QED
    BY <1>3, <2>1 DEF IsInjective
<1>8. Range(t) = Range(s) \ {s[i]}
  <2>1. ASSUME NEW x \in Range(t) PROVE x \in Range(s) \ {s[i]}
    <3>1. PICK j \in 1..(Len(s) - 1) : x = t[j]
      BY <1>3, <2>1 DEF Range
    <3>2. x = s[at[j]] /\ at[j] \in 1..Len(s) /\ at[j] # i
      BY <1>2, <3>1
    <3> QED
      BY <1>3, <1>4, <3>2 DEF Range
  <2>2. ASSUME NEW x \in Range(s) \ {s[i]} PROVE x \in Range(t)
    <3>1. PICK m \in 1..Len(s) : x = s[m] /\ m # i
      BY <1>3, <2>2 DEF Range
    <3>2. PICK j \in 1..(Len(s) - 1) : at[j] = m
      BY <1>6, <3>1
    <3> QED
      BY <1>2, <1>3, <3>1, <3>2 DEF Range
  <2> QED
    BY <2>1, <2>2
<1> QED
  BY <1>7, <1>8 DEF t

\* A member that was not there, put in at a place.
LEMMA InsertAtIs ==
  ASSUME NEW S, NEW s \in Seq(S), NEW j \in 1..(Len(s) + 1), NEW e \in S
  PROVE  /\ InsertAt(s, j, e) \in Seq(S) /\ Len(InsertAt(s, j, e)) = Len(s) + 1
         /\ Range(InsertAt(s, j, e)) = Range(s) \cup {e}
         /\ IsInjective(s) /\ e \notin Range(s) => IsInjective(InsertAt(s, j, e))
<1> DEFINE a == SubSeq(s, 1, j - 1)
           b == SubSeq(s, j, Len(s))
           ae == Append(a, e)
           t == InsertAt(s, j, e)
           n == Len(s)
<1>1. n \in Nat /\ j \in Nat /\ j >= 1 /\ j <= n + 1 /\ \A k \in 1..n : s[k] \in S
  OBVIOUS
<1>2. a \in Seq(S) /\ Len(a) = j - 1 /\ \A k \in 1..(j - 1) : a[k] = s[k]
  <2>1. 1 \in Int /\ j - 1 \in Int /\ \A k \in 1..(j - 1) : s[k] \in S
    BY <1>1
  <2>2. /\ a \in Seq(S) /\ Len(a) = IF 1 <= j - 1 THEN (j - 1) - 1 + 1 ELSE 0
        /\ \A k \in 1..((j - 1) - 1 + 1) : a[k] = s[1 + k - 1]
    BY <2>1, SubSeqProperties
  <2> QED
    BY <1>1, <2>2
<1>3. b \in Seq(S) /\ Len(b) = n + 1 - j /\ \A k \in 1..(n + 1 - j) : b[k] = s[j + k - 1]
  <2>1. j \in Int /\ n \in Int /\ \A k \in j..n : s[k] \in S
    BY <1>1
  <2>2. /\ b \in Seq(S) /\ Len(b) = IF j <= n THEN n - j + 1 ELSE 0
        /\ \A k \in 1..(n - j + 1) : b[k] = s[j + k - 1]
    BY <2>1, SubSeqProperties
  <2> QED
    BY <1>1, <2>2
<1>4. t = (a \o <<e>>) \o b
  BY DEF InsertAt
<1> HIDE DEF a, b, t
<1>5. a \o <<e>> = ae
  BY <1>2, AppendIsConcat
<1>6. /\ ae \in Seq(S) /\ Len(ae) = j
      /\ \A k \in 1..(j - 1) : ae[k] = s[k]
      /\ ae[j] = e
  <2>1. /\ ae \in Seq(S) /\ Len(ae) = Len(a) + 1
        /\ \A k \in 1..Len(a) : ae[k] = a[k]
        /\ ae[Len(a) + 1] = e
    BY <1>2, AppendProperties
  <2> QED
    BY <1>1, <1>2, <2>1
<1> HIDE DEF ae
<1>7. /\ ae \o b \in Seq(S) /\ Len(ae \o b) = Len(ae) + Len(b)
      /\ \A k \in 1..(Len(ae) + Len(b)) :
           (ae \o b)[k] = IF k <= Len(ae) THEN ae[k] ELSE b[k - Len(ae)]
  BY <1>3, <1>6, ConcatProperties
<1>8. t \in Seq(S) /\ Len(t) = n + 1 /\ t = ae \o b
  <2>1. t = ae \o b
    BY <1>4, <1>5
  <2>2. Len(ae) + Len(b) = n + 1
    BY <1>1, <1>3, <1>6
  <2> QED
    BY <1>7, <2>1, <2>2
<1>9. ASSUME NEW k \in 1..(n + 1)
      PROVE  t[k] = IF k < j THEN s[k] ELSE IF k = j THEN e ELSE s[k - 1]
  <2>1. k \in 1..(Len(ae) + Len(b)) /\ k \in Nat
    BY <1>1, <1>3, <1>6
  <2>2. t[k] = IF k <= j THEN ae[k] ELSE b[k - j]
    BY <1>6, <1>7, <1>8, <2>1
  <2>3. CASE k <= j
    <3>1. k \in 1..(j - 1) \/ k = j
      BY <1>1, <2>1, <2>3
    <3> QED
      BY <1>1, <1>6, <2>1, <2>2, <2>3, <3>1
  <2>4. CASE k > j
    <3>1. k - j \in 1..(n + 1 - j) /\ j + (k - j) - 1 = k - 1 /\ ~(k <= j) /\ ~(k < j) /\ k # j
      BY <1>1, <2>1, <2>4
    <3>2. b[k - j] = s[k - 1]
      BY <1>3, <3>1
    <3> QED
      BY <2>2, <3>1, <3>2
  <2> QED
    BY <1>1, <2>1, <2>3, <2>4
<1>10. DOMAIN s = 1..n /\ DOMAIN t = 1..(n + 1)
  BY <1>8
<1>11. Range(t) = Range(s) \cup {e}
  <2>1. ASSUME NEW x \in Range(t) PROVE x \in Range(s) \cup {e}
    <3>1. PICK k \in 1..(n + 1) : x = t[k]
      BY <1>10, <2>1 DEF Range
    <3>2. k = j \/ (k < j /\ k \in 1..n) \/ (~(k < j) /\ k # j /\ k - 1 \in 1..n)
      BY <1>1
    <3> QED
      BY <1>9, <1>10, <3>1, <3>2 DEF Range
  <2>2. ASSUME NEW x \in Range(s) PROVE x \in Range(t)
    <3>1. PICK k \in 1..n : x = s[k]
      BY <1>10, <2>2 DEF Range
    <3>2. CASE k < j
      <4>1. k \in 1..(n + 1) /\ t[k] = x
        BY <1>1, <1>9, <3>1, <3>2
      <4> QED
        BY <1>10, <4>1 DEF Range
    <3>3. CASE ~(k < j)
      <4>1. k + 1 \in 1..(n + 1) /\ ~(k + 1 < j) /\ k + 1 # j /\ (k + 1) - 1 = k
        BY <1>1, <3>3
      <4>2. t[k + 1] = x
        BY <1>9, <3>1, <4>1
      <4> QED
        BY <1>10, <4>1, <4>2 DEF Range
    <3> QED
      BY <3>2, <3>3
  <2>3. e \in Range(t)
    <3>1. j \in 1..(n + 1) /\ t[j] = e
      BY <1>1, <1>9
    <3> QED
      BY <1>10, <3>1 DEF Range
  <2> QED
    BY <2>1, <2>2, <2>3
<1>12. ASSUME IsInjective(s), e \notin Range(s) PROVE IsInjective(t)
  <2> DEFINE at(k) == IF k < j THEN k ELSE k - 1
  <2>1. \A k \in 1..n, m \in 1..n : s[k] = s[m] => k = m
    BY <1>10, <1>12 DEF IsInjective
  <2>2. \A k \in 1..n : s[k] # e
    BY <1>10, <1>12 DEF Range
  <2>3. \A k \in 1..(n + 1) : k # j => at(k) \in 1..n /\ t[k] = s[at(k)]
    BY <1>1, <1>9
  <2>4. t[j] = e
    BY <1>1, <1>9
  <2>5. ASSUME NEW k \in 1..(n + 1), NEW m \in 1..(n + 1), t[k] = t[m] PROVE k = m
    <3>1. k = j <=> m = j
      BY <2>2, <2>3, <2>4, <2>5
    <3>2. CASE k # j
      <4>1. at(k) = at(m)
        BY <2>1, <2>3, <2>5, <3>1, <3>2
      <4> QED
        BY <1>1, <3>1, <3>2, <4>1
    <3> QED
      BY <3>1, <3>2
  <2> QED
    BY <1>10, <2>5 DEF IsInjective
<1> QED
  BY <1>8, <1>11, <1>12 DEF t

\* A place moved to another position: the same places.
LEMMA MovedIs ==
  ASSUME NEW S, NEW s \in Seq(S), NEW i \in 1..Len(s), NEW j \in 1..Len(s), IsInjective(s)
  PROVE  LET t == InsertAt(RemoveAt(s, i), j, s[i]) IN
         t \in Seq(S) /\ Len(t) = Len(s) /\ Range(t) = Range(s) /\ IsInjective(t)
<1> DEFINE r == RemoveAt(s, i)
<1>1. r \in Seq(S) /\ Len(r) = Len(s) - 1 /\ IsInjective(r) /\ Range(r) = Range(s) \ {s[i]}
  BY RemoveAtIs, RemoveAtKeeps
<1>2. s[i] \in S /\ j \in 1..(Len(r) + 1) /\ s[i] \notin Range(r) /\ s[i] \in Range(s)
  <2>1. DOMAIN s = 1..Len(s) /\ s[i] \in S /\ Len(s) \in Nat
    OBVIOUS
  <2>2. s[i] \in Range(s)
    BY <2>1 DEF Range
  <2>3. j \in 1..(Len(r) + 1)
    BY <1>1, <2>1
  <2> QED
    BY <1>1, <2>1, <2>2, <2>3
<1> HIDE DEF r
<1>3. LET t == InsertAt(r, j, s[i]) IN
      t \in Seq(S) /\ Len(t) = Len(r) + 1 /\ Range(t) = Range(r) \cup {s[i]} /\ IsInjective(t)
  BY <1>1, <1>2, InsertAtIs
<1>4. Len(s) \in Nat
  OBVIOUS
<1> QED
  BY <1>1, <1>2, <1>3, <1>4 DEF r

-----------------------------------------------------------------------------
(* The shapes of the steps                                                 *)

\* Of the edits only w changes, and it had not ended; and so for the other actors.
EditMoves(w) ==
  /\ edit' \in [Editor -> EditType] /\ edit[w].pc # "done"
  /\ \A v \in Editor : v # w => edit'[v] = edit[v]

SugMoves(s) ==
  /\ sug' \in [Suggester -> SugType] /\ sug[s].pc # "done"
  /\ \A t \in Suggester : t # s => sug'[t] = sug[t]

PlanMoves(p) ==
  /\ plan' \in [Run -> PlanType] /\ plan[p].pc # "done"
  /\ plan'[p].pc \in AsyncPc => p \in Planner
  /\ plan'[p].pc \in SyncPc => p \in SyncPlanner
  /\ \A q \in Run : q # p => plan'[q] = plan[q]

\* The records that wait and those that have ended have their types.
LEMMA RestingTyped ==
  /\ NoEdit \in EditType /\ NoEdit.pc = "idle" /\ NoEdit.prune = {}
  /\ [NoEdit EXCEPT !.pc = "done"] \in EditType
  /\ [NoEdit EXCEPT !.pc = "done"].pc = "done" /\ [NoEdit EXCEPT !.pc = "done"].prune = {}
  /\ NoSug \in SugType /\ NoSug.pc = "idle"
  /\ [NoSug EXCEPT !.pc = "done"] \in SugType /\ [NoSug EXCEPT !.pc = "done"].pc = "done"
  /\ NoPlan \in PlanType /\ NoPlan.pc = "idle"
  /\ [NoPlan EXCEPT !.pc = "done"] \in PlanType /\ [NoPlan EXCEPT !.pc = "done"].pc = "done"
<1>1. /\ 1 \in Day /\ 1 \in 1..(DayCount + 1) /\ 0 \in 0..MaxPlaces /\ 0 \in 0..PruneTries
      /\ <<>> \in Seq(Key) /\ "planning" \in Status
  BY DayPlacesAssumption DEF Day, Status
<1>2. /\ NoEdit \in EditType /\ NoEdit.pc = "idle" /\ NoEdit.prune = {}
      /\ [NoEdit EXCEPT !.pc = "done"] \in EditType
      /\ [NoEdit EXCEPT !.pc = "done"].pc = "done" /\ [NoEdit EXCEPT !.pc = "done"].prune = {}
  BY <1>1 DEF NoEdit, EditType
<1>3. /\ NoSug \in SugType /\ NoSug.pc = "idle"
      /\ [NoSug EXCEPT !.pc = "done"] \in SugType /\ [NoSug EXCEPT !.pc = "done"].pc = "done"
  BY <1>1 DEF NoSug, SugType
<1>4. /\ NoPlan \in PlanType /\ NoPlan.pc = "idle"
      /\ [NoPlan EXCEPT !.pc = "done"] \in PlanType /\ [NoPlan EXCEPT !.pc = "done"].pc = "done"
  BY <1>1 DEF NoPlan, PlanType
<1> QED
  BY <1>2, <1>3, <1>4

\* An edit goes on, or is over and may start again.
LEMMA EditGoes ==
  ASSUME TypeOK, NEW w \in Editor, edit[w].pc # "done",
         NEW pc \in {"write", "apply", "delete", "read", "prune"}, EGo(w, pc)
  PROVE  /\ EditMoves(w) /\ edit'[w].pc = pc
         /\ edit'[w].day = edit[w].day /\ edit'[w].n = edit[w].n /\ edit'[w].new = edit[w].new
         /\ edit'[w].prune = edit[w].prune
<1>1. edit \in [Editor -> EditType] /\ edit' = [edit EXCEPT ![w].pc = pc]
  BY DEF TypeOK, EGo
<1>2. edit'[w] = [edit[w] EXCEPT !.pc = pc] /\ edit[w] \in EditType
  BY <1>1
<1>3. [edit[w] EXCEPT !.pc = pc] \in EditType
  BY <1>2 DEF EditType
<1>4. EditMoves(w)
  BY <1>1, <1>2, <1>3 DEF EditMoves
<1> QED
  BY <1>2, <1>4 DEF EditType

LEMMA EditEnds ==
  ASSUME TypeOK, NEW w \in Editor, edit[w].pc # "done", EEnd(w)
  PROVE  EditMoves(w) /\ edit'[w].pc = "idle" /\ edit'[w].prune = {}
<1>1. NoEdit \in EditType /\ NoEdit.pc = "idle" /\ NoEdit.prune = {}
  BY RestingTyped
<1>2. edit' = [edit EXCEPT ![w] = NoEdit] /\ edit \in [Editor -> EditType]
  BY DEF EEnd, TypeOK
<1> QED
  BY <1>1, <1>2 DEF EditMoves

LEMMA SugGoes ==
  ASSUME TypeOK, NEW s \in Suggester, sug[s].pc # "done",
         NEW pc \in {"read", "put", "complete", "fail"}, SGo(s, pc)
  PROVE  SugMoves(s) /\ sug'[s].pc = pc
<1>1. sug \in [Suggester -> SugType] /\ sug' = [sug EXCEPT ![s].pc = pc]
  BY DEF TypeOK, SGo
<1>2. sug'[s] = [sug[s] EXCEPT !.pc = pc] /\ sug[s] \in SugType
  BY <1>1
<1>3. [sug[s] EXCEPT !.pc = pc] \in SugType /\ sug'[s].pc = pc
  BY <1>2 DEF SugType
<1> QED
  BY <1>1, <1>2, <1>3 DEF SugMoves

LEMMA SugEnds ==
  ASSUME TypeOK, NEW s \in Suggester, sug[s].pc # "done", SEnd(s)
  PROVE  SugMoves(s) /\ sug'[s].pc = "done"
<1>1. [NoSug EXCEPT !.pc = "done"] \in SugType /\ [NoSug EXCEPT !.pc = "done"].pc = "done"
  BY RestingTyped
<1>2. sug' = [sug EXCEPT ![s] = [NoSug EXCEPT !.pc = "done"]] /\ sug \in [Suggester -> SugType]
  BY DEF SEnd, TypeOK
<1> QED
  BY <1>1, <1>2 DEF SugMoves

LEMMA PlanGoes ==
  ASSUME TypeOK, NEW p \in Run, plan[p].pc # "done", NEW pc \in AsyncPc \cup SyncPc,
         pc \in AsyncPc => p \in Planner, pc \in SyncPc => p \in SyncPlanner, PGo(p, pc)
  PROVE  /\ PlanMoves(p) /\ plan'[p].pc = pc
         /\ plan'[p].day = plan[p].day /\ plan'[p].visited = plan[p].visited
         /\ plan'[p].new = plan[p].new /\ plan'[p].status = plan[p].status
<1>1. plan \in [Run -> PlanType] /\ plan' = [plan EXCEPT ![p].pc = pc]
  BY DEF TypeOK, Run, PGo
<1>2. pc \in {"idle", "read", "recheck", "put", "complete", "fail", "heal", "slot", "live",
              "write", "undo", "rollback", "check", "unput", "cursors", "done"}
  BY DEF AsyncPc, SyncPc
<1>3. plan'[p] = [plan[p] EXCEPT !.pc = pc] /\ plan[p] \in PlanType
  BY <1>1
<1>4. [plan[p] EXCEPT !.pc = pc] \in PlanType
  BY <1>2, <1>3 DEF PlanType
<1>5. PlanMoves(p)
  BY <1>1, <1>3, <1>4 DEF PlanMoves, PlanType
<1> QED
  BY <1>3, <1>5 DEF PlanType

LEMMA PlanEnds ==
  ASSUME TypeOK, NEW p \in Run, plan[p].pc # "done", PEnd(p)
  PROVE  PlanMoves(p) /\ plan'[p].pc = "done"
<1>1. [NoPlan EXCEPT !.pc = "done"] \in PlanType /\ [NoPlan EXCEPT !.pc = "done"].pc = "done"
  BY RestingTyped
<1>2. plan' = [plan EXCEPT ![p] = [NoPlan EXCEPT !.pc = "done"]] /\ plan \in [Run -> PlanType]
  BY DEF PEnd, TypeOK, Run
<1> QED
  BY <1>1, <1>2 DEF PlanMoves, AsyncPc, SyncPc

\* The mix stays one of those allowed: who has ended does not start again.
LEMMA EditKeepsMix ==
  ASSUME TypeOK, Mixed, NEW w \in Editor, EditMoves(w), UNCHANGED <<sug, plan, stale>>
  PROVE  Mixed'
<1>1. \A v \in Editor : EditLeft(v)' => EditLeft(v)
  BY DEF EditMoves, EditLeft
<1> QED
  BY <1>1 DEF Mixed, EditLeft, SugLeft, PlanLeft

LEMMA SugKeepsMix ==
  ASSUME TypeOK, Mixed, NEW s \in Suggester, SugMoves(s), UNCHANGED <<edit, plan, stale>>
  PROVE  Mixed'
<1>1. \A t \in Suggester : SugLeft(t)' => SugLeft(t)
  BY DEF SugMoves, SugLeft
<1> QED
  BY <1>1 DEF Mixed, EditLeft, SugLeft, PlanLeft

LEMMA PlanKeepsMix ==
  ASSUME TypeOK, Mixed, NEW p \in Run, PlanMoves(p), UNCHANGED <<edit, sug, stale>>
  PROVE  Mixed'
<1>1. \A q \in Run : PlanLeft(q)' => PlanLeft(q)
  BY DEF PlanMoves, PlanLeft
<1>2. \A q \in Run : /\ plan'[q].pc \in AsyncPc => q \in Planner
                     /\ plan'[q].pc \in SyncPc => q \in SyncPlanner
  BY DEF PlanMoves, Mixed
<1>3. Planner \subseteq Run /\ SyncPlanner \subseteq Run
  BY DEF Run
<1> QED
  BY <1>1, <1>2, <1>3 DEF Mixed, EditLeft, SugLeft, PlanLeft

\* While an edit acts, the other edits are over and prune nothing.
LEMMA OneEditActs ==
  ASSUME Mixed, PruneSafe, NEW w \in Editor, edit[w].pc # "done"
  PROVE  \A v \in Editor : v # w => edit[v].pc = "done" /\ edit[v].prune = {}
  BY DEF Mixed, PruneSafe, EditLeft

\* Steps that change nothing but an edit.
LEMMA EditOnly ==
  ASSUME IInv, NEW w \in Editor, EditMoves(w), UNCHANGED <<trip, days, sug, plan, gone, stale>>
  PROVE  /\ TypeOK' /\ Mixed' /\ Claims' /\ Deletion' /\ KeysKnown' /\ NoKeyTwice' /\ SugFits'
<1>1. TypeOK'
  BY DEF IInv, TypeOK, EditMoves
<1>2. Mixed'
  BY EditKeepsMix DEF IInv
<1>3. Claims'
  BY DEF IInv, Claims, Busy, Claimed, SugBusy, Exists, PlanLeft
<1>4. Deletion'
  BY DEF IInv, Deletion, Exists, Alive, PlanLeft
<1>5. KeysKnown'
  BY DEF IInv, KeysKnown, Exists, Placed, Placing, Before, Keys, Elsewhere
<1>6. NoKeyTwice' /\ SugFits'
  BY DEF IInv, NoKeyTwice, SugFits
<1> QED
  BY <1>1, <1>2, <1>3, <1>4, <1>5, <1>6

-----------------------------------------------------------------------------
(* The traveler's edits                                                    *)

\* While no claim stands, no asynchronous run is at work.
LEMMA NobodyClaims ==
  ASSUME IInv, trip.pdi = 0
  PROVE  \A p \in Run : plan[p].pc \notin AsyncPc
<1>1. \A p \in Run : plan[p].day \in Day
  BY DEF IInv, TypeOK, Run, PlanType
<1>2. 0 \notin Day
  BY DayPlacesAssumption DEF Day
<1> QED
  BY <1>1, <1>2 DEF IInv, Claims, Claimed

\* While an edit may start and somebody may yet choose keys, the TRIP row has all of them.
LEMMA VisitedIsFull ==
  ASSUME IInv, Alive, trip.pdi = 0, MayChoose
  PROVE  Keys(DOMAIN days) \subseteq Range(trip.visited)
<1>1. \A p \in Run : plan[p].pc \notin AsyncPc
  BY NobodyClaims
<1>2. ASSUME NEW p \in Run, Placed(p) PROVE FALSE
  <2>1. plan[p].pc \in {"check", "unput", "cursors"}
    BY <1>1, <1>2 DEF Placed, AsyncPc
  <2>2. p \in SyncPlanner /\ PlanLeft(p)
    BY <2>1 DEF IInv, Mixed, SyncPc, PlanLeft
  <2>3. /\ \A q \in Planner : ~PlanLeft(q)
        /\ \A s \in Suggester : ~SugLeft(s)
        /\ \A q \in SyncPlanner : PlanLeft(q) => q = p
    BY <2>2 DEF IInv, Mixed, Run
  <2>4. \A q \in SyncPlanner : plan[q].pc \notin {"idle", "heal"}
    BY <2>1, <2>3 DEF PlanLeft
  <2> QED
    BY <2>3, <2>4 DEF MayChoose
<1>3. Exists
  BY DEF Alive, Exists
<1> QED
  BY <1>2, <1>3 DEF IInv, KeysKnown

\* An edit starts: the keys it prunes are on its day only, and are visited.
LEMMA LoadIsSafe ==
  ASSUME IInv, NEW w \in Editor, MayEdit(w), EditMoves(w),
         UNCHANGED <<trip, days, sug, plan, gone, stale>>,
         NEW d \in DOMAIN days, edit'[w].day = d, edit'[w].pc \in {"write", "apply"},
         edit'[w].prune \subseteq Range(days[d]),
         \A e \in DOMAIN days : e # d => Range(days[e]) \cap edit'[w].prune = {},
         edit'[w].pc = "write" => edit'[w].prune \cap Range(edit'[w].new) = {}
  PROVE  PruneSafe'
<1>1. \A p \in Run : plan[p].pc \notin AsyncPc
  BY NobodyClaims DEF MayEdit
<1>2. edit'[w].prune \subseteq Keys(DOMAIN days)
  BY DEF Keys
<1>3. MayChoose => edit'[w].prune \subseteq Range(trip.visited)
  BY <1>2, VisitedIsFull DEF MayEdit
<1>4. \A p \in Run :
        /\ plan[p].pc \in {"slot", "recheck", "put", "complete"} =>
             edit'[w].prune \subseteq Range(plan[p].visited)
        /\ Placing(p) => edit'[w].prune \cap Range(plan[p].new) = {}
  <2>1. SUFFICES ASSUME NEW p \in Run
                 PROVE  /\ plan[p].pc \in {"slot", "recheck", "put", "complete"} =>
                             edit'[w].prune \subseteq Range(plan[p].visited)
                        /\ Placing(p) => edit'[w].prune \cap Range(plan[p].new) = {}
    OBVIOUS
  <2>2. plan[p].pc \notin {"recheck", "put", "complete"}
    BY <1>1 DEF AsyncPc
  <2>3. plan[p].pc = "slot" => Keys(DOMAIN days) \subseteq Range(plan[p].visited)
    BY DEF IInv, KeysKnown
  <2>4. Placing(p) => Keys(DOMAIN days) \cap Range(plan[p].new) = {}
    BY DEF IInv, KeysKnown
  <2> QED
    BY <1>2, <2>2, <2>3, <2>4
<1>5. \A v \in Editor : v # w => edit'[v].pc = "done" /\ edit'[v].prune = {}
  <2>1. edit[w].pc # "done"
    BY DEF EditMoves
  <2> QED
    BY <2>1, OneEditActs DEF IInv, EditMoves
<1>6. MayChoose' <=> MayChoose
  BY DEF MayChoose, SugLeft, PlanLeft
<1>7. \A p \in Run : Placing(p)' <=> Placing(p)
  BY DEF Placing
<1> QED
  BY <1>3, <1>4, <1>5, <1>6, <1>7 DEF PruneSafe

\* ... and if it is about to write, the day is as it was read, and no run will put it.
LEMMA WriteStarts ==
  ASSUME IInv, NEW w \in Editor, EditMoves(w), UNCHANGED <<trip, days, sug, plan, gone, stale>>,
         NEW d \in DOMAIN days, edit'[w].day = d, edit'[w].n = Len(days[d]),
         IsInjective(edit'[w].new), Len(edit'[w].new) <= Len(days[d]),
         Range(edit'[w].new) \subseteq Range(days[d]),
         \E k \in Key : Range(days[d]) \subseteq Range(edit'[w].new) \cup {k}
  PROVE  WriteSafe'
<1>1. \A v \in Editor : v # w => edit'[v].pc = "done"
  <2>1. edit[w].pc # "done"
    BY DEF EditMoves
  <2> QED
    BY <2>1, OneEditActs DEF IInv, EditMoves
<1>2. \A p \in Run : Before(p) => plan[p].day # d
  BY DEF IInv, KeysKnown
<1>3. Len(days[d]) \in Nat
  BY DEF IInv, TypeOK
<1>4. \A p \in Run : Before(p)' <=> Before(p)
  BY DEF Before
<1> QED
  BY <1>1, <1>2, <1>3, <1>4 DEF WriteSafe

\* An edit that is not about to write is safe to be.
LEMMA NotWriting ==
  ASSUME IInv, NEW w \in Editor, EditMoves(w), edit'[w].pc # "write"
  PROVE  WriteSafe'
<1>1. \A v \in Editor : v # w => edit'[v].pc = "done"
  <2>1. edit[w].pc # "done"
    BY DEF EditMoves
  <2> QED
    BY <2>1, OneEditActs DEF IInv, EditMoves
<1> QED
  BY <1>1 DEF WriteSafe

\* What Unused gives.
LEMMA UnusedIs ==
  ASSUME NEW d \in DOMAIN days, NEW ks, NEW new
  PROVE  /\ Unused(d, ks, new) \subseteq ks /\ Unused(d, ks, new) \cap Range(new) = {}
         /\ \A e \in DOMAIN days : e # d => Range(days[e]) \cap Unused(d, ks, new) = {}
  BY DEF Unused, Keys

\* Reading a day to take a place from it.
LEMMA LoadRemoveKeeps ==
  ASSUME IInv, NEW w \in Editor, LoadRemove(w)
  PROVE  IInv'
<1>1. PICK d \in DOMAIN days, i \in 1..MaxPlaces :
        /\ i <= Len(days[d])
        /\ edit' = [edit EXCEPT ![w] = [NoEdit EXCEPT
                      !.pc = "write", !.day = d, !.n = Len(days[d]),
                      !.new = RemoveAt(days[d], i),
                      !.prune = Unused(d, {days[d][i]}, RemoveAt(days[d], i))]]
  BY DEF LoadRemove
<1> DEFINE s == days[d]
           new == RemoveAt(s, i)
           un == Unused(d, {s[i]}, new)
           e == [NoEdit EXCEPT !.pc = "write", !.day = d, !.n = Len(s), !.new = new, !.prune = un]
<1>2. /\ s \in Seq(Key) /\ Len(s) <= MaxPlaces /\ Len(s) \in Nat /\ IsInjective(s) /\ d \in Day
      /\ i \in 1..Len(s) /\ MaxPlaces \in Nat
  BY <1>1, DayPlacesAssumption DEF IInv, TypeOK, NoKeyTwice
<1>3. /\ new \in Seq(Key) /\ Len(new) = Len(s) - 1 /\ IsInjective(new)
      /\ Range(new) = Range(s) \ {s[i]} /\ s[i] \in Key /\ s[i] \in Range(s)
  <2>1. new \in Seq(Key) /\ Len(new) = Len(s) - 1 /\ IsInjective(new)
        /\ Range(new) = Range(s) \ {s[i]}
    BY <1>2, RemoveAtIs, RemoveAtKeeps
  <2>2. s[i] \in Key /\ DOMAIN s = 1..Len(s)
    BY <1>2
  <2> QED
    BY <1>2, <2>1, <2>2 DEF Range
<1>4. /\ un \subseteq {s[i]} /\ un \cap Range(new) = {}
      /\ \A x \in DOMAIN days : x # d => Range(days[x]) \cap un = {}
  BY UnusedIs
<1> HIDE DEF new, un, s
<1>5. e \in EditType /\ e.pc = "write" /\ e.day = d /\ e.n = Len(s) /\ e.new = new /\ e.prune = un
  <2>1. NoEdit \in EditType
    BY RestingTyped
  <2>2. Len(s) \in 0..MaxPlaces /\ un \subseteq Key
    BY <1>2, <1>3, <1>4
  <2> QED
    BY <1>2, <1>3, <2>1, <2>2 DEF EditType, NoEdit
<1>6. edit' = [edit EXCEPT ![w] = e]
  BY <1>1 DEF s, new, un
<1> HIDE DEF e
<1>7. EditMoves(w) /\ edit'[w] = e /\ UNCHANGED <<trip, days, sug, plan, gone, stale>>
  <2>1. edit \in [Editor -> EditType] /\ edit[w].pc = "idle"
    BY DEF IInv, TypeOK, LoadRemove, MayEdit
  <2> QED
    BY <1>5, <1>6, <2>1 DEF EditMoves, LoadRemove
<1>8. PruneSafe'
  <2>1. MayEdit(w)
    BY DEF LoadRemove
  <2>2. /\ edit'[w].day = d /\ edit'[w].pc = "write" /\ edit'[w].prune \subseteq Range(days[d])
        /\ edit'[w].prune \cap Range(edit'[w].new) = {}
        /\ \A x \in DOMAIN days : x # d => Range(days[x]) \cap edit'[w].prune = {}
    BY <1>3, <1>4, <1>5, <1>7 DEF s
  <2> QED
    BY <1>7, <2>1, <2>2, LoadIsSafe
<1>9. WriteSafe'
  <2>1. Len(new) <= Len(s)
    BY <1>2, <1>3
  <2> QED
    BY <1>3, <1>5, <1>7, <2>1, WriteStarts DEF s
<1> QED
  BY <1>7, <1>8, <1>9, EditOnly DEF IInv

\* Reading a day to change the order of its places.
LEMMA LoadReorderKeeps ==
  ASSUME IInv, NEW w \in Editor, LoadReorder(w)
  PROVE  IInv'
<1>1. PICK d \in DOMAIN days, i \in 1..MaxPlaces, j \in 1..MaxPlaces :
        /\ i <= Len(days[d]) /\ j <= Len(days[d])
        /\ edit' = [edit EXCEPT ![w] = [NoEdit EXCEPT
                      !.pc = "write", !.op = "reorder", !.day = d, !.n = Len(days[d]),
                      !.new = InsertAt(RemoveAt(days[d], i), j, days[d][i])]]
  BY DEF LoadReorder
<1> DEFINE s == days[d]
           new == InsertAt(RemoveAt(s, i), j, s[i])
           e == [NoEdit EXCEPT !.pc = "write", !.op = "reorder", !.day = d, !.n = Len(s),
                               !.new = new]
<1>2. /\ s \in Seq(Key) /\ Len(s) <= MaxPlaces /\ Len(s) \in Nat /\ IsInjective(s) /\ d \in Day
      /\ i \in 1..Len(s) /\ j \in 1..Len(s) /\ MaxPlaces \in Nat
  BY <1>1, DayPlacesAssumption DEF IInv, TypeOK, NoKeyTwice
<1>3. /\ new \in Seq(Key) /\ Len(new) = Len(s) /\ IsInjective(new) /\ Range(new) = Range(s)
      /\ s[i] \in Key
  BY <1>2, MovedIs
<1> HIDE DEF new, s
<1>4. e \in EditType /\ e.pc = "write" /\ e.day = d /\ e.n = Len(s) /\ e.new = new /\ e.prune = {}
  <2>1. NoEdit \in EditType
    BY RestingTyped
  <2>2. Len(s) \in 0..MaxPlaces
    BY <1>2
  <2> QED
    BY <1>2, <1>3, <2>1, <2>2 DEF EditType, NoEdit
<1>5. edit' = [edit EXCEPT ![w] = e]
  BY <1>1 DEF s, new
<1> HIDE DEF e
<1>6. EditMoves(w) /\ edit'[w] = e /\ UNCHANGED <<trip, days, sug, plan, gone, stale>>
  <2>1. edit \in [Editor -> EditType] /\ edit[w].pc = "idle"
    BY DEF IInv, TypeOK, LoadReorder, MayEdit
  <2> QED
    BY <1>4, <1>5, <2>1 DEF EditMoves, LoadReorder
<1>7. PruneSafe'
  <2>1. MayEdit(w)
    BY DEF LoadReorder
  <2>2. edit'[w].day = d /\ edit'[w].pc = "write" /\ edit'[w].prune = {}
    BY <1>4, <1>6
  <2> QED
    BY <1>6, <2>1, <2>2, LoadIsSafe
<1>8. WriteSafe'
  <2>1. Len(new) <= Len(s)
    BY <1>2, <1>3
  <2> QED
    BY <1>3, <1>4, <1>6, <2>1, WriteStarts DEF s
<1> QED
  BY <1>6, <1>7, <1>8, EditOnly DEF IInv

\* The least missing day.
LEMMA LeastDay ==
  ASSUME NEW S, S \subseteq Day, S # {}
  PROVE  (CHOOSE n \in S : \A m \in S : n <= m) \in S
<1>1. S \subseteq Nat
  BY DayPlacesAssumption DEF Day
<1>2. \E n \in S : \A m \in S : n <= m
  BY <1>1, LeastOf
<1> QED
  BY <1>2

\* Reading the days to delete one of them.
LEMMA LoadDeleteKeeps ==
  ASSUME IInv, NEW w \in Editor, LoadDelete(w)
  PROVE  IInv'
<1>1. PICK d \in DOMAIN days :
        LET rest == DOMAIN days \ {d} IN
        edit' = [edit EXCEPT ![w] = [NoEdit EXCEPT
                   !.pc = "apply", !.op = "delete", !.day = d,
                   !.prune = Unused(d, Range(days[d]), <<>>),
                   !.ndi = CHOOSE n \in Day \ rest : \A m \in Day \ rest : n <= m,
                   !.status = IF rest = {} THEN "routing_confirmed" ELSE "planning"]]
  BY DEF LoadDelete
<1> DEFINE rest == DOMAIN days \ {d}
           un == Unused(d, Range(days[d]), <<>>)
           ndi == CHOOSE n \in Day \ rest : \A m \in Day \ rest : n <= m
           st == IF rest = {} THEN "routing_confirmed" ELSE "planning"
           e == [NoEdit EXCEPT !.pc = "apply", !.op = "delete", !.day = d, !.prune = un,
                               !.ndi = ndi, !.status = st]
<1>2. d \in Day /\ Range(days[d]) \subseteq Key
  <2>1. d \in Day /\ days[d] \in Seq(Key)
    BY DEF IInv, TypeOK
  <2> QED
    BY <2>1, RangeOfSeq
<1>3. /\ un \subseteq Range(days[d])
      /\ \A x \in DOMAIN days : x # d => Range(days[x]) \cap un = {}
  BY UnusedIs
<1>4. ndi \in 1..(DayCount + 1)
  <2>1. Day \ rest \subseteq Day /\ Day \ rest # {}
    BY <1>2
  <2>2. ndi \in Day \ rest
    BY <2>1, LeastDay
  <2> QED
    BY <2>2, DayPlacesAssumption DEF Day
<1>5. st \in {"routing_confirmed", "planning"}
  OBVIOUS
<1> HIDE DEF un, ndi, st, rest
<1>6. e \in EditType /\ e.pc = "apply" /\ e.day = d /\ e.prune = un
  <2>1. NoEdit \in EditType
    BY RestingTyped
  <2>2. un \subseteq Key
    BY <1>2, <1>3
  <2> QED
    BY <1>2, <1>4, <1>5, <2>1, <2>2 DEF EditType, NoEdit
<1>7. edit' = [edit EXCEPT ![w] = e]
  BY <1>1 DEF un, ndi, st, rest
<1> HIDE DEF e
<1>8. EditMoves(w) /\ edit'[w] = e /\ UNCHANGED <<trip, days, sug, plan, gone, stale>>
  <2>1. edit \in [Editor -> EditType] /\ edit[w].pc = "idle"
    BY DEF IInv, TypeOK, LoadDelete, MayEdit
  <2> QED
    BY <1>6, <1>7, <2>1 DEF EditMoves, LoadDelete
<1>9. PruneSafe'
  BY <1>3, <1>6, <1>8, LoadIsSafe DEF LoadDelete
<1>10. WriteSafe'
  BY <1>6, <1>8, NotWriting
<1> QED
  BY <1>8, <1>9, <1>10, EditOnly DEF IInv

\* Fewer places on fewer days: what is known of the keys stays known.
LEMMA FewerKeys ==
  ASSUME IInv, DOMAIN days' \subseteq DOMAIN days,
         \A e \in DOMAIN days' : Range(days'[e]) \subseteq Range(days[e])
  PROVE  /\ Keys(DOMAIN days)' \subseteq Keys(DOMAIN days)
         /\ UNCHANGED plan => \A p \in Run : Elsewhere(p)' \subseteq Elsewhere(p)
  BY DEF Keys, Elsewhere

LEMMA ShrinkKeeps ==
  ASSUME IInv, DOMAIN days' \subseteq DOMAIN days,
         \A e \in DOMAIN days' : Range(days'[e]) \subseteq Range(days[e]) /\ IsInjective(days'[e]),
         UNCHANGED <<trip, plan>>
  PROVE  KeysKnown' /\ NoKeyTwice'
<1>1. /\ Keys(DOMAIN days)' \subseteq Keys(DOMAIN days)
      /\ \A p \in Run : Elsewhere(p)' \subseteq Elsewhere(p)
  BY FewerKeys
<1>2. KeysKnown'
  BY <1>1 DEF IInv, KeysKnown, Exists, Placed, Placing, Before
<1>3. NoKeyTwice'
  BY DEF IInv, NoKeyTwice
<1> QED
  BY <1>2, <1>3

\* What no step of an edit changes but one that moves the cursor.
LEMMA EditLeavesClaims ==
  ASSUME IInv, UNCHANGED <<trip, sug, plan, gone, stale>>
  PROVE  Claims' /\ SugFits' /\ (DOMAIN days' \subseteq DOMAIN days => Deletion')
<1>1. Claims' /\ SugFits'
  BY DEF IInv, Claims, Busy, Claimed, SugBusy, Exists, PlanLeft, SugFits
<1>2. DOMAIN days' \subseteq DOMAIN days => Deletion'
  BY DEF IInv, Deletion, Exists, Alive, PlanLeft
<1> QED
  BY <1>1, <1>2

\* An edit goes on with its keys to prune off every day, or is over.
LEMMA PruneGoesOn ==
  ASSUME IInv, NEW w \in Editor, EditMoves(w), UNCHANGED <<sug, plan, gone, stale>>,
         trip'.status = "gone" <=> trip.status = "gone",
         Range(trip'.visited) = Range(trip.visited),
         \/ edit'[w].prune = {}
         \/ /\ edit'[w].prune = edit[w].prune /\ edit'[w].day = edit[w].day
            /\ edit'[w].pc \notin {"idle", "done", "write"},
         DOMAIN days' \subseteq DOMAIN days,
         \A e \in DOMAIN days' :
           /\ e # edit[w].day => days'[e] = days[e]
           /\ edit'[w].pc \in {"read", "prune"} => Range(days'[e]) \cap edit'[w].prune = {}
  PROVE  PruneSafe'
<1>1. \A v \in Editor : v # w => edit'[v].pc = "done" /\ edit'[v].prune = {}
  <2>1. edit[w].pc # "done"
    BY DEF EditMoves
  <2> QED
    BY <2>1, OneEditActs DEF IInv, EditMoves
<1>2. MayChoose' <=> MayChoose
  BY DEF MayChoose, SugLeft, PlanLeft
<1>3. \A p \in Run : Placing(p)' <=> Placing(p)
  BY DEF Placing
<1>4. Exists' <=> Exists
  BY DEF Exists
<1>5. CASE edit'[w].prune = {}
  BY <1>1, <1>5 DEF PruneSafe
<1>6. CASE /\ edit'[w].prune = edit[w].prune /\ edit'[w].day = edit[w].day
           /\ edit'[w].pc \notin {"idle", "done", "write"}
  <2>1. \A d \in DOMAIN days' : d # edit'[w].day \/ edit'[w].pc \in {"read", "prune"} =>
          Range(days'[d]) \cap edit'[w].prune = {}
    BY <1>6 DEF IInv, PruneSafe
  <2> QED
    BY <1>1, <1>2, <1>3, <1>4, <1>6, <2>1 DEF IInv, PruneSafe
<1> QED
  BY <1>5, <1>6

\* What an edit writes takes at most a place from its day.
LEMMA ReplaceWrites ==
  ASSUME IInv, NEW w \in Editor, edit[w].pc = "write", edit[w].day \in DOMAIN days,
         Len(days[edit[w].day]) = edit[w].n
  PROVE  /\ edit[w].new \in Seq(Key) /\ Len(edit[w].new) <= MaxPlaces
         /\ IsInjective(edit[w].new) /\ Range(edit[w].new) \subseteq Range(days[edit[w].day])
         /\ \E k \in Key : Range(days[edit[w].day]) \subseteq Range(edit[w].new) \cup {k}
<1>1. edit[w].new \in Seq(Key) /\ edit[w].n \in 0..MaxPlaces
  BY DEF IInv, TypeOK, EditType
<1>2. /\ IsInjective(edit[w].new) /\ Len(edit[w].new) <= edit[w].n
      /\ Range(edit[w].new) \subseteq Range(days[edit[w].day])
      /\ \E k \in Key : Range(days[edit[w].day]) \subseteq Range(edit[w].new) \cup {k}
  BY DEF IInv, WriteSafe
<1>3. Len(edit[w].new) <= MaxPlaces
  BY <1>1, <1>2, DayPlacesAssumption
<1> QED
  BY <1>1, <1>2, <1>3

LEMMA ReplaceKeeps ==
  ASSUME IInv, NEW w \in Editor, Replace(w)
  PROVE  IInv'
<1> DEFINE d == edit[w].day
           new == edit[w].new
<1>1. TypeOK /\ edit[w].pc = "write" /\ UNCHANGED <<trip, sug, plan, gone, stale>>
  BY DEF IInv, Replace
<1>2. CASE d \in DOMAIN days /\ Len(days[d]) = edit[w].n
  <2>1. /\ new \in Seq(Key) /\ Len(new) <= MaxPlaces /\ IsInjective(new)
        /\ Range(new) \subseteq Range(days[d])
    BY <1>1, <1>2, ReplaceWrites
  <2>2. /\ days' = [days EXCEPT ![d] = new]
        /\ IF edit[w].prune = {} THEN EEnd(w) ELSE EGo(w, "read")
    BY <1>2 DEF Replace
  <2>3. /\ DOMAIN days' = DOMAIN days
        /\ \A e \in DOMAIN days : days'[e] = IF e = d THEN new ELSE days[e]
        /\ days' = [e \in DOMAIN days' |-> days'[e]]
    BY <1>1, <2>2 DEF TypeOK
  <2> HIDE DEF new
  <2>4. /\ EditMoves(w) /\ edit'[w].pc \in {"idle", "read"}
        /\ \/ edit'[w].prune = {}
           \/ /\ edit'[w].prune = edit[w].prune /\ edit'[w].day = edit[w].day
              /\ edit'[w].pc = "read"
    <3>1. edit[w].pc # "done"
      BY <1>1
    <3>2. CASE edit[w].prune = {}
      BY <1>1, <2>2, <3>1, <3>2, EditEnds
    <3>3. CASE edit[w].prune # {}
      BY <1>1, <2>2, <3>1, <3>3, EditGoes
    <3> QED
      BY <3>2, <3>3
  <2>5. \A e \in DOMAIN days' : Range(days'[e]) \subseteq Range(days[e]) /\ IsInjective(days'[e])
    BY <2>1, <2>3 DEF IInv, NoKeyTwice
  <2>6. TypeOK'
    BY <1>1, <2>1, <2>3, <2>4 DEF TypeOK, EditMoves
  <2>7. KeysKnown' /\ NoKeyTwice'
    BY <1>1, <2>3, <2>5, ShrinkKeeps
  <2>8. PruneSafe'
    <3>1. edit[w].prune \cap Range(new) = {}
      BY <1>1 DEF IInv, PruneSafe, new
    <3>2. \A e \in DOMAIN days : e # d => Range(days[e]) \cap edit[w].prune = {}
      BY DEF IInv, PruneSafe
    <3>3. \A e \in DOMAIN days' :
            /\ e # edit[w].day => days'[e] = days[e]
            /\ edit'[w].pc \in {"read", "prune"} => Range(days'[e]) \cap edit'[w].prune = {}
      BY <2>3, <2>4, <3>1, <3>2
    <3> QED
      BY <1>1, <2>3, <2>4, <3>3, PruneGoesOn
  <2>9. Mixed' /\ WriteSafe' /\ Claims' /\ SugFits' /\ Deletion'
    BY <1>1, <2>3, <2>4, EditKeepsMix, NotWriting, EditLeavesClaims DEF IInv
  <2> QED
    BY <2>6, <2>7, <2>8, <2>9 DEF IInv
<1>3. CASE ~(d \in DOMAIN days /\ Len(days[d]) = edit[w].n)
  <2>1. UNCHANGED days /\ EEnd(w)
    BY <1>3 DEF Replace
  <2>2. EditMoves(w) /\ edit'[w].pc = "idle" /\ edit'[w].prune = {}
    BY <1>1, <2>1, EditEnds
  <2>3. PruneSafe'
    BY <1>1, <2>1, <2>2, PruneGoesOn
  <2>4. WriteSafe'
    BY <2>2, NotWriting
  <2> QED
    BY <1>1, <2>1, <2>2, <2>3, <2>4, EditOnly DEF IInv
<1> QED
  BY <1>2, <1>3

\* A step that touches neither the claims nor the keys nor who is at work.
LEMMA TripMoves ==
  ASSUME IInv, UNCHANGED <<days, sug, plan, gone, stale>>, trip' \in TripType,
         trip'.visited = trip.visited, trip'.pdi = trip.pdi, trip'.job = trip.job,
         Exists' <=> Exists, Alive' => Alive \/ \A p \in Run : ~PlanLeft(p)
  PROVE  Claims' /\ Deletion' /\ KeysKnown' /\ NoKeyTwice' /\ SugFits'
<1>1. Claims' /\ NoKeyTwice' /\ SugFits'
  BY DEF IInv, Claims, Busy, Claimed, SugBusy, PlanLeft, NoKeyTwice, SugFits
<1>2. Deletion'
  BY DEF IInv, Deletion, PlanLeft
<1>3. KeysKnown'
  <2>1. Keys(DOMAIN days)' = Keys(DOMAIN days) /\ \A p \in Run : Elsewhere(p)' = Elsewhere(p)
    BY DEF Keys, Elsewhere
  <2>2. \A p \in Run : /\ Placed(p)' <=> Placed(p)
                       /\ Placing(p)' <=> Placing(p)
                       /\ Before(p)' <=> Before(p)
    BY DEF Placed, Placing, Before
  <2> QED
    BY <2>1, <2>2 DEF IInv, KeysKnown
<1> QED
  BY <1>1, <1>2, <1>3

\* delete_day moves the cursor of a trip that is not being deleted: who holds it, and the
\* keys, stay as they are.
LEMMA ApplyEditKeeps ==
  ASSUME IInv, NEW w \in Editor, ApplyEdit(w)
  PROVE  IInv'
<1>1. TypeOK /\ edit[w].pc = "apply" /\ edit[w].pc # "done"
      /\ UNCHANGED <<days, sug, plan, gone, stale>>
  BY DEF IInv, ApplyEdit
<1>2. CASE Alive /\ trip.pdi = 0
  <2>1. /\ trip' = [trip EXCEPT !.ndi = edit[w].ndi, !.status = edit[w].status]
        /\ EGo(w, "delete")
    BY <1>2 DEF ApplyEdit
  <2>2. /\ EditMoves(w) /\ edit'[w].pc = "delete" /\ edit'[w].day = edit[w].day
        /\ edit'[w].prune = edit[w].prune
    BY <1>1, <2>1, EditGoes
  <2>3. edit[w].ndi \in 1..(DayCount + 1) /\ edit[w].status \in {"routing_confirmed", "planning"}
    BY <1>1 DEF TypeOK, EditType
  <2>4. /\ trip' \in TripType /\ trip'.visited = trip.visited /\ trip'.pdi = trip.pdi
        /\ trip'.job = trip.job /\ trip'.status = edit[w].status
    BY <1>1, <2>1, <2>3 DEF TypeOK, TripType, Status
  <2>5. Exists' /\ Exists /\ Alive
    BY <1>2, <2>3, <2>4 DEF Alive, Exists
  <2>6. TypeOK'
    BY <1>1, <2>2, <2>4 DEF TypeOK, EditMoves
  <2>7. Claims' /\ Deletion' /\ KeysKnown' /\ NoKeyTwice' /\ SugFits'
    BY <1>1, <2>4, <2>5, TripMoves
  <2>8. Mixed' /\ WriteSafe'
    BY <1>1, <2>2, EditKeepsMix, NotWriting DEF IInv
  <2>9. PruneSafe'
    <3>1. trip'.status = "gone" <=> trip.status = "gone"
      BY <2>5 DEF Exists
    <3> QED
      BY <1>1, <2>2, <2>4, <3>1, PruneGoesOn
  <2> QED
    BY <2>6, <2>7, <2>8, <2>9 DEF IInv
<1>3. CASE ~(Alive /\ trip.pdi = 0)
  <2>1. UNCHANGED trip /\ EEnd(w)
    BY <1>3 DEF ApplyEdit
  <2>2. EditMoves(w) /\ edit'[w].pc = "idle" /\ edit'[w].prune = {}
    BY <1>1, <2>1, EditEnds
  <2>3. PruneSafe'
    BY <1>1, <2>1, <2>2, PruneGoesOn
  <2>4. WriteSafe'
    BY <2>2, NotWriting
  <2> QED
    BY <1>1, <2>1, <2>2, <2>3, <2>4, EditOnly DEF IInv
<1> QED
  BY <1>2, <1>3

\* A day taken away.
LEMMA DeleteDayKeeps ==
  ASSUME IInv, NEW w \in Editor, DeleteDay(w)
  PROVE  IInv'
<1>1. TypeOK /\ edit[w].pc = "delete" /\ edit[w].pc # "done"
      /\ UNCHANGED <<trip, sug, plan, gone, stale>>
  BY DEF IInv, DeleteDay
<1>2. /\ DOMAIN days' = DOMAIN days \ {edit[w].day}
      /\ \A e \in DOMAIN days' : days'[e] = days[e]
      /\ days' = [e \in DOMAIN days' |-> days'[e]]
  BY DEF DeleteDay
<1>3. /\ EditMoves(w) /\ edit'[w].pc \in {"idle", "read"}
      /\ \/ edit'[w].prune = {}
         \/ /\ edit'[w].prune = edit[w].prune /\ edit'[w].day = edit[w].day
            /\ edit'[w].pc = "read"
  <2>1. IF edit[w].prune = {} THEN EEnd(w) ELSE EGo(w, "read")
    BY DEF DeleteDay
  <2>2. CASE edit[w].prune = {}
    BY <1>1, <2>1, <2>2, EditEnds
  <2>3. CASE edit[w].prune # {}
    BY <1>1, <2>1, <2>3, EditGoes
  <2> QED
    BY <2>2, <2>3
<1>4. TypeOK'
  BY <1>1, <1>2, <1>3 DEF TypeOK, EditMoves
<1>5. KeysKnown' /\ NoKeyTwice'
  <2>1. \A e \in DOMAIN days' : Range(days'[e]) \subseteq Range(days[e]) /\ IsInjective(days'[e])
    BY <1>2 DEF IInv, NoKeyTwice
  <2> QED
    BY <1>1, <1>2, <2>1, ShrinkKeeps
<1>6. PruneSafe'
  <2>1. \A e \in DOMAIN days : e # edit[w].day => Range(days[e]) \cap edit[w].prune = {}
    BY DEF IInv, PruneSafe
  <2>2. \A e \in DOMAIN days' :
          /\ e # edit[w].day => days'[e] = days[e]
          /\ edit'[w].pc \in {"read", "prune"} => Range(days'[e]) \cap edit'[w].prune = {}
    BY <1>2, <1>3, <2>1
  <2> QED
    BY <1>1, <1>2, <1>3, <2>2, PruneGoesOn
<1>7. Mixed' /\ WriteSafe' /\ Claims' /\ SugFits' /\ Deletion'
  BY <1>1, <1>2, <1>3, EditKeepsMix, NotWriting, EditLeavesClaims DEF IInv
<1> QED
  BY <1>4, <1>5, <1>6, <1>7 DEF IInv

\* The list of keys read, to be pruned.
LEMMA ReadVisitedKeeps ==
  ASSUME IInv, NEW w \in Editor, ReadVisited(w)
  PROVE  IInv'
<1>1. /\ TypeOK /\ edit[w].pc = "read" /\ edit[w].pc # "done"
      /\ UNCHANGED <<trip, days, sug, plan, gone, stale>>
  BY DEF IInv, ReadVisited
<1>2. /\ EditMoves(w) /\ edit'[w].pc # "write"
      /\ \/ edit'[w].prune = {}
         \/ /\ edit'[w].prune = edit[w].prune /\ edit'[w].day = edit[w].day
            /\ edit'[w].pc = "prune"
  <2>1. CASE Exists /\ edit[w].prune \cap Range(trip.visited) # {} /\ edit[w].try < PruneTries
    <3> DEFINE e == [edit[w] EXCEPT !.pc = "prune", !.prev = trip.visited, !.try = @ + 1]
    <3>1. edit' = [edit EXCEPT ![w] = e]
      BY <2>1 DEF ReadVisited
    <3>2. edit \in [Editor -> EditType] /\ edit[w] \in EditType /\ trip.visited \in Seq(Key)
      BY <1>1 DEF TypeOK, TripType
    <3>3. edit[w].try + 1 \in 0..PruneTries
      BY <2>1, <3>2, DayPlacesAssumption DEF EditType
    <3>4. e \in EditType /\ e.pc = "prune" /\ e.prune = edit[w].prune /\ e.day = edit[w].day
      BY <3>2, <3>3 DEF EditType
    <3> HIDE DEF e
    <3>5. edit'[w] = e
      BY <3>1, <3>2
    <3> QED
      BY <1>1, <3>1, <3>2, <3>4, <3>5 DEF EditMoves
  <2>2. CASE ~(Exists /\ edit[w].prune \cap Range(trip.visited) # {} /\ edit[w].try < PruneTries)
    BY <1>1, <2>2, EditEnds DEF ReadVisited
  <2> QED
    BY <2>1, <2>2
<1>3. PruneSafe'
  <2>1. \A e \in DOMAIN days : Range(days[e]) \cap edit[w].prune = {}
    BY <1>1 DEF IInv, PruneSafe
  <2> QED
    BY <1>1, <1>2, <2>1, PruneGoesOn
<1>4. WriteSafe'
  BY <1>2, NotWriting
<1> QED
  BY <1>1, <1>2, <1>3, <1>4, EditOnly DEF IInv

\* The keys pruned stand on no day, so those that do stay known.
LEMMA PruneKeeps ==
  ASSUME IInv, NEW w \in Editor, Prune(w)
  PROVE  IInv'
<1>1. /\ TypeOK /\ edit[w].pc = "prune" /\ edit[w].pc # "done"
      /\ UNCHANGED <<days, sug, plan, gone, stale>>
  BY DEF IInv, Prune
<1>2. CASE Exists /\ trip.visited = edit[w].prev
  <2> DEFINE v == Without(trip.visited, edit[w].prune)
  <2>1. trip' = [trip EXCEPT !.visited = v] /\ EEnd(w)
    BY <1>2 DEF Prune
  <2>2. trip.visited \in Seq(Key)
    BY <1>1 DEF TypeOK, TripType
  <2>3. v \in Seq(Key) /\ Range(v) = Range(trip.visited) \ edit[w].prune
    BY <2>2, WithoutIs
  <2> HIDE DEF v
  <2>4. EditMoves(w) /\ edit'[w].pc = "idle" /\ edit'[w].prune = {}
    BY <1>1, <2>1, EditEnds
  <2>5. /\ trip' \in TripType /\ trip'.visited = v /\ trip'.status = trip.status
        /\ trip'.pdi = trip.pdi /\ trip'.job = trip.job
    BY <1>1, <2>1, <2>3 DEF TypeOK, TripType
  <2>6. TypeOK'
    BY <1>1, <2>4, <2>5 DEF TypeOK, EditMoves
  <2>7. Claims' /\ Deletion' /\ NoKeyTwice' /\ SugFits'
    BY <1>1, <2>5 DEF IInv, Claims, Busy, Claimed, SugBusy, PlanLeft, Exists, Alive, Deletion,
                      NoKeyTwice, SugFits
  <2>8. KeysKnown'
    <3>1. \A e \in DOMAIN days : Range(days[e]) \cap edit[w].prune = {}
      BY <1>1 DEF IInv, PruneSafe
    <3>2. /\ Keys(DOMAIN days) \cap edit[w].prune = {} /\ Keys(DOMAIN days)' = Keys(DOMAIN days)
          /\ \A p \in Run : /\ Elsewhere(p) \cap edit[w].prune = {}
                            /\ Elsewhere(p)' = Elsewhere(p)
      BY <1>1, <3>1 DEF Keys, Elsewhere
    <3>3. \A p \in Run : /\ Placed(p)' <=> Placed(p)
                         /\ Placing(p)' <=> Placing(p)
                         /\ Before(p)' <=> Before(p)
      BY <1>1 DEF Placed, Placing, Before
    <3>4. Exists' <=> Exists
      BY <2>5 DEF Exists
    <3>5. Exists /\ (\A p \in Run : ~Placed(p)) => Keys(DOMAIN days) \subseteq Range(trip'.visited)
      BY <2>3, <2>5, <3>2 DEF IInv, KeysKnown
    <3>6. \A p \in Run : Exists /\ plan[p].pc \in {"check", "unput"} =>
            Elsewhere(p) \subseteq Range(trip'.visited)
      BY <2>3, <2>5, <3>2 DEF IInv, KeysKnown
    <3> QED
      BY <1>1, <3>2, <3>3, <3>4, <3>5, <3>6 DEF IInv, KeysKnown
  <2>9. PruneSafe'
    <3>1. \A x \in Editor : edit'[x].prune = {}
      BY <1>1, <2>4, OneEditActs DEF IInv, EditMoves
    <3> QED
      BY <3>1 DEF PruneSafe
  <2>10. Mixed' /\ WriteSafe'
    BY <1>1, <2>4, EditKeepsMix, NotWriting DEF IInv
  <2> QED
    BY <2>6, <2>7, <2>8, <2>9, <2>10 DEF IInv
<1>3. CASE ~(Exists /\ trip.visited = edit[w].prev)
  <2>1. UNCHANGED trip /\ EGo(w, "read")
    BY <1>3 DEF Prune
  <2>2. /\ EditMoves(w) /\ edit'[w].pc = "read" /\ edit'[w].day = edit[w].day
        /\ edit'[w].prune = edit[w].prune
    BY <1>1, <2>1, EditGoes
  <2>3. PruneSafe'
    <3>1. \A e \in DOMAIN days : Range(days[e]) \cap edit[w].prune = {}
      BY <1>1 DEF IInv, PruneSafe
    <3> QED
      BY <1>1, <2>1, <2>2, <3>1, PruneGoesOn
  <2>4. WriteSafe'
    BY <2>2, NotWriting
  <2> QED
    BY <1>1, <2>1, <2>2, <2>3, <2>4, EditOnly DEF IInv
<1> QED
  BY <1>2, <1>3

LEMMA EditStepKeeps ==
  ASSUME IInv, NEW w \in Editor, EditStep(w)
  PROVE  IInv'
  BY LoadRemoveKeeps, LoadReorderKeeps, ReplaceKeeps, LoadDeleteKeeps, ApplyEditKeeps,
     DeleteDayKeeps, ReadVisitedKeeps, PruneKeeps DEF EditStep

-----------------------------------------------------------------------------
(* suggest-place runs                                                      *)

\* Steps of a suggestion that change neither days nor keys leave what is known of them.
LEMMA SugOnly ==
  ASSUME IInv, NEW s \in Suggester, SugMoves(s), UNCHANGED <<days, edit, plan, gone, stale>>,
         trip' \in TripType, trip'.visited = trip.visited, trip'.status = trip.status
  PROVE  TypeOK' /\ Mixed' /\ KeysKnown' /\ NoKeyTwice' /\ PruneSafe' /\ WriteSafe'
<1>1. TypeOK'
  BY DEF IInv, TypeOK, SugMoves
<1>2. Mixed'
  BY SugKeepsMix DEF IInv
<1>3. Exists' <=> Exists
  BY DEF Exists
<1>4. /\ Keys(DOMAIN days)' = Keys(DOMAIN days)
      /\ \A p \in Run : /\ Placed(p)' <=> Placed(p)
                        /\ Placing(p)' <=> Placing(p)
                        /\ Before(p)' <=> Before(p)
                        /\ Elsewhere(p)' = Elsewhere(p)
  BY DEF Placed, Placing, Before, Keys, Elsewhere
<1>5. KeysKnown' /\ NoKeyTwice' /\ WriteSafe'
  <2>1. KeysKnown'
    BY <1>3, <1>4 DEF IInv, KeysKnown
  <2>2. NoKeyTwice'
    BY DEF IInv, NoKeyTwice
  <2>3. WriteSafe'
    BY <1>3, <1>4 DEF IInv, WriteSafe
  <2> QED
    BY <2>1, <2>2, <2>3
<1>6. MayChoose' => MayChoose
  <2>1. \A t \in Suggester : SugLeft(t)' => SugLeft(t)
    BY DEF SugMoves, SugLeft
  <2> QED
    BY <2>1 DEF MayChoose, PlanLeft
<1>7. PruneSafe'
  BY <1>3, <1>4, <1>6 DEF IInv, PruneSafe
<1> QED
  BY <1>1, <1>2, <1>5, <1>7

LEMMA ClaimSuggestKeeps ==
  ASSUME IInv, NEW s \in Suggester, ClaimSuggest(s)
  PROVE  IInv'
<1>1. /\ TypeOK /\ sug[s].pc = "idle" /\ trip.job = None /\ trip.pdi = 0 /\ Alive
      /\ trip' = [trip EXCEPT !.job = s] /\ UNCHANGED <<days, edit, plan, gone, stale>>
  BY DEF IInv, ClaimSuggest
<1>2. PICK d \in DOMAIN days : sug' = [sug EXCEPT ![s].pc = "read", ![s].day = d]
  BY DEF ClaimSuggest
<1>3. SugMoves(s) /\ sug'[s].pc = "read"
  <2>1. d \in Day /\ sug \in [Suggester -> SugType]
    BY <1>1 DEF TypeOK
  <2>2. sug' = [sug EXCEPT ![s] = [sug[s] EXCEPT !.pc = "read", !.day = d]]
    BY <1>2, <2>1 DEF SugType
  <2>3. [sug[s] EXCEPT !.pc = "read", !.day = d] \in SugType
    BY <2>1 DEF SugType
  <2> QED
    BY <1>1, <2>1, <2>2, <2>3 DEF SugMoves, SugType
<1>4. /\ trip' \in TripType /\ trip'.visited = trip.visited /\ trip'.status = trip.status
      /\ trip'.pdi = 0 /\ trip'.job = s
  BY <1>1 DEF TypeOK, TripType
<1>5. Exists
  BY <1>1 DEF Alive, Exists
<1>6. Claims'
  <2>1. \A p \in Run : ~Claimed(p)
    BY <1>1, NobodyClaims DEF Claimed
  <2>2. ASSUME NEW t \in Suggester, SugBusy(t)', \E p \in Run : PlanLeft(p) PROVE t = s
    <3>1. t # s => SugBusy(t)
      BY <1>3, <2>2 DEF SugMoves, SugBusy
    <3>2. SugBusy(t) => trip.job = t
      BY <1>5, <2>2 DEF IInv, Claims
    <3> QED
      BY <1>1, <3>1, <3>2, DayPlacesAssumption
  <2> QED
    BY <1>1, <1>4, <2>1, <2>2 DEF IInv, Claims, Claimed, Busy, PlanLeft
<1>7. Deletion'
  BY <1>1, <1>4, <1>5 DEF IInv, Deletion, Exists, Alive, PlanLeft
<1>8. SugFits'
  BY <1>3 DEF IInv, SugFits, SugMoves
<1> QED
  BY <1>1, <1>3, <1>4, <1>6, <1>7, <1>8, SugOnly DEF IInv

LEMMA SuggestKeeps ==
  ASSUME IInv, NEW s \in Suggester, Suggest(s)
  PROVE  IInv'
<1>1. /\ TypeOK /\ sug[s].pc = "read" /\ sug[s].pc # "done"
      /\ UNCHANGED <<trip, days, edit, plan, gone, stale>>
  BY DEF IInv, Suggest
<1>2. /\ SugMoves(s) /\ sug'[s].pc \in {"put", "fail"}
      /\ sug'[s].pc = "put" =>
           sug'[s].key \in Key \ Range(sug'[s].prev) /\ sug'[s].n < MaxPlaces
  <2> DEFINE d == sug[s].day
  <2>1. CASE SGo(s, "fail")
    BY <1>1, <2>1, SugGoes
  <2>2. CASE /\ d \in DOMAIN days /\ Len(days[d]) < MaxPlaces
             /\ \E k \in Key \ (Range(trip.visited) \cup Range(days[d])) :
                  sug' = [sug EXCEPT ![s] = [pc |-> "put", day |-> d, n |-> Len(days[d]),
                                             prev |-> trip.visited, key |-> k]]
    <3>1. PICK k \in Key \ (Range(trip.visited) \cup Range(days[d])) :
            sug' = [sug EXCEPT ![s] = [pc |-> "put", day |-> d, n |-> Len(days[d]),
                                       prev |-> trip.visited, key |-> k]]
      BY <2>2
    <3> DEFINE r == [pc |-> "put", day |-> d, n |-> Len(days[d]), prev |-> trip.visited,
                     key |-> k]
    <3>2. /\ sug \in [Suggester -> SugType] /\ d \in Day /\ trip.visited \in Seq(Key)
          /\ days[d] \in Seq(Key)
      BY <1>1, <2>2 DEF TypeOK, TripType
    <3>3. Len(days[d]) \in 0..MaxPlaces
      BY <2>2, <3>2, DayPlacesAssumption
    <3>4. r \in SugType
      BY <3>1, <3>2, <3>3 DEF SugType
    <3>5. r.pc = "put" /\ r.key = k /\ r.n < MaxPlaces /\ r.prev = trip.visited
      BY <2>2
    <3> HIDE DEF r
    <3>6. sug'[s] = r
      BY <3>1, <3>2 DEF r
    <3>7. SugMoves(s)
      BY <1>1, <3>1, <3>2, <3>4, <3>6 DEF SugMoves, r
    <3> QED
      BY <3>1, <3>5, <3>6, <3>7
  <2> QED
    BY <2>1, <2>2 DEF Suggest
<1>3. trip' \in TripType
  BY <1>1 DEF TypeOK
<1>4. Claims'
  <2>1. \A t \in Suggester : SugBusy(t)' => SugBusy(t)
    BY <1>1, <1>2 DEF SugMoves, SugBusy
  <2> QED
    BY <1>1, <2>1 DEF IInv, Claims, Claimed, Busy, PlanLeft, Exists
<1>5. Deletion'
  BY <1>1 DEF IInv, Deletion, Exists, Alive, PlanLeft
<1>6. SugFits'
  BY <1>2 DEF IInv, SugFits, SugMoves
<1> QED
  BY <1>1, <1>2, <1>3, <1>4, <1>5, <1>6, SugOnly DEF IInv

\* While a suggestion may write, no run is at work.
LEMMA NoRunBeside ==
  ASSUME IInv, NEW s \in Suggester, SugBusy(s), Exists
  PROVE  \A p \in Run : ~Busy(p)
<1>1. SUFFICES ASSUME NEW p \in Run, Busy(p) PROVE FALSE
  OBVIOUS
<1>2. SugLeft(s) /\ PlanLeft(p)
  BY <1>1 DEF SugBusy, SugLeft, Busy, PlanLeft, AsyncPc, SyncPc
<1>3. \A q \in SyncPlanner : ~PlanLeft(q)
  BY <1>2 DEF IInv, Mixed
<1>4. Claimed(p)
  <2>1. plan[p].pc \in SyncPc => p \in SyncPlanner
    BY DEF IInv, Mixed
  <2> QED
    BY <1>1, <1>2, <1>3, <2>1 DEF Busy, Claimed
<1>5. trip.job = None /\ trip.job = s
  BY <1>2, <1>4 DEF IInv, Claims
<1> QED
  BY <1>5, DayPlacesAssumption

\* The place and its key are appended together.
LEMMA PersistKeeps ==
  ASSUME IInv, NEW s \in Suggester, Persist(s)
  PROVE  IInv'
<1> DEFINE d == sug[s].day
           k == sug[s].key
<1>1. /\ TypeOK /\ sug[s].pc = "put" /\ sug[s].pc # "done"
      /\ UNCHANGED <<edit, plan, gone, stale>>
  BY DEF IInv, Persist
<1>2. CASE d \in DOMAIN days /\ Len(days[d]) = sug[s].n /\ Exists /\ trip.visited = sug[s].prev
  <2>1. /\ days' = [days EXCEPT ![d] = Append(@, k)]
        /\ trip' = [trip EXCEPT !.visited = Append(@, k)]
        /\ SGo(s, "complete")
    BY <1>2 DEF Persist
  <2>2. k \in Key \ Range(trip.visited) /\ Len(days[d]) < MaxPlaces
    BY <1>1, <1>2 DEF IInv, SugFits
  <2>3. SugMoves(s) /\ sug'[s].pc = "complete"
    BY <1>1, <2>1, SugGoes
  <2>4. /\ trip.visited \in Seq(Key) /\ days[d] \in Seq(Key) /\ Len(days[d]) \in Nat
        /\ IsInjective(days[d])
    BY <1>1, <1>2 DEF IInv, TypeOK, TripType, NoKeyTwice
  <2> DEFINE v == Append(trip.visited, k)
             b == Append(days[d], k)
  <2>5. v \in Seq(Key) /\ Range(v) = Range(trip.visited) \cup {k}
    BY <2>2, <2>4, RangeAppend
  <2>6. \A p \in Run : ~Busy(p)
    BY <1>1, <1>2, NoRunBeside DEF SugBusy
  <2>7. \A p \in Run : ~Placed(p) /\ ~Placing(p) /\ ~Before(p) /\ plan[p].pc # "slot"
                       /\ plan[p].pc \notin {"slot", "recheck", "put", "complete", "check", "unput"}
    BY <2>6 DEF Busy, Placed, Placing, Before, AsyncPc, SyncPc
  <2>8. Keys(DOMAIN days) \subseteq Range(trip.visited)
    BY <1>2, <2>7 DEF IInv, KeysKnown
  <2>9. \A e \in DOMAIN days : Range(days[e]) \subseteq Range(trip.visited)
    BY <2>8 DEF Keys
  <2>10. /\ b \in Seq(Key) /\ Len(b) = Len(days[d]) + 1 /\ Range(b) = Range(days[d]) \cup {k}
         /\ IsInjective(b)
    <3>1. k \notin Range(days[d])
      BY <1>2, <2>2, <2>9
    <3> QED
      BY <2>2, <2>4, <3>1, RangeAppend
  <2>11. /\ trip' \in TripType /\ trip'.visited = v /\ trip'.status = trip.status
         /\ trip'.pdi = trip.pdi /\ trip'.job = trip.job
    BY <1>1, <2>1, <2>5 DEF TypeOK, TripType
  <2>12. /\ DOMAIN days' = DOMAIN days
         /\ \A e \in DOMAIN days : days'[e] = IF e = d THEN b ELSE days[e]
         /\ days' = [e \in DOMAIN days' |-> days'[e]]
    BY <1>1, <1>2, <2>1 DEF TypeOK
  <2> HIDE DEF v, b, d, k
  <2>13. TypeOK'
    <3>1. Len(b) <= MaxPlaces
      BY <2>2, <2>4, <2>10, DayPlacesAssumption
    <3> QED
      BY <1>1, <2>3, <2>10, <2>11, <2>12, <3>1 DEF TypeOK, SugMoves
  <2>14. Mixed'
    BY <1>1, <2>3, SugKeepsMix DEF IInv
  <2>15. Claims'
    <3>1. \A t \in Suggester : SugBusy(t)' => SugBusy(t)
      BY <1>1, <2>3 DEF SugMoves, SugBusy
    <3> QED
      BY <1>1, <2>11, <3>1 DEF IInv, Claims, Claimed, Busy, PlanLeft, Exists
  <2>16. Deletion'
    BY <1>1, <2>11, <2>12 DEF IInv, Deletion, Exists, Alive, PlanLeft
  <2>17. KeysKnown'
    <3>1. \A e \in DOMAIN days' : Range(days'[e]) \subseteq Range(v)
      BY <1>2, <2>5, <2>9, <2>10, <2>12 DEF d
    <3>2. Keys(DOMAIN days)' \subseteq Range(trip'.visited)
      BY <2>11, <3>1 DEF Keys
    <3>3. \A p \in Run : /\ ~Placed(p)' /\ ~Placing(p)' /\ ~Before(p)'
                         /\ plan'[p].pc \notin {"slot", "recheck", "put", "complete", "check", "unput"}
      BY <1>1, <2>7 DEF Placed, Placing, Before
    <3> QED
      BY <3>2, <3>3 DEF KeysKnown
  <2>18. NoKeyTwice'
    <3>1. \A e \in DOMAIN days' : IsInjective(days'[e])
      BY <2>10, <2>12 DEF IInv, NoKeyTwice
    <3>2. ASSUME NEW e \in DOMAIN days', NEW g \in DOMAIN days', NEW x,
                 x \in Range(days'[e]), x \in Range(days'[g]), e # g
          PROVE  FALSE
      <4>1. \A h \in DOMAIN days : k \notin Range(days[h])
        BY <2>2, <2>9
      <4>2. x \in Range(days[e]) \/ (e = d /\ x = k)
        BY <2>10, <2>12, <3>2
      <4>3. x \in Range(days[g]) \/ (g = d /\ x = k)
        BY <2>10, <2>12, <3>2
      <4>4. x \in Range(days[e]) /\ x \in Range(days[g])
        BY <2>12, <3>2, <4>1, <4>2, <4>3
      <4> QED
        BY <2>12, <3>2, <4>4 DEF IInv, NoKeyTwice
    <3> QED
      BY <3>1, <3>2 DEF NoKeyTwice
  <2>19. SugFits'
    BY <2>3 DEF IInv, SugFits, SugMoves
  <2>20. PruneSafe'
    <3>1. MayChoose
      BY <1>1 DEF MayChoose, SugLeft
    <3>2. \A w \in Editor : edit[w].prune \subseteq Range(trip.visited)
      BY <1>2, <3>1 DEF IInv, PruneSafe
    <3>3. \A w \in Editor : k \notin edit[w].prune
      BY <2>2, <3>2 DEF k
    <3>4. \A w \in Editor : edit[w].prune \subseteq Range(trip'.visited)
      BY <2>5, <2>11, <3>2
    <3>5. \A w \in Editor, e \in DOMAIN days' :
            e # edit[w].day \/ edit[w].pc \in {"read", "prune"} =>
              Range(days'[e]) \cap edit[w].prune = {}
      BY <2>10, <2>12, <3>3 DEF IInv, PruneSafe
    <3>6. \A p \in Run : ~Placing(p)' /\ plan'[p].pc \notin {"slot", "recheck", "put", "complete"}
      BY <1>1, <2>7 DEF Placing
    <3> QED
      BY <1>1, <3>4, <3>5, <3>6 DEF IInv, PruneSafe
  <2>21. WriteSafe'
    <3>1. \A p \in Run : ~Before(p)'
      BY <1>1, <2>7 DEF Before
    <3>2. ASSUME NEW w \in Editor, edit[w].pc = "write", edit[w].day \in DOMAIN days
          PROVE  /\ Len(days'[edit[w].day]) >= edit[w].n
                 /\ Len(days'[edit[w].day]) = edit[w].n => days'[edit[w].day] = days[edit[w].day]
      <4>1. /\ Len(days[edit[w].day]) >= edit[w].n /\ edit[w].n \in Nat
            /\ Len(days[edit[w].day]) \in Nat
        <5>1. Len(days[edit[w].day]) >= edit[w].n
          BY <3>2 DEF IInv, WriteSafe
        <5>2. edit[w].n \in 0..MaxPlaces /\ days[edit[w].day] \in Seq(Key)
          BY <1>1, <3>2 DEF TypeOK, EditType
        <5> QED
          BY <5>1, <5>2, DayPlacesAssumption
      <4>2. CASE edit[w].day = d
        <5>1. days'[edit[w].day] = b /\ Len(b) = Len(days[edit[w].day]) + 1
          BY <2>10, <2>12, <3>2, <4>2
        <5>2. Len(b) >= edit[w].n /\ Len(b) # edit[w].n
          BY <4>1, <5>1
        <5> QED
          BY <5>1, <5>2
      <4>3. CASE edit[w].day # d
        BY <2>12, <3>2, <4>1, <4>3
      <4> QED
        BY <4>2, <4>3
    <3>3. Exists' <=> Exists
      BY <2>11 DEF Exists
    <3> QED
      BY <1>1, <2>12, <3>1, <3>2, <3>3 DEF IInv, WriteSafe
  <2> QED
    BY <2>13, <2>14, <2>15, <2>16, <2>17, <2>18, <2>19, <2>20, <2>21 DEF IInv
<1>3. CASE ~(d \in DOMAIN days /\ Len(days[d]) = sug[s].n /\ Exists /\ trip.visited = sug[s].prev)
  <2>1. UNCHANGED <<days, trip>> /\ SGo(s, "fail")
    BY <1>3 DEF Persist
  <2>2. SugMoves(s) /\ sug'[s].pc = "fail"
    BY <1>1, <2>1, SugGoes
  <2>3. trip' \in TripType
    BY <1>1, <2>1 DEF TypeOK
  <2>4. Claims'
    <3>1. \A t \in Suggester : SugBusy(t)' => SugBusy(t)
      BY <1>1, <2>2 DEF SugMoves, SugBusy
    <3> QED
      BY <1>1, <2>1, <3>1 DEF IInv, Claims, Claimed, Busy, PlanLeft, Exists
  <2>5. Deletion'
    BY <1>1, <2>1 DEF IInv, Deletion, Exists, Alive, PlanLeft
  <2>6. SugFits'
    BY <2>2 DEF IInv, SugFits, SugMoves
  <2> QED
    BY <1>1, <2>1, <2>2, <2>3, <2>4, <2>5, <2>6, SugOnly DEF IInv
<1> QED
  BY <1>2, <1>3

LEMMA ReleaseKeeps ==
  ASSUME IInv, NEW s \in Suggester, Release(s)
  PROVE  IInv'
<1>1. /\ TypeOK /\ sug[s].pc \in {"complete", "fail"} /\ sug[s].pc # "done"
      /\ trip' = [trip EXCEPT !.job = None] /\ SEnd(s) /\ UNCHANGED <<days, edit, plan, gone, stale>>
  BY DEF IInv, Release
<1>2. SugMoves(s) /\ sug'[s].pc = "done"
  BY <1>1, SugEnds
<1>3. /\ trip' \in TripType /\ trip'.visited = trip.visited /\ trip'.status = trip.status
      /\ trip'.pdi = trip.pdi /\ trip'.job = None
  BY <1>1 DEF TypeOK, TripType
<1>4. Claims'
  <2>1. ASSUME NEW t \in Suggester, SugBusy(t)', Exists, \E p \in Run : PlanLeft(p) PROVE FALSE
    <3>1. SugBusy(s) /\ SugBusy(t) /\ t # s
      BY <1>1, <1>2, <2>1 DEF SugMoves, SugBusy
    <3> QED
      BY <2>1, <3>1 DEF IInv, Claims
  <2> QED
    BY <1>1, <1>3, <2>1 DEF IInv, Claims, Claimed, Busy, PlanLeft, Exists
<1>5. Deletion'
  BY <1>1, <1>3 DEF IInv, Deletion, Exists, Alive, PlanLeft
<1>6. SugFits'
  BY <1>2 DEF IInv, SugFits, SugMoves
<1> QED
  BY <1>1, <1>2, <1>3, <1>4, <1>5, <1>6, SugOnly DEF IInv

LEMMA SuggestStepKeeps ==
  ASSUME IInv, NEW s \in Suggester, SuggestStep(s)
  PROVE  IInv'
  BY ClaimSuggestKeeps, SuggestKeeps, PersistKeeps, ReleaseKeeps DEF SuggestStep

-----------------------------------------------------------------------------
(* plan-day runs                                                           *)

\* While a run acts, no other is at work.
LEMMA OneRunActs ==
  ASSUME IInv, NEW p \in Run, Busy(p)
  PROVE  \A q \in Run : q # p => ~Busy(q)
  BY DEF IInv, Claims

\* A run that is not at work says nothing of the keys.
LEMMA IdleRun ==
  ASSUME NEW q \in Run, ~Busy(q)
  PROVE  /\ ~Placed(q) /\ ~Placing(q) /\ ~Before(q) /\ ~Claimed(q)
         /\ plan[q].pc \notin {"slot", "recheck", "put", "complete", "check", "unput"}
  BY DEF Busy, Placed, Placing, Before, Claimed, AsyncPc, SyncPc

\* While a run is at work, the mix has no other synchronous one, or no claim is lost and
\* the synchronous ones are over.
LEMMA SyncAlone ==
  ASSUME IInv, NEW p \in Run, plan[p].pc \in SyncPc \/ (p \in SyncPlanner /\ PlanLeft(p))
  PROVE  /\ \A q \in Run : q # p => plan[q].pc = "done"
         /\ \A s \in Suggester : sug[s].pc = "done"
<1>1. p \in SyncPlanner /\ PlanLeft(p)
  BY DEF IInv, Mixed, SyncPc, PlanLeft
<1> QED
  BY <1>1 DEF IInv, Mixed, PlanLeft, SugLeft, Run

\* While an asynchronous run is at work it holds the claim, and the trip is not deleted.
LEMMA AsyncHolds ==
  ASSUME IInv, NEW p \in Run, plan[p].pc \in AsyncPc
  PROVE  /\ trip.pdi = plan[p].day /\ trip.pdi # 0 /\ trip.job = None /\ gone.pc = "idle" /\ Exists
         /\ plan[p].day \in Day /\ p \in Planner
         /\ \A q \in SyncPlanner : plan[q].pc = "done"
<1>1. trip.pdi = plan[p].day /\ trip.job = None /\ gone.pc = "idle"
  BY DEF IInv, Claims, Claimed
<1>2. plan[p].day \in Day /\ plan[p].day # 0
  <2>1. plan[p].day \in Day
    BY DEF IInv, TypeOK, Run, PlanType
  <2> QED
    BY <2>1, DayPlacesAssumption DEF Day
<1>3. p \in Planner /\ Exists
  BY <1>1 DEF IInv, Mixed, Deletion
<1>4. PlanLeft(p)
  BY DEF PlanLeft, AsyncPc
<1>5. \A q \in SyncPlanner : plan[q].pc = "done"
  BY <1>3, <1>4 DEF IInv, Mixed, PlanLeft
<1> QED
  BY <1>1, <1>2, <1>3, <1>5

\* The claims when run p moves: it is the only one at work, and if it goes on with the
\* claim of the day it holds it.
LEMMA PlanClaims ==
  ASSUME IInv, NEW p \in Run, PlanMoves(p), UNCHANGED <<sug, gone, stale>>,
         \A q \in Run : q # p => ~Busy(q),
         plan'[p].pc \in AsyncPc =>
           trip'.pdi = plan'[p].day /\ trip'.job = None /\ gone.pc = "idle",
         trip'.job = trip.job, Exists' => Exists,
         trip'.pdi \in {trip.pdi, 0} \/ stale = MaxStale
  PROVE  Claims'
<1>1. \A q \in Run : q # p => ~Busy(q)'
  BY DEF PlanMoves, Busy
<1>2. \A q \in Run : Busy(q)' => q = p
  BY <1>1
<1>3. \A q \in Run : Claimed(q)' => q = p
  BY <1>2 DEF Claimed, Busy
<1>4. (\E q \in Run : PlanLeft(q))' => \E q \in Run : PlanLeft(q)
  BY DEF PlanMoves, PlanLeft
<1>5. \A s \in Suggester : SugBusy(s)' <=> SugBusy(s)
  BY DEF SugBusy
<1> QED
  BY <1>2, <1>3, <1>4, <1>5 DEF IInv, Claims, Claimed

\* The keys when run p moves and the days stay.
LEMMA PlanKeys ==
  ASSUME IInv, NEW p \in Run, PlanMoves(p), UNCHANGED <<days, edit, sug, gone, stale>>,
         \A q \in Run : q # p => ~Busy(q),
         Exists' /\ ~Placed(p)' => Keys(DOMAIN days) \subseteq Range(trip'.visited),
         Placing(p)' \/ plan'[p].pc = "slot" =>
           Keys(DOMAIN days) \subseteq Range(plan'[p].visited),
         Placing(p)' => /\ Keys(DOMAIN days) \cap Range(plan'[p].new) = {}
                        /\ IsInjective(plan'[p].new) /\ Len(plan'[p].new) <= 2,
         Placed(p)' =>
           Keys(DOMAIN days) \subseteq Range(plan'[p].visited) \cup Range(plan'[p].new),
         plan'[p].pc \in {"recheck", "put", "complete"} =>
           Range(plan'[p].new) \subseteq Range(plan'[p].visited),
         Exists' /\ plan'[p].pc \in {"check", "unput"} =>
           Keys(DOMAIN days \ {plan'[p].day}) \subseteq Range(trip'.visited),
         Before(p)' => plan'[p].day \notin DOMAIN days
  PROVE  KeysKnown' /\ NoKeyTwice' /\ SugFits'
<1>1. \A q \in Run : q # p =>
        /\ ~Placed(q)' /\ ~Placing(q)' /\ ~Before(q)'
        /\ plan'[q].pc \notin {"slot", "recheck", "put", "complete", "check", "unput"}
  BY IdleRun DEF PlanMoves, Placed, Placing, Before
<1>2. /\ Keys(DOMAIN days)' = Keys(DOMAIN days)
      /\ Elsewhere(p)' = Keys(DOMAIN days \ {plan'[p].day})
  BY DEF Keys, Elsewhere
<1>3. KeysKnown'
  BY <1>1, <1>2 DEF KeysKnown
<1>4. NoKeyTwice' /\ SugFits'
  BY DEF IInv, NoKeyTwice, SugFits
<1> QED
  BY <1>3, <1>4

\* The edits when run p moves and the days stay.
LEMMA PlanEdits ==
  ASSUME IInv, NEW p \in Run, PlanMoves(p), UNCHANGED <<days, edit, sug, gone, stale>>,
         \A q \in Run : q # p => ~Busy(q),
         plan'[p].pc = "idle" => plan[p].pc = "idle",
         plan'[p].pc = "heal" => plan[p].pc \in {"idle", "heal"},
         \A w \in Editor :
           /\ Exists' /\ MayChoose' => edit[w].prune \subseteq Range(trip'.visited)
           /\ plan'[p].pc \in {"slot", "recheck", "put", "complete"} =>
                edit[w].prune \subseteq Range(plan'[p].visited)
           /\ Placing(p)' => edit[w].prune \cap Range(plan'[p].new) = {},
         Exists' => Exists,
         Before(p)' =>
           \/ Before(p) /\ plan'[p].day = plan[p].day
           \/ Exists /\ plan[p].pc = "idle" /\ plan'[p].day \notin DOMAIN days
  PROVE  PruneSafe' /\ WriteSafe'
<1>1. \A q \in Run : q # p => /\ ~Placing(q)' /\ ~Before(q)'
                             /\ plan'[q].pc \notin {"slot", "recheck", "put", "complete"}
  BY IdleRun DEF PlanMoves, Placing, Before
<1>2. PruneSafe'
  BY <1>1 DEF IInv, PruneSafe
<1>3. ASSUME NEW w \in Editor, edit[w].pc = "write"
      PROVE  /\ \A q \in Run : Before(q)' => plan'[q].day # edit[w].day
             /\ edit[w].day \notin DOMAIN days =>
                  ~Exists' \/ \A q \in Run : plan'[q].pc # "idle"
  <2>1. edit[w].day \notin DOMAIN days => ~Exists \/ \A q \in Run : plan[q].pc # "idle"
    BY <1>3 DEF IInv, WriteSafe
  <2>2. Before(p) => plan[p].day # edit[w].day
    BY <1>3 DEF IInv, WriteSafe
  <2>3. Before(p)' => plan'[p].day # edit[w].day
    BY <2>1, <2>2
  <2>4. \A q \in Run : plan'[q].pc = "idle" => plan[q].pc = "idle"
    BY DEF PlanMoves
  <2> QED
    BY <1>1, <2>1, <2>3, <2>4
<1>4. WriteSafe'
  BY <1>3 DEF IInv, WriteSafe
<1> QED
  BY <1>2, <1>4

\* The deletion when run p moves and the days stay.
LEMMA PlanDeletion ==
  ASSUME IInv, NEW p \in Run, PlanMoves(p), UNCHANGED <<days, gone>>,
         Exists' <=> Exists, ~Exists => UNCHANGED trip,
         gone.pc # "idle" => ~Alive' \/ \A q \in Run : plan'[q].pc = "done",
         plan[p].pc \in {"check", "unput"} /\ gone.pc \in {"trip", "days", "done"} =>
           plan'[p].pc \in {"check", "unput"} /\ plan'[p].day = plan[p].day
  PROVE  Deletion'
<1>1. gone.pc \in {"trip", "days", "done"} =>
        \A d \in DOMAIN days :
          d \in gone.left \/ \E q \in Run : plan'[q].pc \in {"check", "unput"} /\ plan'[q].day = d
  BY DEF IInv, Deletion, PlanMoves
<1> QED
  BY <1>1 DEF IInv, Deletion, PlanLeft

\* Types when run p moves.
LEMMA PlanTypes ==
  ASSUME TypeOK, NEW p \in Run, PlanMoves(p), UNCHANGED <<days, edit, sug, gone, stale>>,
         trip' \in TripType
  PROVE  TypeOK'
  BY DEF TypeOK, PlanMoves, Run

\* A run that had put nothing gives up, or ends: what is known of the keys stays known.
LEMMA PlanGivesUp ==
  ASSUME IInv, NEW p \in Run, PlanMoves(p), UNCHANGED <<days, edit, sug, gone, stale>>,
         Busy(p), ~Placed(p), plan'[p].pc \in {"fail", "undo", "rollback", "done"},
         trip' \in TripType, trip'.visited = trip.visited, trip'.job = trip.job,
         trip'.pdi \in {trip.pdi, 0},
         Exists' <=> Exists, ~Exists => UNCHANGED trip,
         gone.pc # "idle" => ~Alive' \/ \A q \in Run : plan'[q].pc = "done",
         plan'[p].pc = "fail" =>
           plan[p].pc \in AsyncPc /\ plan'[p].day = plan[p].day /\ trip'.pdi = trip.pdi
  PROVE  IInv'
<1>1. \A q \in Run : q # p => ~Busy(q)
  BY OneRunActs
<1>2. TypeOK' /\ Mixed'
  BY PlanTypes, PlanKeepsMix DEF IInv
<1>3. Claims'
  <2>1. plan'[p].pc \in AsyncPc => plan'[p].pc = "fail"
    BY DEF AsyncPc
  <2>2. plan'[p].pc \in AsyncPc =>
          trip'.pdi = plan'[p].day /\ trip'.job = None /\ gone.pc = "idle"
    BY <2>1, AsyncHolds
  <2> QED
    BY <1>1, <2>2, PlanClaims
<1>4. Deletion'
  <2>1. plan[p].pc \notin {"check", "unput"}
    BY DEF Placed
  <2> QED
    BY <2>1, PlanDeletion
<1>5. ~Placed(p)' /\ ~Placing(p)' /\ ~Before(p)'
      /\ plan'[p].pc \notin {"slot", "recheck", "put", "complete", "check", "unput", "idle", "heal"}
  BY DEF Placed, Placing, Before
<1>6. KeysKnown' /\ NoKeyTwice' /\ SugFits'
  <2>1. \A q \in Run : ~Placed(q)
    BY <1>1, IdleRun
  <2>2. Exists => Keys(DOMAIN days) \subseteq Range(trip.visited)
    BY <2>1 DEF IInv, KeysKnown
  <2> QED
    BY <1>1, <1>5, <2>2, PlanKeys
<1>7. PruneSafe' /\ WriteSafe'
  <2>1. MayChoose' => MayChoose
    BY <1>5 DEF MayChoose, SugLeft, PlanLeft, PlanMoves, Run
  <2>2. \A w \in Editor : Exists' /\ MayChoose' => edit[w].prune \subseteq Range(trip'.visited)
    BY <2>1 DEF IInv, PruneSafe
  <2> QED
    BY <1>1, <1>5, <2>2, PlanEdits
<1> QED
  BY <1>2, <1>3, <1>4, <1>6, <1>7 DEF IInv


\* A plan: one or two keys, none of them in vs.
LEMMA PlansAre ==
  ASSUME NEW vs \in Seq(Key), NEW new \in Plans(vs)
  PROVE  /\ new \in Seq(Key) /\ Len(new) <= 2 /\ IsInjective(new)
         /\ Range(new) \cap Range(vs) = {}
<1> DEFINE S == Key \ Range(vs)
<1>1. PICK m \in 0..2 : new \in [1..m -> S]
  BY DEF Plans, BoundedSeq, SeqOf
<1>2. IsInjective(new)
  BY DEF Plans
<1>3. /\ new \in Seq(S) /\ Len(new) <= 2 /\ \A i \in DOMAIN new : new[i] \in S
  BY <1>1
<1>4. new \in Seq(Key)
  BY <1>1, <1>3
<1> QED
  BY <1>2, <1>3, <1>4 DEF Range

\* The day to plan is a missing one.
LEMMA FirstMissingIs ==
  ASSUME TypeOK, Missing # {}
  PROVE  FirstMissing \in Day /\ FirstMissing \notin DOMAIN days /\ FirstMissing # 0
<1>1. Missing \subseteq Nat /\ Missing \subseteq Day
  BY DayPlacesAssumption DEF Missing, Day
<1>2. \E d \in Missing : \A e \in Missing : d <= e
  BY <1>1, LeastOf
<1>3. FirstMissing \in Missing
  BY <1>2 DEF FirstMissing
<1> QED
  BY <1>1, <1>3, DayPlacesAssumption DEF Missing, Day

\* Who starts while no run is at work is the only one at work.
LEMMA StartsAlone ==
  ASSUME IInv, trip.pdi = 0, NEW p \in Run, plan[p].pc = "idle"
  PROVE  /\ \A q \in Run : ~Busy(q)
         /\ Alive => gone.pc = "idle"
<1>1. PlanLeft(p)
  BY DEF PlanLeft
<1>2. \A q \in Run : ~Claimed(q)
  BY NobodyClaims DEF IInv, Claimed
<1>3. ASSUME NEW q \in Run, plan[q].pc \in SyncPc PROVE FALSE
  <2>1. plan[p].pc = "done" \/ p = q
    BY <1>3, SyncAlone
  <2> QED
    BY <1>3, <2>1 DEF SyncPc
<1>4. Alive => gone.pc = "idle"
  BY <1>1 DEF IInv, Deletion
<1> QED
  BY <1>2, <1>3, <1>4 DEF Busy, Claimed

LEMMA ClaimPlanKeeps ==
  ASSUME IInv, NEW p \in Run, ClaimPlan(p)
  PROVE  IInv'
<1> DEFINE d == FirstMissing
<1>1. /\ TypeOK /\ p \in Planner /\ plan[p].pc = "idle" /\ Missing # {} /\ trip.job = None
      /\ trip.pdi = 0 /\ trip.status \in {"routing_confirmed", "planning", "failed"}
      /\ trip' = [trip EXCEPT !.pdi = d, !.ndi = d, !.status = "planning"]
      /\ plan' = [plan EXCEPT ![p].pc = "read", ![p].day = d]
      /\ UNCHANGED <<days, edit, sug, gone, stale>>
  BY DEF IInv, ClaimPlan, MayPlan
<1>2. d \in Day /\ d \notin DOMAIN days /\ d # 0
  BY <1>1, FirstMissingIs
<1> HIDE DEF d
<1>3. /\ \A q \in Run : ~Busy(q)
      /\ Alive /\ Exists /\ gone.pc = "idle"
  BY <1>1, StartsAlone DEF Alive, Exists
<1>4. PlanMoves(p) /\ plan'[p].pc = "read" /\ plan'[p].day = d
  <2>1. plan \in [Run -> PlanType]
    BY <1>1 DEF TypeOK, Run
  <2>2. plan' = [plan EXCEPT ![p] = [plan[p] EXCEPT !.pc = "read", !.day = d]]
    BY <1>1, <2>1 DEF PlanType
  <2>3. [plan[p] EXCEPT !.pc = "read", !.day = d] \in PlanType
    BY <1>2, <2>1 DEF PlanType
  <2>4. plan'[p] = [plan[p] EXCEPT !.pc = "read", !.day = d]
    BY <2>1, <2>2
  <2> QED
    BY <1>1, <2>1, <2>2, <2>3, <2>4 DEF PlanMoves, PlanType, SyncPc
<1>5. /\ trip' \in TripType /\ trip'.pdi = d /\ trip'.job = trip.job /\ trip'.status = "planning"
      /\ trip'.visited = trip.visited
  <2>1. trip \in TripType
    BY <1>1 DEF TypeOK
  <2>2. d \in 0..DayCount /\ d \in 1..(DayCount + 1) /\ "planning" \in Status
    BY <1>2, DayPlacesAssumption DEF Day, Status
  <2> QED
    BY <1>1, <2>1, <2>2 DEF TripType
<1>6. Exists'
  BY <1>5 DEF Exists
<1>7. TypeOK' /\ Mixed'
  BY <1>1, <1>4, <1>5, PlanTypes, PlanKeepsMix DEF IInv
<1>8. Claims'
  <2>1. stale = MaxStale
    BY <1>1 DEF IInv, Mixed, PlanLeft, Run
  <2> QED
    BY <1>1, <1>3, <1>4, <1>5, <2>1, PlanClaims
<1>9. Deletion'
  BY <1>1, <1>3, <1>4, <1>6, PlanDeletion
<1>10. KeysKnown' /\ NoKeyTwice' /\ SugFits'
  <2>1. ~Placing(p)' /\ ~Placed(p)' /\ plan'[p].pc \notin {"slot", "recheck", "put", "complete", "check", "unput"}
    BY <1>4 DEF Placing, Placed
  <2>2. Keys(DOMAIN days) \subseteq Range(trip.visited)
    BY <1>3, IdleRun DEF IInv, KeysKnown
  <2> QED
    BY <1>1, <1>2, <1>3, <1>4, <1>5, <2>1, <2>2, PlanKeys
<1>11. PruneSafe' /\ WriteSafe'
  <2>1. MayChoose
    BY <1>1 DEF MayChoose, PlanLeft
  <2>2. \A w \in Editor : edit[w].prune \subseteq Range(trip'.visited)
    BY <1>3, <1>5, <2>1 DEF IInv, PruneSafe
  <2>3. ~Placing(p)' /\ plan'[p].pc \notin {"slot", "recheck", "put", "complete", "idle", "heal"}
    BY <1>4 DEF Placing
  <2> QED
    BY <1>1, <1>2, <1>3, <1>4, <2>2, <2>3, PlanEdits
<1> QED
  BY <1>7, <1>8, <1>9, <1>10, <1>11 DEF IInv

\* What an asynchronous run at work knows: it is alone, and the TRIP row has the keys
\* unless it has put its day.
LEMMA AsyncKnows ==
  ASSUME IInv, NEW p \in Run, plan[p].pc \in AsyncPc
  PROVE  /\ \A q \in Run : q # p => ~Busy(q)
         /\ Busy(p) /\ Exists /\ gone.pc = "idle" /\ MayChoose
         /\ ~Placed(p) => Keys(DOMAIN days) \subseteq Range(trip.visited)
         /\ \A w \in Editor : edit[w].prune \subseteq Range(trip.visited)
         /\ trip.visited \in Seq(Key)
<1>1. Busy(p)
  BY DEF Busy
<1>2. \A q \in Run : q # p => ~Busy(q) /\ ~Placed(q)
  BY <1>1, OneRunActs, IdleRun
<1>3. Exists /\ gone.pc = "idle" /\ p \in Planner /\ PlanLeft(p)
  BY AsyncHolds DEF PlanLeft, AsyncPc
<1>4. MayChoose
  BY <1>3 DEF MayChoose
<1>5. \A w \in Editor : edit[w].prune \subseteq Range(trip.visited)
  BY <1>3, <1>4 DEF IInv, PruneSafe
<1>6. trip.visited \in Seq(Key)
  BY DEF IInv, TypeOK, TripType
<1> QED
  BY <1>1, <1>2, <1>3, <1>4, <1>5, <1>6 DEF IInv, KeysKnown

LEMMA ExecuteKeeps ==
  ASSUME IInv, NEW p \in Run, Execute(p)
  PROVE  IInv'
<1>1. /\ TypeOK /\ plan[p].pc = "read" /\ plan[p].pc # "done" /\ plan[p].pc \in AsyncPc
      /\ UNCHANGED <<trip, days, edit, sug, gone, stale>>
  BY DEF IInv, Execute, AsyncPc
<1>2. /\ trip.pdi = plan[p].day /\ trip.job = None /\ p \in Planner
      /\ \A q \in Run : q # p => ~Busy(q)
      /\ Busy(p) /\ Exists /\ gone.pc = "idle" /\ MayChoose
      /\ \A w \in Editor : edit[w].prune \subseteq Range(trip.visited)
      /\ trip.visited \in Seq(Key)
  BY <1>1, AsyncHolds, AsyncKnows
<1>3. ~Placed(p) /\ Before(p) /\ Keys(DOMAIN days) \subseteq Range(trip.visited)
  BY <1>1, AsyncKnows DEF Placed, Before
<1>4. trip' \in TripType
  BY <1>1 DEF TypeOK
<1>5. CASE PGo(p, "fail")
  <2>1. PlanMoves(p) /\ plan'[p].pc = "fail" /\ plan'[p].day = plan[p].day
    BY <1>1, <1>2, <1>5, PlanGoes DEF AsyncPc, SyncPc
  <2> QED
    BY <1>1, <1>2, <1>3, <1>4, <2>1, PlanGivesUp DEF Exists
<1>6. ASSUME NEW new \in Plans(trip.visited),
             plan' = [plan EXCEPT ![p].pc = "recheck", ![p].visited = Joined(trip.visited, new),
                                  ![p].new = new]
      PROVE  IInv'
  <2> DEFINE v == Joined(trip.visited, new)
  <2>1. /\ new \in Seq(Key) /\ Len(new) <= 2 /\ IsInjective(new)
        /\ Range(new) \cap Range(trip.visited) = {}
    BY <1>2, PlansAre
  <2>2. v \in Seq(Key) /\ Range(v) = Range(trip.visited) \cup Range(new)
    BY <1>2, <2>1, JoinedIs
  <2> HIDE DEF v
  <2>3. /\ PlanMoves(p) /\ plan'[p].pc = "recheck" /\ plan'[p].day = plan[p].day
        /\ plan'[p].visited = v /\ plan'[p].new = new
    <3> DEFINE r == [plan[p] EXCEPT !.pc = "recheck", !.visited = v, !.new = new]
    <3>1. plan \in [Run -> PlanType]
      BY <1>1 DEF TypeOK, Run
    <3>2. plan' = [plan EXCEPT ![p] = r]
      BY <1>6, <3>1 DEF PlanType, v
    <3>3. /\ r \in PlanType /\ r.pc = "recheck" /\ r.day = plan[p].day /\ r.visited = v
          /\ r.new = new
      BY <2>1, <2>2, <3>1 DEF PlanType
    <3> HIDE DEF r
    <3>4. plan'[p] = r
      BY <3>1, <3>2
    <3> QED
      BY <1>1, <1>2, <3>1, <3>2, <3>3, <3>4 DEF PlanMoves, SyncPc
  <2>4. ~Placed(p)' /\ Before(p)' /\ plan'[p].pc \notin {"slot", "check", "unput", "idle", "heal"}
    BY <2>3 DEF Placed, Before
  <2>5. TypeOK' /\ Mixed'
    BY <1>1, <1>4, <2>3, PlanTypes, PlanKeepsMix DEF IInv
  <2>6. Claims'
    BY <1>1, <1>2, <2>3, PlanClaims DEF Exists
  <2>7. Deletion'
    BY <1>1, <1>2, <2>3, PlanDeletion DEF Exists
  <2>8. KeysKnown' /\ NoKeyTwice' /\ SugFits'
    <3>1. plan[p].day \notin DOMAIN days
      BY <1>3 DEF IInv, KeysKnown
    <3> QED
      BY <1>1, <1>2, <1>3, <2>1, <2>2, <2>3, <2>4, <3>1, PlanKeys
  <2>9. PruneSafe' /\ WriteSafe'
    <3>1. \A w \in Editor : /\ edit[w].prune \subseteq Range(v)
                            /\ edit[w].prune \cap Range(new) = {}
      BY <1>2, <2>1, <2>2
    <3> QED
      BY <1>1, <1>2, <1>3, <2>3, <2>4, <3>1, PlanEdits DEF Exists
  <2> QED
    BY <2>5, <2>6, <2>7, <2>8, <2>9 DEF IInv
<1> QED
  BY <1>2, <1>5, <1>6 DEF Execute

LEMMA RecheckKeeps ==
  ASSUME IInv, NEW p \in Run, Recheck(p)
  PROVE  IInv'
<1> DEFINE pc == IF Alive /\ trip.pdi = plan[p].day THEN "put" ELSE "fail"
<1>1. /\ TypeOK /\ plan[p].pc = "recheck" /\ plan[p].pc # "done" /\ plan[p].pc \in AsyncPc
      /\ UNCHANGED <<trip, days, edit, sug, gone, stale>>
      /\ plan' = [plan EXCEPT ![p].pc = pc, ![p].live = trip.visited]
  BY DEF IInv, Recheck, AsyncPc
<1>2. /\ trip.pdi = plan[p].day /\ trip.job = None /\ p \in Planner
      /\ \A q \in Run : q # p => ~Busy(q)
      /\ Busy(p) /\ Exists /\ gone.pc = "idle" /\ MayChoose
      /\ \A w \in Editor : edit[w].prune \subseteq Range(trip.visited)
      /\ trip.visited \in Seq(Key)
  BY <1>1, AsyncHolds, AsyncKnows
<1>3. ~Placed(p) /\ Before(p) /\ Placing(p) /\ Keys(DOMAIN days) \subseteq Range(trip.visited)
  BY <1>1, AsyncKnows DEF Placed, Before, Placing
<1>4. trip' \in TripType /\ pc \in {"put", "fail"}
  BY <1>1 DEF TypeOK
<1> HIDE DEF pc
<1>5. /\ PlanMoves(p) /\ plan'[p].pc = pc /\ plan'[p].day = plan[p].day
      /\ plan'[p].visited = plan[p].visited /\ plan'[p].new = plan[p].new
  <2> DEFINE r == [plan[p] EXCEPT !.pc = pc, !.live = trip.visited]
  <2>1. plan \in [Run -> PlanType]
    BY <1>1 DEF TypeOK, Run
  <2>2. plan' = [plan EXCEPT ![p] = r]
    BY <1>1, <2>1 DEF PlanType
  <2>3. /\ r \in PlanType /\ r.pc = pc /\ r.day = plan[p].day /\ r.visited = plan[p].visited
        /\ r.new = plan[p].new
    BY <1>2, <1>4, <2>1 DEF PlanType
  <2> HIDE DEF r
  <2>4. plan'[p] = r
    BY <2>1, <2>2
  <2> QED
    BY <1>1, <1>2, <1>4, <2>1, <2>2, <2>3, <2>4 DEF PlanMoves, SyncPc
<1>6. CASE pc = "fail"
  BY <1>1, <1>2, <1>3, <1>4, <1>5, <1>6, PlanGivesUp DEF Exists
<1>7. CASE pc = "put"
  <2>1. ~Placed(p)' /\ Before(p)' /\ plan'[p].pc \notin {"slot", "check", "unput", "idle", "heal"}
    BY <1>5, <1>7 DEF Placed, Before
  <2>2. TypeOK' /\ Mixed'
    BY <1>1, <1>4, <1>5, PlanTypes, PlanKeepsMix DEF IInv
  <2>3. Claims'
    BY <1>1, <1>2, <1>5, PlanClaims DEF Exists
  <2>4. Deletion'
    BY <1>1, <1>2, <1>5, PlanDeletion DEF Exists
  <2>5. KeysKnown' /\ NoKeyTwice' /\ SugFits'
    <3>1. /\ plan[p].day \notin DOMAIN days
          /\ Keys(DOMAIN days) \subseteq Range(plan[p].visited)
          /\ Keys(DOMAIN days) \cap Range(plan[p].new) = {}
          /\ IsInjective(plan[p].new) /\ Len(plan[p].new) <= 2
          /\ Range(plan[p].new) \subseteq Range(plan[p].visited)
      BY <1>1, <1>3 DEF IInv, KeysKnown
    <3> QED
      BY <1>1, <1>2, <1>3, <1>5, <2>1, <3>1, PlanKeys
  <2>6. PruneSafe' /\ WriteSafe'
    <3>1. \A w \in Editor : /\ edit[w].prune \subseteq Range(plan[p].visited)
                            /\ edit[w].prune \cap Range(plan[p].new) = {}
      BY <1>1, <1>3 DEF IInv, PruneSafe
    <3> QED
      BY <1>1, <1>2, <1>3, <1>5, <2>1, <3>1, PlanEdits DEF Exists
  <2> QED
    BY <2>2, <2>3, <2>4, <2>5, <2>6 DEF IInv
<1> QED
  BY <1>4, <1>6, <1>7

LEMMA AfterIs ==
  ASSUME NEW d \in Day
  PROVE  /\ After(d) \in Status /\ After(d) # "gone" /\ After(d) # "deleting"
         /\ d + 1 \in 1..(DayCount + 1)
  BY DayPlacesAssumption DEF After, Status, Day

LEMMA CompleteKeeps ==
  ASSUME IInv, NEW p \in Run, Complete(p)
  PROVE  IInv'
<1> DEFINE d == plan[p].day
           v == plan[p].visited
<1>1. /\ TypeOK /\ plan[p].pc = "complete" /\ plan[p].pc # "done" /\ plan[p].pc \in AsyncPc
      /\ UNCHANGED <<days, edit, sug, gone, stale>>
  BY DEF IInv, Complete, AsyncPc
<1>2. /\ trip.pdi = d /\ trip.job = None /\ p \in Planner /\ d \in Day
      /\ \A q \in Run : q # p => ~Busy(q)
      /\ Busy(p) /\ Exists /\ gone.pc = "idle"
  BY <1>1, AsyncHolds, AsyncKnows
<1>3. /\ PEnd(p)
      /\ trip' = [trip EXCEPT !.pdi = 0, !.ndi = d + 1, !.status = After(d), !.visited = v]
  BY <1>1, <1>2 DEF Complete
<1>4. PlanMoves(p) /\ plan'[p].pc = "done"
  BY <1>1, <1>3, PlanEnds
<1>5. /\ trip' \in TripType /\ trip'.pdi = 0 /\ trip'.job = trip.job /\ trip'.visited = v
      /\ trip'.status # "gone"
  <2>1. trip \in TripType /\ v \in Seq(Key)
    BY <1>1 DEF TypeOK, Run, PlanType
  <2>2. 0 \in 0..DayCount
    BY DayPlacesAssumption
  <2> HIDE DEF v, d
  <2>3. /\ After(d) \in Status /\ After(d) # "gone" /\ d + 1 \in 1..(DayCount + 1)
    BY <1>2, AfterIs
  <2> QED
    BY <1>3, <2>1, <2>2, <2>3 DEF TripType
<1>6. ~Placed(p)' /\ ~Placing(p)' /\ ~Before(p)'
      /\ plan'[p].pc \notin {"slot", "recheck", "put", "complete", "check", "unput", "idle", "heal"}
  BY <1>4 DEF Placed, Placing, Before
<1>7. Exists'
  BY <1>5 DEF Exists
<1>8. TypeOK' /\ Mixed'
  BY <1>1, <1>4, <1>5, PlanTypes, PlanKeepsMix DEF IInv
<1>9. Claims'
  <2>1. plan'[p].pc \notin AsyncPc
    BY <1>4 DEF AsyncPc
  <2> QED
    BY <1>1, <1>2, <1>4, <1>5, <2>1, PlanClaims
<1>10. Deletion'
  BY <1>1, <1>2, <1>4, <1>7, PlanDeletion
<1>11. KeysKnown' /\ NoKeyTwice' /\ SugFits'
  <2>1. Placed(p)
    BY <1>1 DEF Placed
  <2>2. Keys(DOMAIN days) \subseteq Range(v)
    BY <1>1, <2>1 DEF IInv, KeysKnown
  <2> QED
    BY <1>1, <1>2, <1>4, <1>5, <1>6, <2>2, PlanKeys
<1>12. PruneSafe' /\ WriteSafe'
  <2>1. \A w \in Editor : edit[w].prune \subseteq Range(v)
    BY <1>1 DEF IInv, PruneSafe
  <2> QED
    BY <1>1, <1>2, <1>4, <1>5, <1>6, <2>1, PlanEdits
<1> QED
  BY <1>8, <1>9, <1>10, <1>11, <1>12 DEF IInv

LEMMA FailPlanKeeps ==
  ASSUME IInv, NEW p \in Run, FailPlan(p)
  PROVE  IInv'
<1>1. /\ TypeOK /\ plan[p].pc = "fail" /\ plan[p].pc # "done" /\ plan[p].pc \in AsyncPc
      /\ PEnd(p) /\ UNCHANGED <<days, edit, sug, gone, stale>>
  BY DEF IInv, FailPlan, AsyncPc
<1>2. /\ trip.pdi = plan[p].day /\ Busy(p) /\ Exists /\ gone.pc = "idle"
  BY <1>1, AsyncHolds, AsyncKnows
<1>3. trip' = [trip EXCEPT !.pdi = 0, !.status = "failed"]
  BY <1>2 DEF FailPlan
<1>4. PlanMoves(p) /\ plan'[p].pc = "done"
  BY <1>1, PlanEnds
<1>5. /\ trip' \in TripType /\ trip'.pdi = 0 /\ trip'.job = trip.job
      /\ trip'.visited = trip.visited /\ trip'.status = "failed"
  <2>1. trip \in TripType /\ 0 \in 0..DayCount /\ "failed" \in Status
    BY <1>1, DayPlacesAssumption DEF TypeOK, Status
  <2> QED
    BY <1>3, <2>1 DEF TripType
<1>6. Exists' /\ ~Placed(p)
  BY <1>1, <1>5 DEF Exists, Placed
<1> QED
  BY <1>1, <1>2, <1>4, <1>5, <1>6, PlanGivesUp

\* A run puts its day: an asynchronous one with the claim, a synchronous one whatever
\* has become of the trip.
LEMMA PutKeeps ==
  ASSUME IInv, NEW p \in Run, plan[p].pc \in {"put", "write"},
         PGo(p, IF plan[p].pc = "put" THEN "complete" ELSE "check"),
         days' = [e \in DOMAIN days \cup {plan[p].day} |->
                    IF e = plan[p].day THEN plan[p].new ELSE days[e]],
         UNCHANGED <<trip, edit, sug, gone, stale>>
  PROVE  IInv'
<1> DEFINE d == plan[p].day
           new == plan[p].new
           v == plan[p].visited
<1>1. /\ TypeOK /\ plan[p].pc # "done" /\ Busy(p) /\ Before(p) /\ Placing(p) /\ ~Placed(p)
  BY DEF IInv, AsyncPc, SyncPc, Busy, Before, Placing, Placed
<1>2. /\ plan[p].pc = "put" => plan[p].pc \in AsyncPc /\ p \in Planner
      /\ plan[p].pc = "write" => plan[p].pc \in SyncPc /\ p \in SyncPlanner
  BY DEF IInv, Mixed, AsyncPc, SyncPc
<1>3. /\ PlanMoves(p)
      /\ plan'[p].pc = IF plan[p].pc = "put" THEN "complete" ELSE "check"
      /\ plan'[p].day = d /\ plan'[p].visited = v /\ plan'[p].new = new
  BY <1>1, <1>2, PlanGoes DEF AsyncPc, SyncPc
<1>4. \A q \in Run : q # p => ~Busy(q)
  BY <1>1, OneRunActs
<1>5. /\ d \notin DOMAIN days /\ Keys(DOMAIN days) \subseteq Range(v)
      /\ Keys(DOMAIN days) \cap Range(new) = {} /\ IsInjective(new) /\ Len(new) <= 2
      /\ plan[p].pc = "put" => Range(new) \subseteq Range(v)
  BY <1>1 DEF IInv, KeysKnown
<1>6. Exists => Keys(DOMAIN days) \subseteq Range(trip.visited)
  <2>1. \A q \in Run : ~Placed(q)
    BY <1>1, <1>4, IdleRun
  <2> QED
    BY <2>1 DEF IInv, KeysKnown
<1>7. d \in Day /\ new \in Seq(Key)
  BY <1>1 DEF TypeOK, Run, PlanType
<1> HIDE DEF d, new, v
<1>8. /\ DOMAIN days' = DOMAIN days \cup {d} /\ days'[d] = new
      /\ \A e \in DOMAIN days : days'[e] = days[e] /\ e # d
      /\ days' = [e \in DOMAIN days' |-> days'[e]]
  BY <1>5 DEF d, new
<1>9. TypeOK'
  <2>1. Len(new) <= MaxPlaces
    BY <1>5, <1>7, DayPlacesAssumption
  <2> QED
    BY <1>1, <1>3, <1>7, <1>8, <2>1 DEF TypeOK, PlanMoves, Run
<1>10. Mixed'
  BY <1>3, PlanKeepsMix DEF IInv
<1>11. Claims'
  <2>1. plan'[p].pc \in AsyncPc => plan[p].pc \in AsyncPc
    BY <1>2, <1>3 DEF AsyncPc
  <2>2. plan'[p].pc \in AsyncPc =>
          trip'.pdi = plan'[p].day /\ trip'.job = None /\ gone.pc = "idle"
    BY <1>3, <2>1, AsyncHolds DEF d
  <2> QED
    BY <1>3, <1>4, <2>2, PlanClaims DEF Exists
<1>12. Deletion'
  <2>1. ASSUME gone.pc \in {"trip", "days", "done"}, NEW e \in DOMAIN days'
        PROVE  e \in gone.left \/ \E q \in Run : plan'[q].pc \in {"check", "unput"} /\ plan'[q].day = e
    <3>1. plan[p].pc = "write"
      BY <1>2, <2>1, AsyncHolds
    <3>2. plan'[p].pc = "check" /\ plan'[p].day = d
      BY <1>3, <3>1
    <3>3. CASE e \in DOMAIN days
      <4>1. e \in gone.left \/ \E q \in Run : plan[q].pc \in {"check", "unput"} /\ plan[q].day = e
        BY <2>1, <3>3 DEF IInv, Deletion
      <4> QED
        BY <1>3, <3>1, <4>1 DEF PlanMoves
    <3> QED
      BY <1>8, <3>2, <3>3
  <2>2. gone.pc # "idle" => ~Alive
    BY <1>1 DEF IInv, Deletion, PlanLeft
  <2> QED
    BY <2>1, <2>2 DEF IInv, Deletion, Exists, Alive
<1>13. \A q \in Run : q # p =>
         /\ ~Placed(q)' /\ ~Placing(q)' /\ ~Before(q)'
         /\ plan'[q].pc \notin {"slot", "recheck", "put", "complete", "check", "unput"}
  BY <1>3, <1>4, IdleRun DEF PlanMoves, Placed, Placing, Before
<1>14. Placed(p)' /\ ~Placing(p)' /\ ~Before(p)'
       /\ plan'[p].pc \notin {"slot", "recheck", "put", "idle", "heal", "unput"}
  BY <1>3 DEF Placed, Placing, Before
<1>15. /\ Keys(DOMAIN days)' = Keys(DOMAIN days) \cup Range(new)
       /\ Elsewhere(p)' = Keys(DOMAIN days)
  <2>1. \A e \in DOMAIN days : Range(days'[e]) = Range(days[e])
    BY <1>8
  <2>2. DOMAIN days' \ {d} = DOMAIN days
    BY <1>5, <1>8
  <2> QED
    BY <1>3, <1>8, <2>1, <2>2 DEF Keys, Elsewhere
<1>16. KeysKnown'
  <2>1. plan'[p].pc = "complete" => Range(new) \subseteq Range(v)
    BY <1>3, <1>5
  <2>2. Exists' <=> Exists
    BY DEF Exists
  <2> QED
    BY <1>3, <1>5, <1>6, <1>13, <1>14, <1>15, <2>1, <2>2 DEF KeysKnown
<1>17. NoKeyTwice'
  <2>1. \A e \in DOMAIN days : Range(days[e]) \cap Range(new) = {}
    BY <1>5 DEF Keys
  <2> QED
    BY <1>5, <1>8, <2>1 DEF IInv, NoKeyTwice
<1>18. SugFits'
  BY DEF IInv, SugFits
<1>19. PruneSafe'
  <2>1. \A w \in Editor : edit[w].prune \cap Range(new) = {}
    BY <1>1 DEF IInv, PruneSafe, new
  <2>2. MayChoose' => MayChoose
    BY <1>14, <1>1, <1>2, <1>3 DEF MayChoose, SugLeft, PlanLeft, PlanMoves, Run
  <2>3. \A w \in Editor, e \in DOMAIN days' :
          e # edit[w].day \/ edit[w].pc \in {"read", "prune"} =>
            Range(days'[e]) \cap edit[w].prune = {}
    BY <1>8, <2>1 DEF IInv, PruneSafe
  <2>4. plan'[p].pc = "complete" => \A w \in Editor : edit[w].prune \subseteq Range(v)
    BY <1>3 DEF IInv, PruneSafe, v
  <2>5. Exists' <=> Exists
    BY DEF Exists
  <2> QED
    BY <1>3, <1>13, <1>14, <2>2, <2>3, <2>4, <2>5 DEF IInv, PruneSafe
<1>20. WriteSafe'
  <2>1. \A w \in Editor : edit[w].pc = "write" => edit[w].day # d
    BY <1>1 DEF IInv, WriteSafe, d
  <2>2. \A w \in Editor : edit[w].pc = "write" =>
          /\ edit[w].day \in DOMAIN days' <=> edit[w].day \in DOMAIN days
          /\ edit[w].day \in DOMAIN days => days'[edit[w].day] = days[edit[w].day]
    BY <1>8, <2>1
  <2>3. \A q \in Run : plan'[q].pc = "idle" => plan[q].pc = "idle"
    BY <1>3, <1>14 DEF PlanMoves
  <2>4. Exists' <=> Exists
    BY DEF Exists
  <2> QED
    BY <1>13, <1>14, <2>2, <2>3, <2>4 DEF IInv, WriteSafe
<1> QED
  BY <1>9, <1>10, <1>11, <1>12, <1>16, <1>17, <1>18, <1>19, <1>20 DEF IInv

LEMMA PutPlannedKeeps ==
  ASSUME IInv, NEW p \in Run, PutPlanned(p)
  PROVE  IInv'
<1>1. /\ plan[p].pc = "put" /\ UNCHANGED <<trip, edit, sug, gone, stale>>
      /\ plan[p].day \notin DOMAIN days
  BY DEF PutPlanned, IInv, KeysKnown, Before
<1>2. /\ days' = [e \in DOMAIN days \cup {plan[p].day} |->
                    IF e = plan[p].day THEN plan[p].new ELSE days[e]]
      /\ PGo(p, "complete")
  BY <1>1 DEF PutPlanned
<1> QED
  BY <1>1, <1>2, PutKeeps

\* What is known while a synchronous request is at work: nobody else plans or suggests.
LEMMA SyncKnows ==
  ASSUME IInv, NEW p \in Run, plan[p].pc \in SyncPc
  PROVE  /\ Busy(p) /\ p \in SyncPlanner /\ plan[p].pc # "done"
         /\ \A q \in Run : q # p => plan[q].pc = "done" /\ ~Busy(q)
         /\ \A s \in Suggester : sug[s].pc = "done"
         /\ \A q \in Planner : plan[q].pc = "done"
         /\ gone.pc # "idle" => ~Alive
         /\ plan[p] \in PlanType /\ TypeOK /\ trip \in TripType
<1>1. Busy(p) /\ p \in SyncPlanner /\ plan[p].pc # "done" /\ plan[p].pc \notin AsyncPc
  BY DEF IInv, Mixed, Busy, SyncPc, AsyncPc
<1>2. \A q \in Run : q # p => plan[q].pc = "done" /\ ~Busy(q)
  BY <1>1, SyncAlone, OneRunActs
<1>3. \A s \in Suggester : sug[s].pc = "done"
  BY SyncAlone
<1>4. \A q \in Planner : plan[q].pc = "done"
  BY <1>1 DEF IInv, Mixed, PlanLeft, Run
<1>5. gone.pc # "idle" => ~Alive
  BY <1>1 DEF IInv, Deletion, PlanLeft
<1> QED
  BY <1>1, <1>2, <1>3, <1>4, <1>5 DEF IInv, TypeOK, Run

\* A synchronous request that has chosen its plan leaves nobody who chooses.
LEMMA NobodyChooses ==
  ASSUME IInv, NEW p \in Run, plan[p].pc \in SyncPc, PlanMoves(p), UNCHANGED sug,
         plan'[p].pc \notin {"idle", "heal"}
  PROVE  ~MayChoose'
<1>1. /\ \A q \in Run : q # p => plan[q].pc = "done"
      /\ \A s \in Suggester : sug[s].pc = "done"
      /\ \A q \in Planner : plan[q].pc = "done"
      /\ p \in SyncPlanner /\ plan[p].pc \notin AsyncPc
  BY SyncKnows DEF SyncPc, AsyncPc
<1>2. \A q \in Planner : plan'[q].pc = "done"
  BY <1>1 DEF PlanMoves, Run
<1>3. \A q \in SyncPlanner : plan'[q].pc \notin {"idle", "heal"}
  BY <1>1 DEF PlanMoves, Run
<1> QED
  BY <1>1, <1>2, <1>3 DEF MayChoose, SugLeft, PlanLeft

\* A synchronous request that ends before it has put its day.
LEMMA SyncEnds ==
  ASSUME IInv, NEW p \in Run, plan[p].pc \in SyncPc, ~Placed(p), PEnd(p),
         UNCHANGED <<trip, days, edit, sug, gone, stale>>
  PROVE  IInv'
<1>1. /\ Busy(p) /\ TypeOK /\ plan[p].pc # "done" /\ trip \in TripType
      /\ \A q \in Run : q # p => plan[q].pc = "done"
  BY SyncKnows
<1>2. PlanMoves(p) /\ plan'[p].pc = "done"
  BY <1>1, PlanEnds
<1>3. \A q \in Run : plan'[q].pc = "done"
  BY <1>1, <1>2 DEF PlanMoves
<1> QED
  BY <1>1, <1>2, <1>3, PlanGivesUp DEF Exists

LEMMA WriteSyncKeeps ==
  ASSUME IInv, NEW p \in Run, WriteSync(p)
  PROVE  IInv'
<1>1. /\ plan[p].pc = "write" /\ plan[p].pc \in SyncPc
      /\ UNCHANGED <<trip, edit, sug, gone, stale>>
  BY DEF WriteSync, SyncPc
<1>2. /\ Busy(p) /\ p \in SyncPlanner /\ plan[p].pc # "done" /\ (gone.pc # "idle" => ~Alive)
      /\ TypeOK /\ trip \in TripType
  BY <1>1, SyncKnows
<1>3. CASE UNCHANGED days /\ PGo(p, "undo")
  <2>1. PlanMoves(p) /\ plan'[p].pc = "undo"
    BY <1>2, <1>3, PlanGoes DEF AsyncPc, SyncPc
  <2>2. ~Placed(p)
    BY <1>1 DEF Placed
  <2> QED
    BY <1>1, <1>2, <1>3, <2>1, <2>2, PlanGivesUp DEF Exists, Alive
<1>4. CASE /\ days' = [e \in DOMAIN days \cup {plan[p].day} |->
                         IF e = plan[p].day THEN plan[p].new ELSE days[e]]
           /\ PGo(p, "check")
  BY <1>1, <1>4, PutKeeps
<1> QED
  BY <1>3, <1>4 DEF WriteSync

LEMMA UndoKeeps ==
  ASSUME IInv, NEW p \in Run, Undo(p)
  PROVE  IInv'
<1>1. /\ plan[p].pc = "undo" /\ plan[p].pc \in SyncPc /\ ~Placed(p)
      /\ UNCHANGED <<trip, days, edit, sug, gone, stale>>
  BY DEF Undo, SyncPc, Placed
<1>2. /\ Busy(p) /\ p \in SyncPlanner /\ plan[p].pc # "done" /\ (gone.pc # "idle" => ~Alive)
      /\ TypeOK /\ trip \in TripType
  BY <1>1, SyncKnows
<1>3. CASE PGo(p, "rollback")
  <2>1. PlanMoves(p) /\ plan'[p].pc = "rollback"
    BY <1>2, <1>3, PlanGoes DEF AsyncPc, SyncPc
  <2> QED
    BY <1>1, <1>2, <2>1, PlanGivesUp DEF Exists, Alive
<1>4. CASE PEnd(p)
  BY <1>1, <1>4, SyncEnds
<1> QED
  BY <1>3, <1>4 DEF Undo

LEMMA RollbackKeeps ==
  ASSUME IInv, NEW p \in Run, Rollback(p)
  PROVE  IInv'
<1> DEFINE d == plan[p].day
           st == plan[p].status
<1>1. /\ plan[p].pc = "rollback" /\ plan[p].pc \in SyncPc /\ ~Placed(p) /\ PEnd(p)
      /\ UNCHANGED <<days, edit, sug, gone, stale>>
      /\ trip' = IF Exists /\ trip.ndi = d + 1
                 THEN [trip EXCEPT !.ndi = d, !.status = st] ELSE trip
  BY DEF Rollback, SyncPc, Placed
<1>2. /\ Busy(p) /\ TypeOK /\ plan[p].pc # "done" /\ plan[p] \in PlanType
      /\ \A q \in Run : q # p => plan[q].pc = "done"
  BY <1>1, SyncKnows DEF IInv
<1>3. PlanMoves(p) /\ plan'[p].pc = "done"
  BY <1>1, <1>2, PlanEnds
<1>4. \A q \in Run : plan'[q].pc = "done"
  BY <1>2, <1>3 DEF PlanMoves
<1>5. d \in 1..(DayCount + 1) /\ st \in Status /\ st # "gone"
  BY <1>2, DayPlacesAssumption DEF PlanType, Day, Status
<1>6. trip \in TripType
  BY <1>2 DEF TypeOK
<1> HIDE DEF d, st
<1>7. /\ trip' \in TripType /\ trip'.visited = trip.visited /\ trip'.job = trip.job
      /\ trip'.pdi = trip.pdi
      /\ Exists' <=> Exists
      /\ ~Exists => UNCHANGED trip
  BY <1>1, <1>5, <1>6 DEF TripType, Exists
<1> QED
  BY <1>1, <1>2, <1>3, <1>4, <1>7, PlanGivesUp

LEMMA LiveKeeps ==
  ASSUME IInv, NEW p \in Run, Live(p)
  PROVE  IInv'
<1>1. /\ plan[p].pc = "live" /\ plan[p].pc \in SyncPc /\ ~Placed(p) /\ Placing(p) /\ Before(p)
      /\ UNCHANGED <<trip, days, edit, sug, gone, stale>> /\ TypeOK
  BY DEF Live, SyncPc, Placed, Placing, Before, IInv
<1>2. /\ Busy(p) /\ p \in SyncPlanner /\ plan[p].pc # "done" /\ (gone.pc # "idle" => ~Alive)
      /\ trip \in TripType /\ \A q \in Run : q # p => ~Busy(q)
  BY <1>1, SyncKnows
<1>3. CASE PEnd(p)
  BY <1>1, <1>3, SyncEnds
<1>4. CASE PGo(p, "write")
  <2>1. /\ PlanMoves(p) /\ plan'[p].pc = "write"
        /\ plan'[p].day = plan[p].day /\ plan'[p].visited = plan[p].visited
        /\ plan'[p].new = plan[p].new
    BY <1>1, <1>2, <1>4, PlanGoes DEF AsyncPc, SyncPc
  <2>2. ~Placed(p)' /\ plan'[p].pc \notin {"slot", "recheck", "put", "complete", "check", "unput", "idle", "heal"}
    BY <2>1 DEF Placed
  <2>3. TypeOK' /\ Mixed'
    BY <1>1, <1>2, <2>1, PlanTypes, PlanKeepsMix DEF IInv
  <2>4. Claims'
    <3>1. plan'[p].pc \notin AsyncPc
      BY <2>1 DEF AsyncPc
    <3> QED
      BY <1>1, <1>2, <2>1, <3>1, PlanClaims DEF Exists
  <2>5. Deletion'
    BY <1>1, <1>2, <2>1, PlanDeletion DEF Exists, Alive
  <2>6. KeysKnown' /\ NoKeyTwice' /\ SugFits'
    <3>1. \A q \in Run : ~Placed(q)
      BY <1>1, <1>2, IdleRun
    <3>2. Exists => Keys(DOMAIN days) \subseteq Range(trip.visited)
      BY <3>1 DEF IInv, KeysKnown
    <3>3. /\ plan[p].day \notin DOMAIN days
          /\ Keys(DOMAIN days) \subseteq Range(plan[p].visited)
          /\ Keys(DOMAIN days) \cap Range(plan[p].new) = {}
          /\ IsInjective(plan[p].new) /\ Len(plan[p].new) <= 2
      BY <1>1 DEF IInv, KeysKnown
    <3> QED
      BY <1>1, <1>2, <2>1, <2>2, <3>2, <3>3, PlanKeys DEF Exists
  <2>7. PruneSafe' /\ WriteSafe'
    <3>1. \A w \in Editor : edit[w].prune \cap Range(plan[p].new) = {}
      BY <1>1 DEF IInv, PruneSafe
    <3>2. ~MayChoose'
      BY <1>1, <2>1, <2>2, NobodyChooses
    <3> QED
      BY <1>1, <1>2, <2>1, <2>2, <3>1, <3>2, PlanEdits DEF Exists
  <2> QED
    BY <2>3, <2>4, <2>5, <2>6, <2>7 DEF IInv
<1> QED
  BY <1>3, <1>4 DEF Live

LEMMA LoadSyncKeeps ==
  ASSUME IInv, NEW p \in Run, LoadSync(p)
  PROVE  IInv'
<1> DEFINE d == FirstMissing
           r == [NoPlan EXCEPT !.pc = IF trip.ndi = d THEN "slot" ELSE "heal",
                               !.day = d, !.visited = trip.visited, !.status = trip.status]
<1>1. /\ TypeOK /\ p \in SyncPlanner /\ plan[p].pc = "idle" /\ Missing # {}
      /\ trip.status \in {"routing_confirmed", "planning", "failed"}
      /\ plan' = [plan EXCEPT ![p] = r] /\ UNCHANGED <<trip, days, edit, sug, gone, stale>>
  BY DEF IInv, LoadSync, MayPlan
<1>2. d \in Day /\ d \notin DOMAIN days
  BY <1>1, FirstMissingIs
<1>3. trip \in TripType /\ trip.visited \in Seq(Key)
  BY <1>1 DEF TypeOK, TripType
<1> HIDE DEF d
<1>4. /\ r \in PlanType /\ r.pc \in {"slot", "heal"} /\ r.day = d /\ r.visited = trip.visited
  BY <1>1, <1>2, <1>3, RestingTyped DEF PlanType, NoPlan
<1> HIDE DEF r
<1>5. /\ PlanMoves(p) /\ plan'[p].pc \in {"slot", "heal"} /\ plan'[p].day = d
      /\ plan'[p].visited = trip.visited
  <2>1. plan \in [Run -> PlanType]
    BY <1>1 DEF TypeOK, Run
  <2> QED
    BY <1>1, <1>4, <2>1 DEF PlanMoves, AsyncPc
<1>6. \A q \in Run : q # p => ~Busy(q)
  BY <1>1, SyncAlone DEF PlanLeft, Busy, AsyncPc, SyncPc
<1>7. PlanLeft(p) /\ ~Busy(p)
  BY <1>1 DEF PlanLeft, Busy, AsyncPc, SyncPc
<1>8. /\ Alive /\ Exists /\ Exists' /\ gone.pc = "idle"
  <2>1. Alive /\ Exists /\ Exists'
    BY <1>1 DEF Alive, Exists
  <2> QED
    BY <1>7, <2>1 DEF IInv, Deletion
<1>9. TypeOK' /\ Mixed'
  BY <1>1, <1>3, <1>5, PlanTypes, PlanKeepsMix DEF IInv
<1>10. Claims'
  <2>1. plan'[p].pc \notin AsyncPc
    BY <1>5 DEF AsyncPc
  <2> QED
    BY <1>1, <1>5, <1>6, <1>8, <2>1, PlanClaims
<1>11. Deletion'
  BY <1>1, <1>5, <1>8, PlanDeletion
<1>12. ~Placed(p)' /\ ~Placing(p)' /\ plan'[p].pc \notin {"recheck", "put", "complete", "check", "unput"}
  BY <1>5 DEF Placed, Placing
<1>13. KeysKnown' /\ NoKeyTwice' /\ SugFits'
  <2>1. Keys(DOMAIN days) \subseteq Range(trip.visited)
    BY <1>6, <1>7, <1>8, IdleRun DEF IInv, KeysKnown
  <2> QED
    BY <1>1, <1>2, <1>5, <1>6, <1>12, <2>1, PlanKeys
<1>14. PruneSafe' /\ WriteSafe'
  <2>1. MayChoose
    BY <1>1 DEF MayChoose
  <2>2. \A w \in Editor : edit[w].prune \subseteq Range(trip.visited)
    BY <1>8, <2>1 DEF IInv, PruneSafe
  <2> QED
    BY <1>1, <1>2, <1>5, <1>6, <1>8, <1>12, <2>2, PlanEdits
<1> QED
  BY <1>9, <1>10, <1>11, <1>13, <1>14 DEF IInv

LEMMA HealKeeps ==
  ASSUME IInv, NEW p \in Run, Heal(p)
  PROVE  IInv'
<1>1. /\ plan[p].pc = "heal" /\ plan[p].pc \in SyncPc /\ ~Placed(p) /\ Before(p)
      /\ UNCHANGED <<days, edit, sug, gone, stale>>
  BY DEF Heal, SyncPc, Placed, Before
<1>2. /\ Busy(p) /\ p \in SyncPlanner /\ plan[p].pc # "done" /\ plan[p] \in PlanType
      /\ \A q \in Run : q # p => ~Busy(q)
      /\ (gone.pc # "idle" => ~Alive) /\ TypeOK /\ trip \in TripType
  BY <1>1, SyncKnows
<1>3. CASE UNCHANGED trip /\ PEnd(p)
  BY <1>1, <1>3, SyncEnds
<1>4. CASE /\ Exists /\ trip' = [trip EXCEPT !.ndi = plan[p].day]
           /\ plan' = [plan EXCEPT ![p].pc = "slot", ![p].visited = trip.visited]
  <2>1. /\ PlanMoves(p) /\ plan'[p].pc = "slot" /\ plan'[p].day = plan[p].day
        /\ plan'[p].visited = trip.visited
    <3> DEFINE r == [plan[p] EXCEPT !.pc = "slot", !.visited = trip.visited]
    <3>1. plan \in [Run -> PlanType]
      BY <1>2 DEF TypeOK, Run
    <3>2. plan' = [plan EXCEPT ![p] = r]
      BY <1>4, <3>1 DEF PlanType
    <3>3. r \in PlanType /\ r.pc = "slot" /\ r.day = plan[p].day /\ r.visited = trip.visited
      BY <1>2 DEF PlanType, TripType
    <3> HIDE DEF r
    <3>4. plan'[p] = r
      BY <3>1, <3>2
    <3> QED
      BY <1>2, <3>1, <3>2, <3>3, <3>4 DEF PlanMoves, AsyncPc
  <2>2. /\ trip' \in TripType /\ trip'.visited = trip.visited /\ trip'.job = trip.job
        /\ trip'.pdi = trip.pdi /\ trip'.status = trip.status
    <3>1. plan[p].day \in 1..(DayCount + 1)
      BY <1>2, DayPlacesAssumption DEF PlanType, Day
    <3> QED
      BY <1>2, <1>4, <3>1 DEF TripType
  <2>3. /\ Exists' /\ (Alive' <=> Alive)
    BY <1>4, <2>2 DEF Exists, Alive
  <2>4. TypeOK' /\ Mixed'
    BY <1>1, <1>2, <2>1, <2>2, PlanTypes, PlanKeepsMix DEF IInv
  <2>5. Claims'
    <3>1. plan'[p].pc \notin AsyncPc
      BY <2>1 DEF AsyncPc
    <3> QED
      BY <1>1, <1>2, <1>4, <2>1, <2>2, <3>1, PlanClaims
  <2>6. Deletion'
    BY <1>1, <1>2, <1>4, <2>1, <2>3, PlanDeletion
  <2>7. ~Placed(p)' /\ ~Placing(p)' /\ plan'[p].pc \notin {"recheck", "put", "complete", "check", "unput", "idle", "heal"}
    BY <2>1 DEF Placed, Placing
  <2>8. KeysKnown' /\ NoKeyTwice' /\ SugFits'
    <3>1. Keys(DOMAIN days) \subseteq Range(trip.visited)
      BY <1>1, <1>2, <1>4, IdleRun DEF IInv, KeysKnown
    <3>2. plan[p].day \notin DOMAIN days
      BY <1>1 DEF IInv, KeysKnown
    <3> QED
      BY <1>1, <1>2, <2>1, <2>2, <2>7, <3>1, <3>2, PlanKeys
  <2>9. PruneSafe' /\ WriteSafe'
    <3>1. MayChoose
      BY <1>1, <1>2 DEF MayChoose
    <3>2. \A w \in Editor : edit[w].prune \subseteq Range(trip.visited)
      BY <1>4, <3>1 DEF IInv, PruneSafe
    <3> QED
      BY <1>1, <1>2, <1>4, <2>1, <2>2, <2>7, <3>2, PlanEdits
  <2> QED
    BY <2>4, <2>5, <2>6, <2>8, <2>9 DEF IInv
<1> QED
  BY <1>3, <1>4 DEF Heal

LEMMA ClaimSlotKeeps ==
  ASSUME IInv, NEW p \in Run, ClaimSlot(p)
  PROVE  IInv'
<1> DEFINE d == plan[p].day
           v == plan[p].visited
<1>1. /\ plan[p].pc = "slot" /\ plan[p].pc \in SyncPc /\ ~Placed(p) /\ Before(p)
      /\ UNCHANGED <<days, edit, sug, gone, stale>>
  BY DEF ClaimSlot, SyncPc, Placed, Before
<1>2. /\ Busy(p) /\ p \in SyncPlanner /\ plan[p].pc # "done" /\ plan[p] \in PlanType
      /\ \A q \in Run : q # p => ~Busy(q)
      /\ (gone.pc # "idle" => ~Alive) /\ TypeOK /\ trip \in TripType
  BY <1>1, SyncKnows
<1>3. CASE UNCHANGED trip /\ PEnd(p)
  BY <1>1, <1>3, SyncEnds
<1>4. ASSUME Alive, trip.ndi = d, NEW new \in Plans(v),
             plan' = [plan EXCEPT ![p].pc = "live", ![p].new = new],
             trip' = [trip EXCEPT !.ndi = @ + 1, !.status = After(d)]
      PROVE  IInv'
  <2>1. d \in Day /\ v \in Seq(Key)
    BY <1>2 DEF PlanType
  <2>2. /\ new \in Seq(Key) /\ Len(new) <= 2 /\ IsInjective(new)
        /\ Range(new) \cap Range(v) = {}
    BY <1>4, <2>1, PlansAre
  <2>3. /\ PlanMoves(p) /\ plan'[p].pc = "live" /\ plan'[p].day = d
        /\ plan'[p].visited = v /\ plan'[p].new = new
    <3> DEFINE r == [plan[p] EXCEPT !.pc = "live", !.new = new]
    <3>1. plan \in [Run -> PlanType]
      BY <1>2 DEF TypeOK, Run
    <3>2. plan' = [plan EXCEPT ![p] = r]
      BY <1>4, <3>1 DEF PlanType
    <3>3. r \in PlanType /\ r.pc = "live" /\ r.day = d /\ r.visited = v /\ r.new = new
      BY <1>2, <2>2 DEF PlanType
    <3> HIDE DEF r
    <3>4. plan'[p] = r
      BY <3>1, <3>2
    <3> QED
      BY <1>2, <3>1, <3>2, <3>3, <3>4 DEF PlanMoves, AsyncPc
  <2>4. /\ trip' \in TripType /\ trip'.visited = trip.visited /\ trip'.job = trip.job
        /\ trip'.pdi = trip.pdi /\ trip'.status # "gone"
    <3>1. After(d) \in Status /\ After(d) # "gone" /\ d + 1 \in 1..(DayCount + 1)
      BY <2>1, AfterIs
    <3>2. trip' = [trip EXCEPT !.ndi = d + 1, !.status = After(d)]
      BY <1>2, <1>4 DEF TripType
    <3> HIDE DEF d, v
    <3> QED
      BY <1>2, <3>1, <3>2 DEF TripType
  <2>5. Exists /\ Exists' /\ gone.pc = "idle"
    BY <1>2, <1>4, <2>4 DEF Exists, Alive
  <2> HIDE DEF d, v
  <2>6. TypeOK' /\ Mixed'
    BY <1>1, <1>2, <2>3, <2>4, PlanTypes, PlanKeepsMix DEF IInv
  <2>7. Claims'
    <3>1. plan'[p].pc \notin AsyncPc
      BY <2>3 DEF AsyncPc
    <3> QED
      BY <1>1, <1>2, <2>3, <2>4, <2>5, <3>1, PlanClaims
  <2>8. Deletion'
    BY <1>1, <1>2, <2>3, <2>5, PlanDeletion
  <2>9. ~Placed(p)' /\ plan'[p].pc \notin {"slot", "recheck", "put", "complete", "check", "unput", "idle", "heal"}
    BY <2>3 DEF Placed
  <2>10. KeysKnown' /\ NoKeyTwice' /\ SugFits'
    <3>1. Keys(DOMAIN days) \subseteq Range(trip.visited)
      BY <1>1, <1>2, <2>5, IdleRun DEF IInv, KeysKnown
    <3>2. d \notin DOMAIN days /\ Keys(DOMAIN days) \subseteq Range(v)
      BY <1>1 DEF IInv, KeysKnown, d, v
    <3>3. Keys(DOMAIN days) \cap Range(new) = {}
      BY <2>2, <3>2
    <3> QED
      BY <1>1, <1>2, <2>2, <2>3, <2>4, <2>9, <3>1, <3>2, <3>3, PlanKeys
  <2>11. PruneSafe' /\ WriteSafe'
    <3>1. \A w \in Editor : edit[w].prune \cap Range(new) = {}
      BY <1>1, <2>2 DEF IInv, PruneSafe, v
    <3>2. ~MayChoose'
      BY <1>1, <2>3, <2>9, NobodyChooses
    <3> QED
      BY <1>1, <1>2, <2>3, <2>5, <2>9, <3>1, <3>2, PlanEdits DEF d
  <2> QED
    BY <2>6, <2>7, <2>8, <2>10, <2>11 DEF IInv
<1> QED
  BY <1>3, <1>4 DEF ClaimSlot

LEMMA CheckAliveKeeps ==
  ASSUME IInv, NEW p \in Run, CheckAlive(p)
  PROVE  IInv'
<1> DEFINE pc == IF Alive THEN "cursors" ELSE "unput"
<1>1. /\ plan[p].pc = "check" /\ plan[p].pc \in SyncPc /\ Placed(p)
      /\ PGo(p, pc) /\ UNCHANGED <<trip, days, edit, sug, gone, stale>>
  BY DEF CheckAlive, SyncPc, Placed
<1>2. /\ Busy(p) /\ p \in SyncPlanner /\ plan[p].pc # "done"
      /\ \A q \in Run : q # p => ~Busy(q)
      /\ (gone.pc # "idle" => ~Alive) /\ TypeOK /\ trip \in TripType
  BY <1>1, SyncKnows
<1>3. /\ pc \in {"cursors", "unput"}
      /\ gone.pc # "idle" => pc = "unput"
  BY <1>2
<1> HIDE DEF pc
<1>4. /\ PlanMoves(p) /\ plan'[p].pc = pc
      /\ plan'[p].day = plan[p].day /\ plan'[p].visited = plan[p].visited
      /\ plan'[p].new = plan[p].new
  BY <1>1, <1>2, <1>3, PlanGoes DEF AsyncPc, SyncPc
<1>5. ~Placing(p)' /\ ~Before(p)' /\ Placed(p)'
      /\ plan'[p].pc \notin {"slot", "recheck", "put", "complete", "idle", "heal"}
  BY <1>3, <1>4 DEF Placing, Before, Placed
<1>6. TypeOK' /\ Mixed'
  BY <1>1, <1>2, <1>4, PlanTypes, PlanKeepsMix DEF IInv
<1>7. Claims'
  <2>1. plan'[p].pc \notin AsyncPc
    BY <1>3, <1>4 DEF AsyncPc
  <2> QED
    BY <1>1, <1>2, <1>4, <2>1, PlanClaims DEF Exists
<1>8. Deletion'
  BY <1>1, <1>2, <1>3, <1>4, PlanDeletion DEF Exists, Alive
<1>9. KeysKnown' /\ NoKeyTwice' /\ SugFits'
  <2>1. /\ Keys(DOMAIN days) \subseteq Range(plan[p].visited) \cup Range(plan[p].new)
        /\ Exists => Keys(DOMAIN days \ {plan[p].day}) \subseteq Range(trip.visited)
    BY <1>1 DEF IInv, KeysKnown, Elsewhere
  <2> QED
    BY <1>1, <1>2, <1>4, <1>5, <2>1, PlanKeys DEF Exists
<1>10. PruneSafe' /\ WriteSafe'
  <2>1. ~MayChoose'
    BY <1>1, <1>4, <1>5, NobodyChooses
  <2> QED
    BY <1>1, <1>2, <1>4, <1>5, <2>1, PlanEdits DEF Exists
<1> QED
  BY <1>6, <1>7, <1>8, <1>9, <1>10 DEF IInv

LEMMA UnputKeeps ==
  ASSUME IInv, NEW p \in Run, Unput(p)
  PROVE  IInv'
<1> DEFINE d == plan[p].day
<1>1. /\ plan[p].pc = "unput" /\ plan[p].pc \in SyncPc /\ PEnd(p)
      /\ days' = [e \in DOMAIN days \ {d} |-> days[e]]
      /\ UNCHANGED <<trip, edit, sug, gone, stale>>
  BY DEF Unput, SyncPc
<1>2. /\ Busy(p) /\ plan[p].pc # "done" /\ TypeOK
      /\ \A q \in Run : q # p => plan[q].pc = "done" /\ ~Busy(q)
  BY <1>1, SyncKnows
<1>3. PlanMoves(p) /\ plan'[p].pc = "done"
  BY <1>1, <1>2, PlanEnds
<1>4. \A q \in Run : plan'[q].pc = "done"
  BY <1>2, <1>3 DEF PlanMoves
<1> HIDE DEF d
<1>5. /\ DOMAIN days' = DOMAIN days \ {d} /\ \A e \in DOMAIN days' : days'[e] = days[e]
      /\ days' = [e \in DOMAIN days' |-> days'[e]]
  BY <1>1
<1>6. \A q \in Run : /\ ~Placed(q)' /\ ~Placing(q)' /\ ~Before(q)'
                     /\ plan'[q].pc \notin {"slot", "recheck", "put", "complete", "check", "unput", "idle", "heal"}
  BY <1>4 DEF Placed, Placing, Before
<1>7. TypeOK'
  BY <1>1, <1>2, <1>3, <1>5 DEF TypeOK, PlanMoves, Run
<1>8. Mixed'
  BY <1>1, <1>3, PlanKeepsMix DEF IInv
<1>9. Claims'
  <2>1. plan'[p].pc \notin AsyncPc
    BY <1>3 DEF AsyncPc
  <2> QED
    BY <1>1, <1>2, <1>3, <2>1, PlanClaims DEF Exists
<1>10. Deletion'
  <2>1. ASSUME gone.pc \in {"trip", "days", "done"}, NEW e \in DOMAIN days'
        PROVE  e \in gone.left
    <3>1. e \in gone.left \/ \E q \in Run : plan[q].pc \in {"check", "unput"} /\ plan[q].day = e
      BY <1>5, <2>1 DEF IInv, Deletion
    <3>2. \A q \in Run : plan[q].pc \in {"check", "unput"} => q = p
      BY <1>2
    <3> QED
      BY <1>5, <3>1, <3>2 DEF d
  <2> QED
    BY <1>1, <1>4, <2>1 DEF IInv, Deletion, Exists, PlanLeft
<1>11. KeysKnown'
  <2>1. Keys(DOMAIN days)' = Keys(DOMAIN days \ {d})
    BY <1>5 DEF Keys
  <2>2. Exists => Keys(DOMAIN days \ {d}) \subseteq Range(trip.visited)
    BY <1>1 DEF IInv, KeysKnown, Elsewhere, d
  <2> QED
    BY <1>1, <1>6, <2>1, <2>2 DEF KeysKnown, Exists
<1>12. NoKeyTwice' /\ SugFits'
  BY <1>1, <1>5 DEF IInv, NoKeyTwice, SugFits
<1>13. PruneSafe'
  <2>1. ~MayChoose'
    BY <1>1, <1>3, <1>6, NobodyChooses
  <2> QED
    BY <1>1, <1>5, <1>6, <2>1 DEF IInv, PruneSafe
<1>14. WriteSafe'
  BY <1>1, <1>5, <1>6 DEF IInv, WriteSafe
<1> QED
  BY <1>7, <1>8, <1>9, <1>10, <1>11, <1>12, <1>13, <1>14 DEF IInv

LEMMA CursorsKeeps ==
  ASSUME IInv, NEW p \in Run, Cursors(p)
  PROVE  IInv'
<1> DEFINE d == plan[p].day
           v == Joined(plan[p].visited, plan[p].new)
<1>1. /\ plan[p].pc = "cursors" /\ plan[p].pc \in SyncPc /\ Placed(p) /\ PEnd(p)
      /\ trip' = IF Exists THEN [trip EXCEPT !.visited = v, !.status = After(d)] ELSE trip
      /\ UNCHANGED <<days, edit, sug, gone, stale>>
  BY DEF Cursors, SyncPc, Placed
<1>2. /\ Busy(p) /\ plan[p].pc # "done" /\ TypeOK /\ trip \in TripType /\ plan[p] \in PlanType
      /\ \A q \in Run : q # p => plan[q].pc = "done" /\ ~Busy(q)
  BY <1>1, SyncKnows
<1>3. PlanMoves(p) /\ plan'[p].pc = "done"
  BY <1>1, <1>2, PlanEnds
<1>4. \A q \in Run : plan'[q].pc = "done"
  BY <1>2, <1>3 DEF PlanMoves
<1>5. v \in Seq(Key) /\ Range(v) = Range(plan[p].visited) \cup Range(plan[p].new)
  BY <1>2, JoinedIs DEF PlanType
<1>6. d \in Day
  BY <1>2 DEF PlanType
<1> HIDE DEF v, d
<1>7. /\ trip' \in TripType /\ trip'.job = trip.job /\ trip'.pdi = trip.pdi
      /\ Exists => trip'.visited = v
      /\ Exists' <=> Exists
      /\ ~Exists => UNCHANGED trip
  <2>1. After(d) \in Status /\ After(d) # "gone"
    BY <1>6, AfterIs
  <2> QED
    BY <1>1, <1>2, <1>5, <2>1 DEF TripType, Exists
<1>8. ~Placed(p)' /\ ~Placing(p)' /\ ~Before(p)'
      /\ plan'[p].pc \notin {"slot", "recheck", "put", "complete", "check", "unput", "idle", "heal"}
  BY <1>3 DEF Placed, Placing, Before
<1>9. TypeOK' /\ Mixed'
  BY <1>1, <1>2, <1>3, <1>7, PlanTypes, PlanKeepsMix DEF IInv
<1>10. Claims'
  <2>1. plan'[p].pc \notin AsyncPc
    BY <1>3 DEF AsyncPc
  <2> QED
    BY <1>1, <1>2, <1>3, <1>7, <2>1, PlanClaims
<1>11. Deletion'
  BY <1>1, <1>3, <1>4, <1>7, PlanDeletion
<1>12. KeysKnown' /\ NoKeyTwice' /\ SugFits'
  <2>1. Keys(DOMAIN days) \subseteq Range(v)
    BY <1>1, <1>5 DEF IInv, KeysKnown
  <2> QED
    BY <1>1, <1>2, <1>3, <1>7, <1>8, <2>1, PlanKeys
<1>13. PruneSafe' /\ WriteSafe'
  <2>1. ~MayChoose'
    BY <1>1, <1>3, <1>8, NobodyChooses
  <2> QED
    BY <1>1, <1>2, <1>3, <1>7, <1>8, <2>1, PlanEdits
<1> QED
  BY <1>9, <1>10, <1>11, <1>12, <1>13 DEF IInv

LEMMA PlanStepKeeps ==
  ASSUME IInv, NEW p \in Run, PlanStep(p)
  PROVE  IInv'
<1>1. CASE ClaimPlan(p) \/ Execute(p) \/ Recheck(p) \/ PutPlanned(p) \/ Complete(p) \/ FailPlan(p)
  BY <1>1, ClaimPlanKeeps, ExecuteKeeps, RecheckKeeps, PutPlannedKeeps, CompleteKeeps,
     FailPlanKeeps
<1>2. CASE LoadSync(p) \/ Heal(p) \/ ClaimSlot(p) \/ Live(p) \/ WriteSync(p)
  BY <1>2, LoadSyncKeeps, HealKeeps, ClaimSlotKeeps, LiveKeeps, WriteSyncKeeps
<1>3. CASE Undo(p) \/ Rollback(p) \/ CheckAlive(p) \/ Unput(p) \/ Cursors(p)
  BY <1>3, UndoKeeps, RollbackKeeps, CheckAliveKeeps, UnputKeeps, CursorsKeeps
<1> QED
  BY <1>1, <1>2, <1>3 DEF PlanStep

-----------------------------------------------------------------------------
(* Lost claims, the deletion of the trip, and the start                    *)

\* Nobody acts on the days or the keys: days go, or the trip does, or both stay.
LEMMA RunsRest ==
  ASSUME IInv, UNCHANGED <<edit, sug, plan>>, DOMAIN days' \subseteq DOMAIN days,
         \A d \in DOMAIN days' : days'[d] = days[d],
         Exists' => Exists /\ trip'.visited = trip.visited /\ DOMAIN days' = DOMAIN days
  PROVE  KeysKnown' /\ NoKeyTwice' /\ SugFits' /\ PruneSafe' /\ WriteSafe'
<1>1. \A p \in Run : /\ Placed(p)' <=> Placed(p)
                     /\ Placing(p)' <=> Placing(p)
                     /\ Before(p)' <=> Before(p)
  BY DEF Placed, Placing, Before
<1>2. MayChoose' <=> MayChoose
  BY DEF MayChoose, SugLeft, PlanLeft
<1>3. /\ Keys(DOMAIN days)' \subseteq Keys(DOMAIN days)
      /\ \A p \in Run : Elsewhere(p)' \subseteq Elsewhere(p)
  BY DEF Keys, Elsewhere
<1>4. KeysKnown'
  <2>1. Exists' /\ (\A p \in Run : ~Placed(p)') => Keys(DOMAIN days)' \subseteq Range(trip'.visited)
    BY <1>1, <1>3 DEF IInv, KeysKnown
  <2>2. ASSUME NEW p \in Run
        PROVE  /\ Placing(p)' \/ plan[p].pc = "slot" =>
                    Keys(DOMAIN days)' \subseteq Range(plan[p].visited)
               /\ Placing(p)' => /\ Keys(DOMAIN days)' \cap Range(plan[p].new) = {}
                                 /\ IsInjective(plan[p].new) /\ Len(plan[p].new) <= 2
               /\ Placed(p)' =>
                    Keys(DOMAIN days)' \subseteq Range(plan[p].visited) \cup Range(plan[p].new)
    BY <1>1, <1>3 DEF IInv, KeysKnown
  <2>3. ASSUME NEW p \in Run
        PROVE  /\ plan[p].pc \in {"recheck", "put", "complete"} =>
                    Range(plan[p].new) \subseteq Range(plan[p].visited)
               /\ Exists' /\ plan[p].pc \in {"check", "unput"} =>
                    Elsewhere(p)' \subseteq Range(trip'.visited)
               /\ Before(p)' => plan[p].day \notin DOMAIN days'
    BY <1>1, <1>3 DEF IInv, KeysKnown
  <2> QED
    BY <2>1, <2>2, <2>3 DEF KeysKnown
<1>5. NoKeyTwice' /\ SugFits'
  BY DEF IInv, NoKeyTwice, SugFits
<1>6. PruneSafe'
  BY <1>1, <1>2 DEF IInv, PruneSafe
<1>7. WriteSafe'
  BY <1>1 DEF IInv, WriteSafe
<1> QED
  BY <1>4, <1>5, <1>6, <1>7

\* Where claims are lost no asynchronous run acts, so there is no claim of a day to lose.
LEMMA LoseClaimKeeps ==
  ASSUME IInv, LoseClaim
  PROVE  IInv'
<1>1. /\ TypeOK /\ stale < MaxStale /\ stale' = stale + 1
      /\ UNCHANGED <<days, edit, sug, plan, gone>>
      /\ stale \in 0..MaxStale /\ trip \in TripType
  BY DEF IInv, LoseClaim, TypeOK
<1>2. stale # MaxStale /\ stale' \in 0..MaxStale
  BY <1>1, DayPlacesAssumption
<1>3. trip.pdi = 0
  BY <1>2 DEF IInv, Claims
<1>4. trip' = [trip EXCEPT !.job = None]
  BY <1>3 DEF LoseClaim
<1>5. /\ trip' \in TripType /\ trip'.job = None /\ trip'.pdi = 0 /\ trip'.status = trip.status
      /\ trip'.visited = trip.visited
  BY <1>1, <1>3, <1>4 DEF TripType
<1>6. (Exists' <=> Exists) /\ (Alive' <=> Alive)
  BY <1>5 DEF Exists, Alive
<1>7. \/ \A p \in Run : ~PlanLeft(p)
      \/ /\ \A p \in Planner : ~PlanLeft(p)
         /\ \A s \in Suggester : ~SugLeft(s)
         /\ \A p, q \in SyncPlanner : PlanLeft(p) /\ PlanLeft(q) => p = q
  BY <1>2 DEF IInv, Mixed
<1>8. TypeOK'
  BY <1>1, <1>2, <1>5 DEF TypeOK
<1>9. Mixed'
  BY <1>1, <1>7 DEF IInv, Mixed, EditLeft, SugLeft, PlanLeft
<1>10. Claims'
  <2>1. \A p \in Run : ~Claimed(p)
    BY <1>3, NobodyClaims DEF Claimed
  <2>2. (\E p \in Run : PlanLeft(p)) => \A s \in Suggester : ~SugBusy(s)
    BY <1>7 DEF SugLeft, SugBusy
  <2> QED
    BY <1>1, <1>5, <2>1, <2>2 DEF IInv, Claims, Claimed, Busy, SugBusy, PlanLeft
<1>11. Deletion'
  BY <1>1, <1>5, <1>6 DEF IInv, Deletion, PlanLeft
<1>12. KeysKnown' /\ NoKeyTwice' /\ SugFits' /\ PruneSafe' /\ WriteSafe'
  BY <1>1, <1>5, <1>6, RunsRest
<1> QED
  BY <1>8, <1>9, <1>10, <1>11, <1>12 DEF IInv

\* The DELETE starts when no day is claimed, and its marks stop all who start later.
LEMMA DeleteTripKeeps ==
  ASSUME IInv, DeleteTrip
  PROVE  IInv'
<1>1. /\ TypeOK /\ UNCHANGED <<edit, sug, plan, stale>> /\ trip \in TripType
      /\ gone \in [pc : {"idle", "query", "trip", "days", "done"}, left : SUBSET Day]
      /\ DOMAIN days \subseteq Day
  BY DEF IInv, DeleteTrip, TypeOK
<1>2. Mixed'
  BY <1>1 DEF IInv, Mixed, EditLeft, SugLeft, PlanLeft
<1>3. gone.pc # "idle" => \A p \in Run : ~Claimed(p)
  BY DEF IInv, Claims
<1>4. CASE /\ gone.pc = "idle" /\ Exists /\ trip.pdi = 0
           /\ trip' = [trip EXCEPT !.status = "deleting"]
           /\ gone' = [gone EXCEPT !.pc = "query"]
           /\ UNCHANGED days
  <2>1. /\ trip' \in TripType /\ trip'.status = "deleting" /\ trip'.pdi = 0
        /\ trip'.job = trip.job /\ trip'.visited = trip.visited
    BY <1>1, <1>4 DEF TripType, Status
  <2>2. gone'.pc = "query" /\ gone' \in [pc : {"idle", "query", "trip", "days", "done"}, left : SUBSET Day]
    BY <1>1, <1>4
  <2>3. Exists' /\ ~Alive'
    BY <2>1 DEF Exists, Alive
  <2>4. TypeOK'
    BY <1>1, <1>4, <2>1, <2>2 DEF TypeOK
  <2>5. Claims'
    <3>1. \A p \in Run : ~Claimed(p)
      BY <1>4, NobodyClaims DEF Claimed
    <3> QED
      BY <1>1, <1>4, <2>1, <3>1 DEF IInv, Claims, Claimed, Busy, SugBusy, PlanLeft
  <2>6. Deletion'
    BY <2>2, <2>3 DEF Deletion
  <2>7. KeysKnown' /\ NoKeyTwice' /\ SugFits' /\ PruneSafe' /\ WriteSafe'
    BY <1>1, <1>4, <2>1, RunsRest
  <2> QED
    BY <1>2, <2>4, <2>5, <2>6, <2>7 DEF IInv
<1>5. CASE /\ gone.pc = "query" /\ gone' = [pc |-> "trip", left |-> DOMAIN days]
           /\ UNCHANGED <<trip, days>>
  <2>1. gone'.pc = "trip" /\ gone'.left = DOMAIN days
    BY <1>5
  <2>2. TypeOK'
    BY <1>1, <1>5 DEF TypeOK
  <2>3. Claims'
    BY <1>1, <1>3, <1>5 DEF IInv, Claims, Claimed, Busy, SugBusy, PlanLeft, Exists
  <2>4. Deletion'
    BY <1>1, <1>5, <2>1 DEF IInv, Deletion, Exists, Alive, PlanLeft
  <2>5. KeysKnown' /\ NoKeyTwice' /\ SugFits' /\ PruneSafe' /\ WriteSafe'
    BY <1>1, <1>5, RunsRest DEF Exists
  <2> QED
    BY <1>2, <2>2, <2>3, <2>4, <2>5 DEF IInv
<1>6. CASE /\ gone.pc = "trip"
           /\ trip' = [trip EXCEPT !.status = "gone", !.pdi = 0, !.job = None, !.visited = <<>>]
           /\ gone' = [gone EXCEPT !.pc = "days"]
           /\ UNCHANGED days
  <2>1. /\ trip' \in TripType /\ trip'.status = "gone" /\ trip'.pdi = 0 /\ trip'.job = None
    <3>1. 0 \in 0..DayCount /\ "gone" \in Status /\ <<>> \in Seq(Key)
      BY DayPlacesAssumption DEF Status
    <3> QED
      BY <1>1, <1>6, <3>1 DEF TripType
  <2>2. /\ gone'.pc = "days" /\ gone'.left = gone.left
        /\ gone' \in [pc : {"idle", "query", "trip", "days", "done"}, left : SUBSET Day]
    BY <1>1, <1>6
  <2>3. ~Exists' /\ ~Alive'
    BY <2>1 DEF Exists, Alive
  <2>4. TypeOK'
    BY <1>1, <1>6, <2>1, <2>2 DEF TypeOK
  <2>5. Claims'
    BY <1>1, <1>3, <1>6, <2>1, <2>3 DEF IInv, Claims, Claimed, Busy
  <2>6. Deletion'
    BY <1>1, <1>6, <2>1, <2>2, <2>3 DEF IInv, Deletion
  <2>7. KeysKnown' /\ NoKeyTwice' /\ SugFits' /\ PruneSafe' /\ WriteSafe'
    BY <1>1, <1>6, <2>3, RunsRest
  <2> QED
    BY <1>2, <2>4, <2>5, <2>6, <2>7 DEF IInv
<1>7. ASSUME gone.pc = "days", UNCHANGED trip,
             NEW d, days' = [e \in DOMAIN days \ {d} |-> days[e]],
             gone' = [gone EXCEPT !.left = @ \ {d}]
      PROVE  IInv'
  <2>1. /\ gone'.pc = "days" /\ gone'.left = gone.left \ {d}
        /\ gone' \in [pc : {"idle", "query", "trip", "days", "done"}, left : SUBSET Day]
    BY <1>1, <1>7
  <2>2. /\ DOMAIN days' = DOMAIN days \ {d} /\ \A e \in DOMAIN days' : days'[e] = days[e]
        /\ days' = [e \in DOMAIN days' |-> days'[e]]
    BY <1>7
  <2>3. ~Exists' /\ ~Exists
    BY <1>7 DEF IInv, Deletion, Exists
  <2>4. TypeOK'
    BY <1>1, <1>7, <2>1, <2>2 DEF TypeOK
  <2>5. Claims'
    BY <1>1, <1>3, <1>7, <2>3 DEF IInv, Claims, Claimed, Busy, SugBusy, PlanLeft
  <2>6. Deletion'
    BY <1>1, <1>7, <2>1, <2>2, <2>3 DEF IInv, Deletion, Alive, PlanLeft
  <2>7. KeysKnown' /\ NoKeyTwice' /\ SugFits' /\ PruneSafe' /\ WriteSafe'
    BY <1>1, <2>2, <2>3, RunsRest
  <2> QED
    BY <1>2, <2>4, <2>5, <2>6, <2>7 DEF IInv
<1>8. CASE /\ gone.pc = "days" /\ gone.left = {}
           /\ gone' = [gone EXCEPT !.pc = "done"]
           /\ UNCHANGED <<trip, days>>
  <2>1. /\ gone'.pc = "done" /\ gone'.left = {}
        /\ gone' \in [pc : {"idle", "query", "trip", "days", "done"}, left : SUBSET Day]
    BY <1>1, <1>8
  <2>2. TypeOK'
    BY <1>1, <1>8, <2>1 DEF TypeOK
  <2>3. Claims'
    BY <1>1, <1>3, <1>8 DEF IInv, Claims, Claimed, Busy, SugBusy, PlanLeft, Exists
  <2>4. Deletion'
    BY <1>1, <1>8, <2>1 DEF IInv, Deletion, Exists, Alive, PlanLeft
  <2>5. KeysKnown' /\ NoKeyTwice' /\ SugFits' /\ PruneSafe' /\ WriteSafe'
    BY <1>1, <1>8, RunsRest DEF Exists
  <2> QED
    BY <1>2, <2>2, <2>3, <2>4, <2>5 DEF IInv
<1> QED
  <2>1. CASE gone.pc = "days" /\ gone.left # {}
    <3> DEFINE d == CHOOSE d \in gone.left : \A e \in gone.left : d <= e
    <3>1. /\ days' = [e \in DOMAIN days \ {d} |-> days[e]] /\ UNCHANGED trip
          /\ gone' = [gone EXCEPT !.left = @ \ {d}]
      BY <2>1 DEF DeleteTrip
    <3> HIDE DEF d
    <3> QED
      BY <1>7, <2>1, <3>1
  <2> QED
    BY <1>4, <1>5, <1>6, <1>8, <2>1 DEF DeleteTrip

\* At the start each day has one key, and each key is in the list.
LEMMA StartKeeps ==
  ASSUME Mixes, Init
  PROVE  IInv
<1>1. PICK k \in 0..DayCount :
        \E f \in { f \in [1..k -> Key] : IsInjective(f) } :
          /\ days = [d \in 1..k |-> <<f[d]>>]
          /\ trip = [ status |-> IF k = 0 THEN "routing_confirmed"
                                 ELSE IF k = DayCount THEN "complete" ELSE "planning",
                      ndi |-> k + 1, pdi |-> 0, job |-> None,
                      visited |-> [d \in 1..k |-> f[d]] ]
  BY DEF Init
<1>2. PICK f \in [1..k -> Key] :
        /\ IsInjective(f) /\ days = [d \in 1..k |-> <<f[d]>>]
        /\ trip = [ status |-> IF k = 0 THEN "routing_confirmed"
                               ELSE IF k = DayCount THEN "complete" ELSE "planning",
                    ndi |-> k + 1, pdi |-> 0, job |-> None,
                    visited |-> [d \in 1..k |-> f[d]] ]
  BY <1>1
<1>3. PICK A \in Together :
        /\ edit = [w \in Editor |-> [NoEdit EXCEPT !.pc = IF w \in A THEN @ ELSE "done"]]
        /\ sug = [s \in Suggester |-> [NoSug EXCEPT !.pc = IF s \in A THEN @ ELSE "done"]]
        /\ plan = [p \in Planner \cup SyncPlanner |->
                      [NoPlan EXCEPT !.pc = IF p \in A THEN @ ELSE "done"]]
        /\ stale = IF Loss \in A THEN 0 ELSE MaxStale
  BY DEF Init
<1>4. gone = [pc |-> "idle", left |-> {}]
  BY DEF Init
<1>5. k \in Nat /\ k <= DayCount /\ DayCount \in Nat /\ 1..k \subseteq Day
  BY DayPlacesAssumption DEF Day
<1>6. \A w \in Editor :
        /\ edit[w] \in EditType /\ edit[w].prune = {}
        /\ edit[w].pc = IF w \in A THEN "idle" ELSE "done"
  <2>1. [NoEdit EXCEPT !.pc = "idle"] = NoEdit
    BY DEF NoEdit
  <2> QED
    BY <1>3, <2>1, RestingTyped DEF NoEdit
<1>7. \A s \in Suggester : /\ sug[s] \in SugType
                           /\ sug[s].pc = IF s \in A THEN "idle" ELSE "done"
  <2>1. [NoSug EXCEPT !.pc = "idle"] = NoSug
    BY DEF NoSug
  <2> QED
    BY <1>3, <2>1, RestingTyped DEF NoSug
<1>8. \A p \in Run : /\ plan[p] \in PlanType
                     /\ plan[p].pc = IF p \in A THEN "idle" ELSE "done"
  <2>1. [NoPlan EXCEPT !.pc = "idle"] = NoPlan
    BY DEF NoPlan
  <2> QED
    BY <1>3, <2>1, RestingTyped DEF NoPlan, Run
<1>9. \A p \in Run :
        /\ ~Placed(p) /\ ~Placing(p) /\ ~Before(p) /\ ~Claimed(p) /\ ~Busy(p)
        /\ plan[p].pc \notin {"slot", "recheck", "put", "complete", "check", "unput"}
  BY <1>8 DEF Placed, Placing, Before, Claimed, Busy, AsyncPc, SyncPc
<1>10. /\ DOMAIN days = 1..k /\ \A d \in 1..k : days[d] = <<f[d]>> /\ Range(days[d]) = {f[d]}
       /\ Range(trip.visited) = { f[d] : d \in 1..k } /\ trip.visited \in Seq(Key)
  <2>1. DOMAIN days = 1..k /\ \A d \in 1..k : days[d] = <<f[d]>>
    BY <1>2
  <2>2. \A x : Range(<<x>>) = {x}
    BY DEF Range
  <2>3. trip.visited = [d \in 1..k |-> f[d]]
    BY <1>2
  <2>4. Range(trip.visited) = { f[d] : d \in 1..k }
    BY <2>3 DEF Range
  <2>5. trip.visited \in Seq(Key)
    BY <1>5, <2>3
  <2> QED
    BY <2>1, <2>2, <2>4, <2>5
<1>11. /\ trip.status \in Status /\ Exists /\ Alive /\ trip.ndi = k + 1 /\ trip.pdi = 0
       /\ trip.job = None
  BY <1>2 DEF Status, Exists, Alive
<1>12. TypeOK
  <2>1. trip \in TripType
    <3>1. k + 1 \in 1..(DayCount + 1) /\ 0 \in 0..DayCount
      BY <1>5
    <3>2. trip = [status |-> trip.status, ndi |-> trip.ndi, pdi |-> trip.pdi,
                  job |-> trip.job, visited |-> trip.visited]
      BY <1>2
    <3> QED
      BY <1>10, <1>11, <3>1, <3>2 DEF TripType
  <2>2. \A d \in DOMAIN days : days[d] \in Seq(Key) /\ Len(days[d]) <= MaxPlaces
    <3>1. \A x \in Key : <<x>> \in Seq(Key) /\ Len(<<x>>) = 1
      OBVIOUS
    <3>2. \A d \in 1..k : f[d] \in Key
      OBVIOUS
    <3>3. 1 <= MaxPlaces
      BY DayPlacesAssumption
    <3> QED
      BY <1>10, <3>1, <3>2, <3>3
  <2>3. stale \in 0..MaxStale
    BY <1>3, DayPlacesAssumption
  <2>4. days = [d \in DOMAIN days |-> days[d]]
    BY <1>2, <1>10
  <2>5. /\ edit \in [Editor -> EditType] /\ sug \in [Suggester -> SugType]
        /\ plan \in [Planner \cup SyncPlanner -> PlanType]
    BY <1>3, <1>6, <1>7, <1>8 DEF Run
  <2> QED
    BY <1>4, <1>5, <1>10, <2>1, <2>2, <2>3, <2>4, <2>5 DEF TypeOK
<1>13. Mixed
  <2>1. Mix(A) /\ (Loss \notin A => stale = MaxStale)
    BY <1>3 DEF Mixes
  <2>2. \A w \in Editor : EditLeft(w) => w \in Editor \cap A
    BY <1>6 DEF EditLeft
  <2>3. \A s \in Suggester : SugLeft(s) => s \in Suggester \cap A
    BY <1>7 DEF SugLeft
  <2>4. \A p \in Run : PlanLeft(p) => p \in Run \cap A
    BY <1>8 DEF PlanLeft
  <2>5. \A p \in Run : plan[p].pc \notin AsyncPc /\ plan[p].pc \notin SyncPc
    BY <1>8 DEF AsyncPc, SyncPc
  <2>6. Planner \subseteq Run /\ SyncPlanner \subseteq Run
    BY DEF Run
  <2>7. \A v, w \in Editor : EditLeft(v) /\ EditLeft(w) => v = w
    BY <2>1, <2>2 DEF Mix
  <2>8. \/ (\A p \in SyncPlanner : ~PlanLeft(p)) /\ stale = MaxStale
        \/ \A p \in Run : ~PlanLeft(p)
        \/ /\ \A p \in Planner : ~PlanLeft(p)
           /\ \A s \in Suggester : ~SugLeft(s)
           /\ \A p, q \in SyncPlanner : PlanLeft(p) /\ PlanLeft(q) => p = q
    <3>1. CASE A \cap SyncPlanner = {} /\ Loss \notin A
      BY <2>1, <2>4, <2>6, <3>1
    <3>2. CASE A \cap Run = {}
      BY <2>4, <3>2
    <3>3. CASE A \cap (Planner \cup Suggester) = {} /\ \A p, q \in SyncPlanner \cap A : p = q
      BY <2>3, <2>4, <2>6, <3>3
    <3> QED
      BY <2>1, <3>1, <3>2, <3>3 DEF Mix
  <2> QED
    BY <2>5, <2>7, <2>8 DEF Mixed
<1>14. Claims
  BY <1>7, <1>9, <1>11 DEF Claims, SugBusy
<1>15. Deletion
  BY <1>4, <1>11 DEF Deletion
<1>16. KeysKnown
  <2>1. Keys(DOMAIN days) \subseteq Range(trip.visited)
    BY <1>10 DEF Keys
  <2> QED
    BY <1>9, <2>1 DEF KeysKnown
<1>17. NoKeyTwice
  <2>1. \A x : IsInjective(<<x>>)
    BY DEF IsInjective
  <2>2. \A d, e \in 1..k : f[d] = f[e] => d = e
    BY <1>2 DEF IsInjective
  <2>3. \A d \in DOMAIN days : IsInjective(days[d])
    BY <1>10, <2>1
  <2>4. \A d, e \in DOMAIN days : Range(days[d]) \cap Range(days[e]) # {} => d = e
    BY <1>10, <2>2
  <2> QED
    BY <2>3, <2>4 DEF NoKeyTwice
<1>18. SugFits /\ PruneSafe /\ WriteSafe
  BY <1>6, <1>7, <1>9 DEF SugFits, PruneSafe, WriteSafe
<1> QED
  BY <1>12, <1>13, <1>14, <1>15, <1>16, <1>17, <1>18 DEF IInv

LEMMA StepKeeps == IInv /\ [Next]_vars => IInv'
<1> SUFFICES ASSUME IInv, [Next]_vars PROVE IInv'
  OBVIOUS
<1>1. ASSUME NEW w \in Editor, EditStep(w) PROVE IInv'
  BY <1>1, EditStepKeeps
<1>2. ASSUME NEW s \in Suggester, SuggestStep(s) PROVE IInv'
  BY <1>2, SuggestStepKeeps
<1>3. ASSUME NEW p \in Run, PlanStep(p) PROVE IInv'
  BY <1>3, PlanStepKeeps
<1>4. CASE LoseClaim
  BY <1>4, LoseClaimKeeps
<1>5. CASE DeleteTrip
  BY <1>5, DeleteTripKeeps
<1>6. CASE UNCHANGED vars
  <2>1. UNCHANGED <<trip, days, edit, sug, plan, gone, stale>>
    BY <1>6 DEF vars
  <2>2. TypeOK' /\ NoKeyTwice' /\ SugFits' /\ Mixed' /\ Claims'
    BY <2>1 DEF IInv, TypeOK, NoKeyTwice, SugFits, Mixed, EditLeft, SugLeft, PlanLeft, Claims,
                Busy, Claimed, SugBusy, Exists
  <2>3. Deletion'
    BY <2>1 DEF IInv, Deletion, Exists, Alive, PlanLeft
  <2>4. KeysKnown' /\ PruneSafe' /\ WriteSafe'
    BY <2>1, RunsRest DEF Exists
  <2> QED
    BY <2>2, <2>3, <2>4 DEF IInv
<1> QED
  BY <1>1, <1>2, <1>3, <1>4, <1>5, <1>6 DEF Next, Run

LEMMA AlwaysIInv == Mixes /\ Spec => []IInv
<1>1. Mixes /\ Init => IInv
  BY StartKeeps
<1> QED
  BY <1>1, StepKeeps, PTL DEF Spec

-----------------------------------------------------------------------------
(* What the mixes keep                                                     *)

\* The rows, the edits, the suggestions and the plan-day runs have their types.
THEOREM TypeCorrect == Mixes /\ Spec => []TypeOK
<1>1. IInv => TypeOK
  BY DEF IInv
<1> QED
  BY <1>1, AlwaysIInv, PTL

\* Whatever edits, suggestions and plan-day runs do to the days and to the list of the
\* keys, each key that stands on a day stays in the list.  With a lost claim of a day, or
\* with two edits at once, it does not (DayPlacesLost.cfg, DayPlacesTwoEdits.cfg).
THEOREM NoKeyForgotten == Mixes /\ Spec => []PlacedIsVisited
<1>1. IInv => PlacedIsVisited
  <2> SUFFICES ASSUME IInv, trip.status # "gone", Settled
               PROVE  Keys(DOMAIN days) \subseteq Range(trip.visited)
    BY DEF PlacedIsVisited
  <2>1. \A p \in Run : ~Placed(p)
    BY DEF Settled, Placed, Run
  <2> QED
    BY <2>1 DEF IInv, KeysKnown, Exists
<1> QED
  BY <1>1, AlwaysIInv, PTL

\* No key is on two days, or twice on one, though edits move keys, and suggestions and
\* plans choose them by lists read earlier.
THEOREM KeysStandOnce == Mixes /\ Spec => []NoKeyTwice
<1>1. IInv => NoKeyTwice
  BY DEF IInv
<1> QED
  BY <1>1, AlwaysIInv, PTL

\* A run that puts its day while the trip is deleted takes it away again, or the DELETE
\* does: a trip that is gone keeps no DAY row.
THEOREM GoneTripsAreEmpty == Mixes /\ Spec => []GoneIsEmpty
<1>1. IInv => GoneIsEmpty
  <2> SUFFICES ASSUME IInv, gone.pc = "done", Settled, NEW d \in DOMAIN days
               PROVE  FALSE
    BY DEF GoneIsEmpty
  <2>1. gone.left = {}
    BY DEF IInv, Deletion
  <2>2. d \in gone.left \/ \E p \in Run : plan[p].pc \in {"check", "unput"} /\ plan[p].day = d
    BY DEF IInv, Deletion
  <2> QED
    BY <2>1, <2>2 DEF Settled, Run
<1> QED
  BY <1>1, AlwaysIInv, PTL

\* The write of an edit leaves the places that others put on its day: the number of places
\* that the write checks tells whether anything came in between.
THEOREM EditsKeepOthersPlaces == Mixes /\ Spec => EditsKeepTheRest
<1> DEFINE Keep(w) ==
      edit[w].pc = "write" /\ edit'[w].pc # "write" /\ days' # days =>
        LET d == edit[w].day IN Range(days'[d]) \subseteq Range(days[d])
          /\ Cardinality(Range(days[d]) \ Range(days'[d])) <= 1
<1>1. ASSUME IInv, Next, NEW w \in Editor, edit[w].pc = "write", edit'[w].pc # "write",
             days' # days
      PROVE  /\ Range(days'[edit[w].day]) \subseteq Range(days[edit[w].day])
             /\ Cardinality(Range(days[edit[w].day]) \ Range(days'[edit[w].day])) <= 1
  <2>1. edit' # edit
    BY <1>1
  <2>2. PICK v \in Editor : EditStep(v)
    BY <1>1, <2>1 DEF Next, SuggestStep, PlanStep, LoseClaim, DeleteTrip, ClaimSuggest, Suggest,
       Persist, Release, ClaimPlan, Execute, Recheck, PutPlanned, Complete, FailPlan, LoadSync,
       Heal, ClaimSlot, Live, WriteSync, Undo, Rollback, CheckAlive, Unput, Cursors
  <2>3. Replace(v) \/ DeleteDay(v)
    BY <1>1, <2>2 DEF EditStep, LoadRemove, LoadReorder, LoadDelete, ApplyEdit, ReadVisited, Prune
  <2>4. v = w
    BY <1>1, <2>3 DEF Replace, DeleteDay, EGo, EEnd, IInv, TypeOK
  <2>5. Replace(w)
    BY <1>1, <2>3, <2>4 DEF DeleteDay
  <2> DEFINE d == edit[w].day
  <2>6. /\ d \in DOMAIN days /\ Len(days[d]) = edit[w].n
        /\ days' = [days EXCEPT ![d] = edit[w].new]
    BY <1>1, <2>5 DEF Replace
  <2>7. /\ Range(edit[w].new) \subseteq Range(days[d])
        /\ \E k \in Key : Range(days[d]) \subseteq Range(edit[w].new) \cup {k}
    BY <1>1, <2>6 DEF IInv, WriteSafe
  <2>8. days'[d] = edit[w].new
    BY <2>6
  <2>9. PICK k \in Key : Range(days[d]) \ Range(days'[d]) \subseteq {k}
    BY <2>7, <2>8
  <2>10. Cardinality(Range(days[d]) \ Range(days'[d])) <= 1
    <3>1. IsFiniteSet({k}) /\ Cardinality({k}) = 1
      BY FS_Singleton
    <3>2. Range(days[d]) \ Range(days'[d]) \in SUBSET {k}
      BY <2>9
    <3>3. Cardinality(Range(days[d]) \ Range(days'[d])) <= Cardinality({k})
      BY <3>1, <3>2, FS_Subset
    <3> QED
      BY <3>1, <3>3
  <2> QED
    BY <2>7, <2>8, <2>10
<1>2. IInv /\ Next => \A w \in Editor : Keep(w)
  BY <1>1
<1>3. IInv /\ [Next]_vars => [\A w \in Editor : Keep(w)]_vars
  <2> HIDE DEF Keep
  <2> QED
    BY <1>2
<1> QED
  BY <1>3, AlwaysIInv, PTL DEF Spec, EditsKeepTheRest
=============================================================================
