--------------------------- MODULE DayRemapProofs ---------------------------
(***************************************************************************)
(* Proofs about DayRemap: what remap_day_plans does for any number of      *)
(* days.                                                                   *)
(***************************************************************************)
EXTENDS DayRemap, WellFoundedInduction, TLAPS

-----------------------------------------------------------------------------
(* remap_day_plans is a recursion over the slots of the new schedule.  The *)
(* least-number principle gives the function it defines, and what holds of *)
(* it after every slot.                                                    *)

Earlier == {ss \in Nat \X Nat : ss[1] < ss[2]}

\* A set of naturals that is not empty has a least element.
LEMMA LeastNumber ==
  ASSUME NEW S, S \subseteq Nat, S # {}
  PROVE  \E n \in S : \A m \in S : n <= m
<1>1. IsWellFoundedOn(Earlier, Nat)
  BY NatLessThanWellFounded DEF OpToRel, Earlier
<1>2. PICK n \in S : \A m \in S : <<m, n>> \notin Earlier
  BY <1>1, WFMin
<1>3. ASSUME NEW m \in S PROVE n <= m
  <2>1. /\ m \in Nat
        /\ n \in Nat
        /\ <<m, n>> \in Nat \X Nat
    OBVIOUS
  <2>2. ~(m < n)
    BY <1>2, <2>1 DEF Earlier
  <2> QED
    BY <2>1, <2>2
<1> QED
  BY <1>3

\* f deals with the first n slots, one after the other.
Dealt(f, rows, r, n) ==
  f = [k \in 0..n |-> IF k = 0 THEN [left |-> DOMAIN rows, out |-> NoRows]
                      ELSE TakeSlot(rows, r, f[k - 1], k)]

\* Whatever the number of slots, there is a function that deals with them.
LEMMA DealtAll ==
  ASSUME NEW rows, NEW r, NEW n \in Nat
  PROVE  \E f : Dealt(f, rows, r, n)
<1> DEFINE Bad == {k \in Nat : ~ \E f : Dealt(f, rows, r, k)}
<1>1. CASE Bad = {}
  BY <1>1
<1>2. CASE Bad # {}
  <2>1. PICK m \in Bad : \A k \in Bad : m <= k
    BY <1>2, LeastNumber
  <2>2. m # 0
    <3> DEFINE z == [k \in 0..0 |-> [left |-> DOMAIN rows, out |-> NoRows]]
    <3>1. Dealt(z, rows, r, 0)
      BY DEF Dealt
    <3> QED
      BY <3>1, <2>1
  <2>3. m - 1 \in Nat /\ m - 1 < m
    BY <2>1, <2>2
  <2>4. PICK f : Dealt(f, rows, r, m - 1)
    BY <2>1, <2>3
  <2> DEFINE last == TakeSlot(rows, r, f[m - 1], m)
  <2> DEFINE g == [k \in 0..m |-> IF k = m THEN last ELSE f[k]]
  <2> HIDE DEF last
  <2>5. g[m - 1] = f[m - 1] /\ g[m] = last
    BY <2>1, <2>3
  <2>6. ASSUME NEW k \in 0..m, k # 0
        PROVE  g[k] = TakeSlot(rows, r, g[k - 1], k)
    <3>1. CASE k = m
      BY <3>1, <2>5 DEF last
    <3>2. CASE k # m
      <4>1. k \in 0..(m - 1) /\ k - 1 \in 0..(m - 1) /\ k - 1 # m
        BY <3>2, <2>6, <2>1
      <4>2. f[k] = TakeSlot(rows, r, f[k - 1], k)
        BY <4>1, <2>4, <2>6 DEF Dealt
      <4>3. g[k] = f[k] /\ g[k - 1] = f[k - 1]
        BY <4>1, <3>2, <2>1
      <4> QED
        BY <4>2, <4>3
    <3> QED
      BY <3>1, <3>2
  <2>7. g[0] = [left |-> DOMAIN rows, out |-> NoRows]
    <3>1. 0 \in 0..(m - 1) /\ 0 # m /\ 0 \in 0..m
      BY <2>3, <2>2, <2>1
    <3>2. f[0] = [left |-> DOMAIN rows, out |-> NoRows]
      BY <3>1, <2>4 DEF Dealt
    <3> QED
      BY <3>1, <3>2
  <2>8. Dealt(g, rows, r, m)
    <3> DEFINE h == [k \in 0..m |-> IF k = 0 THEN [left |-> DOMAIN rows, out |-> NoRows]
                                    ELSE TakeSlot(rows, r, g[k - 1], k)]
    <3>1. ASSUME NEW k \in 0..m PROVE g[k] = h[k]
      BY <2>6, <2>7
    <3>2. g = h
      BY <3>1
    <3> QED
      BY <3>2 DEF Dealt
  <2> QED
    BY <2>8, <2>1
<1> QED
  BY <1>1, <1>2

\* Deal is that function.
LEMMA DealStep ==
  ASSUME NEW rows, NEW r
  PROVE  Dealt(Deal(rows, r), rows, r, Days)
<1>1. Days \in Nat
  BY DayRemapAssumption
<1>2. \E f : Dealt(f, rows, r, Days)
  BY <1>1, DealtAll
<1>3. Deal(rows, r) = CHOOSE f : Dealt(f, rows, r, Days)
  BY DEF Deal, Dealt
<1> QED
  BY <1>2, <1>3

\* After k slots: src names the prior day that each filled slot has taken, first in
\* first out within each city, and a prior day is left only when every slot of its city
\* was filled with an earlier one.
DealtSo(rows, r, acc, k, src) ==
  /\ acc.out = [d \in DOMAIN acc.out |-> acc.out[d]]
  /\ DOMAIN acc.out \subseteq 1..k
  /\ src \in [DOMAIN acc.out -> DOMAIN rows]
  /\ acc.left = { p \in DOMAIN rows : \A d \in DOMAIN acc.out : src[d] # p }
  /\ \A d \in DOMAIN acc.out :
       /\ acc.out[d] = [plan |-> rows[src[d]].plan, city |-> r[d]]
       /\ rows[src[d]].city = r[d]
  /\ \A d, e \in DOMAIN acc.out : d < e /\ r[d] = r[e] => src[d] < src[e]
  /\ \A p \in acc.left : \A d \in 1..k :
       r[d] = rows[p].city => d \in DOMAIN acc.out /\ src[d] < p

\* One slot more.
LEMMA TakeSlotSo ==
  ASSUME NEW rows, DOMAIN rows \subseteq Nat, NEW r, NEW acc, NEW k \in Nat, NEW src,
         DealtSo(rows, r, acc, k, src)
  PROVE  \E s : DealtSo(rows, r, TakeSlot(rows, r, acc, k + 1), k + 1, s)
<1> DEFINE n == k + 1
<1> DEFINE queue == Queue(rows, acc.left, r[n])
<1> DEFINE new == TakeSlot(rows, r, acc, n)
<1>0. /\ n \in Nat
      /\ 1..n = 1..k \cup {n}
      /\ n \notin 1..k
      /\ \A d \in 1..k : d < n /\ d \in Nat
  OBVIOUS
<1>1. CASE queue = {}
  <2>1. new = acc
    BY <1>1 DEF TakeSlot
  <2>2. \A p \in acc.left : rows[p].city # r[n]
    BY <1>1 DEF Queue
  <2>3. DealtSo(rows, r, acc, n, src)
    BY <2>2, <1>0 DEF DealtSo
  <2> QED
    BY <2>1, <2>3
<1>2. CASE queue # {}
  <2> DEFINE old == Earliest(queue)
  <2>1. queue \subseteq Nat
    BY DEF Queue, DealtSo
  <2>2. \E p \in queue : \A q \in queue : p <= q
    BY <1>2, <2>1, LeastNumber
  <2>3. /\ old \in queue
        /\ \A q \in queue : old <= q
    BY <2>2 DEF Earliest
  <2>4. /\ old \in acc.left
        /\ old \in DOMAIN rows
        /\ rows[old].city = r[n]
        /\ \A p \in acc.left : rows[p].city = r[n] => old <= p
        /\ \A d \in DOMAIN acc.out : src[d] # old
    BY <2>3 DEF Queue, DealtSo
  <2> DEFINE row == [plan |-> rows[old].plan, city |-> r[n]]
  <2> DEFINE out == [d \in DOMAIN acc.out \cup {n} |->
                       IF d = n THEN row ELSE acc.out[d]]
  <2> DEFINE s == [d \in DOMAIN acc.out \cup {n} |-> IF d = n THEN old ELSE src[d]]
  <2>5. new = [left |-> acc.left \ {old}, out |-> out]
    <3>1. Take(rows, r, acc, n, old) = out
      BY DEF Take
    <3> QED
      BY <3>1, <1>2 DEF TakeSlot
  <2>6. new.left = acc.left \ {old} /\ new.out = out
    BY <2>5
  <2>7. /\ DOMAIN acc.out \subseteq 1..k
        /\ n \notin DOMAIN acc.out
        /\ DOMAIN out = DOMAIN acc.out \cup {n}
        /\ \A d \in DOMAIN acc.out : out[d] = acc.out[d] /\ s[d] = src[d]
        /\ out[n] = row
        /\ s[n] = old
        /\ src \in [DOMAIN acc.out -> DOMAIN rows]
    BY <1>0 DEF DealtSo
  <2>8. /\ out = [d \in DOMAIN out |-> out[d]]
        /\ DOMAIN out \subseteq 1..n
    BY <1>0, <2>7
  <2>9. s \in [DOMAIN out -> DOMAIN rows]
    BY <2>4, <2>7
  <2> HIDE DEF out, s, old, new, queue
  <2>10. new.left = { p \in DOMAIN rows : \A d \in DOMAIN out : s[d] # p }
    <3>1. acc.left = { p \in DOMAIN rows : \A d \in DOMAIN acc.out : src[d] # p }
      BY DEF DealtSo
    <3> QED
      BY <3>1, <2>6, <2>7
  <2>11. \A d \in DOMAIN out :
           /\ out[d] = [plan |-> rows[s[d]].plan, city |-> r[d]]
           /\ rows[s[d]].city = r[d]
    BY <2>4, <2>7, SMTT(30) DEF DealtSo
  <2>12. ASSUME NEW d \in DOMAIN out, NEW e \in DOMAIN out, d < e, r[d] = r[e]
         PROVE  s[d] < s[e]
    <3>1. CASE e = n
      <4>1. d \in DOMAIN acc.out /\ d \in 1..k
        BY <3>1, <2>12, <2>7
      <4> QED
        BY <4>1, <3>1, <2>12, <2>4, <2>7 DEF DealtSo
    <3>2. CASE e # n
      <4>1. e \in DOMAIN acc.out /\ e \in 1..k
        BY <3>2, <2>7
      <4>2. d # n
        BY <4>1, <2>12, <1>0
      <4> QED
        BY <4>1, <4>2, <2>12, <2>7 DEF DealtSo
    <3> QED
      BY <3>1, <3>2
  <2>13. ASSUME NEW p \in new.left, NEW d \in 1..n, r[d] = rows[p].city
         PROVE  d \in DOMAIN out /\ s[d] < p
    <3>1. p \in acc.left /\ p # old
      BY <2>6
    <3>2. CASE d = n
      <4>1. old <= p
        BY <3>1, <3>2, <2>13, <2>4
      <4>2. old \in Nat /\ p \in Nat
        BY <2>4, <3>1 DEF DealtSo
      <4> QED
        BY <4>1, <4>2, <3>1, <3>2, <2>7
    <3>3. CASE d # n
      BY <3>3, <3>1, <2>13, <1>0, <2>7 DEF DealtSo
    <3> QED
      BY <3>2, <3>3
  <2>14. DealtSo(rows, r, new, n, s)
    BY <2>6, <2>8, <2>9, <2>10, <2>11, <2>12, <2>13 DEF DealtSo
  <2> QED
    BY <2>14 DEF new
<1> QED
  BY <1>1, <1>2

\* FIRST IN, FIRST OUT.  remap_day_plans for any number of days: every filled slot takes
\* a prior day of its city, unchanged but for the slot; two slots of a city
\* take theirs in day order, so none is taken twice; and a prior day is dropped only when
\* every slot of its city is filled with an earlier one.
THEOREM RemapDealsInOrder ==
  ASSUME NEW rows, DOMAIN rows \subseteq Nat, NEW r
  PROVE  LET out == Remap(rows, r) IN
         /\ out = [d \in DOMAIN out |-> out[d]]
         /\ DOMAIN out \subseteq 1..Days
         /\ \E src \in [DOMAIN out -> DOMAIN rows] :
              /\ \A d \in DOMAIN out :
                   /\ out[d] = [plan |-> rows[src[d]].plan, city |-> r[d]]
                   /\ rows[src[d]].city = r[d]
              /\ \A d, e \in DOMAIN out : d < e /\ r[d] = r[e] => src[d] < src[e]
              /\ \A p \in DOMAIN rows : (\A d \in DOMAIN out : src[d] # p) =>
                   \A d \in 1..Days : r[d] = rows[p].city => d \in DOMAIN out /\ src[d] < p
<1> DEFINE f == Deal(rows, r)
<1> DEFINE Bad == { k \in 0..Days : ~ \E src : DealtSo(rows, r, f[k], k, src) }
<1> HIDE DEF f
<1>0. Days \in Nat
  BY DayRemapAssumption
<1>1. Dealt(f, rows, r, Days)
  BY DealStep DEF f
<1>2. \E src : DealtSo(rows, r, f[0], 0, src)
  <2>1. 0 \in 0..Days
    BY <1>0
  <2>2. f[0] = [left |-> DOMAIN rows, out |-> NoRows]
    BY <1>1, <2>1 DEF Dealt
  <2>3. f[0].left = DOMAIN rows /\ f[0].out = NoRows
    BY <2>2
  <2>4. DOMAIN NoRows = {} /\ NoRows = [d \in DOMAIN NoRows |-> NoRows[d]]
    BY DEF NoRows
  <2>5. NoRows \in [DOMAIN NoRows -> DOMAIN rows]
    BY <2>4
  <2>6. 1..0 = {}
    OBVIOUS
  <2>7. DealtSo(rows, r, f[0], 0, NoRows)
    <3> DEFINE z == NoRows
    <3>1. /\ DOMAIN z = {}
          /\ z = [d \in DOMAIN z |-> z[d]]
          /\ z \in [DOMAIN z -> DOMAIN rows]
      BY <2>4, <2>5
    <3> HIDE DEF z
    <3>2. f[0].out = z /\ f[0].left = DOMAIN rows
      BY <2>3 DEF z
    <3>3. DOMAIN f[0].out = {}
      BY <3>1, <3>2
    <3>4. /\ f[0].out = [d \in DOMAIN f[0].out |-> f[0].out[d]]
          /\ z \in [DOMAIN f[0].out -> DOMAIN rows]
      BY <3>1, <3>2
    <3>5. f[0].left = { p \in DOMAIN rows : \A d \in DOMAIN f[0].out : z[d] # p }
      BY <3>2, <3>3
    <3>6. DealtSo(rows, r, f[0], 0, z)
      BY <2>6, <3>3, <3>4, <3>5 DEF DealtSo
    <3> QED
      BY <3>6 DEF z
  <2> QED
    BY <2>7
<1>3. Bad = {}
  <2>1. SUFFICES ASSUME Bad # {} PROVE FALSE
    OBVIOUS
  <2>2. PICK m \in Bad : \A k \in Bad : m <= k
    <3>1. Bad \subseteq Nat
      BY <1>0
    <3> QED
      BY <3>1, <2>1, LeastNumber
  <2>3. m # 0
    BY <1>2, <2>2
  <2>4. /\ m \in 0..Days
        /\ m - 1 \in 0..Days
        /\ m - 1 \in Nat
        /\ ~(m <= m - 1)
        /\ (m - 1) + 1 = m
    BY <2>2, <2>3, <1>0
  <2>5. PICK src : DealtSo(rows, r, f[m - 1], m - 1, src)
    BY <2>2, <2>4
  <2>6. \E s : DealtSo(rows, r, TakeSlot(rows, r, f[m - 1], (m - 1) + 1), (m - 1) + 1, s)
    BY <2>4, <2>5, TakeSlotSo
  <2>7. f[m] = TakeSlot(rows, r, f[m - 1], m)
    BY <1>1, <2>3, <2>4 DEF Dealt
  <2> QED
    BY <2>2, <2>4, <2>6, <2>7
<1>4. PICK src : DealtSo(rows, r, f[Days], Days, src)
  <2>1. Days \in 0..Days
    BY <1>0
  <2> QED
    BY <2>1, <1>3
<1>5. Remap(rows, r) = f[Days].out
  BY DEF Remap, f
<1> DEFINE out == Remap(rows, r)
<1> HIDE DEF out
<1>6. out = f[Days].out
  BY <1>5 DEF out
<1>7. /\ out = [d \in DOMAIN out |-> out[d]]
      /\ DOMAIN out \subseteq 1..Days
      /\ src \in [DOMAIN out -> DOMAIN rows]
      /\ \A d \in DOMAIN out :
           /\ out[d] = [plan |-> rows[src[d]].plan, city |-> r[d]]
           /\ rows[src[d]].city = r[d]
      /\ \A d, e \in DOMAIN out : d < e /\ r[d] = r[e] => src[d] < src[e]
  BY <1>4, <1>6 DEF DealtSo
<1>8. \A p \in DOMAIN rows : (\A d \in DOMAIN out : src[d] # p) =>
        \A d \in 1..Days : r[d] = rows[p].city => d \in DOMAIN out /\ src[d] < p
  BY <1>4, <1>6 DEF DealtSo
<1> QED
  BY <1>7, <1>8 DEF out
=============================================================================
