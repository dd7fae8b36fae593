------------------------ MODULE RouteReconfirmProofs ------------------------
(***************************************************************************)
(* Proofs about RouteReconfirm: what one confirm after another leaves,     *)
(* whatever dies, fails, plans or deletes beside them.                     *)
(***************************************************************************)
EXTENDS RouteReconfirm, TLAPS

\* What remap_day_plans does for any number of days.
P == INSTANCE DayRemapProofs WITH Days <- DayCount

-----------------------------------------------------------------------------
(* The invariant.  x is a confirm's record.                                *)

Rows(S) == UNION { [D -> S] : D \in SUBSET Day }

ConfirmType ==
  [ pc : ConfirmPc, route : Routes, status : Status, moved : BOOLEAN, same : BOOLEAN,
    pay : Rows(Slots), todo : SUBSET Day, trim : SUBSET Day, old : SUBSET Day ]

\* What has happened: a confirm has died when the last move of the days is torn.
HistoryTyped ==
  /\ faults \in FaultType
  /\ faults.torn => faults.dead # 0
  /\ overtaken \subseteq Worker

\* Types, with the rows and the records as functions.
Typed ==
  /\ trip \in TripType
  /\ route \in Routes
  /\ days \in Rows(Slots)
  /\ staging \in Rows(Staged)
  /\ conf \in [Confirm -> ConfirmType]
  /\ \A c \in Confirm : conf[c].pc \in {"recover", "stage", "readback", "promote"} =>
       conf[c].todo \subseteq DOMAIN conf[c].pay
  /\ work \in [Worker -> WorkType]
  /\ \A w \in Worker : work[w].pc # "idle" => work[w].day \in Day
  /\ HistoryTyped

Live == trip.status \notin {"deleting", "gone"}
Alone == \A w \in Worker : work[w].pc = "idle"     \* no plan-day run has begun
Late(d) == days[d].plan \in overtaken
DaysFit == \A d \in DOMAIN days : days[d].city = route[d] \/ Late(d)
LateBut(S) == \A d \in DOMAIN days \ S : Late(d)
Begun == trip.status \in {"planning", "failed", "complete"} \/ trip.ndi > 1
Distinct(rows) == \A d, e \in DOMAIN rows : rows[d].plan = rows[e].plan => d = e

CursorFits ==
  IF DOMAIN days = Day THEN trip.ndi = DayCount + 1 /\ trip.status = "complete"
  ELSE /\ IsFirstMissing(trip.ndi, DOMAIN days)
       /\ trip.status = IF DOMAIN days = {} THEN "routing_confirmed" ELSE "planning"

Kept(x) == DOMAIN x.pay
OnDays(x, S) == \A d \in S : d \in DOMAIN days /\ days[d] = x.pay[d]
OnStaging(x, S) == \A d \in S : d \in DOMAIN staging /\ staging[d].plan = x.pay[d].plan

\* What is stored of the payloads that a confirm moves: enough, wherever it stops.
Stored(x) ==
  /\ x.pc \in {"bundle", "direct"} => Kept(x) = {}
  /\ x.pc = "recover" => /\ OnStaging(x, Kept(x))
                         /\ OnDays(x, Kept(x) \ x.todo)
                         /\ x.trim \cap Kept(x) = {}
  /\ x.pc = "unstage" => OnDays(x, Kept(x)) /\ x.trim \cap Kept(x) = {}
  /\ x.pc = "trim" => OnDays(x, Kept(x)) /\ x.todo \cap Kept(x) = {}
  /\ x.pc \in {"stage", "readback"} => OnStaging(x, Kept(x) \ x.todo)
  /\ x.pc = "readback" =>
       \A d \in x.todo : (\A e \in x.todo : d <= e) => OnStaging(x, {d})
  /\ x.pc \in {"drop", "promote"} => OnStaging(x, Kept(x))
  /\ x.pc = "promote" => OnDays(x, Kept(x) \ x.todo)
  /\ x.pc \in {"query", "sweep", "finish", "route"} => OnDays(x, Kept(x))

\* The staging rows there can be.
Swept(x) ==
  /\ x.pc = "recover" => DOMAIN staging = Kept(x)
  /\ x.pc \in {"unstage", "clean", "sweep"} => DOMAIN staging \subseteq x.todo
  /\ x.pc \in {"trim", "finish"} => DOMAIN staging = {}
  /\ x.pc \in {"stage", "readback"} =>
       \A d \in DOMAIN staging : d \in Kept(x) /\ staging[d].plan = x.pay[d].plan
  /\ ~faults.torn =>
       /\ x.pc \notin {"recover", "unstage", "trim"}
       /\ x.pc \in {"idle", "bundle", "direct", "unclaim", "read", "route"} =>
            DOMAIN staging = {}

\* The cities: a staging row's is that of its route, a payload's that of the confirm's.
Fits(x) ==
  /\ \A d \in DOMAIN staging : staging[d].city = staging[d].fp[d]
  /\ \/ x.pc \in {"stage", "readback", "drop", "promote", "query", "sweep", "finish", "route"}
     \/ x.pc \in {"recover", "unstage", "trim"} /\ x.same
     => \A d \in Kept(x) : x.pay[d].city = x.route[d]

\* What the DAY rows are while no plan-day run has begun.
Quiet(x) ==
  Alone =>
  /\ x.pc \in {"recover", "unstage"} => DOMAIN days \subseteq x.trim \cup Kept(x)
  /\ x.pc = "trim" => DOMAIN days \subseteq x.todo \cup Kept(x)
  /\ x.pc \in {"stage", "readback"} => DOMAIN days \subseteq x.old
  /\ x.pc = "drop" => DOMAIN days \subseteq x.todo
  /\ x.pc = "promote" => DOMAIN days \subseteq Kept(x) \ x.todo
  /\ x.pc \in {"query", "sweep", "finish", "route"} => DOMAIN days \subseteq Kept(x)
  /\ Live /\ ~Begun => DOMAIN days = {} /\ DOMAIN staging = {} /\ Kept(x) = {}
  /\ x.pc = "bundle" /\ ~x.moved => DOMAIN staging = {} /\ trip.ndi = 1
  /\ x.pc = "direct" => DOMAIN staging = {} /\ DOMAIN days = {} /\ trip.ndi = 1
  /\ x.pc = "route" =>
       /\ DOMAIN staging = {}
       /\ Live => CursorFits

\* Which DAY rows fit: but for those of overtaken runs, the ROUTE row unless the days
\* are torn, and what the confirm is moving once it deletes and puts rows.
LateOnes(x) ==
  /\ ~faults.torn =>
       /\ x.pc = "idle" /\ Live => DaysFit
       /\ x.pc \in {"bundle", "unclaim", "read", "stage", "readback", "unwind", "clean"} => DaysFit
  /\ x.pc \in {"recover", "unstage"} => LateBut(x.trim \cup Kept(x))
  /\ x.pc = "trim" => LateBut(x.todo \cup Kept(x))
  /\ x.pc = "direct" => LateBut({})
  /\ x.pc \in {"stage", "readback"} => LateBut(x.old)
  /\ x.pc = "drop" => LateBut(x.todo)
  /\ x.pc = "promote" => LateBut(Kept(x) \ x.todo)
  /\ x.pc \in {"query", "sweep", "finish", "route"} => LateBut(Kept(x))

\* No plan stands twice, as long as no resume is cut off.
NoneTwice(x) ==
  Alone /\ MaxDeaths <= 1 =>
  /\ Distinct(staging)
  /\ Distinct(x.pay)
  /\ x.pc \notin {"recover", "unstage", "trim"} => Distinct(days)

ConfInv(x) ==
  Stored(x) /\ Swept(x) /\ Fits(x) /\ Quiet(x) /\ LateOnes(x) /\ NoneTwice(x)

\* A run that is not overtaken holds the claim, and has its city of the ROUTE row.
Informed(w) == work[w].pc \in {"crew", "put"}
WorkInv ==
  /\ Live \/ trip.pdi = 0
  /\ \A w \in Worker : UnderWay(w) /\ w \notin overtaken => trip.pdi = work[w].day
  /\ \A w \in Worker : Informed(w) /\ w \notin overtaken =>
       work[w].city = route[work[w].day]

\* Once a confirm has taken the claim away, or has found none, whoever has read the
\* ROUTE row is overtaken.
Past(x) ==
  \/ x.pc \notin {"idle", "bundle", "unclaim"}
  \/ x.pc = "bundle" /\ ~x.moved
Caught(x) == Past(x) => \A w \in Worker : Informed(w) => w \in overtaken

ConfirmInv ==
  /\ WorkInv
  /\ \A c \in Confirm : ConfInv(conf[c]) /\ Caught(conf[c])

\* A set of rows is a partial function of the days.
LEMMA RowsAre ==
  ASSUME NEW S, NEW f
  PROVE  f \in Rows(S) <=> /\ f = [d \in DOMAIN f |-> f[d]]
                            /\ DOMAIN f \subseteq Day
                            /\ \A d \in DOMAIN f : f[d] \in S
<1>1. ASSUME f \in Rows(S)
      PROVE  /\ f = [d \in DOMAIN f |-> f[d]]
             /\ DOMAIN f \subseteq Day
             /\ \A d \in DOMAIN f : f[d] \in S
  <2>1. PICK D \in SUBSET Day : f \in [D -> S]
    BY <1>1 DEF Rows
  <2> QED
    BY <2>1
<1>2. ASSUME f = [d \in DOMAIN f |-> f[d]], DOMAIN f \subseteq Day,
             \A d \in DOMAIN f : f[d] \in S
      PROVE  f \in Rows(S)
  <2>1. f \in [DOMAIN f -> S]
    BY <1>2
  <2> QED
    BY <1>2, <2>1 DEF Rows
<1> QED
  BY <1>1, <1>2

LEMMA PutRows ==
  ASSUME NEW S, NEW f \in Rows(S), NEW d \in Day, NEW x \in S
  PROVE  /\ Put(f, d, x) \in Rows(S)
         /\ DOMAIN Put(f, d, x) = DOMAIN f \cup {d}
         /\ Put(f, d, x)[d] = x
         /\ \A e \in DOMAIN f : e # d => Put(f, d, x)[e] = f[e]
<1>1. /\ DOMAIN Put(f, d, x) = DOMAIN f \cup {d}
      /\ Put(f, d, x)[d] = x
      /\ \A e \in DOMAIN f : e # d => Put(f, d, x)[e] = f[e]
  BY DEF Put
<1>2. Put(f, d, x) = [e \in DOMAIN Put(f, d, x) |-> Put(f, d, x)[e]]
  BY DEF Put
<1> QED
  BY <1>1, <1>2, RowsAre

LEMMA DropRows ==
  ASSUME NEW S, NEW f \in Rows(S), NEW d
  PROVE  /\ Drop(f, d) \in Rows(S)
         /\ DOMAIN Drop(f, d) = DOMAIN f \ {d}
         /\ \A e \in DOMAIN f \ {d} : Drop(f, d)[e] = f[e]
<1>1. /\ DOMAIN Drop(f, d) = DOMAIN f \ {d}
      /\ \A e \in DOMAIN f \ {d} : Drop(f, d)[e] = f[e]
  BY DEF Drop
<1>2. Drop(f, d) = [e \in DOMAIN Drop(f, d) |-> Drop(f, d)[e]]
  BY DEF Drop
<1> QED
  BY <1>1, <1>2, RowsAre

LEMMA PayloadRows ==
  ASSUME NEW f \in Rows(Staged)
  PROVE  /\ Payload(f) \in Rows(Slots)
         /\ DOMAIN Payload(f) = DOMAIN f
         /\ \A d \in DOMAIN f : /\ Payload(f)[d].plan = f[d].plan
                                /\ Payload(f)[d].city = f[d].city
<1>1. /\ DOMAIN Payload(f) = DOMAIN f
      /\ \A d \in DOMAIN f : Payload(f)[d] = [plan |-> f[d].plan, city |-> f[d].city]
  BY DEF Payload
<1>2. Payload(f) = [d \in DOMAIN Payload(f) |-> Payload(f)[d]]
  BY DEF Payload
<1>3. \A d \in DOMAIN f : f[d] \in Staged
  BY RowsAre
<1>4. \A d \in DOMAIN Payload(f) : Payload(f)[d] \in Slots
  BY <1>1, <1>3 DEF Staged, Slots, R!Slot
<1>5. DOMAIN f \subseteq Day
  BY RowsAre
<1> QED
  BY <1>1, <1>2, <1>4, <1>5, RowsAre

LEMMA NoRowsRows == R!NoRows \in Rows(Slots) /\ R!NoRows \in Rows(Staged) /\ DOMAIN R!NoRows = {}
  BY RowsAre DEF R!NoRows

\* What a confirm needs of remap_day_plans.
LEMMA RemapRows ==
  ASSUME NEW rows \in Rows(Slots), NEW r \in Routes
  PROVE  /\ R!Remap(rows, r) \in Rows(Slots)
         /\ \A d \in DOMAIN R!Remap(rows, r) : R!Remap(rows, r)[d].city = r[d]
         /\ DOMAIN rows = {} => DOMAIN R!Remap(rows, r) = {}
         /\ Distinct(rows) => Distinct(R!Remap(rows, r))
<1> DEFINE out == R!Remap(rows, r)
<1>1. /\ DOMAIN rows \subseteq Day
      /\ DOMAIN rows \subseteq Nat
      /\ Day \subseteq Nat
      /\ \A d \in DOMAIN rows : rows[d] \in Slots
      /\ r \in [Day -> City]
  BY RowsAre, DayCountAssumption, RouteReconfirmAssumption DEF Day
<1>0. /\ out = P!Remap(rows, r)
      /\ DayCount \in Nat \ {0}
  BY DayCountAssumption DEF R!Remap, R!Deal, R!TakeSlot, R!Take, R!Queue, R!Earliest, R!NoRows,
                            P!Remap, P!Deal, P!TakeSlot, P!Take, P!Queue, P!Earliest, P!NoRows
<1>2. /\ out = [d \in DOMAIN out |-> out[d]]
      /\ DOMAIN out \subseteq Day
  BY <1>0, <1>1, P!RemapDealsInOrder DEF Day
<1>3. PICK src \in [DOMAIN out -> DOMAIN rows] :
        /\ \A d \in DOMAIN out :
             /\ out[d] = [plan |-> rows[src[d]].plan, city |-> r[d]]
             /\ rows[src[d]].city = r[d]
        /\ \A d, e \in DOMAIN out : d < e /\ r[d] = r[e] => src[d] < src[e]
  BY <1>0, <1>1, P!RemapDealsInOrder
<1> HIDE DEF out
<1>4. \A d \in DOMAIN out : out[d] \in Slots /\ out[d].city = r[d]
  BY <1>1, <1>2, <1>3 DEF Slots, R!Slot
<1>5. out \in Rows(Slots)
  BY <1>2, <1>4, RowsAre
<1>6. DOMAIN rows = {} => DOMAIN out = {}
  BY <1>3
<1>7. ASSUME Distinct(rows), NEW d \in DOMAIN out, NEW e \in DOMAIN out,
             out[d].plan = out[e].plan
      PROVE  d = e
  <2>1. /\ src[d] \in DOMAIN rows
        /\ src[e] \in DOMAIN rows
        /\ rows[src[d]].plan = rows[src[e]].plan
    BY <1>3, <1>7
  <2>2. src[d] = src[e]
    BY <2>1, <1>7 DEF Distinct
  <2>3. r[d] = r[e]
    BY <2>2, <1>3
  <2>4. ~(src[d] < src[e]) /\ ~(src[e] < src[d])
    BY <2>1, <2>2, <1>1
  <2>5. d \in Nat /\ e \in Nat
    BY <1>1, <1>2
  <2>6. ~(d < e) /\ ~(e < d)
    BY <2>3, <2>4, <1>3
  <2> QED
    BY <2>5, <2>6
<1>8. Distinct(rows) => Distinct(out)
  BY <1>7 DEF Distinct
<1> QED
  BY <1>4, <1>5, <1>6, <1>8 DEF out
-----------------------------------------------------------------------------
(* The shapes of a confirm's steps, and types.                             *)

SameInputs(y, x) ==
  y.route = x.route /\ y.status = x.status /\ y.moved = x.moved

SameKept(y, x) ==
  y.pay = x.pay /\ y.trim = x.trim /\ y.old = x.old /\ y.same = x.same

\* Only the record of c changes, and it keeps its type.
Only(c) ==
  /\ conf' \in [Confirm -> ConfirmType]
  /\ \A e \in Confirm : e # c => conf'[e] = conf[e]

\* What Go, a visit of one day and the start of a loop change of a confirm.
LEMMA GoShape ==
  ASSUME Typed, NEW c \in Confirm, NEW pc \in ConfirmPc, Go(c, pc)
  PROVE  /\ Only(c)
         /\ conf'[c].pc = pc
         /\ SameInputs(conf'[c], conf[c])
         /\ SameKept(conf'[c], conf[c])
         /\ conf'[c].todo = conf[c].todo
<1> DEFINE y == [conf[c] EXCEPT !.pc = pc]
<1>1. conf[c] \in ConfirmType
  BY DEF Typed
<1>2. y \in ConfirmType /\ y.pc = pc /\ y.todo = conf[c].todo
  BY <1>1 DEF ConfirmType
<1>3. SameInputs(y, conf[c]) /\ SameKept(y, conf[c])
  BY <1>1 DEF ConfirmType, SameInputs, SameKept
<1>4. conf' = [conf EXCEPT ![c] = y]
  BY DEF Go
<1> HIDE DEF y
<1>5. Only(c) /\ conf'[c] = y
  BY <1>2, <1>4 DEF Only, Typed
<1> QED
  BY <1>2, <1>3, <1>5

LEMMA VisitShape ==
  ASSUME Typed, NEW c \in Confirm, NEW d \in Day, Visited(c, d)
  PROVE  /\ Only(c)
         /\ conf'[c].pc = conf[c].pc
         /\ SameInputs(conf'[c], conf[c])
         /\ SameKept(conf'[c], conf[c])
         /\ conf'[c].todo = conf[c].todo \ {d}
<1> DEFINE y == [conf[c] EXCEPT !.todo = @ \ {d}]
<1>1. conf[c] \in ConfirmType
  BY DEF Typed
<1>2. y \in ConfirmType /\ y.pc = conf[c].pc /\ y.todo = conf[c].todo \ {d}
  BY <1>1 DEF ConfirmType
<1>3. SameInputs(y, conf[c]) /\ SameKept(y, conf[c])
  BY <1>1 DEF ConfirmType, SameInputs, SameKept
<1>4. conf' = [conf EXCEPT ![c] = y]
  BY DEF Visited
<1> HIDE DEF y
<1>5. Only(c) /\ conf'[c] = y
  BY <1>2, <1>4 DEF Only, Typed
<1> QED
  BY <1>2, <1>3, <1>5

LEMMA LoopShape ==
  ASSUME Typed, NEW c \in Confirm, NEW pc \in ConfirmPc, NEW todo \in SUBSET Day,
         conf' = [conf EXCEPT ![c].pc = pc, ![c].todo = todo]
  PROVE  /\ Only(c)
         /\ conf'[c].pc = pc
         /\ SameInputs(conf'[c], conf[c])
         /\ SameKept(conf'[c], conf[c])
         /\ conf'[c].todo = todo
<1> DEFINE y == [conf[c] EXCEPT !.pc = pc, !.todo = todo]
<1>1. conf[c] \in ConfirmType /\ conf \in [Confirm -> ConfirmType]
  BY DEF Typed
<1>2. y \in ConfirmType /\ y.pc = pc /\ y.todo = todo
  BY <1>1 DEF ConfirmType
<1>3. SameInputs(y, conf[c]) /\ SameKept(y, conf[c])
  BY <1>1 DEF ConfirmType, SameInputs, SameKept
<1>4. conf' = [conf EXCEPT ![c] = y]
  OBVIOUS
<1> HIDE DEF y
<1>5. Only(c) /\ conf'[c] = y
  BY <1>1, <1>2, <1>4 DEF Only
<1> QED
  BY <1>2, <1>3, <1>5

LEMMA NoConfirmIs ==
  ASSUME Routes # {}
  PROVE  /\ NoConfirm \in ConfirmType
         /\ NoConfirm.pc = "idle"
         /\ DOMAIN NoConfirm.pay = {}
<1>1. (CHOOSE r \in Routes : TRUE) \in Routes
  OBVIOUS
<1>2. R!NoRows \in Rows(Slots) /\ DOMAIN R!NoRows = {}
  BY NoRowsRows
<1> QED
  BY <1>1, <1>2 DEF NoConfirm, ConfirmType, ConfirmPc, Status

LEMMA StopShape ==
  ASSUME Typed, NEW c \in Confirm, Stop(c)
  PROVE  Only(c) /\ conf'[c].pc = "idle" /\ DOMAIN conf'[c].pay = {}
<1>1. NoConfirm \in ConfirmType /\ NoConfirm.pc = "idle" /\ DOMAIN NoConfirm.pay = {}
  BY NoConfirmIs DEF Typed
<1>2. conf' = [conf EXCEPT ![c] = NoConfirm]
  BY DEF Stop
<1>3. Only(c) /\ conf'[c] = NoConfirm
  BY <1>1, <1>2 DEF Only, Typed
<1> QED
  BY <1>1, <1>3

LEMMA LoadShape ==
  ASSUME Typed, NEW c \in Confirm, LoadTrip(c)
  PROVE  /\ Only(c)
         /\ conf'[c].pc = "bundle"
         /\ DOMAIN conf'[c].pay = {}
         /\ ~conf'[c].moved => trip.pdi = 0 /\ ~Begun
<1>1. PICK r \in Routes, keys \in BOOLEAN :
        conf' = [conf EXCEPT ![c] =
                  [NoConfirm EXCEPT !.pc = "bundle", !.route = r, !.status = trip.status,
                     !.moved = \/ trip.status \in {"planning", "failed", "complete"}
                               \/ trip.pdi # 0
                               \/ trip.ndi > 1
                               \/ keys]]
  BY DEF LoadTrip
<1> DEFINE m == \/ trip.status \in {"planning", "failed", "complete"}
                \/ trip.pdi # 0
                \/ trip.ndi > 1
                \/ keys
<1> DEFINE y == [NoConfirm EXCEPT !.pc = "bundle", !.route = r, !.status = trip.status, !.moved = m]
<1>2. NoConfirm \in ConfirmType /\ DOMAIN NoConfirm.pay = {}
  BY NoConfirmIs DEF Typed
<1>3. m \in BOOLEAN /\ (~m => trip.pdi = 0 /\ ~Begun)
  BY DEF Begun
<1>4. conf' = [conf EXCEPT ![c] = y]
  BY <1>1
<1> HIDE DEF m
<1>5. /\ y \in ConfirmType
      /\ y.pc = "bundle"
      /\ y.moved = m
      /\ DOMAIN y.pay = {}
  BY <1>2, <1>3 DEF ConfirmType, ConfirmPc, Typed, TripType
<1> HIDE DEF y
<1>6. Only(c) /\ conf'[c] = y
  BY <1>4, <1>5 DEF Only, Typed
<1> QED
  BY <1>3, <1>5, <1>6

\* A resume reads staging rows.
LEMMA ResumeShape ==
  ASSUME Typed, NEW c \in Confirm, ReadBundle(c), DOMAIN staging # {}
  PROVE  /\ Only(c)
         /\ conf'[c].pc = "recover"
         /\ SameInputs(conf'[c], conf[c])
         /\ conf'[c].pay = Payload(staging)
         /\ conf'[c].todo = DOMAIN staging
         /\ conf'[c].trim = DOMAIN days \ DOMAIN staging
         /\ conf'[c].same => \A d \in DOMAIN staging : staging[d].fp = conf[c].route
<1> DEFINE s == \A d \in DOMAIN staging : staging[d].fp = conf[c].route
<1> DEFINE y == [conf[c] EXCEPT !.pc = "recover", !.pay = Payload(staging),
                   !.todo = DOMAIN staging, !.trim = DOMAIN days \ DOMAIN staging, !.same = s]
<1>1. conf' = [conf EXCEPT ![c] = y]
  BY DEF ReadBundle
<1>2. conf[c] \in ConfirmType
  BY DEF Typed
<1>3. /\ Payload(staging) \in Rows(Slots)
      /\ DOMAIN staging \subseteq Day
      /\ DOMAIN days \ DOMAIN staging \subseteq Day
  BY PayloadRows, RowsAre DEF Typed
<1>4. s \in BOOLEAN /\ (s => \A d \in DOMAIN staging : staging[d].fp = conf[c].route)
  OBVIOUS
<1> HIDE DEF s
<1>5. /\ y \in ConfirmType
      /\ y.pc = "recover"
      /\ y.pay = Payload(staging)
      /\ y.todo = DOMAIN staging
      /\ y.trim = DOMAIN days \ DOMAIN staging
      /\ y.same = s
  BY <1>2, <1>3, <1>4 DEF ConfirmType, ConfirmPc
<1>6. SameInputs(y, conf[c])
  BY <1>2 DEF ConfirmType, SameInputs
<1> HIDE DEF y
<1>7. Only(c) /\ conf'[c] = y
  BY <1>1, <1>5 DEF Only, Typed
<1> QED
  BY <1>4, <1>5, <1>6, <1>7

\* A new move is laid out.
Fresh(c, rows, old) ==
  /\ conf'[c].pc = "stage"
  /\ SameInputs(conf'[c], conf[c])
  /\ conf'[c].pay = Moving(c, rows)
  /\ conf'[c].todo = DOMAIN Moving(c, rows)
  /\ conf'[c].old = old

\* The days that have to move get the city of the new route, and no plan twice.
LEMMA MovingRows ==
  ASSUME Typed, NEW c \in Confirm, NEW rows \in Rows(Slots)
  PROVE  /\ Moving(c, rows) \in Rows(Slots)
         /\ DOMAIN Moving(c, rows) \subseteq Day
         /\ \A d \in DOMAIN Moving(c, rows) : Moving(c, rows)[d].city = conf[c].route[d]
         /\ DOMAIN rows = {} => DOMAIN Moving(c, rows) = {}
         /\ Distinct(rows) => Distinct(Moving(c, rows))
<1>1. conf[c].route \in Routes
  BY DEF Typed, ConfirmType
<1> QED
  BY <1>1, RemapRows, RowsAre DEF Moving

LEMMA StartShape ==
  ASSUME Typed, NEW c \in Confirm, ReadBundle(c), DOMAIN staging = {}
  PROVE  Only(c) /\ Fresh(c, days, DOMAIN days)
<1> DEFINE pay == Moving(c, days)
<1> DEFINE y == [conf[c] EXCEPT !.pc = "stage", !.pay = pay, !.todo = DOMAIN pay, !.old = DOMAIN days]
<1>1. conf' = [conf EXCEPT ![c] = y]
  BY DEF ReadBundle
<1>2. conf[c] \in ConfirmType
  BY DEF Typed
<1>3. pay \in Rows(Slots) /\ DOMAIN pay \subseteq Day /\ DOMAIN days \subseteq Day
  BY MovingRows, RowsAre DEF Typed
<1> HIDE DEF pay
<1>4. /\ y \in ConfirmType
      /\ y.pc = "stage"
      /\ y.pay = pay
      /\ y.todo = DOMAIN pay
      /\ y.old = DOMAIN days
  BY <1>2, <1>3 DEF ConfirmType, ConfirmPc
<1>5. SameInputs(y, conf[c])
  BY <1>2 DEF ConfirmType, SameInputs
<1> HIDE DEF y
<1>6. Only(c) /\ conf'[c] = y
  BY <1>1, <1>4 DEF Only, Typed
<1> QED
  BY <1>4, <1>5, <1>6 DEF Fresh, pay

\* A confirm of the stored route goes on to its end; one of a new route is fresh.
LEMMA TrimShape ==
  ASSUME Typed, NEW c \in Confirm, TrimEnds(c)
  PROVE  /\ Only(c)
         /\ conf[c].same => /\ conf'[c].pc = "finish"
                            /\ SameInputs(conf'[c], conf[c])
                            /\ conf'[c].pay = conf[c].pay
         /\ ~conf[c].same => Fresh(c, conf[c].pay, DOMAIN conf[c].pay)
<1> DEFINE pay == Moving(c, conf[c].pay)
<1>1. conf' = [conf EXCEPT
         ![c].pc = IF conf[c].same THEN "finish" ELSE "stage",
         ![c].pay = IF conf[c].same THEN @ ELSE pay,
         ![c].todo = IF conf[c].same THEN {} ELSE DOMAIN pay,
         ![c].old = DOMAIN conf[c].pay]
  BY DEF TrimEnds
<1>2. conf[c] \in ConfirmType
  BY DEF Typed
<1>3. conf[c].pay \in Rows(Slots) /\ DOMAIN conf[c].pay \subseteq Day
  BY <1>2, RowsAre DEF ConfirmType
<1>4. pay \in Rows(Slots) /\ DOMAIN pay \subseteq Day
  BY <1>3, MovingRows
<1> HIDE DEF pay
<1>5. CASE conf[c].same
  <2> DEFINE y == [conf[c] EXCEPT !.pc = "finish", !.pay = conf[c].pay, !.todo = {},
                     !.old = DOMAIN conf[c].pay]
  <2>1. conf' = [conf EXCEPT ![c] = y]
    BY <1>1, <1>5
  <2>2. y \in ConfirmType /\ y.pc = "finish" /\ y.pay = conf[c].pay
    BY <1>2, <1>3 DEF ConfirmType, ConfirmPc
  <2>3. SameInputs(y, conf[c])
    BY <1>2 DEF ConfirmType, SameInputs
  <2> HIDE DEF y
  <2>4. Only(c) /\ conf'[c] = y
    BY <2>1, <2>2 DEF Only, Typed
  <2> QED
    BY <1>5, <2>2, <2>3, <2>4
<1>6. CASE ~conf[c].same
  <2> DEFINE y == [conf[c] EXCEPT !.pc = "stage", !.pay = pay, !.todo = DOMAIN pay,
                     !.old = DOMAIN conf[c].pay]
  <2>1. conf' = [conf EXCEPT ![c] = y]
    BY <1>1, <1>6
  <2>2. /\ y \in ConfirmType
        /\ y.pc = "stage"
        /\ y.pay = pay
        /\ y.todo = DOMAIN pay
        /\ y.old = DOMAIN conf[c].pay
    BY <1>2, <1>3, <1>4 DEF ConfirmType, ConfirmPc
  <2>3. SameInputs(y, conf[c])
    BY <1>2 DEF ConfirmType, SameInputs
  <2> HIDE DEF y
  <2>4. Only(c) /\ conf'[c] = y
    BY <2>1, <2>2 DEF Only, Typed
  <2> QED
    BY <1>6, <2>2, <2>3, <2>4 DEF Fresh, pay
<1> QED
  BY <1>5, <1>6
\* The indexes to put are those of payloads.
TodoOK(x) ==
  x.pc \in {"recover", "stage", "readback", "promote"} => x.todo \subseteq DOMAIN x.pay

\* A confirm's step is typed when its own record and what it writes are.
LEMMA ConfTyped ==
  ASSUME Typed, NEW c \in Confirm, Only(c), TodoOK(conf'[c]),
         trip' \in TripType, route' \in Routes, days' \in Rows(Slots),
         staging' \in Rows(Staged), UNCHANGED work,
         HistoryTyped'
  PROVE  Typed'
  BY DEF Typed, Only, TodoOK

LEMMA TripWrites ==
  ASSUME trip \in TripType
  PROVE  /\ NoClaim(trip) \in TripType
         /\ \A s \in Status : [trip EXCEPT !.status = s] \in TripType
         /\ \A s \in Status, n \in 1..(DayCount + 1) :
              [NoClaim(trip) EXCEPT !.ndi = n, !.status = s] \in TripType
         /\ BeginDelete(trip) \in TripType
         /\ DeleteTripRow(trip) \in TripType
         /\ \A d \in Day : ClaimPlanning(trip, d) \in TripType
         /\ \A d \in Day : CompletePlanning(trip, d) \in TripType
<1>0. DayCount \in Nat /\ Day = 1..DayCount
  BY DayCountAssumption DEF Day
<1>1. NoClaim(trip) \in TripType
  <2>1. 0 \in 0..DayCount
    BY <1>0
  <2> QED
    BY <2>1 DEF NoClaim, TripType
<1>2. BeginDelete(trip) \in TripType /\ DeleteTripRow(trip) \in TripType
  <2>1. "deleting" \in Status /\ "gone" \in Status
    BY DEF Status
  <2>2. BeginDelete(trip) \in TripType
    BY <2>1 DEF BeginDelete, TripType
  <2>3. DeleteTripRow(trip) \in TripType
    BY <1>1, <2>1 DEF DeleteTripRow, TripType
  <2> QED
    BY <2>2, <2>3
<1>3. ASSUME NEW d \in Day
      PROVE  ClaimPlanning(trip, d) \in TripType /\ CompletePlanning(trip, d) \in TripType
  <2>1. d + 1 \in 1..(DayCount + 1) /\ d \in 0..DayCount
    BY <1>0
  <2>2. StatusAfterPlanning(d) \in Status
    BY DEF StatusAfterPlanning, Status
  <2>3. "planning" \in Status
    BY DEF Status
  <2> QED
    BY <1>1, <2>1, <2>2, <2>3 DEF ClaimPlanning, CompletePlanning, TripType
<1>4. \A s \in Status : [trip EXCEPT !.status = s] \in TripType
  BY DEF TripType
<1>5. \A s \in Status, n \in 1..(DayCount + 1) :
        [NoClaim(trip) EXCEPT !.ndi = n, !.status = s] \in TripType
  BY <1>1 DEF TripType
<1> QED
  BY <1>1, <1>2, <1>3, <1>4, <1>5

LEMMA StagedPayload ==
  ASSUME Typed, NEW c \in Confirm, NEW d \in DOMAIN conf[c].pay
  PROVE  /\ d \in Day
         /\ conf[c].pay[d] \in Slots
         /\ [plan |-> conf[c].pay[d].plan, city |-> conf[c].pay[d].city,
             fp |-> conf[c].route] \in Staged
<1>1. conf[c].pay \in Rows(Slots) /\ conf[c].route \in Routes
  BY DEF Typed, ConfirmType
<1>2. conf[c].pay[d] \in Slots /\ d \in Day
  BY <1>1, RowsAre
<1> QED
  BY <1>1, <1>2 DEF Slots, R!Slot, Staged

LEMMA PutDayTyped ==
  ASSUME Typed, NEW c \in Confirm, NEW here, PutDay(c, here), here \in {"recover", "promote"}
  PROVE  Typed'
<1>1. PICK d \in Day : Visits(c, d) /\ days' = Put(days, d, conf[c].pay[d]) /\ Visited(c, d)
  BY DEF PutDay
<1>2. d \in DOMAIN conf[c].pay
  BY <1>1 DEF Typed, PutDay, Visits
<1>3. days' \in Rows(Slots)
  BY <1>1, <1>2, StagedPayload, PutRows DEF Typed
<1>4. Only(c) /\ TodoOK(conf'[c])
  BY <1>1, VisitShape DEF TodoOK, SameKept, Typed
<1> QED
  BY <1>3, <1>4, ConfTyped DEF PutDay, Typed, HistoryTyped

LEMMA DeleteDayTyped ==
  ASSUME Typed, NEW c \in Confirm, NEW here, DeleteDay(c, here), here \in {"trim", "drop"}
  PROVE  Typed'
<1>1. PICK d \in Day : Visits(c, d) /\ days' = Drop(days, d) /\ Visited(c, d)
  BY DEF DeleteDay
<1>2. days' \in Rows(Slots)
  BY <1>1, DropRows DEF Typed
<1>3. Only(c) /\ conf'[c].pc = conf[c].pc
  BY <1>1, VisitShape
<1>4. TodoOK(conf'[c])
  BY <1>3 DEF TodoOK, DeleteDay
<1> QED
  BY <1>2, <1>3, <1>4, ConfTyped DEF DeleteDay, Typed, HistoryTyped

LEMMA DeleteStagingTyped ==
  ASSUME Typed, NEW c \in Confirm, NEW here, DeleteStaging(c, here),
         here \in {"unstage", "clean", "sweep"}
  PROVE  Typed'
<1>1. PICK d \in Day : Visits(c, d) /\ staging' = Drop(staging, d) /\ Visited(c, d)
  BY DEF DeleteStaging
<1>2. staging' \in Rows(Staged)
  BY <1>1, DropRows DEF Typed
<1>3. Only(c) /\ conf'[c].pc = conf[c].pc
  BY <1>1, VisitShape
<1>4. TodoOK(conf'[c])
  BY <1>3 DEF TodoOK, DeleteStaging
<1> QED
  BY <1>2, <1>3, <1>4, ConfTyped DEF DeleteStaging, Typed, HistoryTyped

LEMMA QueryTyped ==
  ASSUME Typed, NEW c \in Confirm, NEW here, NEW pc, QueryStaging(c, here, pc),
         pc \in {"clean", "sweep"}
  PROVE  Typed'
<1>1. pc \in ConfirmPc /\ DOMAIN staging \in SUBSET Day
  BY RowsAre DEF ConfirmPc, Typed
<1>2. Only(c) /\ conf'[c].pc = pc
  BY <1>1, LoopShape DEF QueryStaging
<1>3. TodoOK(conf'[c])
  BY <1>2 DEF TodoOK
<1> QED
  BY <1>2, <1>3, ConfTyped DEF QueryStaging, Typed, HistoryTyped

LEMMA LoopTyped ==
  ASSUME Typed, NEW c \in Confirm, NEW here, NEW pc, NEW todo, LoopEnds(c, here, pc, todo),
         pc \in {"unstage", "trim", "drop", "promote", "query", "finish"},
         todo \subseteq Day, pc = "promote" => todo = DOMAIN conf[c].pay
  PROVE  Typed'
<1>1. pc \in ConfirmPc /\ todo \in SUBSET Day
  BY DEF ConfirmPc
<1>2. Only(c) /\ conf'[c].pc = pc /\ conf'[c].todo = todo /\ SameKept(conf'[c], conf[c])
  BY <1>1, LoopShape DEF LoopEnds
<1>3. TodoOK(conf'[c])
  BY <1>2 DEF TodoOK, SameKept
<1> QED
  BY <1>2, <1>3, ConfTyped DEF LoopEnds, Typed, HistoryTyped

\* A step that only moves on to a pc outside the loops over payloads.
LEMMA GoTyped ==
  ASSUME Typed, NEW c \in Confirm, NEW pc, Go(c, pc),
         pc \in {"unclaim", "direct", "route", "read", "unwind"},
         trip' \in TripType, UNCHANGED <<route, days, staging, work>>,
         HistoryTyped'
  PROVE  Typed'
<1>1. pc \in ConfirmPc
  BY DEF ConfirmPc
<1>2. Only(c) /\ conf'[c].pc = pc
  BY <1>1, GoShape
<1>3. TodoOK(conf'[c])
  BY <1>2 DEF TodoOK
<1> QED
  BY <1>2, <1>3, ConfTyped DEF Typed

LEMMA StopTyped ==
  ASSUME Typed, NEW c \in Confirm, Stop(c),
         trip' \in TripType, route' \in Routes, UNCHANGED <<days, staging, work>>,
         HistoryTyped'
  PROVE  Typed'
<1>1. Only(c) /\ conf'[c].pc = "idle"
  BY StopShape
<1>2. TodoOK(conf'[c])
  BY <1>1 DEF TodoOK
<1> QED
  BY <1>1, <1>2, ConfTyped DEF Typed
\* The cursor and the status that the payloads kept call for.
FinishedAt(c, n, s) ==
  /\ trip' = [NoClaim(trip) EXCEPT !.ndi = n, !.status = s]
  /\ Kept(conf[c]) = {} => n = 1 /\ s = "routing_confirmed"
  /\ Kept(conf[c]) = Day => n = DayCount + 1 /\ s = "complete"
  /\ Kept(conf[c]) \notin {{}, Day} => IsFirstMissing(n, Kept(conf[c])) /\ s = "planning"

LEMMA FinishShape ==
  ASSUME Typed, NEW c \in Confirm, Finish(c), Live
  PROVE  \E n \in 1..(DayCount + 1), s \in Status : FinishedAt(c, n, s)
<1> DEFINE K == Kept(conf[c])
<1>1. PICK n \in 1..(DayCount + 1), st \in Status :
        /\ StatusAfterDayEdit(K, conf[c].status, n, st)
        /\ trip' = [NoClaim(trip) EXCEPT
                       !.ndi = n,
                       !.status = CASE K = {} -> "routing_confirmed"
                                    [] st = "complete" -> "complete"
                                    [] OTHER -> "planning"]
  BY DEF Finish, Live, Kept
<1> DEFINE s == CASE K = {} -> "routing_confirmed"
                  [] st = "complete" -> "complete"
                  [] OTHER -> "planning"
<1>2. K \subseteq Day
  BY RowsAre DEF Typed, ConfirmType, Kept
<1>3. 1 \in Day /\ Day # {}
  BY DayCountAssumption DEF Day
<1> HIDE DEF K
<1>4. CASE K = {}
  <2>2. n = 1 /\ st # "complete"
    BY <1>1, <1>3, <1>4 DEF StatusAfterDayEdit
  <2>1. s = "routing_confirmed"
    BY <1>4, <2>2
  <2>3. s \in Status
    BY <2>1 DEF Status
  <2>4. FinishedAt(c, n, s)
    BY <1>1, <1>3, <1>4, <2>1, <2>2 DEF FinishedAt, K
  <2> QED
    BY <2>3, <2>4
<1>5. CASE K = Day
  <2>1. n = DayCount + 1 /\ st = "complete"
    BY <1>1, <1>3, <1>5 DEF StatusAfterDayEdit, IsFirstMissing
  <2>2. s = "complete"
    BY <1>3, <1>5, <2>1
  <2>3. s \in Status
    BY <2>2 DEF Status
  <2>4. FinishedAt(c, n, s)
    BY <1>1, <1>3, <1>5, <2>1, <2>2 DEF FinishedAt, K
  <2> QED
    BY <2>3, <2>4
<1>6. CASE K # {} /\ K # Day
  <2>1. IsFirstMissing(n, K) /\ st = "planning"
    BY <1>1, <1>2, <1>6 DEF StatusAfterDayEdit
  <2>2. s = "planning"
    BY <1>6, <2>1
  <2>3. s \in Status
    BY <2>2 DEF Status
  <2>4. FinishedAt(c, n, s)
    BY <1>1, <1>6, <2>1, <2>2 DEF FinishedAt, K
  <2> QED
    BY <2>3, <2>4
<1> QED
  BY <1>4, <1>5, <1>6

LEMMA ConfirmTyped ==
  ASSUME Typed, NEW c \in Confirm, ConfirmStep(c)
  PROVE  Typed'
<1>0. trip \in TripType /\ HistoryTyped
  BY DEF Typed
<1>1. CASE LoadTrip(c)
  <2>1. Only(c) /\ conf'[c].pc = "bundle"
    BY <1>1, LoadShape
  <2>2. TodoOK(conf'[c])
    BY <2>1 DEF TodoOK
  <2> QED
    BY <1>1, <2>1, <2>2, ConfTyped DEF LoadTrip, Typed, HistoryTyped
<1>2. CASE LoadBundle(c)
  <2>1. PICK pc \in {"unclaim", "direct"} : Go(c, pc)
    BY <1>2 DEF LoadBundle
  <2> QED
    BY <1>0, <1>2, <2>1, GoTyped DEF LoadBundle, HistoryTyped
<1>3. CASE Direct(c)
  <2>1. [trip EXCEPT !.status = "routing_confirmed"] \in TripType
    BY <1>0, TripWrites DEF Status
  <2>2. trip' \in TripType
    BY <1>0, <1>3, <2>1 DEF Direct
  <2>3. CASE Exists(trip)
    BY <1>0, <1>3, <2>2, <2>3, GoTyped DEF Direct, HistoryTyped
  <2>4. CASE ~Exists(trip)
    BY <1>0, <1>3, <2>2, <2>4, StopTyped DEF Direct, Typed, HistoryTyped
  <2> QED
    BY <2>3, <2>4
<1>4. CASE PutRoute(c)
  <2>1. conf[c].route \in Routes
    BY DEF Typed, ConfirmType
  <2> QED
    BY <1>0, <1>4, <2>1, StopTyped DEF PutRoute, HistoryTyped
<1>5. CASE Unclaim(c)
  <2>1. NoClaim(trip) \in TripType
    BY <1>0, TripWrites
  <2>2. trip' \in TripType
    BY <1>0, <1>5, <2>1 DEF Unclaim
  <2>3. CASE trip.status \notin {"deleting", "gone"}
    BY <1>0, <1>5, <2>2, <2>3, GoTyped DEF Unclaim, HistoryTyped, Overtakes
  <2>4. CASE trip.status \in {"deleting", "gone"}
    BY <1>0, <1>5, <2>2, <2>4, StopTyped DEF Unclaim, Typed, HistoryTyped
  <2> QED
    BY <2>3, <2>4
<1>6. CASE ReadBundle(c) /\ DOMAIN staging # {}
  <2>1. /\ Only(c)
        /\ conf'[c].pay = Payload(staging)
        /\ conf'[c].todo = DOMAIN staging
    BY <1>6, ResumeShape
  <2>2. TodoOK(conf'[c])
    BY <2>1, PayloadRows DEF TodoOK, Typed
  <2> QED
    BY <1>6, <2>1, <2>2, ConfTyped DEF ReadBundle, Typed, HistoryTyped
<1>7. CASE ReadBundle(c) /\ DOMAIN staging = {}
  <2>1. Only(c) /\ Fresh(c, days, DOMAIN days)
    BY <1>7, StartShape
  <2>2. TodoOK(conf'[c])
    BY <2>1 DEF TodoOK, Fresh
  <2> QED
    BY <1>7, <2>1, <2>2, ConfTyped DEF ReadBundle, Typed, HistoryTyped
<1>8. CASE Recover(c)
  <2>1. DOMAIN conf[c].pay \subseteq Day
    BY RowsAre DEF Typed, ConfirmType
  <2> QED
    <3>1. CASE PutDay(c, "recover")
      BY <3>1, PutDayTyped
    <3>2. CASE LoopEnds(c, "recover", "unstage", DOMAIN conf[c].pay)
      BY <2>1, <3>2, LoopTyped
    <3> QED
      BY <1>8, <3>1, <3>2 DEF Recover
<1>9. CASE Unstage(c)
  <2>1. conf[c].trim \subseteq Day
    BY DEF Typed, ConfirmType
  <2> QED
    <3>1. CASE DeleteStaging(c, "unstage")
      BY <3>1, DeleteStagingTyped
    <3>2. CASE LoopEnds(c, "unstage", "trim", conf[c].trim)
      BY <2>1, <3>2, LoopTyped
    <3> QED
      BY <1>9, <3>1, <3>2 DEF Unstage
<1>10. CASE Trim(c)
  <2>1. CASE DeleteDay(c, "trim")
    BY <2>1, DeleteDayTyped, Zenon
  <2>2. CASE TrimEnds(c)
    <3>1. Only(c) /\ TodoOK(conf'[c])
      BY <2>2, TrimShape DEF TodoOK, Fresh
    <3> QED
      BY <2>2, <3>1, ConfTyped, Zenon DEF TrimEnds, Typed, HistoryTyped
  <2> QED
    BY <1>10, <2>1, <2>2 DEF Trim
<1>11. CASE StagePut(c)
  <2>1. PICK d \in Day :
          /\ Visits(c, d)
          /\ staging' = Put(staging, d, [plan |-> conf[c].pay[d].plan,
                                         city |-> conf[c].pay[d].city, fp |-> conf[c].route])
    BY <1>11 DEF StagePut
  <2>2. d \in DOMAIN conf[c].pay
    BY <1>11, <2>1 DEF StagePut, Typed, Visits
  <2>3. staging' \in Rows(Staged)
    <3> DEFINE x == [plan |-> conf[c].pay[d].plan, city |-> conf[c].pay[d].city,
                     fp |-> conf[c].route]
    <3>1. x \in Staged
      BY <2>2, StagedPayload
    <3>2. staging \in Rows(Staged) /\ staging' = Put(staging, d, x)
      BY <2>1 DEF Typed
    <3> HIDE DEF x
    <3> QED
      BY <3>1, <3>2, PutRows
  <2>4. Only(c) /\ TodoOK(conf'[c])
    BY <1>11, GoShape DEF StagePut, TodoOK, SameKept, Typed, ConfirmPc
  <2> QED
    BY <1>11, <2>3, <2>4, ConfTyped DEF StagePut, Typed, HistoryTyped
<1>12. CASE ReadBack(c)
  <2>1. PICK d \in Day :
          /\ Visits(c, d)
          /\ conf' = IF d \in DOMAIN staging
                     THEN [conf EXCEPT ![c].pc = "stage", ![c].todo = @ \ {d}]
                     ELSE [conf EXCEPT ![c].pc = "unwind"]
    BY <1>12 DEF ReadBack
  <2>2. CASE d \in DOMAIN staging
    <3> DEFINE left == conf[c].todo \ {d}
    <3>1. conf' = [conf EXCEPT ![c].pc = "stage", ![c].todo = left]
      BY <2>1, <2>2
    <3>2. "stage" \in ConfirmPc /\ left \in SUBSET Day
      BY DEF ConfirmPc, Typed, ConfirmType
    <3>3. left \subseteq conf[c].todo
      OBVIOUS
    <3> HIDE DEF left
    <3>5. Only(c) /\ conf'[c].todo = left /\ SameKept(conf'[c], conf[c])
      BY <3>1, <3>2, LoopShape
    <3>4. TodoOK(conf'[c])
      BY <1>12, <3>3, <3>5 DEF ReadBack, TodoOK, SameKept, Typed
    <3> QED
      BY <1>12, <3>4, <3>5, ConfTyped DEF ReadBack, Typed, HistoryTyped
  <2>3. CASE d \notin DOMAIN staging
    <3>1. Go(c, "unwind")
      BY <2>1, <2>3 DEF Go
    <3> QED
      BY <1>0, <1>12, <3>1, GoTyped DEF ReadBack, HistoryTyped
  <2> QED
    BY <2>2, <2>3
<1>13. CASE LoopEnds(c, "stage", "drop", conf[c].old)
  <2>1. conf[c].old \subseteq Day
    BY DEF Typed, ConfirmType
  <2> QED
    BY <1>13, <2>1, LoopTyped
<1>14. CASE Unwind(c)
  <2>1. CASE CleanEnds(c)
    BY <1>0, <2>1, StopTyped DEF CleanEnds, Typed, HistoryTyped
  <2> QED
    BY <1>14, <2>1, QueryTyped, DeleteStagingTyped DEF Unwind
<1>15. CASE DropOld(c)
  <2>1. DOMAIN conf[c].pay \subseteq Day
    BY RowsAre DEF Typed, ConfirmType
  <2> QED
    BY <1>15, <2>1, DeleteDayTyped, LoopTyped DEF DropOld
<1>16. CASE Promote(c)
  BY <1>16, PutDayTyped, LoopTyped DEF Promote
<1>17. CASE Sweep(c)
  BY <1>17, QueryTyped, DeleteStagingTyped, LoopTyped DEF Sweep
<1>18. CASE Finish(c)
  <2>1. CASE trip.status \notin {"deleting", "gone"}
    <3>1. PICK n \in 1..(DayCount + 1), s \in Status : FinishedAt(c, n, s)
      BY <1>18, <2>1, FinishShape DEF Live
    <3>2. trip' \in TripType
      BY <1>0, <3>1, TripWrites DEF FinishedAt
    <3> QED
      BY <1>0, <1>18, <2>1, <3>2, GoTyped DEF Finish, HistoryTyped, Overtakes, FaultType
  <2>2. CASE trip.status \in {"deleting", "gone"}
    BY <1>0, <1>18, <2>2, StopTyped DEF Finish, Typed, HistoryTyped
  <2> QED
    BY <2>1, <2>2
<1> QED
  BY <1>1, <1>2, <1>3, <1>4, <1>5, <1>6, <1>7, <1>8, <1>9, <1>10, <1>11, <1>12, <1>13, <1>14,
     <1>15, <1>16, <1>17, <1>18 DEF ConfirmStep, Stage

\* What a step of a plan-day run changes of the runs.
LEMMA WorkShape ==
  ASSUME Typed, NEW w \in Worker, WorkStep(w)
  PROVE  /\ work' \in [Worker -> WorkType]
         /\ \A v \in Worker : work'[v].pc # "idle" => work'[v].day \in Day
         /\ \A v \in Worker \ {w} : work'[v] = work[v]
         /\ work'[w].pc # "idle"
<1>0. /\ work \in [Worker -> WorkType]
      /\ work[w] \in WorkType
      /\ \A v \in Worker : work[v].pc # "idle" => work[v].day \in Day
      /\ Day \subseteq 0..DayCount
  BY DayCountAssumption DEF Typed, Day
<1>1. ASSUME NEW x \in WorkType, x.pc # "idle", x.day \in Day,
             work' = [work EXCEPT ![w] = x]
      PROVE  /\ work' \in [Worker -> WorkType]
             /\ \A v \in Worker : work'[v].pc # "idle" => work'[v].day \in Day
             /\ \A v \in Worker \ {w} : work'[v] = work[v]
             /\ work'[w].pc # "idle"
  BY <1>0, <1>1
<1>2. CASE StartDay(w)
  <2>1. PICK d \in Day, pc \in {"probe", "heal"} :
          work' = [work EXCEPT ![w] = [work[w] EXCEPT !.pc = pc, !.day = d]]
    BY <1>2 DEF StartDay
  <2> DEFINE x == [work[w] EXCEPT !.pc = pc, !.day = d]
  <2>2. x \in WorkType /\ x.pc # "idle" /\ x.day \in Day
    BY <1>0 DEF WorkType
  <2>3. work' = [work EXCEPT ![w] = x]
    BY <2>1
  <2> HIDE DEF x
  <2> QED
    BY <1>1, <2>2, <2>3
<1>3. ASSUME work[w].pc # "idle",
             NEW pc \in {"probe", "done", "adopt", "claim", "prepare", "complete", "put"},
             work' = [work EXCEPT ![w].pc = pc]
      PROVE  /\ work' \in [Worker -> WorkType]
             /\ \A v \in Worker : work'[v].pc # "idle" => work'[v].day \in Day
             /\ \A v \in Worker \ {w} : work'[v] = work[v]
             /\ work'[w].pc # "idle"
  <2> DEFINE x == [work[w] EXCEPT !.pc = pc]
  <2>1. x \in WorkType /\ x.pc # "idle" /\ x.day \in Day
    BY <1>0, <1>3 DEF WorkType
  <2>2. work' = [work EXCEPT ![w] = x]
    BY <1>3
  <2> HIDE DEF x
  <2> QED
    BY <1>1, <2>1, <2>2
<1>4. CASE Prepare(w)
  <2> DEFINE x == [work[w] EXCEPT !.pc = "crew", !.city = route[work[w].day]]
  <2>1. work[w].pc # "idle" /\ route[work[w].day] \in City
    BY <1>0, <1>4, RouteReconfirmAssumption DEF Prepare, Typed
  <2>2. x \in WorkType /\ x.pc # "idle" /\ x.day \in Day
    BY <1>0, <2>1 DEF WorkType
  <2>3. work' = [work EXCEPT ![w] = x]
    BY <1>4 DEF Prepare
  <2> HIDE DEF x
  <2> QED
    BY <1>1, <2>2, <2>3
<1>5. CASE ClaimDay(w)
  <2>1. work[w].pc # "idle"
    BY <1>5 DEF ClaimDay
  <2>2. PICK pc \in {"prepare", "complete", "done"} : work' = [work EXCEPT ![w].pc = pc]
    BY <1>5 DEF ClaimDay
  <2> QED
    BY <1>3, <2>1, <2>2
<1>6. CASE HealCursor(w) \/ ProbeDay(w) \/ Recheck(w) \/ PutPlanned(w) \/ CompleteDay(w)
  <2>1. work[w].pc # "idle"
    BY <1>6 DEF HealCursor, ProbeDay, Recheck, PutPlanned, CompleteDay
  <2>2. \E pc \in {"probe", "done", "adopt", "claim", "complete", "put"} :
          work' = [work EXCEPT ![w].pc = pc]
    BY <1>6 DEF HealCursor, ProbeDay, Recheck, PutPlanned, CompleteDay
  <2> QED
    BY <1>3, <2>1, <2>2
<1> QED
  BY <1>2, <1>4, <1>5, <1>6 DEF WorkStep

LEMMA WorkTyped ==
  ASSUME Typed, NEW w \in Worker, WorkStep(w)
  PROVE  Typed'
<1>0. /\ trip \in TripType
      /\ HistoryTyped
      /\ work[w] \in WorkType
      /\ work[w].pc # "idle" => work[w].day \in Day
  BY DEF Typed
<1>1. /\ work' \in [Worker -> WorkType]
      /\ \A v \in Worker : work'[v].pc # "idle" => work'[v].day \in Day
  BY WorkShape
<1>2. UNCHANGED <<route, staging, conf, faults>>
  BY DEF WorkStep, StartDay, HealCursor, ProbeDay, ClaimDay, Prepare, Recheck, PutPlanned,
         CompleteDay
<1>3. trip' \in TripType
  <2>1. CASE HealCursor(w)
    <3>1. work[w].day \in 1..(DayCount + 1)
      BY <1>0, <2>1, DayCountAssumption DEF HealCursor, Day
    <3> QED
      BY <1>0, <2>1, <3>1 DEF HealCursor, SetNextDay, TripType
  <2>2. CASE ClaimDay(w)
    BY <1>0, <2>2, TripWrites DEF ClaimDay
  <2>3. CASE CompleteDay(w)
    BY <1>0, <2>3, TripWrites DEF CompleteDay
  <2>4. CASE UNCHANGED trip
    BY <1>0, <2>4
  <2> QED
    BY <2>1, <2>2, <2>3, <2>4 DEF WorkStep, StartDay, ProbeDay, Prepare, Recheck, PutPlanned
<1>4. days' \in Rows(Slots)
  <2>1. CASE PutPlanned(w)
    <3>1. work[w].day \in Day /\ [plan |-> w, city |-> work[w].city] \in Slots
      BY <1>0, <2>1 DEF PutPlanned, WorkType, Slots, R!Slot, Plan
    <3> QED
      BY <2>1, <3>1, PutRows DEF PutPlanned, Typed
  <2>2. CASE UNCHANGED days
    BY <2>2 DEF Typed
  <2> QED
    BY <2>1, <2>2 DEF WorkStep, StartDay, HealCursor, ProbeDay, ClaimDay, Prepare, Recheck,
                      CompleteDay
<1>5. overtaken' \subseteq Worker
  <2>1. CASE Prepare(w)
    BY <1>0, <2>1 DEF Prepare, HistoryTyped
  <2>2. CASE CompleteDay(w)
    BY <1>0, <2>2 DEF CompleteDay, Overtakes, HistoryTyped
  <2>3. CASE UNCHANGED overtaken
    BY <1>0, <2>3 DEF HistoryTyped
  <2> QED
    BY <2>1, <2>2, <2>3 DEF WorkStep, StartDay, HealCursor, ProbeDay, ClaimDay, Recheck, PutPlanned
<1>6. HistoryTyped'
  BY <1>0, <1>2, <1>5 DEF HistoryTyped
<1> QED
  BY <1>1, <1>2, <1>3, <1>4, <1>6 DEF Typed

\* Types hold at first, every step keeps them.
LEMMA InitTyped == Init => Typed
<1> SUFFICES ASSUME Init PROVE Typed
  OBVIOUS
<1>0. DayCount \in Nat \ {0} /\ Day = 1..DayCount /\ Routes \subseteq [Day -> City]
  BY DayCountAssumption, RouteReconfirmAssumption DEF Day
<1>1. route \in Routes /\ Routes # {} /\ route \in [Day -> City]
  BY <1>0 DEF Init
<1>2. PICK k \in 0..DayCount :
        /\ days = [d \in 1..k |-> [plan |-> d, city |-> route[d]]]
        /\ trip = [FreshTrip EXCEPT !.ndi = k + 1,
                    !.status = IF k = 0 THEN "routing_confirmed"
                               ELSE IF k = DayCount THEN "complete" ELSE "planning"]
  BY DEF Init
<1>3. trip \in TripType
  <2>1. k + 1 \in 1..(DayCount + 1) /\ 0 \in 0..DayCount
    BY <1>0
  <2>2. \A s \in Status : [FreshTrip EXCEPT !.ndi = k + 1, !.status = s] \in TripType
    BY <2>1 DEF FreshTrip, TripType, Status
  <2> QED
    BY <1>2, <2>2 DEF Status
<1>4. days \in Rows(Slots)
  <2>1. 1..k \subseteq Day
    BY <1>0
  <2>2. DOMAIN days = 1..k /\ \A d \in 1..k : days[d] = [plan |-> d, city |-> route[d]]
    BY <1>2
  <2>3. \A d \in DOMAIN days : days[d] \in Slots
    BY <1>1, <2>1, <2>2 DEF Slots, R!Slot, Plan
  <2>4. days = [d \in DOMAIN days |-> days[d]]
    BY <1>2
  <2> QED
    BY <2>1, <2>2, <2>3, <2>4, RowsAre
<1>5. staging \in Rows(Staged)
  BY NoRowsRows DEF Init
<1>6. /\ conf \in [Confirm -> ConfirmType]
      /\ \A c \in Confirm : conf[c].pc = "idle"
  BY <1>1, NoConfirmIs DEF Init
<1>7. /\ work \in [Worker -> WorkType]
      /\ \A w \in Worker : work[w].pc = "idle"
  <2>1. (CHOOSE x \in City : TRUE) \in City
    BY <1>0, <1>1
  <2>2. 0 \in 0..DayCount
    BY <1>0
  <2> QED
    BY <2>1, <2>2 DEF Init, WorkType
<1>8. HistoryTyped
  BY RouteReconfirmAssumption DEF Init, HistoryTyped, FaultType
<1> QED
  BY <1>1, <1>3, <1>4, <1>5, <1>6, <1>7, <1>8 DEF Typed

LEMMA StepTyped == Typed /\ [Next]_vars => Typed'
<1> SUFFICES ASSUME Typed, [Next]_vars PROVE Typed'
  OBVIOUS
<1>0. /\ trip \in TripType
      /\ HistoryTyped
      /\ MaxDeaths \in Nat
      /\ MaxFails \in Nat
  BY RouteReconfirmAssumption DEF Typed
<1>1. CASE \E c \in Confirm : ConfirmStep(c)
  BY <1>1, ConfirmTyped
<1>2. ASSUME NEW c \in Confirm, StageFails(c) PROVE Typed'
  <2>1. HistoryTyped'
    BY <1>0, <1>2 DEF StageFails, HistoryTyped, FaultType
  <2> QED
    BY <1>0, <1>2, <2>1, GoTyped DEF StageFails
<1>3. ASSUME NEW c \in Confirm, ConfirmDies(c) PROVE Typed'
  <2>1. HistoryTyped'
    <3>1. /\ faults \in FaultType
          /\ overtaken \subseteq Worker
          /\ faults.dead < MaxDeaths
          /\ faults' = [faults EXCEPT !.dead = faults.dead + 1, !.torn = TRUE]
          /\ overtaken' = overtaken
      BY <1>0, <1>3 DEF ConfirmDies, HistoryTyped
    <3>2. faults.dead \in Nat /\ faults.dead + 1 \in 0..MaxDeaths /\ faults.dead + 1 # 0
      BY <1>0, <3>1 DEF FaultType
    <3>3. faults' \in FaultType /\ faults'.dead = faults.dead + 1
      BY <3>1, <3>2 DEF FaultType
    <3> QED
      BY <3>1, <3>2, <3>3 DEF HistoryTyped
  <2> QED
    BY <1>0, <1>3, <2>1, StopTyped DEF ConfirmDies, Typed
<1>4. CASE \E w \in Worker : WorkStep(w)
  BY <1>4, WorkTyped
<1>5. CASE LockTrip
  BY <1>0, <1>5, TripWrites DEF LockTrip, Typed, HistoryTyped
<1>6. CASE RemoveTrip
  BY <1>0, <1>6, TripWrites DEF RemoveTrip, Typed, HistoryTyped
<1>7. CASE UNCHANGED vars
  BY <1>7 DEF vars, Typed, HistoryTyped
<1> QED
  BY <1>1, <1>2, <1>3, <1>4, <1>5, <1>6, <1>7 DEF Next

LEMMA AlwaysTyped == Spec => []Typed
  BY InitTyped, StepTyped, PTL DEF Spec

\* Type correctness, for every number of days, confirms and plan-day runs.
THEOREM RouteTypeCorrect == Spec => []TypeOK
<1>1. Typed => TypeOK
  <2> SUFFICES ASSUME Typed PROVE TypeOK
    OBVIOUS
  <2>1. IsRows(days, Slots) /\ IsRows(staging, Staged)
    BY RowsAre DEF Typed, IsRows
  <2>2. ASSUME NEW c \in Confirm PROVE IsConfirm(conf[c])
    BY RowsAre DEF Typed, ConfirmType, IsConfirm, IsRows
  <2> QED
    BY <2>1, <2>2 DEF Typed, TypeOK, HistoryTyped
<1> QED
  BY <1>1, AlwaysTyped, PTL
-----------------------------------------------------------------------------
(* What each call of a confirm keeps.                                      *)

\* A confirm ends: what it leaves is what the next one finds.
LEMMA StopKeeps ==
  ASSUME Typed, NEW c \in Confirm, ConfInv(conf[c]), Stop(c),
         UNCHANGED <<days, staging, work, overtaken>>,
         ~faults'.torn => ~faults.torn /\ DOMAIN staging = {},
         Live' /\ ~faults'.torn => DaysFit',
         Alone /\ MaxDeaths <= 1 => Distinct(days),
         Alone /\ Live' /\ ~Begun' => DOMAIN days = {} /\ DOMAIN staging = {}
  PROVE  ConfInv(conf[c])'
<1>1. conf'[c].pc = "idle" /\ DOMAIN conf'[c].pay = {}
  BY StopShape
<1>10. Stored(conf[c])'
  BY <1>1 DEF ConfInv, Stored, OnDays, OnStaging, Kept
<1>11. Swept(conf[c])'
  BY <1>1 DEF ConfInv, Swept, Kept
<1>12. Fits(conf[c])'
  BY <1>1 DEF ConfInv, Fits, Kept
<1>13. Quiet(conf[c])'
  BY <1>1 DEF ConfInv, Quiet, Alone, Live, Begun, Kept
<1>14. LateOnes(conf[c])'
  BY <1>1 DEF ConfInv, LateOnes, DaysFit, LateBut, Late, Live, Kept
<1>15. NoneTwice(conf[c])'
  BY <1>1 DEF ConfInv, NoneTwice, Alone, Distinct
<1> QED
  BY <1>10, <1>11, <1>12, <1>13, <1>14, <1>15 DEF ConfInv

\* No status, claim or cursor of planning: there are no rows to move.
LEMMA LoadTripKeeps ==
  ASSUME Typed, NEW c \in Confirm, ConfInv(conf[c]), LoadTrip(c)
  PROVE  ConfInv(conf[c])'
<1>1. /\ conf'[c].pc = "bundle"
      /\ DOMAIN conf'[c].pay = {}
      /\ ~conf'[c].moved => trip.pdi = 0 /\ ~Begun
  BY LoadShape
<1>2. conf[c].pc = "idle" /\ Live /\ UNCHANGED <<trip, route, days, staging, work, faults, overtaken>>
  BY DEF LoadTrip, Live
<1>3. trip.ndi \in Nat /\ trip.ndi >= 1
  BY DayCountAssumption DEF Typed, TripType
<1>10. Stored(conf[c])'
  BY <1>1, <1>2 DEF ConfInv, Stored, OnDays, OnStaging, Kept
<1>11. Swept(conf[c])'
  BY <1>1, <1>2 DEF ConfInv, Swept, Kept
<1>12. Fits(conf[c])'
  BY <1>1, <1>2 DEF ConfInv, Fits, Kept
<1>13. Quiet(conf[c])'
  BY <1>1, <1>2, <1>3 DEF ConfInv, Quiet, Alone, Live, Begun, Kept
<1>14. LateOnes(conf[c])'
  BY <1>1, <1>2 DEF ConfInv, LateOnes, DaysFit, LateBut, Late, Live, Kept
<1>15. NoneTwice(conf[c])'
  BY <1>1, <1>2 DEF ConfInv, NoneTwice, Alone, Distinct
<1> QED
  BY <1>10, <1>11, <1>12, <1>13, <1>14, <1>15 DEF ConfInv

\* The direct path is taken when there is no DAY row.
LEMMA LoadBundleKeeps ==
  ASSUME Typed, NEW c \in Confirm, ConfInv(conf[c]), LoadBundle(c)
  PROVE  ConfInv(conf[c])'
<1>1. /\ \/ conf'[c].pc = "unclaim"
         \/ conf'[c].pc = "direct" /\ DOMAIN days = {} /\ ~conf[c].moved
      /\ SameInputs(conf'[c], conf[c])
      /\ conf'[c].pay = conf[c].pay
  BY GoShape DEF LoadBundle, ConfirmPc, SameKept
<1>2. conf[c].pc = "bundle" /\ UNCHANGED <<trip, route, days, staging, work, faults, overtaken>>
  BY DEF LoadBundle
<1>10. Stored(conf[c])'
  BY <1>1, <1>2 DEF ConfInv, Stored, OnDays, OnStaging, Kept
<1>11. Swept(conf[c])'
  BY <1>1, <1>2 DEF ConfInv, Swept, Kept
<1>12. Fits(conf[c])'
  BY <1>1, <1>2 DEF ConfInv, Fits, Kept
<1>13. Quiet(conf[c])'
  BY <1>1, <1>2 DEF ConfInv, Quiet, Alone, Live, Begun, Kept
<1>14. LateOnes(conf[c])'
  BY <1>1, <1>2 DEF ConfInv, LateOnes, DaysFit, LateBut, Late, Live, Kept
<1>15. NoneTwice(conf[c])'
  BY <1>1, <1>2 DEF ConfInv, NoneTwice, Alone, Distinct
<1> QED
  BY <1>10, <1>11, <1>12, <1>13, <1>14, <1>15 DEF ConfInv

\* A trip without days is confirmed: its cursor is at day 1.
LEMMA DirectKeeps ==
  ASSUME Typed, NEW c \in Confirm, ConfInv(conf[c]), Direct(c), Exists(trip)
  PROVE  ConfInv(conf[c])'
<1>1. /\ conf'[c].pc = "route"
      /\ conf'[c].pay = conf[c].pay
  BY GoShape DEF Direct, ConfirmPc, SameKept
<1>2. /\ conf[c].pc = "direct"
      /\ UNCHANGED <<route, days, staging, work, faults, overtaken>>
  BY DEF Direct
<1>3. trip'.status = "routing_confirmed" /\ trip'.ndi = trip.ndi
  BY DEF Direct, Typed, TripType
<1>4. Day # {} /\ (DOMAIN days = {} => IsFirstMissing(1, DOMAIN days))
  BY DayCountAssumption DEF Day, IsFirstMissing
<1>10. Stored(conf[c])'
  BY <1>1, <1>2 DEF ConfInv, Stored, OnDays, OnStaging, Kept
<1>11. Swept(conf[c])'
  BY <1>1, <1>2 DEF ConfInv, Swept, Kept
<1>12. Fits(conf[c])'
  BY <1>1, <1>2 DEF ConfInv, Fits, Kept, Stored
<1>13. Quiet(conf[c])'
  BY <1>1, <1>2, <1>3, <1>4 DEF ConfInv, Quiet, Alone, Live, Begun, Kept, CursorFits, Stored
<1>14. LateOnes(conf[c])'
  BY <1>1, <1>2 DEF ConfInv, LateOnes, DaysFit, LateBut, Late, Live, Kept
<1>15. NoneTwice(conf[c])'
  BY <1>1, <1>2 DEF ConfInv, NoneTwice, Alone, Distinct
<1> QED
  BY <1>10, <1>11, <1>12, <1>13, <1>14, <1>15 DEF ConfInv

\* The claim goes; status and cursor stay.
LEMMA UnclaimKeeps ==
  ASSUME Typed, NEW c \in Confirm, ConfInv(conf[c]), Unclaim(c), Live
  PROVE  ConfInv(conf[c])'
<1>1. /\ conf'[c].pc = "read"
      /\ conf'[c].pay = conf[c].pay
  BY GoShape DEF Unclaim, ConfirmPc, SameKept, Live
<1>2. /\ conf[c].pc = "unclaim"
      /\ UNCHANGED <<route, days, staging, work, faults>>
      /\ overtaken \subseteq overtaken'
  BY DEF Unclaim, Overtakes, Live
<1>3. trip'.status = trip.status /\ trip'.ndi = trip.ndi
  BY DEF Unclaim, Typed, TripType, NoClaim, Live
<1>10. Stored(conf[c])'
  BY <1>1, <1>2, <1>3 DEF ConfInv, Stored, OnDays, OnStaging, Kept
<1>11. Swept(conf[c])'
  BY <1>1, <1>2, <1>3 DEF ConfInv, Swept, Kept
<1>12. Fits(conf[c])'
  BY <1>1, <1>2, <1>3 DEF ConfInv, Fits, Kept
<1>13. Quiet(conf[c])'
  BY <1>1, <1>2, <1>3 DEF ConfInv, Quiet, Alone, Live, Begun, Kept
<1>14. LateOnes(conf[c])'
  BY <1>1, <1>2, <1>3 DEF ConfInv, LateOnes, DaysFit, LateBut, Late, Live, Kept
<1>15. NoneTwice(conf[c])'
  BY <1>1, <1>2, <1>3 DEF ConfInv, NoneTwice, Alone, Distinct
<1> QED
  BY <1>10, <1>11, <1>12, <1>13, <1>14, <1>15 DEF ConfInv

\* What the staging rows hold becomes what is kept; a confirm has died before.
LEMMA ResumeKeeps ==
  ASSUME Typed, NEW c \in Confirm, ConfInv(conf[c]), ReadBundle(c), DOMAIN staging # {}
  PROVE  ConfInv(conf[c])'
<1>1. /\ conf'[c].pc = "recover"
      /\ conf'[c].route = conf[c].route
      /\ conf'[c].todo = DOMAIN staging
      /\ conf'[c].trim = DOMAIN days \ DOMAIN staging
      /\ conf'[c].same => \A d \in DOMAIN staging : staging[d].fp = conf[c].route
  BY ResumeShape DEF SameInputs
<1>2. conf[c].pc = "read" /\ UNCHANGED <<trip, route, days, staging, work, faults, overtaken>>
  BY DEF ReadBundle
<1>3. /\ DOMAIN conf'[c].pay = DOMAIN staging
      /\ \A d \in DOMAIN staging : /\ conf'[c].pay[d].plan = staging[d].plan
                                 /\ conf'[c].pay[d].city = staging[d].city
  BY ResumeShape, PayloadRows DEF Typed
<1>4. faults.torn
  BY <1>2 DEF ConfInv, Swept
<1>10. Stored(conf[c])'
  BY <1>1, <1>2, <1>3, <1>4 DEF ConfInv, Stored, OnDays, OnStaging, Kept
<1>11. Swept(conf[c])'
  BY <1>1, <1>2, <1>3, <1>4 DEF ConfInv, Swept, Kept
<1>12. Fits(conf[c])'
  BY <1>1, <1>2, <1>3, <1>4 DEF ConfInv, Fits, Kept
<1>13. Quiet(conf[c])'
  BY <1>1, <1>2, <1>3, <1>4 DEF ConfInv, Quiet, Alone, Live, Begun, Kept
<1>14. LateOnes(conf[c])'
  BY <1>1, <1>2, <1>3, <1>4 DEF ConfInv, LateOnes, DaysFit, LateBut, Late, Live, Kept
<1>15. NoneTwice(conf[c])'
  BY <1>1, <1>2, <1>3, <1>4 DEF ConfInv, NoneTwice, Alone, Distinct
<1> QED
  BY <1>10, <1>11, <1>12, <1>13, <1>14, <1>15 DEF ConfInv

\* The payloads are the DAY rows dealt anew onto the route of c.
LEMMA StartKeeps ==
  ASSUME Typed, NEW c \in Confirm, ConfInv(conf[c]), ReadBundle(c), DOMAIN staging = {}
  PROVE  ConfInv(conf[c])'
<1>1. Fresh(c, days, DOMAIN days)
  BY StartShape
<1>2. conf[c].pc = "read" /\ UNCHANGED <<trip, route, days, staging, work, faults, overtaken>>
  BY DEF ReadBundle
<1> DEFINE pay == Moving(c, days)
<1>3. /\ \A d \in DOMAIN pay : pay[d].city = conf[c].route[d]
      /\ DOMAIN days = {} => DOMAIN pay = {}
      /\ Distinct(days) => Distinct(pay)
  BY MovingRows DEF Typed
<1> HIDE DEF pay
<1>4. /\ conf'[c].pc = "stage"
      /\ conf'[c].route = conf[c].route
      /\ conf'[c].pay = pay
      /\ conf'[c].todo = DOMAIN pay
      /\ conf'[c].old = DOMAIN days
  BY <1>1 DEF Fresh, SameInputs, pay
<1>10. Stored(conf[c])'
  BY <1>2, <1>3, <1>4 DEF ConfInv, Stored, OnDays, OnStaging, Kept
<1>11. Swept(conf[c])'
  BY <1>2, <1>3, <1>4 DEF ConfInv, Swept, Kept
<1>12. Fits(conf[c])'
  BY <1>2, <1>3, <1>4 DEF ConfInv, Fits, Kept
<1>13. Quiet(conf[c])'
  BY <1>2, <1>3, <1>4 DEF ConfInv, Quiet, Alone, Live, Begun, Kept
<1>14. LateOnes(conf[c])'
  BY <1>2, <1>3, <1>4 DEF ConfInv, LateOnes, DaysFit, LateBut, Late, Live, Kept
<1>15. NoneTwice(conf[c])'
  BY <1>2, <1>3, <1>4 DEF ConfInv, NoneTwice, Alone, Distinct
<1> QED
  BY <1>10, <1>11, <1>12, <1>13, <1>14, <1>15 DEF ConfInv

\* A staged day is a DAY row again, and in staging still.
LEMMA RecoverPutKeeps ==
  ASSUME Typed, NEW c \in Confirm, ConfInv(conf[c]), PutDay(c, "recover")
  PROVE  ConfInv(conf[c])'
<1>1. PICK d \in Day : Visits(c, d) /\ days' = Put(days, d, conf[c].pay[d]) /\ Visited(c, d)
  BY DEF PutDay
<1>2. /\ conf[c].pc = "recover"
      /\ UNCHANGED <<trip, route, staging, work, faults, overtaken>>
  BY DEF PutDay
<1>3. d \in conf[c].todo /\ d \in DOMAIN conf[c].pay
  BY <1>1, <1>2 DEF Visits, Typed
<1>4. /\ conf'[c].pc = "recover"
      /\ conf'[c].todo = conf[c].todo \ {d}
      /\ SameInputs(conf'[c], conf[c])
      /\ SameKept(conf'[c], conf[c])
  BY <1>1, <1>2, VisitShape
<1>5. /\ DOMAIN days' = DOMAIN days \cup {d}
      /\ days'[d] = conf[c].pay[d]
      /\ \A e \in DOMAIN days : e # d => days'[e] = days[e]
  <2> DEFINE q == conf[c].pay[d]
  <2>1. days' = Put(days, d, q)
    BY <1>1
  <2> HIDE DEF q
  <2>2. /\ DOMAIN days' = DOMAIN days \cup {d}
        /\ days'[d] = q
        /\ \A e \in DOMAIN days : e # d => days'[e] = days[e]
    BY <2>1 DEF Put
  <2> QED
    BY <2>2 DEF q
<1>10. Stored(conf[c])'
  BY <1>2, <1>3, <1>4, <1>5
  DEF ConfInv, Stored, OnDays, OnStaging, Kept, SameInputs, SameKept
<1>11. Swept(conf[c])'
  BY <1>2, <1>3, <1>4, <1>5 DEF ConfInv, Swept, Kept, SameInputs, SameKept
<1>12. Fits(conf[c])'
  BY <1>2, <1>3, <1>4, <1>5 DEF ConfInv, Fits, Kept, SameInputs, SameKept
<1>13. Quiet(conf[c])'
  BY <1>2, <1>3, <1>4, <1>5
  DEF ConfInv, Quiet, Alone, Live, Begun, Kept, SameInputs, SameKept
<1>14. LateOnes(conf[c])'
  BY <1>2, <1>3, <1>4, <1>5
  DEF ConfInv, LateOnes, DaysFit, LateBut, Late, Live, Kept, Swept, SameInputs, SameKept
<1>15. NoneTwice(conf[c])'
  BY <1>2, <1>3, <1>4, <1>5 DEF ConfInv, NoneTwice, Alone, Distinct, SameInputs, SameKept
<1> QED
  BY <1>10, <1>11, <1>12, <1>13, <1>14, <1>15 DEF ConfInv

\* A staged day is a DAY row of the new route.
LEMMA PromotePutKeeps ==
  ASSUME Typed, NEW c \in Confirm, ConfInv(conf[c]), PutDay(c, "promote")
  PROVE  ConfInv(conf[c])'
<1>1. PICK d \in Day : Visits(c, d) /\ days' = Put(days, d, conf[c].pay[d]) /\ Visited(c, d)
  BY DEF PutDay
<1>2. /\ conf[c].pc = "promote"
      /\ UNCHANGED <<trip, route, staging, work, faults, overtaken>>
  BY DEF PutDay
<1>3. d \in conf[c].todo /\ d \in DOMAIN conf[c].pay
  BY <1>1, <1>2 DEF Visits, Typed
<1>4. /\ conf'[c].pc = "promote"
      /\ conf'[c].todo = conf[c].todo \ {d}
      /\ SameInputs(conf'[c], conf[c])
      /\ SameKept(conf'[c], conf[c])
  BY <1>1, <1>2, VisitShape
<1>5. /\ DOMAIN days' = DOMAIN days \cup {d}
      /\ days'[d] = conf[c].pay[d]
      /\ \A e \in DOMAIN days : e # d => days'[e] = days[e]
  <2> DEFINE q == conf[c].pay[d]
  <2>1. days' = Put(days, d, q)
    BY <1>1
  <2> HIDE DEF q
  <2>2. /\ DOMAIN days' = DOMAIN days \cup {d}
        /\ days'[d] = q
        /\ \A e \in DOMAIN days : e # d => days'[e] = days[e]
    BY <2>1 DEF Put
  <2> QED
    BY <2>2 DEF q
<1>10. Stored(conf[c])'
  BY <1>2, <1>3, <1>4, <1>5
  DEF ConfInv, Stored, OnDays, OnStaging, Kept, SameInputs, SameKept
<1>11. Swept(conf[c])'
  BY <1>2, <1>3, <1>4, <1>5 DEF ConfInv, Swept, Kept, SameInputs, SameKept
<1>12. Fits(conf[c])'
  BY <1>2, <1>3, <1>4, <1>5 DEF ConfInv, Fits, Kept, SameInputs, SameKept
<1>13. Quiet(conf[c])'
  BY <1>2, <1>3, <1>4, <1>5
  DEF ConfInv, Quiet, Alone, Live, Begun, Kept, SameInputs, SameKept
<1>14. LateOnes(conf[c])'
  BY <1>2, <1>3, <1>4, <1>5
  DEF ConfInv, LateOnes, DaysFit, LateBut, Late, Live, Kept, SameInputs, SameKept
<1>15. NoneTwice(conf[c])'
  BY <1>2, <1>3, <1>4, <1>5
  DEF ConfInv, NoneTwice, Alone, Distinct, Stored, OnDays, Quiet, Kept, SameInputs, SameKept
<1> QED
  BY <1>10, <1>11, <1>12, <1>13, <1>14, <1>15 DEF ConfInv

\* A DAY row goes that no payload needs (trim), or whose plan is staged (drop).
LEMMA DeleteDayKeeps ==
  ASSUME Typed, NEW c \in Confirm, ConfInv(conf[c]), NEW here \in {"trim", "drop"}, DeleteDay(c, here)
  PROVE  ConfInv(conf[c])'
<1>1. PICK d \in Day : Visits(c, d) /\ days' = Drop(days, d) /\ Visited(c, d)
  BY DEF DeleteDay
<1>2. /\ conf[c].pc = here
      /\ UNCHANGED <<trip, route, staging, work, faults, overtaken>>
  BY DEF DeleteDay
<1>3. d \in conf[c].todo
  BY <1>1 DEF Visits
<1>4. /\ conf'[c].pc = here
      /\ conf'[c].todo = conf[c].todo \ {d}
      /\ SameInputs(conf'[c], conf[c])
      /\ SameKept(conf'[c], conf[c])
  BY <1>1, <1>2, VisitShape
<1>5. /\ DOMAIN days' = DOMAIN days \ {d}
      /\ \A e \in DOMAIN days \ {d} : days'[e] = days[e]
  BY <1>1, DropRows DEF Typed
<1>10. Stored(conf[c])'
  BY <1>2, <1>3, <1>4, <1>5
  DEF ConfInv, Stored, OnDays, OnStaging, Kept, SameInputs, SameKept
<1>11. Swept(conf[c])'
  BY <1>2, <1>3, <1>4, <1>5 DEF ConfInv, Swept, Kept, SameInputs, SameKept
<1>12. Fits(conf[c])'
  BY <1>2, <1>3, <1>4, <1>5 DEF ConfInv, Fits, Kept, SameInputs, SameKept
<1>13. Quiet(conf[c])'
  BY <1>2, <1>3, <1>4, <1>5
  DEF ConfInv, Quiet, Alone, Live, Begun, Kept, SameInputs, SameKept
<1>14. LateOnes(conf[c])'
  BY <1>2, <1>3, <1>4, <1>5
  DEF ConfInv, LateOnes, DaysFit, LateBut, Late, Live, Kept, Swept, SameInputs, SameKept
<1>15. NoneTwice(conf[c])'
  BY <1>2, <1>3, <1>4, <1>5 DEF ConfInv, NoneTwice, Alone, Distinct, SameInputs, SameKept
<1> QED
  BY <1>10, <1>11, <1>12, <1>13, <1>14, <1>15 DEF ConfInv

\* A staging row goes once what it holds is a DAY row, or is not kept.
LEMMA DeleteStagingKeeps ==
  ASSUME Typed, NEW c \in Confirm, ConfInv(conf[c]), NEW here \in {"unstage", "clean", "sweep"},
         DeleteStaging(c, here)
  PROVE  ConfInv(conf[c])'
<1>1. PICK d \in Day : Visits(c, d) /\ staging' = Drop(staging, d) /\ Visited(c, d)
  BY DEF DeleteStaging
<1>2. /\ conf[c].pc = here
      /\ UNCHANGED <<trip, route, days, work, faults, overtaken>>
  BY DEF DeleteStaging
<1>3. d \in conf[c].todo
  BY <1>1 DEF Visits
<1>4. /\ conf'[c].pc = here
      /\ conf'[c].todo = conf[c].todo \ {d}
      /\ SameInputs(conf'[c], conf[c])
      /\ SameKept(conf'[c], conf[c])
  BY <1>1, <1>2, VisitShape
<1>5. /\ DOMAIN staging' = DOMAIN staging \ {d}
      /\ \A e \in DOMAIN staging \ {d} : staging'[e] = staging[e]
  BY <1>1, DropRows DEF Typed
<1>10. Stored(conf[c])'
  BY <1>2, <1>3, <1>4, <1>5
  DEF ConfInv, Stored, OnDays, OnStaging, Kept, SameInputs, SameKept
<1>11. Swept(conf[c])'
  BY <1>2, <1>3, <1>4, <1>5 DEF ConfInv, Swept, Kept, SameInputs, SameKept
<1>12. Fits(conf[c])'
  BY <1>2, <1>3, <1>4, <1>5 DEF ConfInv, Fits, Kept, SameInputs, SameKept
<1>13. Quiet(conf[c])'
  BY <1>2, <1>3, <1>4, <1>5
  DEF ConfInv, Quiet, Alone, Live, Begun, Kept, SameInputs, SameKept
<1>14. LateOnes(conf[c])'
  BY <1>2, <1>3, <1>4, <1>5
  DEF ConfInv, LateOnes, DaysFit, LateBut, Late, Live, Kept, Swept, SameInputs, SameKept
<1>15. NoneTwice(conf[c])'
  BY <1>2, <1>3, <1>4, <1>5 DEF ConfInv, NoneTwice, Alone, Distinct, SameInputs, SameKept
<1> QED
  BY <1>10, <1>11, <1>12, <1>13, <1>14, <1>15 DEF ConfInv

\* All staged days are DAY rows: the staging rows may go.
LEMMA RecoverEndsKeeps ==
  ASSUME Typed, NEW c \in Confirm, ConfInv(conf[c]), LoopEnds(c, "recover", "unstage", DOMAIN conf[c].pay)
  PROVE  ConfInv(conf[c])'
<1>1. /\ conf[c].pc = "recover"
      /\ conf[c].todo = {}
      /\ UNCHANGED <<trip, route, days, staging, work, faults, overtaken>>
  BY DEF LoopEnds
<1> DEFINE todo == DOMAIN conf[c].pay
<1>2. /\ "unstage" \in ConfirmPc
      /\ todo \in SUBSET Day
      /\ conf' = [conf EXCEPT ![c].pc = "unstage", ![c].todo = todo]
  BY RowsAre DEF ConfirmPc, Typed, ConfirmType, LoopEnds
<1> HIDE DEF todo
<1>3. /\ conf'[c].pc = "unstage"
      /\ conf'[c].todo = todo
      /\ SameInputs(conf'[c], conf[c])
      /\ SameKept(conf'[c], conf[c])
  BY <1>2, LoopShape
<1>10. Stored(conf[c])'
  BY <1>1, <1>3 DEF ConfInv, Stored, OnDays, OnStaging, Kept, SameInputs, SameKept, todo
<1>11. Swept(conf[c])'
  BY <1>1, <1>3 DEF ConfInv, Swept, Kept, SameInputs, SameKept, todo
<1>12. Fits(conf[c])'
  BY <1>1, <1>3 DEF ConfInv, Fits, Kept, SameInputs, SameKept, todo
<1>13. Quiet(conf[c])'
  BY <1>1, <1>3 DEF ConfInv, Quiet, Alone, Live, Begun, Kept, SameInputs, SameKept, todo
<1>14. LateOnes(conf[c])'
  BY <1>1, <1>3
  DEF ConfInv, LateOnes, DaysFit, LateBut, Late, Live, Kept, Swept, SameInputs, SameKept, todo
<1>15. NoneTwice(conf[c])'
  BY <1>1, <1>3 DEF ConfInv, NoneTwice, Alone, Distinct, SameInputs, SameKept, todo
<1> QED
  BY <1>10, <1>11, <1>12, <1>13, <1>14, <1>15 DEF ConfInv

\* No staging row is left: the other DAY rows may go.
LEMMA UnstageEndsKeeps ==
  ASSUME Typed, NEW c \in Confirm, ConfInv(conf[c]), LoopEnds(c, "unstage", "trim", conf[c].trim)
  PROVE  ConfInv(conf[c])'
<1>1. /\ conf[c].pc = "unstage"
      /\ conf[c].todo = {}
      /\ UNCHANGED <<trip, route, days, staging, work, faults, overtaken>>
  BY DEF LoopEnds
<1> DEFINE todo == conf[c].trim
<1>2. /\ "trim" \in ConfirmPc
      /\ todo \in SUBSET Day
      /\ conf' = [conf EXCEPT ![c].pc = "trim", ![c].todo = todo]
  BY RowsAre DEF ConfirmPc, Typed, ConfirmType, LoopEnds
<1> HIDE DEF todo
<1>3. /\ conf'[c].pc = "trim"
      /\ conf'[c].todo = todo
      /\ SameInputs(conf'[c], conf[c])
      /\ SameKept(conf'[c], conf[c])
  BY <1>2, LoopShape
<1>10. Stored(conf[c])'
  BY <1>1, <1>3 DEF ConfInv, Stored, OnDays, OnStaging, Kept, SameInputs, SameKept, todo
<1>11. Swept(conf[c])'
  BY <1>1, <1>3 DEF ConfInv, Swept, Kept, SameInputs, SameKept, todo
<1>12. Fits(conf[c])'
  BY <1>1, <1>3 DEF ConfInv, Fits, Kept, SameInputs, SameKept, todo
<1>13. Quiet(conf[c])'
  BY <1>1, <1>3 DEF ConfInv, Quiet, Alone, Live, Begun, Kept, SameInputs, SameKept, todo
<1>14. LateOnes(conf[c])'
  BY <1>1, <1>3
  DEF ConfInv, LateOnes, DaysFit, LateBut, Late, Live, Kept, Swept, SameInputs, SameKept, todo
<1>15. NoneTwice(conf[c])'
  BY <1>1, <1>3 DEF ConfInv, NoneTwice, Alone, Distinct, SameInputs, SameKept, todo
<1> QED
  BY <1>10, <1>11, <1>12, <1>13, <1>14, <1>15 DEF ConfInv

\* All payloads are staged: the old DAY rows may go.
LEMMA StageEndsKeeps ==
  ASSUME Typed, NEW c \in Confirm, ConfInv(conf[c]), LoopEnds(c, "stage", "drop", conf[c].old)
  PROVE  ConfInv(conf[c])'
<1>1. /\ conf[c].pc = "stage"
      /\ conf[c].todo = {}
      /\ UNCHANGED <<trip, route, days, staging, work, faults, overtaken>>
  BY DEF LoopEnds
<1> DEFINE todo == conf[c].old
<1>2. /\ "drop" \in ConfirmPc
      /\ todo \in SUBSET Day
      /\ conf' = [conf EXCEPT ![c].pc = "drop", ![c].todo = todo]
  BY RowsAre DEF ConfirmPc, Typed, ConfirmType, LoopEnds
<1> HIDE DEF todo
<1>3. /\ conf'[c].pc = "drop"
      /\ conf'[c].todo = todo
      /\ SameInputs(conf'[c], conf[c])
      /\ SameKept(conf'[c], conf[c])
  BY <1>2, LoopShape
<1>10. Stored(conf[c])'
  BY <1>1, <1>3 DEF ConfInv, Stored, OnDays, OnStaging, Kept, SameInputs, SameKept, todo
<1>11. Swept(conf[c])'
  BY <1>1, <1>3 DEF ConfInv, Swept, Kept, SameInputs, SameKept, todo
<1>12. Fits(conf[c])'
  BY <1>1, <1>3 DEF ConfInv, Fits, Kept, SameInputs, SameKept, todo
<1>13. Quiet(conf[c])'
  BY <1>1, <1>3 DEF ConfInv, Quiet, Alone, Live, Begun, Kept, SameInputs, SameKept, todo
<1>14. LateOnes(conf[c])'
  BY <1>1, <1>3
  DEF ConfInv, LateOnes, DaysFit, LateBut, Late, Live, Kept, Swept, SameInputs, SameKept, todo
<1>15. NoneTwice(conf[c])'
  BY <1>1, <1>3 DEF ConfInv, NoneTwice, Alone, Distinct, SameInputs, SameKept, todo
<1> QED
  BY <1>10, <1>11, <1>12, <1>13, <1>14, <1>15 DEF ConfInv

\* The old DAY rows are gone: the payloads may be promoted.
LEMMA DropEndsKeeps ==
  ASSUME Typed, NEW c \in Confirm, ConfInv(conf[c]), LoopEnds(c, "drop", "promote", DOMAIN conf[c].pay)
  PROVE  ConfInv(conf[c])'
<1>1. /\ conf[c].pc = "drop"
      /\ conf[c].todo = {}
      /\ UNCHANGED <<trip, route, days, staging, work, faults, overtaken>>
  BY DEF LoopEnds
<1> DEFINE todo == DOMAIN conf[c].pay
<1>2. /\ "promote" \in ConfirmPc
      /\ todo \in SUBSET Day
      /\ conf' = [conf EXCEPT ![c].pc = "promote", ![c].todo = todo]
  BY RowsAre DEF ConfirmPc, Typed, ConfirmType, LoopEnds
<1> HIDE DEF todo
<1>3. /\ conf'[c].pc = "promote"
      /\ conf'[c].todo = todo
      /\ SameInputs(conf'[c], conf[c])
      /\ SameKept(conf'[c], conf[c])
  BY <1>2, LoopShape
<1>10. Stored(conf[c])'
  BY <1>1, <1>3 DEF ConfInv, Stored, OnDays, OnStaging, Kept, SameInputs, SameKept, todo
<1>11. Swept(conf[c])'
  BY <1>1, <1>3 DEF ConfInv, Swept, Kept, SameInputs, SameKept, todo
<1>12. Fits(conf[c])'
  BY <1>1, <1>3 DEF ConfInv, Fits, Kept, SameInputs, SameKept, todo
<1>13. Quiet(conf[c])'
  BY <1>1, <1>3 DEF ConfInv, Quiet, Alone, Live, Begun, Kept, SameInputs, SameKept, todo
<1>14. LateOnes(conf[c])'
  BY <1>1, <1>3
  DEF ConfInv, LateOnes, DaysFit, LateBut, Late, Live, Kept, Swept, SameInputs, SameKept, todo
<1>15. NoneTwice(conf[c])'
  BY <1>1, <1>3 DEF ConfInv, NoneTwice, Alone, Distinct, SameInputs, SameKept, todo
<1> QED
  BY <1>10, <1>11, <1>12, <1>13, <1>14, <1>15 DEF ConfInv

\* Every payload is a DAY row.
LEMMA PromoteEndsKeeps ==
  ASSUME Typed, NEW c \in Confirm, ConfInv(conf[c]), LoopEnds(c, "promote", "query", {})
  PROVE  ConfInv(conf[c])'
<1>1. /\ conf[c].pc = "promote"
      /\ conf[c].todo = {}
      /\ UNCHANGED <<trip, route, days, staging, work, faults, overtaken>>
  BY DEF LoopEnds
<1> DEFINE todo == {}
<1>2. /\ "query" \in ConfirmPc
      /\ todo \in SUBSET Day
      /\ conf' = [conf EXCEPT ![c].pc = "query", ![c].todo = todo]
  BY RowsAre DEF ConfirmPc, Typed, ConfirmType, LoopEnds
<1> HIDE DEF todo
<1>3. /\ conf'[c].pc = "query"
      /\ conf'[c].todo = todo
      /\ SameInputs(conf'[c], conf[c])
      /\ SameKept(conf'[c], conf[c])
  BY <1>2, LoopShape
<1>10. Stored(conf[c])'
  BY <1>1, <1>3 DEF ConfInv, Stored, OnDays, OnStaging, Kept, SameInputs, SameKept, todo
<1>11. Swept(conf[c])'
  BY <1>1, <1>3 DEF ConfInv, Swept, Kept, SameInputs, SameKept, todo
<1>12. Fits(conf[c])'
  BY <1>1, <1>3 DEF ConfInv, Fits, Kept, SameInputs, SameKept, todo
<1>13. Quiet(conf[c])'
  BY <1>1, <1>3 DEF ConfInv, Quiet, Alone, Live, Begun, Kept, SameInputs, SameKept, todo
<1>14. LateOnes(conf[c])'
  BY <1>1, <1>3
  DEF ConfInv, LateOnes, DaysFit, LateBut, Late, Live, Kept, Swept, SameInputs, SameKept, todo
<1>15. NoneTwice(conf[c])'
  BY <1>1, <1>3 DEF ConfInv, NoneTwice, Alone, Distinct, SameInputs, SameKept, todo
<1> QED
  BY <1>10, <1>11, <1>12, <1>13, <1>14, <1>15 DEF ConfInv

\* No staging row is left.
LEMMA SweepEndsKeeps ==
  ASSUME Typed, NEW c \in Confirm, ConfInv(conf[c]), LoopEnds(c, "sweep", "finish", {})
  PROVE  ConfInv(conf[c])'
<1>1. /\ conf[c].pc = "sweep"
      /\ conf[c].todo = {}
      /\ UNCHANGED <<trip, route, days, staging, work, faults, overtaken>>
  BY DEF LoopEnds
<1> DEFINE todo == {}
<1>2. /\ "finish" \in ConfirmPc
      /\ todo \in SUBSET Day
      /\ conf' = [conf EXCEPT ![c].pc = "finish", ![c].todo = todo]
  BY RowsAre DEF ConfirmPc, Typed, ConfirmType, LoopEnds
<1> HIDE DEF todo
<1>3. /\ conf'[c].pc = "finish"
      /\ conf'[c].todo = todo
      /\ SameInputs(conf'[c], conf[c])
      /\ SameKept(conf'[c], conf[c])
  BY <1>2, LoopShape
<1>10. Stored(conf[c])'
  BY <1>1, <1>3 DEF ConfInv, Stored, OnDays, OnStaging, Kept, SameInputs, SameKept, todo
<1>11. Swept(conf[c])'
  BY <1>1, <1>3 DEF ConfInv, Swept, Kept, SameInputs, SameKept, todo
<1>12. Fits(conf[c])'
  BY <1>1, <1>3 DEF ConfInv, Fits, Kept, SameInputs, SameKept, todo
<1>13. Quiet(conf[c])'
  BY <1>1, <1>3 DEF ConfInv, Quiet, Alone, Live, Begun, Kept, SameInputs, SameKept, todo
<1>14. LateOnes(conf[c])'
  BY <1>1, <1>3
  DEF ConfInv, LateOnes, DaysFit, LateBut, Late, Live, Kept, Swept, SameInputs, SameKept, todo
<1>15. NoneTwice(conf[c])'
  BY <1>1, <1>3 DEF ConfInv, NoneTwice, Alone, Distinct, SameInputs, SameKept, todo
<1> QED
  BY <1>10, <1>11, <1>12, <1>13, <1>14, <1>15 DEF ConfInv

\* The staging rows to delete are those there are.
LEMMA QueryKeeps ==
  ASSUME Typed, NEW c \in Confirm, ConfInv(conf[c]), NEW here, NEW pc, QueryStaging(c, here, pc),
         (here = "unwind" /\ pc = "clean") \/ (here = "query" /\ pc = "sweep")
  PROVE  ConfInv(conf[c])'
<1>1. /\ conf[c].pc = here
      /\ UNCHANGED <<trip, route, days, staging, work, faults, overtaken>>
  BY DEF QueryStaging
<1>2. pc \in ConfirmPc /\ DOMAIN staging \in SUBSET Day
  BY RowsAre DEF ConfirmPc, Typed
<1>3. /\ conf'[c].pc = pc
      /\ conf'[c].todo = DOMAIN staging
      /\ SameInputs(conf'[c], conf[c])
      /\ SameKept(conf'[c], conf[c])
  BY <1>2, LoopShape DEF QueryStaging
<1>10. Stored(conf[c])'
  BY <1>1, <1>3 DEF ConfInv, Stored, OnDays, OnStaging, Kept, SameInputs, SameKept
<1>11. Swept(conf[c])'
  BY <1>1, <1>3 DEF ConfInv, Swept, Kept, SameInputs, SameKept
<1>12. Fits(conf[c])'
  BY <1>1, <1>3 DEF ConfInv, Fits, Kept, SameInputs, SameKept
<1>13. Quiet(conf[c])'
  BY <1>1, <1>3 DEF ConfInv, Quiet, Alone, Live, Begun, Kept, SameInputs, SameKept
<1>14. LateOnes(conf[c])'
  BY <1>1, <1>3
  DEF ConfInv, LateOnes, DaysFit, LateBut, Late, Live, Kept, SameInputs, SameKept
<1>15. NoneTwice(conf[c])'
  BY <1>1, <1>3 DEF ConfInv, NoneTwice, Alone, Distinct, SameInputs, SameKept
<1> QED
  BY <1>10, <1>11, <1>12, <1>13, <1>14, <1>15 DEF ConfInv

\* Resumed for the route it was staged for: the payloads are the result.
LEMMA TrimEndsSameKeeps ==
  ASSUME Typed, NEW c \in Confirm, ConfInv(conf[c]), TrimEnds(c), conf[c].same
  PROVE  ConfInv(conf[c])'
<1>1. /\ conf'[c].pc = "finish"
      /\ conf'[c].route = conf[c].route
      /\ conf'[c].pay = conf[c].pay
  BY TrimShape DEF SameInputs
<1>2. /\ conf[c].pc = "trim"
      /\ conf[c].todo = {}
      /\ UNCHANGED <<trip, route, days, staging, work, faults, overtaken>>
  BY DEF TrimEnds
<1>10. Stored(conf[c])'
  BY <1>1, <1>2 DEF ConfInv, Stored, OnDays, OnStaging, Kept
<1>11. Swept(conf[c])'
  BY <1>1, <1>2 DEF ConfInv, Swept, Kept
<1>12. Fits(conf[c])'
  BY <1>1, <1>2 DEF ConfInv, Fits, Kept
<1>13. Quiet(conf[c])'
  BY <1>1, <1>2 DEF ConfInv, Quiet, Alone, Live, Begun, Kept
<1>14. LateOnes(conf[c])'
  BY <1>1, <1>2 DEF ConfInv, LateOnes, DaysFit, LateBut, Late, Live, Kept, Swept
<1>15. NoneTwice(conf[c])'
  BY <1>1, <1>2 DEF ConfInv, NoneTwice, Alone, Distinct, Stored, OnDays, Quiet, Kept
<1> QED
  BY <1>10, <1>11, <1>12, <1>13, <1>14, <1>15 DEF ConfInv

\* Resumed for another route: what was recovered is dealt anew.
LEMMA TrimEndsKeeps ==
  ASSUME Typed, NEW c \in Confirm, ConfInv(conf[c]), TrimEnds(c), ~conf[c].same
  PROVE  ConfInv(conf[c])'
<1>1. Fresh(c, conf[c].pay, DOMAIN conf[c].pay)
  BY TrimShape
<1>2. /\ conf[c].pc = "trim"
      /\ conf[c].todo = {}
      /\ UNCHANGED <<trip, route, days, staging, work, faults, overtaken>>
  BY DEF TrimEnds
<1> DEFINE pay == Moving(c, conf[c].pay)
<1>3. /\ \A d \in DOMAIN pay : pay[d].city = conf[c].route[d]
      /\ DOMAIN conf[c].pay = {} => DOMAIN pay = {}
      /\ Distinct(conf[c].pay) => Distinct(pay)
  BY MovingRows DEF Typed, ConfirmType
<1> HIDE DEF pay
<1>4. /\ conf'[c].pc = "stage"
      /\ conf'[c].route = conf[c].route
      /\ conf'[c].pay = pay
      /\ conf'[c].todo = DOMAIN pay
      /\ conf'[c].old = DOMAIN conf[c].pay
  BY <1>1 DEF Fresh, SameInputs, pay
<1>10. Stored(conf[c])'
  BY <1>2, <1>3, <1>4 DEF ConfInv, Stored, OnDays, OnStaging, Kept
<1>11. Swept(conf[c])'
  BY <1>2, <1>3, <1>4 DEF ConfInv, Swept, Kept
<1>12. Fits(conf[c])'
  BY <1>2, <1>3, <1>4 DEF ConfInv, Fits, Kept
<1>13. Quiet(conf[c])'
  BY <1>2, <1>3, <1>4 DEF ConfInv, Quiet, Alone, Live, Begun, Kept
<1>14. LateOnes(conf[c])'
  BY <1>2, <1>3, <1>4 DEF ConfInv, LateOnes, DaysFit, LateBut, Late, Live, Kept, Swept
<1>15. NoneTwice(conf[c])'
  BY <1>2, <1>3, <1>4 DEF ConfInv, NoneTwice, Alone, Distinct, Stored, OnDays, Quiet, Kept
<1> QED
  BY <1>10, <1>11, <1>12, <1>13, <1>14, <1>15 DEF ConfInv

\* A payload is staged, under the route of c.
LEMMA StagePutKeeps ==
  ASSUME Typed, NEW c \in Confirm, ConfInv(conf[c]), StagePut(c)
  PROVE  ConfInv(conf[c])'
<1>1. PICK d \in Day :
        /\ Visits(c, d)
        /\ staging' = Put(staging, d, [plan |-> conf[c].pay[d].plan,
                                       city |-> conf[c].pay[d].city, fp |-> conf[c].route])
  BY DEF StagePut
<1>2. conf[c].pc = "stage" /\ UNCHANGED <<trip, route, days, work, faults, overtaken>>
  BY DEF StagePut
<1>3. /\ d \in conf[c].todo
      /\ \A e \in conf[c].todo : d <= e
      /\ d \in DOMAIN conf[c].pay
  BY <1>1, <1>2 DEF Visits, Typed
<1>4. /\ conf'[c].pc = "readback"
      /\ conf'[c].todo = conf[c].todo
      /\ SameInputs(conf'[c], conf[c])
      /\ SameKept(conf'[c], conf[c])
  BY GoShape DEF StagePut, ConfirmPc
<1>5. /\ DOMAIN staging' = DOMAIN staging \cup {d}
      /\ staging'[d].plan = conf[c].pay[d].plan
      /\ staging'[d].city = conf[c].pay[d].city
      /\ staging'[d].fp = conf[c].route
      /\ \A e \in DOMAIN staging : e # d => staging'[e] = staging[e]
  <2> DEFINE q == [plan |-> conf[c].pay[d].plan, city |-> conf[c].pay[d].city,
                   fp |-> conf[c].route]
  <2>1. staging' = Put(staging, d, q)
    BY <1>1
  <2>2. /\ q.plan = conf[c].pay[d].plan
        /\ q.city = conf[c].pay[d].city
        /\ q.fp = conf[c].route
    OBVIOUS
  <2> HIDE DEF q
  <2>3. /\ DOMAIN staging' = DOMAIN staging \cup {d}
        /\ staging'[d] = q
        /\ \A e \in DOMAIN staging : e # d => staging'[e] = staging[e]
    BY <2>1 DEF Put
  <2> QED
    BY <2>2, <2>3
<1>6. conf[c].todo \subseteq Nat
  BY DayCountAssumption DEF Typed, ConfirmType, Day
<1>10. Stored(conf[c])'
  BY <1>2, <1>3, <1>4, <1>5, <1>6
  DEF ConfInv, Stored, OnDays, OnStaging, Kept, SameInputs, SameKept
<1>11. Swept(conf[c])'
  BY <1>2, <1>3, <1>4, <1>5 DEF ConfInv, Swept, Kept, SameInputs, SameKept
<1>12. Fits(conf[c])'
  BY <1>2, <1>3, <1>4, <1>5 DEF ConfInv, Fits, Kept, SameInputs, SameKept
<1>13. Quiet(conf[c])'
  BY <1>2, <1>3, <1>4, <1>5
  DEF ConfInv, Quiet, Alone, Live, Begun, Kept, SameInputs, SameKept
<1>14. LateOnes(conf[c])'
  BY <1>2, <1>3, <1>4, <1>5
  DEF ConfInv, LateOnes, DaysFit, LateBut, Late, Live, Kept, SameInputs, SameKept
<1>15. NoneTwice(conf[c])'
  BY <1>2, <1>3, <1>4, <1>5
  DEF ConfInv, NoneTwice, Alone, Distinct, Swept, Kept, SameInputs, SameKept
<1> QED
  BY <1>10, <1>11, <1>12, <1>13, <1>14, <1>15 DEF ConfInv

\* A row just put is read back: only another confirm could have taken it.
LEMMA ReadBackKeeps ==
  ASSUME Typed, NEW c \in Confirm, ConfInv(conf[c]), ReadBack(c)
  PROVE  ConfInv(conf[c])'
<1>1. PICK d \in Day :
        /\ Visits(c, d)
        /\ conf' = IF d \in DOMAIN staging
                   THEN [conf EXCEPT ![c].pc = "stage", ![c].todo = @ \ {d}]
                   ELSE [conf EXCEPT ![c].pc = "unwind"]
  BY DEF ReadBack
<1>2. conf[c].pc = "readback" /\ UNCHANGED <<trip, route, days, staging, work, faults, overtaken>>
  BY DEF ReadBack
<1>3. d \in conf[c].todo /\ (\A e \in conf[c].todo : d <= e)
  BY <1>1 DEF Visits
<1>4. d \in DOMAIN staging /\ staging[d].plan = conf[c].pay[d].plan
  BY <1>2, <1>3 DEF ConfInv, Stored, OnStaging
<1> DEFINE left == conf[c].todo \ {d}
<1>5. conf' = [conf EXCEPT ![c].pc = "stage", ![c].todo = left]
  BY <1>1, <1>4
<1>6. "stage" \in ConfirmPc /\ left \in SUBSET Day
  BY DEF ConfirmPc, Typed, ConfirmType
<1> HIDE DEF left
<1>7. /\ conf'[c].pc = "stage"
      /\ conf'[c].todo = left
      /\ SameInputs(conf'[c], conf[c])
      /\ SameKept(conf'[c], conf[c])
  BY <1>5, <1>6, LoopShape
<1>10. Stored(conf[c])'
  BY <1>2, <1>4, <1>7
  DEF ConfInv, Stored, OnDays, OnStaging, Kept, SameInputs, SameKept, left
<1>11. Swept(conf[c])'
  BY <1>2, <1>4, <1>7 DEF ConfInv, Swept, Kept, SameInputs, SameKept, left
<1>12. Fits(conf[c])'
  BY <1>2, <1>4, <1>7 DEF ConfInv, Fits, Kept, SameInputs, SameKept, left
<1>13. Quiet(conf[c])'
  BY <1>2, <1>4, <1>7
  DEF ConfInv, Quiet, Alone, Live, Begun, Kept, SameInputs, SameKept, left
<1>14. LateOnes(conf[c])'
  BY <1>2, <1>4, <1>7
  DEF ConfInv, LateOnes, DaysFit, LateBut, Late, Live, Kept, SameInputs, SameKept, left
<1>15. NoneTwice(conf[c])'
  BY <1>2, <1>4, <1>7 DEF ConfInv, NoneTwice, Alone, Distinct, SameInputs, SameKept, left
<1> QED
  BY <1>10, <1>11, <1>12, <1>13, <1>14, <1>15 DEF ConfInv

\* A call raises while staging: the old DAY rows are all there.
LEMMA StageFailsKeeps ==
  ASSUME Typed, NEW c \in Confirm, ConfInv(conf[c]), StageFails(c)
  PROVE  ConfInv(conf[c])'
<1>1. /\ conf[c].pc \in {"stage", "readback"}
      /\ faults'.torn = faults.torn
      /\ UNCHANGED <<trip, route, days, staging, work, overtaken>>
  BY DEF StageFails, Typed, HistoryTyped, FaultType
<1>2. /\ conf'[c].pc = "unwind"
      /\ SameInputs(conf'[c], conf[c])
      /\ SameKept(conf'[c], conf[c])
  BY GoShape DEF StageFails, ConfirmPc
<1>10. Stored(conf[c])'
  BY <1>1, <1>2 DEF ConfInv, Stored, OnDays, OnStaging, Kept, SameInputs, SameKept
<1>11. Swept(conf[c])'
  BY <1>1, <1>2 DEF ConfInv, Swept, Kept, SameInputs, SameKept
<1>12. Fits(conf[c])'
  BY <1>1, <1>2 DEF ConfInv, Fits, Kept, SameInputs, SameKept
<1>13. Quiet(conf[c])'
  BY <1>1, <1>2 DEF ConfInv, Quiet, Alone, Live, Begun, Kept, SameInputs, SameKept
<1>14. LateOnes(conf[c])'
  BY <1>1, <1>2
  DEF ConfInv, LateOnes, DaysFit, LateBut, Late, Live, Kept, SameInputs, SameKept
<1>15. NoneTwice(conf[c])'
  BY <1>1, <1>2 DEF ConfInv, NoneTwice, Alone, Distinct, SameInputs, SameKept
<1> QED
  BY <1>10, <1>11, <1>12, <1>13, <1>14, <1>15 DEF ConfInv

\* Cursor and status of the days kept: of all DAY rows, when c was alone.
LEMMA FinishKeeps ==
  ASSUME Typed, NEW c \in Confirm, ConfInv(conf[c]), Finish(c), Live
  PROVE  ConfInv(conf[c])'
<1>1. PICK n \in 1..(DayCount + 1), s \in Status : FinishedAt(c, n, s)
  BY FinishShape
<1>2. /\ conf[c].pc = "finish"
      /\ UNCHANGED <<route, days, staging, work>>
      /\ overtaken \subseteq overtaken'
  BY DEF Finish, Overtakes, Live
<1>3. /\ conf'[c].pc = "route"
      /\ SameInputs(conf'[c], conf[c])
      /\ SameKept(conf'[c], conf[c])
  BY GoShape DEF Finish, ConfirmPc, Live
<1>4. trip'.ndi = n /\ trip'.status = s
  BY <1>1 DEF FinishedAt, NoClaim, Typed, TripType
<1>5. Alone => DOMAIN days = Kept(conf[c])
  BY <1>2 DEF ConfInv, Stored, OnDays, Quiet
<1>6. /\ Kept(conf[c]) = {} => IsFirstMissing(1, {})
      /\ Day # {}
      /\ DayCount + 1 > 1
      /\ n \in Nat
  BY DayCountAssumption DEF IsFirstMissing, Day
<1> DEFINE K == Kept(conf[c])
<1>7. ASSUME Alone PROVE CursorFits'
  <2>1. DOMAIN days' = K
    BY <1>2, <1>5, <1>7
  <2> HIDE DEF K
  <2>2. CASE K = {}
    BY <1>1, <1>4, <1>6, <2>1, <2>2 DEF FinishedAt, CursorFits, K
  <2>3. CASE K = Day
    BY <1>1, <1>4, <1>6, <2>1, <2>3 DEF FinishedAt, CursorFits, K
  <2>4. CASE K \notin {{}, Day}
    BY <1>1, <1>4, <2>1, <2>4 DEF FinishedAt, CursorFits, K
  <2> QED
    BY <2>2, <2>3, <2>4
<1>8. ~Begun' => K = {}
  <2> HIDE DEF K
  <2>1. CASE K # {}
    BY <1>1, <1>4, <2>1 DEF FinishedAt, Begun, K
  <2> QED
    BY <2>1
<1>10. Stored(conf[c])'
  BY <1>2, <1>3 DEF ConfInv, Stored, OnDays, OnStaging, Kept, SameInputs, SameKept
<1>11. Swept(conf[c])'
  BY <1>2, <1>3 DEF ConfInv, Swept, Kept, SameInputs, SameKept
<1>12. Fits(conf[c])'
  BY <1>2, <1>3 DEF ConfInv, Fits, Kept, SameInputs, SameKept
<1>13. Quiet(conf[c])'
  BY <1>2, <1>3, <1>5, <1>7, <1>8
  DEF ConfInv, Quiet, Alone, Live, Begun, Kept, Swept, SameInputs, SameKept
<1>14. LateOnes(conf[c])'
  BY <1>2, <1>3, <1>4
  DEF ConfInv, LateOnes, DaysFit, LateBut, Late, Live, Kept, SameInputs, SameKept
<1>15. NoneTwice(conf[c])'
  BY <1>2, <1>3 DEF ConfInv, NoneTwice, Alone, Distinct, SameInputs, SameKept
<1> QED
  BY <1>10, <1>11, <1>12, <1>13, <1>14, <1>15 DEF ConfInv

-----------------------------------------------------------------------------
(* What each step keeps.                                                   *)

\* Every step of a confirm keeps what the invariant says of it.
LEMMA ConfirmStepKeeps ==
  ASSUME Typed, NEW c \in Confirm, ConfInv(conf[c]), ConfirmStep(c)
  PROVE  ConfInv(conf[c])'
<1>1. CASE LoadTrip(c)
  BY <1>1, LoadTripKeeps
<1>2. CASE LoadBundle(c)
  BY <1>2, LoadBundleKeeps
<1>3. CASE Direct(c) /\ Exists(trip)
  BY <1>3, DirectKeeps
<1>4. CASE Direct(c) /\ ~Exists(trip)
  <2>1. conf[c].pc = "direct" /\ Stop(c) /\ UNCHANGED <<trip, route, days, staging, work, faults, overtaken>>
    BY <1>4 DEF Direct
  <2>2. ~Live'
    BY <1>4, <2>1 DEF Exists, Live
  <2> QED
    BY <2>1, <2>2, StopKeeps DEF ConfInv, Swept, NoneTwice
<1>5. CASE PutRoute(c)
  <2>1. /\ conf[c].pc = "route"
        /\ Stop(c)
        /\ route' = conf[c].route
        /\ UNCHANGED <<trip, days, staging, work, faults, overtaken>>
    BY <1>5 DEF PutRoute
  <2>2. ~faults.torn => DaysFit'
    BY <2>1 DEF ConfInv, LateOnes, LateBut, Late, Stored, OnDays, Fits, DaysFit, Kept
  <2>3. Alone /\ Live' /\ ~Begun' => DOMAIN days = {} /\ DOMAIN staging = {}
    BY <2>1 DEF ConfInv, Quiet, Live, Begun
  <2> QED
    BY <2>1, <2>2, <2>3, StopKeeps DEF ConfInv, Swept, NoneTwice
<1>6. CASE Unclaim(c) /\ Live
  BY <1>6, UnclaimKeeps
<1>7. CASE Unclaim(c) /\ ~Live
  <2>1. conf[c].pc = "unclaim" /\ Stop(c) /\ UNCHANGED <<trip, route, days, staging, work, faults, overtaken>>
    BY <1>7 DEF Unclaim, Live
  <2>2. ~Live'
    BY <1>7, <2>1 DEF Live
  <2> QED
    BY <2>1, <2>2, StopKeeps DEF ConfInv, Swept, NoneTwice
<1>8. CASE ReadBundle(c)
  BY <1>8, ResumeKeeps, StartKeeps
<1>9. CASE Recover(c)
  BY <1>9, RecoverPutKeeps, RecoverEndsKeeps DEF Recover
<1>10. CASE Unstage(c)
  BY <1>10, DeleteStagingKeeps, UnstageEndsKeeps DEF Unstage
<1>11. CASE Trim(c)
  BY <1>11, DeleteDayKeeps, TrimEndsSameKeeps, TrimEndsKeeps DEF Trim
<1>12. CASE Stage(c)
  BY <1>12, StagePutKeeps, ReadBackKeeps, StageEndsKeeps DEF Stage
<1>13. CASE CleanEnds(c)
  <2>1. /\ conf[c].pc = "clean"
        /\ conf[c].todo = {}
        /\ Stop(c)
        /\ UNCHANGED <<trip, route, days, staging, work, faults, overtaken>>
    BY <1>13 DEF CleanEnds
  <2>2. ~faults.torn => DaysFit'
    BY <2>1 DEF ConfInv, LateOnes, DaysFit, Late
  <2>3. Alone /\ Live' /\ ~Begun' => DOMAIN days = {} /\ DOMAIN staging = {}
    BY <2>1 DEF ConfInv, Quiet, Live, Begun
  <2>4. DOMAIN staging = {}
    BY <2>1 DEF ConfInv, Swept
  <2> QED
    BY <2>1, <2>2, <2>3, <2>4, StopKeeps DEF ConfInv, NoneTwice
<1>14. CASE Unwind(c)
  BY <1>13, <1>14, QueryKeeps, DeleteStagingKeeps DEF Unwind
<1>15. CASE DropOld(c)
  BY <1>15, DeleteDayKeeps, DropEndsKeeps DEF DropOld
<1>16. CASE Promote(c)
  BY <1>16, PromotePutKeeps, PromoteEndsKeeps DEF Promote
<1>17. CASE Sweep(c)
  BY <1>17, QueryKeeps, DeleteStagingKeeps, SweepEndsKeeps DEF Sweep
<1>18. CASE Finish(c) /\ Live
  BY <1>18, FinishKeeps
<1>19. CASE Finish(c) /\ ~Live
  <2>1. conf[c].pc = "finish" /\ Stop(c) /\ UNCHANGED <<trip, route, days, staging, work, faults, overtaken>>
    BY <1>19 DEF Finish, Live
  <2>2. ~Live'
    BY <1>19, <2>1 DEF Live
  <2> QED
    BY <2>1, <2>2, StopKeeps DEF ConfInv, Swept, NoneTwice
<1> QED
  BY <1>1, <1>2, <1>3, <1>4, <1>5, <1>6, <1>7, <1>8, <1>9, <1>10, <1>11, <1>12, <1>14, <1>15,
     <1>16, <1>17, <1>18, <1>19 DEF ConfirmStep

\* A confirm that dies while it resumes is the second to die.
LEMMA ConfirmDiesKeeps ==
  ASSUME Typed, NEW c \in Confirm, ConfInv(conf[c]), ConfirmDies(c)
  PROVE  ConfInv(conf[c])'
<1>1. Stop(c) /\ UNCHANGED <<trip, route, days, staging, work, overtaken>>
  BY DEF ConfirmDies
<1>2. faults.dead \in Nat /\ MaxDeaths \in Nat /\ faults.dead < MaxDeaths
  BY RouteReconfirmAssumption DEF ConfirmDies, Typed, HistoryTyped, FaultType
<1>3. faults'.torn
  BY DEF ConfirmDies, Typed, HistoryTyped, FaultType
<1>4. MaxDeaths <= 1 => ~faults.torn
  BY <1>2 DEF Typed, HistoryTyped
<1>5. Alone /\ MaxDeaths <= 1 => Distinct(days)
  BY <1>4 DEF ConfInv, NoneTwice, Swept
<1>6. Alone /\ Live' /\ ~Begun' => DOMAIN days = {} /\ DOMAIN staging = {}
  BY <1>1 DEF ConfInv, Quiet, Live, Begun
<1> QED
  BY <1>1, <1>3, <1>5, <1>6, StopKeeps

\* The other writers of a DAY row put one where there is none: it fits the ROUTE row,
\* or its run is overtaken.
LEMMA WorkStepKeeps ==
  ASSUME Typed, WorkInv, NEW c \in Confirm, ConfInv(conf[c]), Caught(conf[c]),
         NEW w \in Worker, WorkStep(w)
  PROVE  ConfInv(conf[c])'
<1>1. UNCHANGED <<route, staging, conf, faults>> /\ overtaken \subseteq overtaken'
  BY DEF WorkStep, StartDay, HealCursor, ProbeDay, ClaimDay, Prepare, Recheck, PutPlanned,
         CompleteDay, Overtakes
<1>2. ~Alone'
  BY WorkShape DEF Alone
<1>3. Live' => Live
  <2>1. CASE ClaimDay(w)
    BY <2>1 DEF ClaimDay, CanClaimPlanning, Live
  <2>2. CASE CompleteDay(w) /\ HoldsClaim(trip, work[w].day)
    BY <2>2 DEF HoldsClaim, WorkInv
  <2>3. CASE UNCHANGED trip
    BY <2>3 DEF Live
  <2>4. CASE HealCursor(w)
    BY <2>4 DEF HealCursor, SetNextDay, Live, Typed, TripType
  <2> QED
    BY <2>1, <2>2, <2>3, <2>4
    DEF WorkStep, StartDay, ProbeDay, Prepare, Recheck, PutPlanned, CompleteDay
<1>4. /\ \A d \in DOMAIN days : d \in DOMAIN days' /\ days'[d] = days[d]
      /\ \A d \in DOMAIN days' \ DOMAIN days :
           \/ days'[d].plan \in overtaken
           \/ (days'[d].city = route[d] /\ ~Past(conf[c]))
  <2>1. CASE PutPlanned(w) /\ work[w].day \notin DOMAIN days
    <3> DEFINE q == [plan |-> w, city |-> work[w].city]
    <3>1. days' = Put(days, work[w].day, q) /\ q.plan = w /\ q.city = work[w].city
      BY <2>1 DEF PutPlanned
    <3> HIDE DEF q
    <3>2. DOMAIN days' = DOMAIN days \cup {work[w].day} /\ days'[work[w].day] = q
      BY <3>1 DEF Put
    <3>3. \A d \in DOMAIN days : days'[d] = days[d]
      BY <2>1, <3>1 DEF Put
    <3>4. w \in overtaken \/ (q.city = route[work[w].day] /\ ~Past(conf[c]))
      BY <2>1, <3>1 DEF WorkInv, Caught, Informed, PutPlanned
    <3> QED
      BY <3>1, <3>2, <3>3, <3>4
  <2>2. CASE UNCHANGED days
    BY <2>2
  <2> QED
    BY <2>1, <2>2 DEF WorkStep, StartDay, HealCursor, ProbeDay, ClaimDay, Prepare, Recheck,
                      PutPlanned, CompleteDay
<1>10. Stored(conf[c])'
  BY <1>1, <1>4 DEF ConfInv, Stored, OnDays, OnStaging, Kept
<1>11. Swept(conf[c])' /\ Fits(conf[c])'
  BY <1>1 DEF ConfInv, Swept, Fits, Kept
<1>12. Quiet(conf[c])' /\ NoneTwice(conf[c])'
  BY <1>2 DEF Quiet, NoneTwice
<1>13. LateOnes(conf[c])'
  BY <1>1, <1>3, <1>4 DEF ConfInv, LateOnes, DaysFit, LateBut, Late, Kept, Past
<1> QED
  BY <1>10, <1>11, <1>12, <1>13 DEF ConfInv

\* So does the deletion of the trip, which only has to lock it or remove its row.
LEMMA DeletionKeeps ==
  ASSUME Typed, NEW c \in Confirm, ConfInv(conf[c]), LockTrip \/ RemoveTrip
  PROVE  ConfInv(conf[c])'
<1>1. UNCHANGED <<route, days, staging, conf, work, faults, overtaken>>
  BY DEF LockTrip, RemoveTrip
<1>2. ~Live' /\ trip'.ndi = trip.ndi
  BY DEF LockTrip, RemoveTrip, BeginDelete, DeleteTripRow, NoClaim, Typed, TripType, Live
<1>10. Stored(conf[c])' /\ Swept(conf[c])' /\ Fits(conf[c])'
  BY <1>1 DEF ConfInv, Stored, OnDays, OnStaging, Swept, Fits, Kept
<1>11. Quiet(conf[c])' /\ NoneTwice(conf[c])'
  BY <1>1, <1>2 DEF ConfInv, Quiet, Alone, NoneTwice, Distinct, Kept
<1>12. LateOnes(conf[c])'
  BY <1>1, <1>2 DEF ConfInv, LateOnes, DaysFit, LateBut, Late, Kept
<1> QED
  BY <1>10, <1>11, <1>12 DEF ConfInv

-----------------------------------------------------------------------------
(* What each step keeps of the runs.                                       *)

\* The claim goes, and every run that relied on it is overtaken.
LEMMA OvertakenAll ==
  ASSUME WorkInv, NEW others, Overtakes(others), NEW w \in others \cap Worker, UnderWay(w)
  PROVE  w \in overtaken'
<1>1. w \in overtaken \/ trip.pdi = work[w].day
  BY DEF WorkInv
<1> QED
  BY <1>1 DEF Overtakes

\* The steps of a confirm that neither write the TRIP or the ROUTE row nor begin a
\* confirm come after the claim has been taken away.
LEMMA LaterSteps ==
  ASSUME NEW c \in Confirm,
         \/ StageFails(c)
         \/ /\ ConfirmStep(c)
            /\ ~(LoadTrip(c) \/ LoadBundle(c) \/ Direct(c) \/ PutRoute(c) \/ Unclaim(c) \/ Finish(c))
  PROVE  Past(conf[c]) /\ UNCHANGED <<trip, route, work, overtaken>>
<1>1. CASE Recover(c) \/ Unstage(c) \/ Trim(c) \/ DropOld(c) \/ Promote(c) \/ Sweep(c)
  BY <1>1 DEF Recover, Unstage, Trim, TrimEnds, DropOld, Promote, Sweep, PutDay, DeleteDay,
       DeleteStaging, QueryStaging, LoopEnds, Past
<1>2. CASE Stage(c) \/ Unwind(c) \/ ReadBundle(c) \/ StageFails(c)
  BY <1>2 DEF Stage, StagePut, ReadBack, Unwind, CleanEnds, DeleteStaging, QueryStaging,
       LoopEnds, ReadBundle, StageFails, Past
<1> QED
  BY <1>1, <1>2 DEF ConfirmStep

LEMMA ConfirmKeepsWork ==
  ASSUME Typed, WorkInv, NEW c \in Confirm, Caught(conf[c]),
         ConfirmStep(c) \/ StageFails(c) \/ ConfirmDies(c)
  PROVE  WorkInv' /\ Caught(conf[c])'
<1>0. /\ trip \in TripType
      /\ \A w \in Worker : UnderWay(w) => work[w].day \in Day
      /\ \A w \in Worker : Informed(w) => UnderWay(w)
      /\ 0 \notin Day
  BY DayCountAssumption DEF Typed, UnderWay, Informed, Day
<1>1. CASE LoadTrip(c)
  <2>1. UNCHANGED <<trip, route, work, overtaken>>
    BY <1>1 DEF LoadTrip
  <2>2. conf'[c].pc = "bundle" /\ (~conf'[c].moved => trip.pdi = 0)
    BY <1>1, LoadShape
  <2>3. trip.pdi = 0 => \A w \in Worker : Informed(w) => w \in overtaken
    BY <1>0 DEF WorkInv
  <2> QED
    BY <2>1, <2>2, <2>3 DEF WorkInv, Live, UnderWay, Informed, Caught, Past
<1>2. CASE LoadBundle(c)
  <2>1. /\ UNCHANGED <<trip, route, work, overtaken>>
        /\ conf[c].pc = "bundle"
        /\ \/ conf'[c].pc = "unclaim"
           \/ conf'[c].pc = "direct" /\ ~conf[c].moved
    BY <1>2, GoShape DEF LoadBundle, ConfirmPc
  <2> QED
    BY <2>1 DEF WorkInv, Live, UnderWay, Informed, Caught, Past
<1>3. CASE Direct(c)
  <2>1. UNCHANGED <<route, work, overtaken>> /\ Past(conf[c])
    BY <1>3 DEF Direct, Past
  <2>2. trip'.pdi = trip.pdi /\ (Live' \/ UNCHANGED trip)
    BY <1>0, <1>3 DEF Direct, TripType, Live
  <2> QED
    BY <2>1, <2>2 DEF WorkInv, Live, UnderWay, Informed, Caught
<1>4. CASE PutRoute(c)
  <2>1. UNCHANGED <<trip, work, overtaken>> /\ Past(conf[c])
    BY <1>4 DEF PutRoute, Past
  <2> QED
    BY <2>1 DEF WorkInv, Live, UnderWay, Informed, Caught
<1>5. CASE (Unclaim(c) \/ Finish(c)) /\ Live
  <2>1. /\ UNCHANGED <<route, work>>
        /\ Overtakes(Worker)
    BY <1>5 DEF Unclaim, Finish, Live
  <2>2. trip'.pdi = 0
    <3>1. CASE Unclaim(c)
      BY <1>0, <1>5, <3>1 DEF Unclaim, NoClaim, TripType, Live
    <3>2. CASE Finish(c)
      <4>1. PICK n \in 1..(DayCount + 1), s \in Status : FinishedAt(c, n, s)
        BY <1>5, <3>2, FinishShape
      <4> QED
        BY <1>0, <4>1 DEF FinishedAt, NoClaim, TripType
    <3> QED
      BY <1>5, <3>1, <3>2
  <2>3. \A w \in Worker : UnderWay(w) => w \in overtaken'
    BY <2>1, OvertakenAll
  <2> QED
    BY <1>0, <2>1, <2>2, <2>3 DEF WorkInv, UnderWay, Informed, Caught
<1>6. CASE \/ (Unclaim(c) \/ Finish(c)) /\ ~Live
           \/ ConfirmDies(c)
  <2>1. UNCHANGED <<trip, route, work, overtaken>> /\ Stop(c)
    BY <1>6 DEF Unclaim, Finish, ConfirmDies, Live
  <2>2. conf'[c].pc = "idle"
    BY <2>1, StopShape
  <2> QED
    BY <2>1, <2>2 DEF WorkInv, Live, UnderWay, Informed, Caught, Past
<1>7. CASE /\ ConfirmStep(c) \/ StageFails(c)
           /\ ~(LoadTrip(c) \/ LoadBundle(c) \/ Direct(c) \/ PutRoute(c) \/ Unclaim(c) \/ Finish(c))
  <2>1. Past(conf[c]) /\ UNCHANGED <<trip, route, work, overtaken>>
    BY <1>7, LaterSteps
  <2> QED
    BY <2>1 DEF WorkInv, Live, UnderWay, Informed, Caught
<1> QED
  BY <1>1, <1>2, <1>3, <1>4, <1>5, <1>6, <1>7 DEF Live

LEMMA WorkKeepsWork ==
  ASSUME Typed, WorkInv, NEW c \in Confirm, Confirm = {c}, Caught(conf[c]),
         NEW w \in Worker, WorkStep(w)
  PROVE  WorkInv' /\ Caught(conf[c])'
<1>0. /\ trip \in TripType
      /\ work \in [Worker -> WorkType]
      /\ work[w] \in WorkType
      /\ \A v \in Worker : UnderWay(v) => work[v].day \in Day
      /\ 0 \notin Day
  BY DayCountAssumption DEF Typed, UnderWay, Day
<1>1. UNCHANGED <<route, conf>>
  BY DEF WorkStep, StartDay, HealCursor, ProbeDay, ClaimDay, Prepare, Recheck, PutPlanned,
         CompleteDay
<1>2. \A v \in Worker \ {w} : work'[v] = work[v]
  BY WorkShape
<1>3. CASE StartDay(w) \/ HealCursor(w) \/ ProbeDay(w)
  <2>1. work'[w].pc \in {"heal", "probe", "done", "adopt", "claim"}
    <3>1. CASE StartDay(w)
      <4>1. PICK d \in Day :
              work' = [work EXCEPT ![w].pc = IF trip.ndi = d THEN "probe" ELSE "heal", ![w].day = d]
        BY <3>1 DEF StartDay
      <4>2. work'[w].pc = IF trip.ndi = d THEN "probe" ELSE "heal"
        BY <1>0, <4>1 DEF WorkType
      <4> QED
        BY <4>2
    <3>2. CASE HealCursor(w) \/ ProbeDay(w)
      BY <1>0, <3>2 DEF HealCursor, ProbeDay, WorkType
    <3> QED
      BY <1>3, <3>1, <3>2
  <2>2. UNCHANGED overtaken /\ trip'.pdi = trip.pdi /\ trip'.status = trip.status
    BY <1>0, <1>3 DEF StartDay, HealCursor, ProbeDay, SetNextDay, TripType
  <2> QED
    BY <1>1, <1>2, <2>1, <2>2 DEF WorkInv, Live, UnderWay, Informed, Caught
<1>4. CASE ClaimDay(w) /\ CanClaimPlanning(trip, work[w].day)
  <2>1. /\ trip' = ClaimPlanning(trip, work[w].day)
        /\ UNCHANGED overtaken
        /\ work[w].pc \in {"claim", "adopt"}
        /\ work'[w].day = work[w].day
        /\ work'[w].pc \in {"prepare", "complete"}
    BY <1>0, <1>4 DEF ClaimDay, WorkType
  <2>2. trip'.pdi = work[w].day /\ Live'
    BY <1>0, <2>1 DEF ClaimPlanning, TripType, Live
  <2>3. \A v \in Worker : UnderWay(v) => v \in overtaken
    BY <1>0, <1>4 DEF CanClaimPlanning, WorkInv
  <2> QED
    BY <1>1, <1>2, <2>1, <2>2, <2>3 DEF WorkInv, UnderWay, Informed, Caught
<1>5. CASE ClaimDay(w) /\ ~CanClaimPlanning(trip, work[w].day)
  <2>1. UNCHANGED <<trip, overtaken>> /\ work'[w].pc = "done"
    BY <1>0, <1>5 DEF ClaimDay, WorkType
  <2> QED
    BY <1>1, <1>2, <2>1 DEF WorkInv, Live, UnderWay, Informed, Caught
<1>6. CASE Prepare(w)
  <2>1. /\ UNCHANGED trip
        /\ work[w].pc = "prepare"
        /\ work'[w].pc = "crew"
        /\ work'[w].day = work[w].day
        /\ work'[w].city = route[work[w].day]
        /\ overtaken \subseteq overtaken'
        /\ conf[c].pc # "idle" => w \in overtaken'
    BY <1>0, <1>6 DEF Prepare, WorkType
  <2> QED
    BY <1>1, <1>2, <2>1 DEF WorkInv, Live, UnderWay, Informed, Caught, Past
<1>7. CASE Recheck(w) \/ PutPlanned(w)
  <2>1. /\ UNCHANGED <<trip, overtaken>>
        /\ work'[w].pc = "put" => work[w].pc = "crew"
        /\ work'[w].pc \in {"put", "complete", "done"}
        /\ work'[w].day = work[w].day
        /\ work'[w].city = work[w].city
    BY <1>0, <1>7 DEF Recheck, PutPlanned, WorkType
  <2> QED
    BY <1>1, <1>2, <2>1 DEF WorkInv, Live, UnderWay, Informed, Caught
<1>8. CASE CompleteDay(w) /\ HoldsClaim(trip, work[w].day)
  <2>1. /\ trip' = CompletePlanning(trip, work[w].day)
        /\ Overtakes(Worker \ {w})
        /\ work'[w].pc = "done"
    BY <1>0, <1>8 DEF CompleteDay, WorkType
  <2>2. trip'.pdi = 0 /\ Live'
    BY <1>0, <2>1 DEF CompletePlanning, StatusAfterPlanning, NoClaim, TripType, Live
  <2>3. /\ overtaken \subseteq overtaken'
        /\ \A v \in Worker \ {w} : UnderWay(v) => v \in overtaken'
    BY <2>1, OvertakenAll DEF Overtakes
  <2> QED
    BY <1>1, <1>2, <2>1, <2>2, <2>3 DEF WorkInv, UnderWay, Informed, Caught
<1>9. CASE CompleteDay(w) /\ ~HoldsClaim(trip, work[w].day)
  <2>1. UNCHANGED <<trip, overtaken>> /\ work'[w].pc = "done"
    BY <1>0, <1>9 DEF CompleteDay, WorkType
  <2> QED
    BY <1>1, <1>2, <2>1 DEF WorkInv, Live, UnderWay, Informed, Caught
<1> QED
  BY <1>3, <1>4, <1>5, <1>6, <1>7, <1>8, <1>9 DEF WorkStep

\* A trip that is locked holds no claim.
LEMMA DeletionKeepsWork ==
  ASSUME Typed, WorkInv, NEW c \in Confirm, Caught(conf[c]), LockTrip \/ RemoveTrip
  PROVE  WorkInv' /\ Caught(conf[c])'
<1>1. UNCHANGED <<route, conf, work, overtaken>>
  BY DEF LockTrip, RemoveTrip
<1>2. trip.pdi = 0 /\ trip'.pdi = 0
  BY DEF LockTrip, RemoveTrip, CanBeginDelete, BeginDelete, DeleteTripRow, NoClaim, Typed,
         TripType, WorkInv, Live
<1> QED
  BY <1>1, <1>2 DEF WorkInv, UnderWay, Informed, Caught

-----------------------------------------------------------------------------
(* The theorems.  They are about a trip with one confirm at a time: two at *)
(* once take each other's staging rows (RouteConcurrent.cfg).              *)

OneConfirm == \E c \in Confirm : Confirm = {c}

\* The inductive invariant.
RouteInv == OneConfirm /\ Typed /\ ConfirmInv

\* The invariant holds at first, and every step keeps it.
LEMMA InitKeeps == OneConfirm /\ Init => RouteInv
<1> SUFFICES ASSUME OneConfirm, Init PROVE ConfirmInv
  BY InitTyped DEF RouteInv
<1>0. DayCount \in Nat \ {0} /\ Routes # {} /\ MaxDeaths \in Nat
  BY DayCountAssumption, RouteReconfirmAssumption DEF Init
<1>1. PICK k \in 0..DayCount :
        /\ days = [d \in 1..k |-> [plan |-> d, city |-> route[d]]]
        /\ trip = [FreshTrip EXCEPT !.ndi = k + 1,
                    !.status = IF k = 0 THEN "routing_confirmed"
                               ELSE IF k = DayCount THEN "complete" ELSE "planning"]
  BY DEF Init
<1>2. /\ trip.pdi = 0
      /\ trip.ndi = k + 1
      /\ trip.status = IF k = 0 THEN "routing_confirmed"
                       ELSE IF k = DayCount THEN "complete" ELSE "planning"
  BY <1>1 DEF FreshTrip
<1>3. /\ DOMAIN days = 1..k
      /\ \A d \in 1..k : days[d].plan = d /\ days[d].city = route[d]
  BY <1>1
<1>4. DOMAIN staging = {}
  BY NoRowsRows DEF Init
<1>5. ~Begun => DOMAIN days = {}
  <2>1. k # 0 => k + 1 > 1
    BY <1>0
  <2>2. k = 0 => DOMAIN days = {}
    BY <1>3
  <2> QED
    BY <1>2, <2>1, <2>2 DEF Begun
<1>6. ASSUME NEW c \in Confirm PROVE ConfInv(conf[c])
  <2>1. conf[c].pc = "idle" /\ DOMAIN conf[c].pay = {}
    BY <1>0, NoConfirmIs DEF Init
  <2>2. Stored(conf[c]) /\ Swept(conf[c]) /\ Fits(conf[c])
    BY <1>4, <2>1 DEF Stored, Swept, Fits, Kept
  <2>3. Quiet(conf[c])
    BY <1>4, <1>5, <2>1 DEF Quiet, Kept
  <2>4. LateOnes(conf[c])
    BY <1>3, <2>1 DEF LateOnes, DaysFit
  <2>5. NoneTwice(conf[c])
    BY <1>3, <1>4, <2>1 DEF NoneTwice, Distinct
  <2> QED
    BY <2>2, <2>3, <2>4, <2>5 DEF ConfInv
<1>7. WorkInv
  BY <1>2 DEF Init, WorkInv, UnderWay, Informed
<1>8. ASSUME NEW c \in Confirm PROVE Caught(conf[c])
  BY <1>0, NoConfirmIs DEF Init, Caught, Past
<1> QED
  BY <1>6, <1>7, <1>8 DEF ConfirmInv

LEMMA StepKeeps == RouteInv /\ [Next]_vars => RouteInv'
<1> SUFFICES ASSUME RouteInv, [Next]_vars PROVE RouteInv'
  OBVIOUS
<1>0. Typed /\ WorkInv /\ \A c \in Confirm : ConfInv(conf[c]) /\ Caught(conf[c])
  BY DEF RouteInv, ConfirmInv
<1>1. PICK c \in Confirm : Confirm = {c}
  BY DEF RouteInv, OneConfirm
<1>2. ConfInv(conf[c])'
  <2>1. CASE \E e \in Confirm : ConfirmStep(e) \/ StageFails(e) \/ ConfirmDies(e)
    <3>1. ConfirmStep(c) \/ StageFails(c) \/ ConfirmDies(c)
      BY <1>1, <2>1
    <3> QED
      BY <1>0, <3>1, ConfirmStepKeeps, StageFailsKeeps, ConfirmDiesKeeps
  <2>2. CASE \E w \in Worker : WorkStep(w)
    BY <1>0, <2>2, WorkStepKeeps
  <2>3. CASE LockTrip \/ RemoveTrip
    BY <1>0, <2>3, DeletionKeeps
  <2>4. CASE UNCHANGED vars
    BY <1>0, <2>4
    DEF vars, ConfInv, Stored, OnDays, OnStaging, Swept, Fits, Quiet, Alone, Live, Begun,
        CursorFits, LateOnes, DaysFit, LateBut, Late, NoneTwice, Distinct, Kept
  <2> QED
    BY <2>1, <2>2, <2>3, <2>4 DEF Next
<1>3. WorkInv' /\ Caught(conf[c])'
  <2>1. CASE \E e \in Confirm : ConfirmStep(e) \/ StageFails(e) \/ ConfirmDies(e)
    <3>1. ConfirmStep(c) \/ StageFails(c) \/ ConfirmDies(c)
      BY <1>1, <2>1
    <3> QED
      BY <1>0, <3>1, ConfirmKeepsWork
  <2>2. CASE \E w \in Worker : WorkStep(w)
    BY <1>0, <1>1, <2>2, WorkKeepsWork
  <2>3. CASE LockTrip \/ RemoveTrip
    BY <1>0, <2>3, DeletionKeepsWork
  <2>4. CASE UNCHANGED vars
    BY <1>0, <2>4 DEF vars, WorkInv, Live, UnderWay, Informed, Caught, Past
  <2> QED
    BY <2>1, <2>2, <2>3, <2>4 DEF Next
<1>4. Typed'
  BY <1>0, StepTyped
<1>5. OneConfirm'
  BY DEF RouteInv, OneConfirm
<1> QED
  BY <1>1, <1>2, <1>3, <1>4, <1>5 DEF RouteInv, ConfirmInv

LEMMA AlwaysRouteInv == OneConfirm /\ Spec => []RouteInv
  BY InitKeeps, StepKeeps, PTL DEF Spec

\* WRITE BEFORE DELETE: at every call of a confirm, dying or deleted trip
\* included, each plan it keeps is in a DAY row or in a staging row.
THEOREM KeptPlans == OneConfirm /\ Spec => []KeptPlansAreStored
<1>1. RouteInv => KeptPlansAreStored
  <2> SUFFICES ASSUME RouteInv, NEW c \in Confirm, Moves(c), NEW d \in DOMAIN conf[c].pay
               PROVE  conf[c].pay[d].plan \in Plans(days) \cup Plans(staging)
    BY DEF KeptPlansAreStored, Plans
  <2>1. Stored(conf[c])
    BY DEF RouteInv, ConfirmInv, ConfInv
  <2>2. \/ d \in DOMAIN days /\ days[d] = conf[c].pay[d]
        \/ d \in DOMAIN staging /\ staging[d].plan = conf[c].pay[d].plan
    BY <2>1 DEF Stored, OnDays, OnStaging, Moves, Kept
  <2> QED
    BY <2>2 DEF Plans
<1> QED
  BY <1>1, AlwaysRouteInv, PTL

\* What an undisturbed confirm leaves, also when it resumes what others have
\* left, however often they died and staging failed.
THEOREM ConfirmFits == OneConfirm /\ Spec => []ConfirmedDaysFitRoute
<1>1. RouteInv => ConfirmedDaysFitRoute
  <2> SUFFICES ASSUME RouteInv, NEW c \in Confirm, Undisturbed(c)
               PROVE  /\ \A d \in DOMAIN days : days[d].city = conf[c].route[d]
                      /\ staging = R!NoRows
                      /\ CursorFits
    BY DEF ConfirmedDaysFitRoute, CursorFits
  <2>1. ConfInv(conf[c]) /\ conf[c].pc = "route" /\ Alone /\ Live /\ Typed
    BY DEF RouteInv, ConfirmInv, Undisturbed, Alone, Live
  <2>2. DOMAIN days \subseteq Kept(conf[c]) /\ DOMAIN staging = {} /\ CursorFits
    BY <2>1 DEF ConfInv, Quiet
  <2>3. \A d \in DOMAIN days : days[d].city = conf[c].route[d]
    BY <2>1, <2>2 DEF ConfInv, Stored, OnDays, Fits
  <2>4. staging = R!NoRows
    BY <2>1, <2>2, RowsAre DEF Typed, R!NoRows
  <2> QED
    BY <2>2, <2>3, <2>4
<1> QED
  BY <1>1, AlwaysRouteInv, PTL

\* When at most one confirm dies, no plan stands on two days of what an
\* undisturbed confirm leaves.  With two deaths it may (RouteTwice.cfg).
THEOREM PlansStandOnce == OneConfirm /\ MaxDeaths <= 1 /\ Spec => []NoPlanTwice
<1> DEFINE Few == MaxDeaths <= 1
<1>1. Few /\ RouteInv => NoPlanTwice
  BY DEF RouteInv, ConfirmInv, ConfInv, NoneTwice, NoPlanTwice, Undisturbed, Alone, Distinct
<1>2. Few => Few'
  OBVIOUS
<1>3. OneConfirm /\ Few /\ Spec => []NoPlanTwice
  <2> HIDE DEF Few
  <2> QED
    BY <1>1, <1>2, AlwaysRouteInv, PTL
<1> QED
  BY <1>3

\* When no confirm is under way, a planned day that does not fit the ROUTE row is that of
\* a run that a confirm has overtaken, whatever died before the last move of the days.
THEOREM OnlyOvertakenMisfits == OneConfirm /\ Spec => []OnlyOvertakenMisfit
<1>1. RouteInv => OnlyOvertakenMisfit
  <2> SUFFICES ASSUME RouteInv, \A c \in Confirm : conf[c].pc = "idle", ~faults.torn, Live
               PROVE  DaysFit
    BY DEF OnlyOvertakenMisfit, DaysFit, Late, Live
  <2> QED
    BY DEF RouteInv, OneConfirm, ConfirmInv, ConfInv, LateOnes
<1> QED
  BY <1>1, AlwaysRouteInv, PTL

\* A staging that fails by an exception is undone: unless a confirm
\* was killed and none has moved the days since, none resumes, so no DAY row is deleted
\* as not covered by staging.
THEOREM FailuresAreUndone == OneConfirm /\ Spec => FailedStagingIsUndone
<1>1. RouteInv => \A c \in Confirm : conf[c].pc = "trim" => faults.torn
  BY DEF RouteInv, ConfirmInv, ConfInv, Swept
<1>2. RouteInv /\ [Next]_vars =>
        [\A c \in Confirm : conf[c].pc = "trim" /\ ~faults.torn =>
           Plans(days) \subseteq Plans(days') \cup Plans(staging')]_vars
  BY <1>1
<1> QED
  BY <1>2, AlwaysRouteInv, PTL DEF Spec, FailedStagingIsUndone
=============================================================================
