----------------------------- MODULE DayPlaces -----------------------------
(***************************************************************************)
(* The places of the planned days and visited_place_keys of the TRIP row,  *)
(* the list of the keys already used.  Its writers:                        *)
(*   - suggest-place runs append a place and its key in one transaction    *)
(*     (db/repository/days.py, persist_suggested_place);                   *)
(*   - DELETE and reorder requests replace the places of a day under a     *)
(*     lock on their number, then prune keys no longer used                *)
(*     (trips/day_mutations.py, replace_day_places,                        *)
(*     prune_visited_place_keys);                                          *)
(*   - plan-day runs write a whole day, and the keys as they read them at  *)
(*     their start plus those of the day: the asynchronous ones under the  *)
(*     claim of PlanDay, the synchronous ones by moving the cursor first   *)
(*     (plan_next_day_sync, persist_planned_day).                          *)
(* Every step is one DynamoDB call.  What CrewJobs and PlanDay say about   *)
(* claims is reduced to who holds them; a claim may be lost as stale.      *)
(***************************************************************************)
EXTENDS Integers, Sequences, SequencesExt, FiniteSets

CONSTANTS
  DayCount,
  Key,          \* place keys
  Editor,       \* concurrent edits of the traveler
  Suggester,    \* suggest-place runs
  Planner,      \* asynchronous plan-day runs
  SyncPlanner,  \* synchronous plan-day requests
  Together,     \* which of these act in one behaviour, with Loss where claims are lost
  Loss,
  None,
  MaxPlaces,    \* MAX_PLACES_PER_DAY
  PruneTries,   \* max_attempts of prune_visited_place_keys: 5
  MaxStale      \* bound on the claims lost as stale

ASSUME DayPlacesAssumption ==
  /\ DayCount \in Nat \ {0} /\ MaxPlaces \in Nat \ {0, 1}  \* a plan has up to two places
  /\ PruneTries \in Nat \ {0} /\ MaxStale \in Nat
  /\ None \notin Suggester

Day == 1..DayCount
Status == {"routing_confirmed", "planning", "complete", "failed", "deleting", "gone"}

VARIABLES
  trip,     \* the TRIP row: status, ndi, pdi, job (whose crew job it is), visited
  days,     \* days[d]: the place keys of the DAY rows there are
  edit,     \* edit[w]: where edit w is, and what it has read
  sug,      \* sug[s]: where suggest-place run s is, and what it has read
  plan,     \* plan[p]: where plan-day run p is, and what it has read
  gone,     \* the DELETE of the trip: where it is, and the DAY rows it will delete
  stale     \* the claims lost so far

vars == <<trip, days, edit, sug, plan, gone, stale>>

NoEdit == [pc |-> "idle", op |-> "remove", day |-> 1, n |-> 0, new |-> <<>>, prune |-> {},
           ndi |-> 1, status |-> "planning", prev |-> <<>>, try |-> 0]
NoSug == [pc |-> "idle", day |-> 1, n |-> 0, prev |-> <<>>, key |-> None]
NoPlan == [pc |-> "idle", day |-> 1, visited |-> <<>>, live |-> <<>>, new |-> <<>>,
           status |-> "planning"]

Keys(S) == UNION { Range(days[d]) : d \in S }
Missing == Day \ DOMAIN days

\* The keys of s that are not in ks, in their order.
Without(s, ks) ==
  LET kept[n \in 0..Len(s)] ==
        IF n = 0 THEN <<>>
        ELSE IF s[n] \in ks THEN kept[n - 1] ELSE Append(kept[n - 1], s[n])
  IN  kept[Len(s)]

TripType == [status : Status, ndi : 1..(DayCount + 1), pdi : 0..DayCount,
             job : Suggester \cup {None}, visited : Seq(Key)]
EditType ==
  [pc : {"idle", "done", "write", "apply", "delete", "read", "prune"},
   op : {"remove", "reorder", "delete"}, day : Day, n : 0..MaxPlaces, new : Seq(Key),
   prune : SUBSET Key, ndi : 1..(DayCount + 1),
   status : {"routing_confirmed", "planning"}, prev : Seq(Key),
   try : 0..PruneTries]
SugType ==
  [pc : {"idle", "read", "put", "complete", "fail", "done"}, day : Day, n : 0..MaxPlaces,
   prev : Seq(Key), key : Key \cup {None}]
PlanType ==
  [pc : {"idle", "read", "recheck", "put", "complete", "fail", "heal", "slot", "live",
         "write", "undo", "rollback", "check", "unput", "cursors", "done"},
   day : Day, visited : Seq(Key), live : Seq(Key), new : Seq(Key),
   status : {"routing_confirmed", "planning", "failed"}]

TypeOK ==
  /\ trip \in TripType
  /\ DOMAIN days \subseteq Day /\ days = [d \in DOMAIN days |-> days[d]]
  /\ \A d \in DOMAIN days : days[d] \in Seq(Key) /\ Len(days[d]) <= MaxPlaces
  /\ edit \in [Editor -> EditType] /\ sug \in [Suggester -> SugType]
  /\ plan \in [Planner \cup SyncPlanner -> PlanType]
  /\ gone \in [pc : {"idle", "query", "trip", "days", "done"}, left : SUBSET Day]
  /\ stale \in 0..MaxStale

\* A trip whose first days are planned, each with one place.
Init ==
  /\ \E k \in 0..DayCount :
       \E f \in { f \in [1..k -> Key] : IsInjective(f) } :
         /\ days = [d \in 1..k |-> <<f[d]>>]
         /\ trip = [ status |-> IF k = 0 THEN "routing_confirmed"
                                ELSE IF k = DayCount THEN "complete" ELSE "planning",
                     ndi |-> k + 1, pdi |-> 0, job |-> None,
                     visited |-> [d \in 1..k |-> f[d]] ]
  /\ gone = [pc |-> "idle", left |-> {}]
  /\ \E A \in Together :
       /\ edit = [w \in Editor |-> [NoEdit EXCEPT !.pc = IF w \in A THEN @ ELSE "done"]]
       /\ sug = [s \in Suggester |-> [NoSug EXCEPT !.pc = IF s \in A THEN @ ELSE "done"]]
       /\ plan = [p \in Planner \cup SyncPlanner |->
                     [NoPlan EXCEPT !.pc = IF p \in A THEN @ ELSE "done"]]
       /\ stale = IF Loss \in A THEN 0 ELSE MaxStale

Alive == trip.status \notin {"deleting", "gone"}
Exists == trip.status # "gone"

-----------------------------------------------------------------------------
(* The traveler's edits                                                    *)

EGo(w, pc) == edit' = [edit EXCEPT ![w].pc = pc]
EEnd(w) == edit' = [edit EXCEPT ![w] = NoEdit]

MayEdit(w) == edit[w].pc = "idle" /\ Alive /\ trip.pdi = 0 /\ trip.job = None

\* The keys in ks that no other day, and not the new places of d, have.
Unused(d, ks, new) == ks \ (Keys(DOMAIN days \ {d}) \cup Range(new))

LoadRemove(w) ==
  /\ MayEdit(w)
  /\ \E d \in DOMAIN days, i \in 1..MaxPlaces :
       /\ i <= Len(days[d])
       /\ LET new == RemoveAt(days[d], i) IN
          edit' = [edit EXCEPT ![w] = [NoEdit EXCEPT
                     !.pc = "write", !.day = d, !.n = Len(days[d]), !.new = new,
                     !.prune = Unused(d, {days[d][i]}, new)]]
  /\ UNCHANGED <<trip, days, sug, plan, gone, stale>>

LoadReorder(w) ==
  /\ MayEdit(w)
  /\ \E d \in DOMAIN days, i, j \in 1..MaxPlaces :
       /\ i <= Len(days[d]) /\ j <= Len(days[d]) /\ i # j
       /\ edit' = [edit EXCEPT ![w] = [NoEdit EXCEPT
                     !.pc = "write", !.op = "reorder", !.day = d, !.n = Len(days[d]),
                     !.new = InsertAt(RemoveAt(days[d], i), j, days[d][i])]]
  /\ UNCHANGED <<trip, days, sug, plan, gone, stale>>

\* Mutant: what was read is written, however many places there are now.
MutReplace(w) ==
  /\ edit[w].pc = "write"
  /\ IF edit[w].day \in DOMAIN days
     THEN /\ days' = [days EXCEPT ![edit[w].day] = edit[w].new]
          /\ IF edit[w].prune = {} THEN EEnd(w) ELSE EGo(w, "read")
     ELSE UNCHANGED days /\ EEnd(w)
  /\ UNCHANGED <<trip, sug, plan, gone, stale>>

\* replace_day_places: the day is there and has the number of places that was read.
Replace(w) ==
  /\ edit[w].pc = "write"
  /\ IF edit[w].day \in DOMAIN days /\ Len(days[edit[w].day]) = edit[w].n
     THEN /\ days' = [days EXCEPT ![edit[w].day] = edit[w].new]
          /\ IF edit[w].prune = {} THEN EEnd(w) ELSE EGo(w, "read")
     ELSE UNCHANGED days /\ EEnd(w)
  /\ UNCHANGED <<trip, sug, plan, gone, stale>>

\* delete_day: the cursor, the DAY row, the keys.
LoadDelete(w) ==
  /\ MayEdit(w)
  /\ \E d \in DOMAIN days :
       LET rest == DOMAIN days \ {d} IN
       edit' = [edit EXCEPT ![w] = [NoEdit EXCEPT
                  !.pc = "apply", !.op = "delete", !.day = d,
                  !.prune = Unused(d, Range(days[d]), <<>>),
                  !.ndi = CHOOSE n \in Day \ rest : \A m \in Day \ rest : n <= m,
                  !.status = IF rest = {} THEN "routing_confirmed" ELSE "planning"]]
  /\ UNCHANGED <<trip, days, sug, plan, gone, stale>>

ApplyEdit(w) ==
  /\ edit[w].pc = "apply"
  /\ IF Alive /\ trip.pdi = 0
     THEN /\ trip' = [trip EXCEPT !.ndi = edit[w].ndi, !.status = edit[w].status]
          /\ EGo(w, "delete")
     ELSE UNCHANGED trip /\ EEnd(w)
  /\ UNCHANGED <<days, sug, plan, gone, stale>>

DeleteDay(w) ==
  /\ edit[w].pc = "delete"
  /\ days' = [d \in DOMAIN days \ {edit[w].day} |-> days[d]]
  /\ IF edit[w].prune = {} THEN EEnd(w) ELSE EGo(w, "read")
  /\ UNCHANGED <<trip, sug, plan, gone, stale>>

\* Mutant: the list is written as it was read, whoever has changed it since.
MutPrune(w) ==
  /\ edit[w].pc = "prune"
  /\ trip' = [trip EXCEPT !.visited =
                Without(edit[w].prev, edit[w].prune)]
  /\ EEnd(w)
  /\ UNCHANGED <<days, sug, plan, gone, stale>>

\* prune_visited_place_keys: read, then write if the list is still what was read;
\* after PruneTries attempts the keys stay.
ReadVisited(w) ==
  /\ edit[w].pc = "read"
  /\ IF Exists /\ edit[w].prune \cap Range(trip.visited) # {} /\ edit[w].try < PruneTries
     THEN edit' = [edit EXCEPT ![w].pc = "prune", ![w].prev = trip.visited, ![w].try = @ + 1]
     ELSE EEnd(w)
  /\ UNCHANGED <<trip, days, sug, plan, gone, stale>>

Prune(w) ==
  /\ edit[w].pc = "prune"
  /\ IF Exists /\ trip.visited = edit[w].prev
     THEN /\ trip' = [trip EXCEPT !.visited =
                        Without(@, edit[w].prune)]
          /\ EEnd(w)
     ELSE UNCHANGED trip /\ EGo(w, "read")
  /\ UNCHANGED <<days, sug, plan, gone, stale>>

EditStep(w) == LoadRemove(w) \/ LoadReorder(w) \/ Replace(w) \/ LoadDelete(w) \/ ApplyEdit(w)
               \/ DeleteDay(w) \/ ReadVisited(w) \/ Prune(w)

-----------------------------------------------------------------------------
(* suggest-place runs                                                      *)

SGo(s, pc) == sug' = [sug EXCEPT ![s].pc = pc]
SEnd(s) == sug' = [sug EXCEPT ![s] = [NoSug EXCEPT !.pc = "done"]]

ClaimSuggest(s) ==
  /\ sug[s].pc = "idle"
  /\ trip.job = None /\ trip.pdi = 0 /\ Alive
  /\ \E d \in DOMAIN days :
       Len(days[d]) < MaxPlaces /\ sug' = [sug EXCEPT ![s].pc = "read", ![s].day = d]
  /\ trip' = [trip EXCEPT !.job = s]
  /\ UNCHANGED <<days, edit, plan, gone, stale>>

\* Mutant: the crew may choose any key.
MutSuggest(s) ==
  /\ sug[s].pc = "read"
  /\ LET d == sug[s].day IN
     \/ /\ Exists /\ d \in DOMAIN days /\ Len(days[d]) < MaxPlaces
        /\ \E k \in Key :
             sug' = [sug EXCEPT ![s] = [pc |-> "put", day |-> d, n |-> Len(days[d]),
                                        prev |-> trip.visited, key |-> k]]
     \/ SGo(s, "fail")
  /\ UNCHANGED <<trip, days, edit, plan, gone, stale>>

\* Trip and day are read; the crew's place is one not visited yet and not on the day.
Suggest(s) ==
  /\ sug[s].pc = "read"
  /\ LET d == sug[s].day IN
     \/ /\ Exists /\ d \in DOMAIN days /\ Len(days[d]) < MaxPlaces
        /\ \E k \in Key \ (Range(trip.visited) \cup Range(days[d])) :
             sug' = [sug EXCEPT ![s] = [pc |-> "put", day |-> d, n |-> Len(days[d]),
                                        prev |-> trip.visited, key |-> k]]
     \/ SGo(s, "fail")
  /\ UNCHANGED <<trip, days, edit, plan, gone, stale>>

\* persist_suggested_place: both rows, or none.
Persist(s) ==
  /\ sug[s].pc = "put"
  /\ LET d == sug[s].day IN
     IF /\ d \in DOMAIN days /\ Len(days[d]) = sug[s].n
        /\ Exists /\ trip.visited = sug[s].prev
     THEN /\ days' = [days EXCEPT ![d] = Append(@, sug[s].key)]
          /\ trip' = [trip EXCEPT !.visited = Append(@, sug[s].key)]
          /\ SGo(s, "complete")
     ELSE UNCHANGED <<days, trip>> /\ SGo(s, "fail")
  /\ UNCHANGED <<edit, plan, gone, stale>>

\* complete_crew_job and fail_crew_job release whatever suggest-place claim there is.
Release(s) ==
  /\ sug[s].pc \in {"complete", "fail"}
  /\ trip' = [trip EXCEPT !.job = None]
  /\ SEnd(s)
  /\ UNCHANGED <<days, edit, plan, gone, stale>>

SuggestStep(s) == ClaimSuggest(s) \/ Suggest(s) \/ Persist(s) \/ Release(s)

-----------------------------------------------------------------------------
(* plan-day runs                                                           *)

PGo(p, pc) == plan' = [plan EXCEPT ![p].pc = pc]
PEnd(p) == plan' = [plan EXCEPT ![p] = [NoPlan EXCEPT !.pc = "done"]]

FirstMissing == CHOOSE d \in Missing : \A e \in Missing : d <= e
MayPlan(p) ==
  plan[p].pc = "idle" /\ trip.status \in {"routing_confirmed", "planning", "failed"}
                      /\ Missing # {}
After(d) == IF d = DayCount THEN "complete" ELSE "planning"

\* What the crew plans and dedupe_places leaves of it: one or two keys not in vs.
Plans(vs) == { s \in BoundedSeq(Key \ Range(vs), 2) : s # <<>> /\ IsInjective(s) }

\* The keys of t after those of s.
Joined(s, t) == s \o Without(t, Range(s))

\* The asynchronous run: claimed ...
ClaimPlan(p) ==
  /\ p \in Planner /\ MayPlan(p)
  /\ trip.job = None /\ trip.pdi = 0
  /\ trip' = [trip EXCEPT !.pdi = FirstMissing, !.ndi = FirstMissing, !.status = "planning"]
  /\ plan' = [plan EXCEPT ![p].pc = "read", ![p].day = FirstMissing]
  /\ UNCHANGED <<days, edit, sug, gone, stale>>

\* ... planned with the keys visited by then ...
Execute(p) ==
  /\ plan[p].pc = "read"
  /\ IF Exists /\ trip.pdi = plan[p].day
     THEN \/ \E new \in Plans(trip.visited) :
               plan' = [plan EXCEPT ![p].pc = "recheck", ![p].visited = Joined(trip.visited, new),
                                    ![p].new = new]
          \/ PGo(p, "fail")
     ELSE PEnd(p)
  /\ UNCHANGED <<trip, days, edit, sug, gone, stale>>

\* ... the claim looked at again, ...
Recheck(p) ==
  /\ plan[p].pc = "recheck"
  /\ plan' = [plan EXCEPT ![p].pc = IF Alive /\ trip.pdi = plan[p].day THEN "put" ELSE "fail",
                          ![p].live = trip.visited]
  /\ UNCHANGED <<trip, days, edit, sug, gone, stale>>

\* ... the day put if it is absent; else its keys are those to store.
PutPlanned(p) ==
  /\ plan[p].pc = "put"
  /\ LET d == plan[p].day IN
     \/ /\ d \notin DOMAIN days
        /\ days' = [e \in DOMAIN days \cup {d} |-> IF e = d THEN plan[p].new ELSE days[e]]
        /\ PGo(p, "complete")
     \/ /\ d \in DOMAIN days
        /\ plan' = [plan EXCEPT ![p].pc = "complete",
                                ![p].visited = IF days[d] = <<>> THEN @
                                               ELSE Joined(plan[p].live, days[d])]
        /\ UNCHANGED days
  /\ UNCHANGED <<trip, edit, sug, gone, stale>>

\* ... and the keys of the trip written with the cursor, while the claim is held.
Complete(p) ==
  /\ plan[p].pc = "complete"
  /\ IF Exists /\ trip.pdi = plan[p].day
     THEN /\ trip' = [trip EXCEPT !.pdi = 0, !.ndi = plan[p].day + 1,
                                  !.status = After(plan[p].day), !.visited = plan[p].visited]
          /\ PEnd(p)
     ELSE UNCHANGED trip /\ PGo(p, "fail")
  /\ UNCHANGED <<days, edit, sug, gone, stale>>

FailPlan(p) ==
  /\ plan[p].pc = "fail"
  /\ trip' = IF Exists /\ trip.pdi = plan[p].day
             THEN [trip EXCEPT !.pdi = 0, !.status = "failed"] ELSE trip
  /\ PEnd(p)
  /\ UNCHANGED <<days, edit, sug, gone, stale>>

\* The synchronous request looks at no claim: it heals the cursor ...
LoadSync(p) ==
  /\ p \in SyncPlanner /\ MayPlan(p)
  /\ plan' = [plan EXCEPT ![p] = [NoPlan EXCEPT
                !.pc = IF trip.ndi = FirstMissing THEN "slot" ELSE "heal",
                !.day = FirstMissing, !.visited = trip.visited, !.status = trip.status]]
  /\ UNCHANGED <<trip, days, edit, sug, gone, stale>>

Heal(p) ==
  /\ plan[p].pc = "heal"
  /\ IF Exists
     THEN /\ trip' = [trip EXCEPT !.ndi = plan[p].day]
          /\ plan' = [plan EXCEPT ![p].pc = "slot", ![p].visited = trip.visited]
     ELSE UNCHANGED trip /\ PEnd(p)
  /\ UNCHANGED <<days, edit, sug, gone, stale>>

\* ... runs the crew, takes the slot by moving the cursor past the day ...
ClaimSlot(p) ==
  /\ plan[p].pc = "slot"
  /\ \/ /\ Alive /\ trip.ndi = plan[p].day
        /\ \E new \in Plans(plan[p].visited) :
             plan' = [plan EXCEPT ![p].pc = "live", ![p].new = new]
        /\ trip' = [trip EXCEPT !.ndi = @ + 1, !.status = After(plan[p].day)]
     \/ PEnd(p) /\ UNCHANGED trip
  /\ UNCHANGED <<days, edit, sug, gone, stale>>

Live(p) ==
  /\ plan[p].pc = "live"
  /\ IF Alive THEN PGo(p, "write") ELSE PEnd(p)
  /\ UNCHANGED <<trip, days, edit, sug, gone, stale>>

\* ... and puts the day if it is absent.  If it is not, or the Put raises, the
\* slot is given back.
WriteSync(p) ==
  /\ plan[p].pc = "write"
  /\ LET d == plan[p].day IN
     \/ /\ d \notin DOMAIN days
        /\ days' = [e \in DOMAIN days \cup {d} |-> IF e = d THEN plan[p].new ELSE days[e]]
        /\ PGo(p, "check")
     \/ UNCHANGED days /\ PGo(p, "undo")
  /\ UNCHANGED <<trip, edit, sug, gone, stale>>

Undo(p) ==
  /\ plan[p].pc = "undo"
  /\ IF Alive THEN PGo(p, "rollback") ELSE PEnd(p)
  /\ UNCHANGED <<trip, days, edit, sug, gone, stale>>

Rollback(p) ==
  /\ plan[p].pc = "rollback"
  /\ trip' = IF Exists /\ trip.ndi = plan[p].day + 1
             THEN [trip EXCEPT !.ndi = plan[p].day, !.status = plan[p].status] ELSE trip
  /\ PEnd(p)
  /\ UNCHANGED <<days, edit, sug, gone, stale>>

\* Mutant: the trip is not looked at after the Put.
MutCheckAlive(p) ==
  /\ plan[p].pc = "check"
  /\ PGo(p, "cursors")
  /\ UNCHANGED <<trip, days, edit, sug, gone, stale>>

\* A day put while the trip was deleted is taken away again; else the keys and the
\* status are written, with no condition but that the row exists.
CheckAlive(p) ==
  /\ plan[p].pc = "check"
  /\ PGo(p, IF Alive THEN "cursors" ELSE "unput")
  /\ UNCHANGED <<trip, days, edit, sug, gone, stale>>

Unput(p) ==
  /\ plan[p].pc = "unput"
  /\ days' = [d \in DOMAIN days \ {plan[p].day} |-> days[d]]
  /\ PEnd(p)
  /\ UNCHANGED <<trip, edit, sug, gone, stale>>

Cursors(p) ==
  /\ plan[p].pc = "cursors"
  /\ trip' = IF Exists THEN [trip EXCEPT !.visited = Joined(plan[p].visited, plan[p].new),
                                         !.status = After(plan[p].day)] ELSE trip
  /\ PEnd(p)
  /\ UNCHANGED <<days, edit, sug, gone, stale>>

PlanStep(p) ==
  \/ ClaimPlan(p) \/ Execute(p) \/ Recheck(p) \/ PutPlanned(p) \/ Complete(p) \/ FailPlan(p)
  \/ LoadSync(p) \/ Heal(p) \/ ClaimSlot(p) \/ Live(p) \/ WriteSync(p) \/ Undo(p) \/ Rollback(p)
  \/ CheckAlive(p) \/ Unput(p) \/ Cursors(p)

-----------------------------------------------------------------------------
(* Stale claims, and the DELETE of the trip (TripEdits has all of it)      *)

LoseClaim ==
  /\ stale < MaxStale
  /\ stale' = stale + 1
  /\ \/ trip.job # None /\ trip' = [trip EXCEPT !.job = None]
     \/ trip.pdi # 0 /\ trip' = [trip EXCEPT !.pdi = 0, !.status = "planning"]
  /\ UNCHANGED <<days, edit, sug, plan, gone>>

DeleteTrip ==
  /\ \/ /\ gone.pc = "idle" /\ Exists /\ trip.pdi = 0
        /\ trip' = [trip EXCEPT !.status = "deleting"]
        /\ gone' = [gone EXCEPT !.pc = "query"]
        /\ UNCHANGED days
     \/ /\ gone.pc = "query"
        /\ gone' = [pc |-> "trip", left |-> DOMAIN days]
        /\ UNCHANGED <<trip, days>>
     \/ /\ gone.pc = "trip"
        /\ trip' = [trip EXCEPT !.status = "gone", !.pdi = 0, !.job = None, !.visited = <<>>]
        /\ gone' = [gone EXCEPT !.pc = "days"]
        /\ UNCHANGED days
     \/ /\ gone.pc = "days" /\ gone.left # {}
        /\ LET d == CHOOSE d \in gone.left : \A e \in gone.left : d <= e IN
             /\ days' = [e \in DOMAIN days \ {d} |-> days[e]]
             /\ gone' = [gone EXCEPT !.left = @ \ {d}]
        /\ UNCHANGED trip
     \/ /\ gone.pc = "days" /\ gone.left = {}
        /\ gone' = [gone EXCEPT !.pc = "done"]
        /\ UNCHANGED <<trip, days>>
  /\ UNCHANGED <<edit, sug, plan, stale>>

Next ==
  \/ \E w \in Editor : EditStep(w)
  \/ \E s \in Suggester : SuggestStep(s)
  \/ \E p \in Planner \cup SyncPlanner : PlanStep(p)
  \/ LoseClaim
  \/ DeleteTrip

Spec == Init /\ [][Next]_vars

-----------------------------------------------------------------------------
(* Properties                                                              *)

\* No DAY is being written by a run that has yet to write the keys.
Settled == \A p \in Planner \cup SyncPlanner : plan[p].pc \in {"idle", "done"}

\* visited_place_keys has every key that stands on a day: a place is never
\* suggested twice because an edit or a run forgot its key.
PlacedIsVisited ==
  trip.status # "gone" /\ Settled => Keys(DOMAIN days) \subseteq Range(trip.visited)

\* A key stands on one day only, and once ("Dedupe places across days").
NoKeyTwice ==
  /\ \A d \in DOMAIN days : IsInjective(days[d])
  /\ \A d, e \in DOMAIN days : Range(days[d]) \cap Range(days[e]) # {} => d = e

\* A reorder or removal writes back what it read, and changes nothing else: no
\* place that was appended in between is lost, and none that was removed returns.
EditsKeepTheRest ==
  [][\A w \in Editor : edit[w].pc = "write" /\ edit'[w].pc # "write" /\ days' # days =>
       LET d == edit[w].day IN Range(days'[d]) \subseteq Range(days[d])
         /\ Cardinality(Range(days[d]) \ Range(days'[d])) <= 1]_vars

\* "Bundle delete may have already run; remove the day we just wrote."
\* (persist_planned_day): a trip that is gone has no DAY rows.
GoneIsEmpty == gone.pc = "done" /\ Settled => DOMAIN days = {}
=============================================================================
