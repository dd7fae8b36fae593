--------------------------- MODULE CrewJobsProofs ---------------------------
(***************************************************************************)
(* Proofs about CrewJobs for every set of requests, any number of days,    *)
(* tries and faults: whose claim the claim on the TRIP row is.             *)
(***************************************************************************)
EXTENDS CrewJobs, FiniteSetTheorems, TLAPS

Contributors == Request \cup {Traveler}
PlacesType == UNION { [D -> Seq(Contributors)] : D \in SUBSET Day }

UserType == [ pc : {"idle", "update", "route", "remove"}, day : Day, n : 0..MaxPlaces ]

CrewTypeOK ==
  /\ trip \in TripType
  /\ places \in PlacesType
  /\ \A d \in DOMAIN places : Len(places[d]) <= MaxPlaces
  /\ route \in Request \cup {Traveler, None}
  /\ req \in [Request -> ReqType]
  /\ run \in [Run -> RunType]
  /\ \A w \in Run : run[w].pc = "put" /\ req[w[1]].kind = "place" => run[w].n < MaxPlaces
  /\ user \in UserType
  /\ crossed \in BOOLEAN
  /\ faults \in [FaultKinds -> Nat]
  /\ \A k \in FaultKinds : faults[k] <= Faults[k]

\* The claim on the TRIP row is its owner's, and no day is planned beside it.
ClaimIsOwned ==
  /\ trip.kind = None <=> trip.owner = None
  /\ \A r \in Request : trip.owner = r =>
       /\ trip.kind = req[r].kind
       /\ trip.kind = "place" => trip.day = req[r].day
  /\ trip.plan => trip.kind = None /\ trip.status # "gone"

\* A request or a run that may still release what it has claimed.
Serves(r) ==
  \/ req[r].pc \in {"enqueue", "fail"}
  \/ \E w \in Run : w[1] = r /\ run[w].pc \notin {"none", "done"}

ClaimIsServed ==
  faults["dead"] = 0 /\ trip.status # "gone" =>
    \A r \in Request : trip.owner = r => Serves(r)

\* Nobody else has looked at the route since propose-cities was claimed.
ProposalIsAlone ==
  trip.kind = "propose" /\ ~crossed => user.pc = "idle" /\ route # Traveler

Hold == {"sent", "recover", "finish", "load", "put", "complete", "raise", "fail"}
Unsent == {"idle", "stale", "claim", "enqueue", "fail"}

Orderly == Quiet({"aged", "doubled", "unsure"})

\* Without a stale claim, a doubled event and an enqueue that only seemed to fail,
\* whoever goes on holds the claim until the trip is gone.
HoldersOwn ==
  /\ ~trip.aged
  /\ \A r \in Request :
       /\ req[r].pc # "clear"
       /\ run[<<r, 2>>].pc = "none"
       /\ req[r].pc \in Unsent => run[<<r, 1>>].pc = "none"
       /\ trip.status # "gone" =>
            /\ run[<<r, 1>>].pc # "undo"
            /\ req[r].pc \in {"enqueue", "fail"} \/ run[<<r, 1>>].pc \in Hold
                 => trip.owner = r
  /\ \A v, w \in Working : v = w

CrewInv ==
  /\ CrewTypeOK
  /\ ClaimIsOwned
  /\ ClaimIsServed
  /\ ProposalIsAlone
  /\ Orderly => HoldersOwn

-----------------------------------------------------------------------------
(* Types.                                                                  *)

PlacesTyped == places \in PlacesType /\ \A d \in DOMAIN places : Len(places[d]) <= MaxPlaces
RunsTyped ==
  /\ run \in [Run -> RunType]
  /\ \A w \in Run : run[w].pc = "put" /\ req[w[1]].kind = "place" => run[w].n < MaxPlaces
FaultsTyped ==
  faults \in [FaultKinds -> Nat] /\ \A k \in FaultKinds : faults[k] <= Faults[k]

LEMMA DayPlaces ==
  ASSUME CrewTypeOK, NEW d \in DOMAIN places
  PROVE  /\ d \in Day /\ places[d] \in Seq(Contributors)
         /\ Len(places[d]) \in 0..MaxPlaces
<1>1. PICK D \in SUBSET Day : places \in [D -> Seq(Contributors)]
  BY DEF CrewTypeOK, PlacesType
<1>2. d \in Day /\ places[d] \in Seq(Contributors)
  BY <1>1
<1>3. Len(places[d]) \in Nat /\ Len(places[d]) <= MaxPlaces
  BY <1>2 DEF CrewTypeOK
<1>4. QED
  BY <1>2, <1>3, CrewJobsAssumption

LEMMA PlacesSet ==
  ASSUME CrewTypeOK, NEW d \in DOMAIN places, NEW s \in Seq(Contributors),
         Len(s) <= MaxPlaces, places' = [places EXCEPT ![d] = s]
  PROVE  PlacesTyped'
<1>1. PICK D \in SUBSET Day : places \in [D -> Seq(Contributors)]
  BY DEF CrewTypeOK, PlacesType
<1>2. places' \in [D -> Seq(Contributors)]
  BY <1>1
<1>3. places' \in PlacesType
  BY <1>2 DEF PlacesType
<1>4. \A e \in DOMAIN places' : Len(places'[e]) <= MaxPlaces
  BY <1>1 DEF CrewTypeOK
<1>5. QED
  BY <1>3, <1>4 DEF PlacesTyped, PlacesType

LEMMA PlacesDrop ==
  ASSUME CrewTypeOK, NEW d \in DOMAIN places,
         places' = [e \in DOMAIN places \ {d} |-> places[e]]
  PROVE  PlacesTyped'
<1>1. PICK D \in SUBSET Day : places \in [D -> Seq(Contributors)]
  BY DEF CrewTypeOK, PlacesType
<1>2. places' \in [D \ {d} -> Seq(Contributors)] /\ D \ {d} \in SUBSET Day
  BY <1>1
<1>3. places' \in PlacesType
  BY <1>2 DEF PlacesType
<1>4. \A e \in DOMAIN places' : Len(places'[e]) <= MaxPlaces
  BY <1>1 DEF CrewTypeOK
<1>5. QED
  BY <1>3, <1>4 DEF PlacesTyped, PlacesType

\* The values that the conditional writes give the TRIP row.
LEMMA TripValues ==
  ASSUME CrewTypeOK
  PROVE  /\ NoJob(trip) \in TripType
         /\ \A r \in Request : Completed(trip, r) \in TripType /\ Claim(trip, r) \in TripType
         /\ [trip EXCEPT !.aged = TRUE] \in TripType
         /\ [trip EXCEPT !.status = "routing_confirmed"] \in TripType
         /\ [trip EXCEPT !.status = "deleting"] \in TripType
         /\ [trip EXCEPT !.plan = TRUE] \in TripType /\ [trip EXCEPT !.plan = FALSE] \in TripType
         /\ [NewTrip EXCEPT !.status = "gone"] \in TripType
<1>1. 0 \in 0..MaxPlaces
  BY CrewJobsAssumption
<1>2. NoJob(trip) \in TripType
  BY <1>1 DEF CrewTypeOK, NoJob, TripType
<1>3. ASSUME NEW r \in Request PROVE Completed(trip, r) \in TripType
  <2> DEFINE t == NoJob(trip)
  <2>1. Completed(trip, r) = [t EXCEPT !.status = IF req[r].kind = "propose" /\ @ # "gone"
                                                 THEN "awaiting_city_confirm" ELSE @]
    BY DEF Completed
  <2> HIDE DEF t
  <2>2. t \in TripType
    BY <1>2 DEF t
  <2>3. QED
    BY <2>1, <2>2 DEF TripType
<1>4. ASSUME NEW r \in Request PROVE Claim(trip, r) \in TripType
  <2>1. req[r].kind \in Kinds /\ req[r].day \in Day /\ req[r].base \in 0..MaxPlaces
    BY DEF CrewTypeOK, ReqType
  <2>2. QED
    BY <1>1, <2>1 DEF CrewTypeOK, Claim, TripType
<1>5. /\ [trip EXCEPT !.aged = TRUE] \in TripType
      /\ [trip EXCEPT !.status = "routing_confirmed"] \in TripType
      /\ [trip EXCEPT !.status = "deleting"] \in TripType
      /\ [trip EXCEPT !.plan = TRUE] \in TripType /\ [trip EXCEPT !.plan = FALSE] \in TripType
  BY DEF CrewTypeOK, TripType
<1>6. [NewTrip EXCEPT !.status = "gone"] \in TripType
  BY <1>1 DEF NewTrip, TripType
<1>7. QED
  BY <1>2, <1>3, <1>4, <1>5, <1>6

Requests(r) == \A q \in Request \ {r} : req'[q] = req[q]
Runs(w) == \A v \in Run \ {w} : run'[v] = run[v]

SameKinds == \A q \in Request : req'[q].kind = req[q].kind /\ req'[q].day = req[q].day

\* A request goes on.
LEMMA ReqGoes ==
  ASSUME CrewTypeOK, NEW r \in Request, NEW pc \in ReqPc, ReqGo(r, pc)
  PROVE  /\ req' \in [Request -> ReqType] /\ Requests(r)
         /\ req'[r].pc = pc
         /\ SameKinds
<1> DEFINE q == [req[r] EXCEPT !.pc = pc]
<1>1. q \in ReqType /\ q.pc = pc /\ q.kind = req[r].kind /\ q.day = req[r].day
  BY DEF CrewTypeOK, ReqType
<1>2. req' = [req EXCEPT ![r] = q]
  BY DEF ReqGo
<1> HIDE DEF q
<1>3. QED
  BY <1>1, <1>2 DEF CrewTypeOK, Requests, SameKinds

LEMMA RunSet ==
  ASSUME CrewTypeOK, SameKinds, NEW w \in Run, NEW q \in RunType, run' = [run EXCEPT ![w] = q],
         q.pc = "put" /\ req[w[1]].kind = "place" => q.n < MaxPlaces
  PROVE  RunsTyped' /\ Runs(w) /\ run'[w] = q
<1>1. run' \in [Run -> RunType] /\ Runs(w) /\ run'[w] = q
  BY DEF CrewTypeOK, Runs
<1>2. \A v \in Run : v[1] \in Request
  BY DEF Run
<1>3. QED
  BY <1>1, <1>2 DEF CrewTypeOK, RunsTyped, Runs, SameKinds

\* A run goes on, to anything but the write of its result, or ends.
LEMMA RunGoes ==
  ASSUME CrewTypeOK, SameKinds, NEW w \in Run, NEW pc \in RunPc \ {"put"}, RunGo(w, pc)
  PROVE  RunsTyped' /\ Runs(w) /\ run'[w].pc = pc
<1>1. 0 \in 0..MaxPlaces /\ 0 \in 0..Tries
  BY CrewJobsAssumption
<1> DEFINE q == IF pc = "done" THEN [NoRun EXCEPT !.pc = "done"] ELSE [run[w] EXCEPT !.pc = pc]
<1>2. q \in RunType /\ q.pc = pc
  BY <1>1 DEF CrewTypeOK, RunType, NoRun
<1>3. run' = [run EXCEPT ![w] = q]
  BY DEF RunGo
<1> HIDE DEF q
<1>4. QED
  BY <1>2, <1>3, RunSet

\* An event is sent, delivered twice, or tried again.
LEMMA RunSends ==
  ASSUME CrewTypeOK, SameKinds, NEW w \in Run,
         run' = [run EXCEPT ![w].pc = "sent", ![w].try = 1]
  PROVE  RunsTyped' /\ Runs(w) /\ run'[w].pc = "sent"
<1> DEFINE q == [run[w] EXCEPT !.pc = "sent", !.try = 1]
<1>one. 1 \in 0..Tries
  BY CrewJobsAssumption
<1>1. q \in RunType /\ q.pc = "sent"
  BY <1>one DEF CrewTypeOK, RunType, RunPc
<1>2. run' = [run EXCEPT ![w] = q]
  OBVIOUS
<1> HIDE DEF q
<1>3. QED
  BY <1>1, <1>2, RunSet

LEMMA RunAgain ==
  ASSUME CrewTypeOK, SameKinds, NEW w \in Run, Again(w)
  PROVE  RunsTyped' /\ Runs(w) /\ run'[w].pc \in {"sent", "lost"}
<1> DEFINE n == run[w].try
           m == IF n < Tries THEN n + 1 ELSE n
           pc == IF n < Tries THEN "sent" ELSE "lost"
           q == [run[w] EXCEPT !.pc = pc, !.try = m]
<1>1. run[w] \in RunType /\ n \in 0..Tries
  BY DEF CrewTypeOK, RunType
<1>2. m \in 0..Tries /\ pc \in {"sent", "lost"}
  BY <1>1, CrewJobsAssumption
<1>3. run' = [run EXCEPT ![w] = q]
  BY DEF Again
<1> HIDE DEF m, pc
<1>4. q \in RunType /\ q.pc \in {"sent", "lost"}
  BY <1>1, <1>2 DEF RunType, RunPc
<1> HIDE DEF q
<1>5. QED
  BY <1>3, <1>4, RunSet

\* The check of the claim takes the number of places from the row.
LEMMA CheckSets ==
  ASSUME CrewTypeOK, SameKinds, NEW w \in Run, NEW pc \in {"recover", "load"},
         run' = [run EXCEPT ![w].pc = pc, ![w].base = trip.base]
  PROVE  RunsTyped' /\ Runs(w) /\ run'[w].pc = pc
<1> DEFINE q == [run[w] EXCEPT !.pc = pc, !.base = trip.base]
<1>1. q \in RunType /\ q.pc = pc
  <2>1. run[w] \in RunType /\ trip.base \in 0..MaxPlaces
    BY DEF CrewTypeOK, TripType
  <2>2. QED
    BY <2>1 DEF RunType, RunPc
<1>2. run' = [run EXCEPT ![w] = q]
  OBVIOUS
<1> HIDE DEF q
<1>3. QED
  BY <1>1, <1>2, RunSet

LEMMA DayLength ==
  ASSUME CrewTypeOK, NEW w \in Run
  PROVE  /\ Len(DayOf(w)) \in 0..MaxPlaces
         /\ ~Full(w) => Len(DayOf(w)) < MaxPlaces
<1>1. CASE Job(w).day \in DOMAIN places
  <2>1. Len(places[Job(w).day]) \in 0..MaxPlaces
    BY <1>1, DayPlaces
  <2>2. DayOf(w) = places[Job(w).day]
    BY <1>1 DEF DayOf
  <2>3. QED
    BY <1>1, <2>1, <2>2, CrewJobsAssumption DEF Full
<1>2. CASE Job(w).day \notin DOMAIN places
  BY <1>2, CrewJobsAssumption DEF DayOf, Full
<1>3. QED
  BY <1>1, <1>2

\* The crew's answer is written to a day with room for it.
LEMMA CrewEnds ==
  ASSUME CrewTypeOK, NEW w \in Run, NEW well \in {"put", "complete"}, Ends(w, well),
         Job(w).kind = "place" => well = "put" /\ ~Full(w)
  PROVE  RunsTyped' /\ Runs(w) /\ run'[w].pc \in {well, "fail", "raise"}
<1>1. SameKinds
  BY DEF Ends, SameKinds
<1>2. CASE run' = [run EXCEPT ![w].pc = well, ![w].n = Len(DayOf(w))]
  <2> DEFINE q == [run[w] EXCEPT !.pc = well, !.n = Len(DayOf(w))]
  <2>1. q \in RunType /\ q.pc = well /\ (req[w[1]].kind = "place" => q.n < MaxPlaces)
    BY DayLength DEF CrewTypeOK, RunType, RunPc, Job
  <2>2. run' = [run EXCEPT ![w] = q]
    BY <1>2
  <2> HIDE DEF q
  <2>3. QED
    BY <1>1, <2>1, <2>2, RunSet
<1>3. CASE RunGo(w, "fail") \/ RunGo(w, "raise")
  BY <1>1, <1>3, RunGoes DEF RunPc
<1>4. QED
  BY <1>2, <1>3 DEF Ends

LEMMA FaultTyped ==
  ASSUME CrewTypeOK, NEW k \in FaultKinds, Fault(k)
  PROVE  FaultsTyped' /\ faults'[k] # 0 /\ \A j \in FaultKinds : faults'[j] = 0 => faults[j] = 0
<1>1. faults[k] \in Nat /\ faults[k] < Faults[k] /\ Faults \in [FaultKinds -> Nat]
  BY CrewJobsAssumption DEF CrewTypeOK, Fault
<1>2. faults' = [faults EXCEPT ![k] = faults[k] + 1]
  BY DEF Fault
<1>3. QED
  BY <1>1, <1>2 DEF CrewTypeOK, FaultsTyped

-----------------------------------------------------------------------------
(* What the conditional writes do to a claim.                              *)

LEMMA RunPair ==
  /\ \A w \in Run : w[1] \in Request /\ (w = <<w[1], 1>> \/ w = <<w[1], 2>>)
  /\ \A r \in Request : <<r, 1>> \in Run /\ <<r, 2>> \in Run
  BY DEF Run

LEMMA EventsDiffer == ASSUME NEW q, NEW r PROVE <<q, 2>> # <<r, 1>>
<1>1. <<q, 2>>[2] = 2 /\ <<r, 1>>[2] = 1
  OBVIOUS
<1>2. QED
  BY <1>1

ClaimKept ==
  /\ trip'.kind = trip.kind /\ trip'.owner = trip.owner /\ trip'.day = trip.day
  /\ trip'.status = "gone" <=> trip.status = "gone"

Released ==
  /\ trip'.kind = None /\ trip'.owner = None /\ ~trip'.aged
  /\ trip'.plan => trip.plan /\ (trip'.status = "gone" => trip.status = "gone")
  /\ trip.status = "gone" => trip'.status = "gone"

\* Clearing the job, or completing it, releases the claim.
LEMMA NoJobReleases == ASSUME CrewTypeOK, trip' = NoJob(trip) PROVE Released
  BY DEF CrewTypeOK, TripType, NoJob, Released

LEMMA CompletedReleases ==
  ASSUME CrewTypeOK, NEW r \in Request, trip' = Completed(trip, r) PROVE Released
<1> DEFINE t == NoJob(trip)
<1>1. /\ t.kind = None /\ t.owner = None /\ ~t.aged /\ t.plan = trip.plan
      /\ t.status = trip.status /\ t \in TripType
  BY TripValues DEF CrewTypeOK, TripType, NoJob
<1>2. trip' = [t EXCEPT !.status = IF req[r].kind = "propose" /\ @ # "gone"
                                   THEN "awaiting_city_confirm" ELSE @]
  BY DEF Completed
<1> HIDE DEF t
<1>3. QED
  BY <1>1, <1>2 DEF Released, TripType

FaultsStay == \A k \in FaultKinds : faults'[k] = 0 => faults[k] = 0

LEMMA OrderlyBefore == ASSUME FaultsStay, Orderly' PROVE Orderly
  BY DEF FaultsStay, Orderly, Quiet, FaultKinds

\* The type of the next state, part by part.
LEMMA TypedParts ==
  ASSUME trip' \in TripType, PlacesTyped', route' \in Request \cup {Traveler, None},
         req' \in [Request -> ReqType], RunsTyped', user' \in UserType,
         crossed' \in BOOLEAN, FaultsTyped'
  PROVE  CrewTypeOK'
  BY DEF CrewTypeOK, PlacesTyped, RunsTyped, FaultsTyped, PlacesType, UserType, TripType,
         ReqType, RunType, Run, ReqPc, RunPc, FaultKinds, Contributors

LEMMA TypedNow ==
  ASSUME CrewTypeOK
  PROVE  /\ trip \in TripType /\ PlacesTyped /\ route \in Request \cup {Traveler, None}
         /\ req \in [Request -> ReqType] /\ RunsTyped /\ user \in UserType
         /\ crossed \in BOOLEAN /\ FaultsTyped
  BY DEF CrewTypeOK, PlacesTyped, RunsTyped, FaultsTyped

\* What stays has its type still.
LEMMA TypedUnchanged ==
  ASSUME CrewTypeOK
  PROVE  /\ UNCHANGED trip => trip' \in TripType
         /\ UNCHANGED places => PlacesTyped'
         /\ UNCHANGED route => route' \in Request \cup {Traveler, None}
         /\ UNCHANGED req => req' \in [Request -> ReqType] /\ SameKinds
         /\ UNCHANGED run /\ SameKinds => RunsTyped'
         /\ UNCHANGED user => user' \in UserType
         /\ UNCHANGED crossed => crossed' \in BOOLEAN
         /\ UNCHANGED faults => FaultsTyped' /\ FaultsStay
<1>1. \A w \in Run : w[1] \in Request
  BY RunPair
<1>2. UNCHANGED run /\ SameKinds => RunsTyped'
  BY <1>1 DEF CrewTypeOK, RunsTyped, SameKinds
<1>3. UNCHANGED places => PlacesTyped'
  BY DEF CrewTypeOK, PlacesTyped, PlacesType
<1>4. UNCHANGED faults => FaultsTyped' /\ FaultsStay
  BY DEF CrewTypeOK, FaultsTyped, FaultsStay
<1>5. UNCHANGED req => req' \in [Request -> ReqType] /\ SameKinds
  BY DEF CrewTypeOK, SameKinds
<1>6. QED
  BY <1>2, <1>3, <1>4, <1>5 DEF CrewTypeOK

-----------------------------------------------------------------------------
(* A run's steps.                                                          *)

WorkPc == {"recover", "finish", "load", "put", "complete"}

LEMMA WorkingIs == \A w \in Run : w \in Working <=> run[w].pc \in WorkPc
  BY DEF Working, WorkPc

\* In an orderly trip the runs that go on are those of one request.
LEMMA HoldersAgree ==
  ASSUME CrewInv, Orderly, trip.status # "gone", NEW w \in Run, run[w].pc \in Hold
  PROVE  /\ w = <<w[1], 1>> /\ w[1] \in Request /\ trip.owner = w[1]
         /\ \A v \in Run : run[v].pc \in Hold => v = w
         /\ \A r \in Request : req[r].pc \notin {"enqueue", "fail"}
<1>1. HoldersOwn
  BY DEF CrewInv
<1>2. \A v \in Run : run[v].pc \in Hold =>
        v = <<v[1], 1>> /\ v[1] \in Request /\ trip.owner = v[1]
  BY <1>1, RunPair DEF HoldersOwn, Hold
<1>3. w = <<w[1], 1>> /\ w[1] \in Request /\ trip.owner = w[1]
  BY <1>2
<1>4. \A v \in Run : run[v].pc \in Hold => v = w
  BY <1>2, <1>3
<1>5. \A r \in Request : req[r].pc \in {"enqueue", "fail"} => r = w[1]
  BY <1>1, <1>3 DEF HoldersOwn
<1>6. req[w[1]].pc \notin {"enqueue", "fail"}
  BY <1>1, <1>3 DEF HoldersOwn, Hold, Unsent
<1>7. QED
  BY <1>3, <1>4, <1>5, <1>6

\* A run that goes on under the same claim.
LEMMA RunKeeps ==
  ASSUME CrewInv, CrewTypeOK', NEW w \in Run, Runs(w), FaultsStay,
         run[w].pc # "none", run'[w].pc # "none",
         UNCHANGED <<trip, req, user, crossed>>, route' = Traveler => route = Traveler,
         run'[w].pc = "done" /\ trip.status # "gone" => trip.owner # w[1],
         trip.status # "gone" /\ Orderly /\ HoldersOwn =>
           /\ run'[w].pc # "undo"
           /\ run'[w].pc \in Hold => run[w].pc \in Hold,
         trip.status = "gone" /\ run'[w].pc \in WorkPc => run[w].pc \in WorkPc
  PROVE  CrewInv'
<1>1. ClaimIsOwned' /\ ProposalIsAlone'
  BY DEF CrewInv, ClaimIsOwned, ProposalIsAlone
<1>2. ClaimIsServed'
  <2> SUFFICES ASSUME faults'["dead"] = 0, trip.status # "gone",
                      NEW r \in Request, trip.owner = r
               PROVE  Serves(r)'
    BY DEF ClaimIsServed
  <2>1. Serves(r)
    BY DEF CrewInv, ClaimIsServed, FaultsStay, FaultKinds
  <2>2. QED
    BY <2>1 DEF Serves, Runs
<1>3. ASSUME Orderly' PROVE HoldersOwn'
  <2>1. Orderly /\ HoldersOwn
    BY <1>3, OrderlyBefore DEF CrewInv
  <2>2. w = <<w[1], 1>> /\ w[1] \in Request
    BY <2>1, RunPair DEF HoldersOwn
  <2>3. ~trip'.aged /\ \A r \in Request : req'[r].pc # "clear" /\ run'[<<r, 2>>].pc = "none"
    BY <2>1, <2>2, RunPair DEF HoldersOwn, Runs
  <2>4. \A r \in Request : req'[r].pc \in Unsent => run'[<<r, 1>>].pc = "none"
    BY <2>1, <2>2, RunPair DEF HoldersOwn, Runs
  <2>5. ASSUME trip.status # "gone", NEW r \in Request
        PROVE  /\ run'[<<r, 1>>].pc # "undo"
               /\ req'[r].pc \in {"enqueue", "fail"} \/ run'[<<r, 1>>].pc \in Hold
                    => trip'.owner = r
    <3>1. CASE r = w[1]
      BY <2>1, <2>2, <2>5, <3>1 DEF HoldersOwn
    <3>2. CASE r # w[1]
      BY <2>1, <2>2, <2>5, <3>2, RunPair DEF HoldersOwn, Runs
    <3>3. QED
      BY <3>1, <3>2
  <2>6. ASSUME NEW u \in Working', NEW v \in Working' PROVE u = v
    <3>1. u \in Run /\ v \in Run /\ run'[u].pc \in WorkPc /\ run'[v].pc \in WorkPc
      BY DEF Working, WorkPc
    <3>2. CASE trip.status = "gone"
      <4>1. u \in Working /\ v \in Working
        BY <3>1, <3>2, WorkingIs DEF Runs
      <4>2. QED
        BY <2>1, <4>1 DEF HoldersOwn
    <3>3. CASE trip.status # "gone"
      <4>1. run'[u].pc \in Hold /\ run'[v].pc \in Hold
        BY <3>1 DEF WorkPc, Hold
      <4>2. run[u].pc \in Hold /\ run[v].pc \in Hold
        BY <2>1, <3>1, <3>3, <4>1 DEF Runs
      <4>3. QED
        BY <2>1, <3>1, <3>3, <4>2, HoldersAgree
    <3>4. QED
      BY <3>2, <3>3
  <2>7. QED
    BY <2>3, <2>4, <2>5, <2>6 DEF HoldersOwn
<1>4. QED
  BY <1>1, <1>2, <1>3 DEF CrewInv

\* A run that ends with the claim it has released.
LEMMA RunReleases ==
  ASSUME CrewInv, CrewTypeOK', NEW w \in Run, Runs(w), FaultsStay, Released,
         run[w].pc # "none", run'[w].pc \in {"done", "raise"},
         UNCHANGED req,
         trip.status # "gone" /\ Orderly /\ HoldersOwn =>
           run'[w].pc = "done" /\ run[w].pc \in Hold
  PROVE  CrewInv'
<1>1. ClaimIsOwned' /\ ProposalIsAlone' /\ ClaimIsServed'
  BY CrewJobsAssumption
  DEF CrewInv, ClaimIsOwned, ProposalIsAlone, ClaimIsServed, Released, CrewTypeOK, TripType
<1>2. ASSUME Orderly' PROVE HoldersOwn'
  <2>1. Orderly /\ HoldersOwn
    BY <1>2, OrderlyBefore DEF CrewInv
  <2>2. w = <<w[1], 1>> /\ w[1] \in Request
    BY <2>1, RunPair DEF HoldersOwn
  <2>3. ~trip'.aged /\ \A r \in Request : req'[r].pc # "clear" /\ run'[<<r, 2>>].pc = "none"
    BY <2>1, <2>2, RunPair DEF HoldersOwn, Runs, Released
  <2>4. \A r \in Request : req'[r].pc \in Unsent => run'[<<r, 1>>].pc = "none"
    BY <2>1, <2>2, RunPair DEF HoldersOwn, Runs
  <2>5. ASSUME trip'.status # "gone", NEW r \in Request
        PROVE  /\ run'[<<r, 1>>].pc # "undo"
               /\ req'[r].pc \notin {"enqueue", "fail"} /\ run'[<<r, 1>>].pc \notin Hold
    <3>1. trip.status # "gone" /\ run[w].pc \in Hold /\ run'[w].pc = "done"
      BY <2>1, <2>5 DEF Released
    <3>2. /\ \A v \in Run : run[v].pc \in Hold => v = w
          /\ \A q \in Request : req[q].pc \notin {"enqueue", "fail"}
      BY <2>1, <3>1, HoldersAgree
    <3>3. run[<<r, 1>>].pc # "undo"
      BY <2>1, <3>1 DEF HoldersOwn
    <3>4. QED
      BY <3>1, <3>2, <3>3, RunPair DEF Runs, Hold
  <2>6. ASSUME NEW u \in Working', NEW v \in Working' PROVE u = v
    <3>1. u \in Working /\ v \in Working
      BY DEF Working, Runs
    <3>2. QED
      BY <2>1, <3>1 DEF HoldersOwn
  <2>7. QED
    BY <2>3, <2>4, <2>5, <2>6 DEF HoldersOwn
<1>3. QED
  BY <1>1, <1>2 DEF CrewInv

\* The steps of a run that leave the TRIP row alone.
LEMMA RunReads ==
  ASSUME CrewInv, NEW w \in Run,
         \/ Check(w) \/ Recover(w) \/ ProposeCities(w) \/ SuggestCity(w) \/ SuggestPlace(w)
         \/ Raise(w)
  PROVE  CrewInv'
<1>1. /\ CrewTypeOK /\ w[1] \in Request
      /\ UNCHANGED <<trip, places, route, req, user, crossed, faults>>
  BY RunPair DEF CrewInv, Check, Recover, ProposeCities, SuggestCity, SuggestPlace, Ends,
                 Reject, Raise
<1>2. SameKinds /\ FaultsStay
  BY <1>1, TypedUnchanged
<1>3. ASSUME RunsTyped' PROVE CrewTypeOK'
  BY <1>1, <1>3, TypedUnchanged, TypedParts
<1> USE DEF Hold, WorkPc, RunPc
<1>4. CASE Check(w)
  <2>1. CASE RunGo(w, "done") /\ ~(/\ trip.status # "gone" /\ trip.kind = Job(w).kind
                                   /\ Job(w).kind = "place" => trip.day = Job(w).day)
    <3>1. RunsTyped' /\ Runs(w) /\ run'[w].pc = "done"
      BY <1>1, <1>2, <2>1, RunGoes
    <3>2. trip.status # "gone" => trip.owner # w[1]
      BY <1>1, <2>1 DEF CrewInv, ClaimIsOwned, Job
    <3>3. QED
      BY <1>1, <1>2, <1>3, <1>4, <3>1, <3>2, RunKeeps DEF Check
  <2>2. CASE /\ run' = [run EXCEPT ![w].pc = IF Job(w).kind = "place" THEN "recover" ELSE "load",
                                   ![w].base = trip.base]
             /\ trip.status # "gone"
    <3> DEFINE pc == IF Job(w).kind = "place" THEN "recover" ELSE "load"
    <3>1. pc \in {"recover", "load"} /\ run' = [run EXCEPT ![w].pc = pc, ![w].base = trip.base]
      BY <2>2
    <3> HIDE DEF pc
    <3>2. RunsTyped' /\ Runs(w) /\ run'[w].pc = pc
      BY <1>1, <1>2, <3>1, CheckSets
    <3>3. QED
      BY <1>1, <1>2, <1>3, <1>4, <2>2, <3>1, <3>2, RunKeeps DEF Check
  <2>3. QED
    BY <1>4, <2>1, <2>2 DEF Check
<1>5. CASE Recover(w)
  <2>1. run[w].pc = "recover" /\ (RunGo(w, "finish") \/ RunGo(w, "load"))
    BY <1>5 DEF Recover
  <2>2. RunsTyped' /\ Runs(w) /\ run'[w].pc \in {"finish", "load"}
    BY <1>1, <1>2, <2>1, RunGoes
  <2>3. QED
    BY <1>1, <1>2, <1>3, <2>1, <2>2, RunKeeps
<1>6. CASE ProposeCities(w) \/ SuggestCity(w) \/ SuggestPlace(w)
  <2>1. run[w].pc = "load"
    BY <1>6 DEF ProposeCities, SuggestCity, SuggestPlace
  <2>2. RunsTyped' /\ Runs(w) /\ run'[w].pc \in {"put", "complete", "fail", "raise"}
    <3>1. CASE RunGo(w, "fail")
      BY <1>1, <1>2, <3>1, RunGoes
    <3>2. CASE \/ ProposeCities(w) /\ Ends(w, "put")
               \/ SuggestCity(w) /\ Ends(w, "complete")
               \/ SuggestPlace(w) /\ Ends(w, "put") /\ ~Full(w)
      BY <1>1, <3>2, CrewEnds DEF ProposeCities, SuggestCity, SuggestPlace
    <3>3. QED
      BY <1>6, <3>1, <3>2 DEF ProposeCities, SuggestCity, SuggestPlace, Reject
  <2>3. QED
    BY <1>1, <1>2, <1>3, <2>1, <2>2, RunKeeps
<1>7. CASE Raise(w)
  <2>1. CASE Again(w) /\ trip.status # "gone"
    <3>1. RunsTyped' /\ Runs(w) /\ run'[w].pc \in {"sent", "lost"}
      BY <1>1, <1>2, <2>1, RunAgain
    <3>2. QED
      BY <1>1, <1>2, <1>3, <1>7, <2>1, <3>1, RunKeeps DEF Raise
  <2>2. CASE RunGo(w, "done") /\ ~(trip.status # "gone" /\ trip.kind = Job(w).kind)
    <3>1. RunsTyped' /\ Runs(w) /\ run'[w].pc = "done"
      BY <1>1, <1>2, <2>2, RunGoes
    <3>2. trip.status # "gone" => trip.owner # w[1]
      BY <1>1, <2>2 DEF CrewInv, ClaimIsOwned, Job
    <3>3. QED
      BY <1>1, <1>2, <1>3, <1>7, <3>1, <3>2, RunKeeps DEF Raise
  <2>3. QED
    BY <1>7, <2>1, <2>2 DEF Raise
<1>8. QED
  BY <1>4, <1>5, <1>6, <1>7

\* Those that write the ROUTE or a DAY, and a run that dies.
LEMMA RunWrites ==
  ASSUME CrewInv, NEW w \in Run, PutRoute(w) \/ Persist(w) \/ RunDies(w) PROVE CrewInv'
<1>1. /\ CrewTypeOK /\ w[1] \in Request /\ UNCHANGED <<trip, req, user, crossed>>
  BY RunPair DEF CrewInv, PutRoute, Persist, RunDies
<1>2. SameKinds
  BY <1>1, TypedUnchanged
<1> USE DEF Hold, WorkPc, RunPc
<1>3. CASE PutRoute(w)
  <2>1. /\ run[w].pc = "put" /\ RunGo(w, "complete") /\ route' = w[1]
        /\ UNCHANGED <<places, faults>>
    BY <1>3 DEF PutRoute
  <2>2. RunsTyped' /\ Runs(w) /\ run'[w].pc = "complete"
    BY <1>1, <1>2, <2>1, RunGoes
  <2>3. CrewTypeOK' /\ FaultsStay
    BY <1>1, <2>1, <2>2, TypedUnchanged, TypedParts
  <2>4. route' # Traveler
    BY <1>1, <2>1, CrewJobsAssumption
  <2>5. QED
    BY <1>1, <2>1, <2>2, <2>3, <2>4, RunKeeps
<1>4. CASE Persist(w)
  <2>1. run[w].pc = "put" /\ UNCHANGED <<route, faults>> /\ (RunGo(w, "fail") \/ RunGo(w, "complete"))
    BY <1>4 DEF Persist
  <2>2. RunsTyped' /\ Runs(w) /\ run'[w].pc \in {"fail", "complete"}
    BY <1>1, <1>2, <2>1, RunGoes
  <2>3. PlacesTyped'
    <3>1. CASE UNCHANGED places
      BY <1>1, <3>1, TypedUnchanged
    <3>2. CASE /\ Job(w).day \in DOMAIN places /\ Len(DayOf(w)) = run[w].n
               /\ places' = [places EXCEPT ![Job(w).day] = Append(@, w[1])]
      <4> DEFINE d == Job(w).day
                 s == Append(places[d], w[1])
      <4>1. places[d] \in Seq(Contributors) /\ Len(places[d]) = run[w].n
        BY <1>1, <3>2, DayPlaces DEF DayOf
      <4>2. run[w].n < MaxPlaces /\ run[w].n \in Nat
        BY <1>1, <1>4 DEF Persist, Job, CrewTypeOK, RunType
      <4>3. s \in Seq(Contributors) /\ Len(s) <= MaxPlaces
        BY <1>1, <4>1, <4>2, CrewJobsAssumption DEF Contributors
      <4>4. places' = [places EXCEPT ![d] = s]
        BY <3>2
      <4> HIDE DEF s
      <4>5. QED
        BY <1>1, <3>2, <4>3, <4>4, PlacesSet
    <3>3. QED
      BY <1>4, <3>1, <3>2 DEF Persist
  <2>4. CrewTypeOK' /\ FaultsStay
    BY <1>1, <2>1, <2>2, <2>3, TypedUnchanged, TypedParts
  <2>5. QED
    BY <1>1, <2>1, <2>2, <2>4, RunKeeps
<1>5. CASE RunDies(w)
  <2>1. /\ run[w].pc \notin {"none", "sent", "lost", "done"} /\ Again(w)
        /\ UNCHANGED <<places, route>>
    BY <1>5 DEF RunDies
  <2>2. RunsTyped' /\ Runs(w) /\ run'[w].pc \in {"sent", "lost"}
    BY <1>1, <1>2, <2>1, RunAgain
  <2>3. FaultsTyped' /\ FaultsStay
    BY <1>1, <1>5, FaultTyped DEF RunDies, FaultKinds, FaultsStay
  <2>4. CrewTypeOK'
    BY <1>1, <2>1, <2>2, <2>3, TypedUnchanged, TypedParts
  <2>5. trip.status # "gone" /\ HoldersOwn => run[w].pc \in Hold
    BY <1>1, <2>1, RunPair DEF HoldersOwn, CrewTypeOK, RunType
  <2>6. QED
    BY <1>1, <2>1, <2>2, <2>3, <2>4, <2>5, RunKeeps
<1>6. QED
  BY <1>3, <1>4, <1>5

\* And those that complete or fail a claim.
LEMMA RunEnds ==
  ASSUME CrewInv, NEW w \in Run, Finish(w) \/ Complete(w) \/ FailRun(w) PROVE CrewInv'
<1>1. /\ CrewTypeOK /\ w[1] \in Request
      /\ UNCHANGED <<places, route, req, user, crossed, faults>>
  BY RunPair DEF CrewInv, Finish, Complete, FailRun
<1>2. SameKinds /\ FaultsStay
  BY <1>1, TypedUnchanged
<1>3. ASSUME RunsTyped', trip' \in TripType PROVE CrewTypeOK'
  BY <1>1, <1>3, TypedUnchanged, TypedParts
<1> USE DEF Hold, WorkPc, RunPc
<1>4. CASE run[w].pc \in {"finish", "complete"} /\ trip' = Completed(trip, w[1]) /\ RunGo(w, "done")
  <2>1. RunsTyped' /\ Runs(w) /\ run'[w].pc = "done"
    BY <1>1, <1>2, <1>4, RunGoes
  <2>2. Released /\ trip' \in TripType
    BY <1>1, <1>4, CompletedReleases, TripValues
  <2>3. QED
    BY <1>1, <1>2, <1>3, <1>4, <2>1, <2>2, RunReleases
<1>5. CASE Finish(w) /\ UNCHANGED trip /\ RunGo(w, "raise")
  <2>1. RunsTyped' /\ Runs(w) /\ run'[w].pc = "raise" /\ run[w].pc = "finish"
    BY <1>1, <1>2, <1>5, RunGoes DEF Finish
  <2>2. QED
    BY <1>1, <1>2, <1>3, <1>5, <2>1, RunKeeps, TypedUnchanged
<1>6. CASE Complete(w) /\ UNCHANGED trip /\ RunGo(w, "undo") /\ trip.kind # Job(w).kind
  <2>1. RunsTyped' /\ Runs(w) /\ run'[w].pc = "undo" /\ run[w].pc = "complete"
    BY <1>1, <1>2, <1>6, RunGoes DEF Complete
  <2>2. trip.owner # w[1]
    BY <1>1, <1>6 DEF CrewInv, ClaimIsOwned, Job
  <2>3. ~(trip.status # "gone" /\ Orderly /\ HoldersOwn)
    BY <2>1, <2>2, HoldersAgree
  <2>4. QED
    BY <1>1, <1>2, <1>3, <1>6, <2>1, <2>2, <2>3, RunKeeps, TypedUnchanged
<1>7. CASE FailRun(w)
  <2>1. /\ run[w].pc \in {"fail", "undo"}
        /\ RunGo(w, IF run[w].pc = "fail" THEN "done" ELSE "raise")
    BY <1>7 DEF FailRun
  <2>2. RunsTyped' /\ Runs(w) /\ run'[w].pc = IF run[w].pc = "fail" THEN "done" ELSE "raise"
    BY <1>1, <1>2, <2>1, RunGoes
  <2>3. trip.status # "gone" /\ HoldersOwn => run[w].pc = "fail"
    BY <2>1, RunPair DEF HoldersOwn
  <2>4. CASE trip.kind = req[w[1]].kind
    <3>1. trip' = NoJob(trip)
      BY <1>7, <2>4 DEF FailRun, FailJob
    <3>2. Released /\ trip' \in TripType
      BY <1>1, <3>1, NoJobReleases, TripValues
    <3>3. QED
      BY <1>1, <1>2, <1>3, <2>1, <2>2, <2>3, <3>2, RunReleases
  <2>5. CASE trip.kind # req[w[1]].kind
    <3>1. UNCHANGED trip
      BY <1>7, <2>5 DEF FailRun, FailJob
    <3>2. trip.owner # w[1]
      BY <1>1, <2>5 DEF CrewInv, ClaimIsOwned
    <3>3. ~(trip.status # "gone" /\ Orderly /\ HoldersOwn)
      BY <2>3, <3>2, HoldersAgree
    <3>4. QED
      BY <1>1, <1>2, <1>3, <2>1, <2>2, <3>1, <3>2, <3>3, RunKeeps, TypedUnchanged
  <2>6. QED
    BY <2>4, <2>5
<1>8. QED
  BY <1>4, <1>5, <1>6, <1>7 DEF Finish, Complete

-----------------------------------------------------------------------------
(* A request's steps.                                                      *)

\* A request that goes on under the same claim; its event may be sent.
LEMMA ReqKeeps ==
  ASSUME CrewInv, CrewTypeOK', NEW r \in Request, Requests(r), SameKinds, Runs(<<r, 1>>),
         FaultsStay, UNCHANGED <<trip, route, user, crossed>>,
         faults'["dead"] = 0 /\ trip.status # "gone" /\ trip.owner = r /\ Serves(r) => Serves(r)',
         Orderly' /\ HoldersOwn =>
           /\ req'[r].pc # "clear"
           /\ req'[r].pc \in Unsent => run'[<<r, 1>>].pc = "none"
           /\ run'[<<r, 1>>].pc \in WorkPc => run[<<r, 1>>].pc \in WorkPc
           /\ trip.status # "gone" =>
                /\ run'[<<r, 1>>].pc # "undo"
                /\ req'[r].pc \in {"enqueue", "fail"} \/ run'[<<r, 1>>].pc \in Hold
                     => trip.owner = r
  PROVE  CrewInv'
<1>1. ClaimIsOwned' /\ ProposalIsAlone'
  BY DEF CrewInv, ClaimIsOwned, ProposalIsAlone, SameKinds
<1>2. ClaimIsServed'
  <2> SUFFICES ASSUME faults'["dead"] = 0, trip.status # "gone",
                      NEW q \in Request, trip.owner = q
               PROVE  Serves(q)'
    BY DEF ClaimIsServed
  <2>1. Serves(q)
    BY DEF CrewInv, ClaimIsServed, FaultsStay, FaultKinds
  <2>2. CASE q = r
    BY <2>1, <2>2
  <2>3. CASE q # r
    BY <2>1, <2>3, RunPair DEF Serves, Requests, Runs
  <2>4. QED
    BY <2>2, <2>3
<1>3. ASSUME Orderly' PROVE HoldersOwn'
  <2>1. Orderly /\ HoldersOwn
    BY <1>3, OrderlyBefore DEF CrewInv
  <2>2. ASSUME NEW q \in Request
        PROVE  /\ req'[q].pc # "clear"
               /\ run'[<<q, 2>>].pc = "none"
               /\ req'[q].pc \in Unsent => run'[<<q, 1>>].pc = "none"
               /\ trip'.status # "gone" =>
                    /\ run'[<<q, 1>>].pc # "undo"
                    /\ req'[q].pc \in {"enqueue", "fail"} \/ run'[<<q, 1>>].pc \in Hold
                         => trip'.owner = q
    <3>1. run'[<<q, 2>>] = run[<<q, 2>>]
      <4>1. <<q, 2>> \in Run /\ <<q, 2>> # <<r, 1>>
        BY RunPair, EventsDiffer
      <4>2. QED
        BY <4>1 DEF Runs
    <3>2. CASE q = r
      <4>1. run'[<<q, 2>>].pc = "none"
        BY <2>1, <3>1 DEF HoldersOwn
      <4>2. QED
        BY <1>3, <2>1, <3>2, <4>1
    <3>3. CASE q # r
      <4>1. req'[q] = req[q] /\ run'[<<q, 1>>] = run[<<q, 1>>]
        BY <3>3, RunPair DEF Requests, Runs
      <4>2. QED
        BY <2>1, <3>1, <4>1 DEF HoldersOwn
    <3>4. QED
      BY <3>2, <3>3
  <2>3. \A v \in Run : run'[v].pc \in WorkPc => run[v].pc \in WorkPc
    BY <1>3, <2>1 DEF Runs
  <2>4. \A u, v \in Working' : u = v
    BY <2>1, <2>3 DEF HoldersOwn, Working, WorkPc
  <2>5. ~trip'.aged
    BY <2>1 DEF HoldersOwn
  <2>6. QED
    BY <2>2, <2>4, <2>5 DEF HoldersOwn
<1>4. QED
  BY <1>1, <1>2, <1>3 DEF CrewInv

\* A request that gives up its claim, or clears one that has grown stale.
LEMMA ReqReleases ==
  ASSUME CrewInv, CrewTypeOK', NEW r \in Request, Requests(r), FaultsStay, UNCHANGED run,
         Released,
         \/ req[r].pc = "fail" /\ req'[r].pc = "done"
         \/ req[r].pc = "clear" /\ req'[r].pc = "claim"
  PROVE  CrewInv'
<1>1. ClaimIsOwned' /\ ProposalIsAlone' /\ ClaimIsServed'
  BY CrewJobsAssumption
  DEF CrewInv, ClaimIsOwned, ProposalIsAlone, ClaimIsServed, Released, CrewTypeOK, TripType
<1>2. ASSUME Orderly' PROVE HoldersOwn'
  <2>1. Orderly /\ HoldersOwn
    BY <1>2, OrderlyBefore DEF CrewInv
  <2>2. req[r].pc = "fail" /\ req'[r].pc = "done"
    BY <2>1 DEF HoldersOwn
  <2>3. ASSUME NEW q \in Request
        PROVE  /\ req'[q].pc # "clear"
               /\ run'[<<q, 2>>].pc = "none"
               /\ req'[q].pc \in Unsent => run'[<<q, 1>>].pc = "none"
               /\ trip'.status # "gone" =>
                    /\ run'[<<q, 1>>].pc # "undo"
                    /\ req'[q].pc \notin {"enqueue", "fail"} /\ run'[<<q, 1>>].pc \notin Hold
    <3>1. CASE q = r
      BY <2>1, <2>2, <3>1 DEF HoldersOwn, Unsent, Hold
    <3>2. CASE q # r
      <4>1. req'[q] = req[q]
        BY <3>2 DEF Requests
      <4>2. trip'.status # "gone" => trip.owner = r
        BY <2>1, <2>2 DEF HoldersOwn, Released
      <4>3. QED
        BY <2>1, <3>2, <4>1, <4>2 DEF HoldersOwn, Released
    <3>3. QED
      BY <3>1, <3>2
  <2>4. \A u, v \in Working' : u = v
    BY <2>1 DEF HoldersOwn, Working
  <2>5. ~trip'.aged
    BY DEF Released
  <2>6. QED
    BY <2>3, <2>4, <2>5 DEF HoldersOwn
<1>3. QED
  BY <1>1, <1>2 DEF CrewInv

\* claim_crew_job: nobody holds the claim that a request takes.
LEMMA ReqClaims ==
  ASSUME CrewInv, CrewTypeOK', NEW r \in Request, Requests(r), SameKinds, CanClaim(trip),
         trip' = Claim(trip, r), req[r].pc \in {"stale", "claim"}, req'[r].pc = "enqueue",
         UNCHANGED <<run, route, user, faults>>,
         req[r].kind = "propose" /\ ~crossed' => user.pc = "idle" /\ route # Traveler
  PROVE  CrewInv'
<1>1. /\ trip'.kind = req[r].kind /\ trip'.owner = r /\ ~trip'.aged
      /\ trip'.plan = trip.plan /\ trip'.status = trip.status
      /\ req[r].kind = "place" => trip'.day = req[r].day
  BY DEF CrewInv, CrewTypeOK, TripType, Claim
<1>2. trip.kind = None /\ trip.owner = None /\ ~trip.plan
  BY DEF CrewInv, ClaimIsOwned, CanClaim
<1>3. req[r].kind \in Kinds /\ req[r].kind # None /\ None \notin Request
  BY CrewJobsAssumption DEF CrewInv, CrewTypeOK, ReqType
<1>4. ClaimIsOwned'
  BY <1>1, <1>2, <1>3 DEF ClaimIsOwned, SameKinds
<1>5. ClaimIsServed' /\ ProposalIsAlone'
  BY <1>1 DEF ClaimIsServed, Serves, ProposalIsAlone
<1>6. ASSUME Orderly' PROVE HoldersOwn'
  <2>1. HoldersOwn
    BY <1>6 DEF Orderly, Quiet, CrewInv
  <2>2. ASSUME NEW q \in Request
        PROVE  /\ req'[q].pc # "clear"
               /\ run'[<<q, 2>>].pc = "none"
               /\ req'[q].pc \in Unsent => run'[<<q, 1>>].pc = "none"
               /\ trip'.status # "gone" =>
                    /\ run'[<<q, 1>>].pc # "undo"
                    /\ req'[q].pc \in {"enqueue", "fail"} \/ run'[<<q, 1>>].pc \in Hold
                         => trip'.owner = q
    <3>1. CASE q = r
      BY <1>1, <2>1, <3>1 DEF HoldersOwn, Unsent
    <3>2. CASE q # r
      <4>1. req'[q] = req[q]
        BY <3>2 DEF Requests
      <4>2. QED
        BY <1>1, <1>2, <1>3, <2>1, <4>1 DEF HoldersOwn
    <3>3. QED
      BY <3>1, <3>2
  <2>3. \A u, v \in Working' : u = v
    BY <2>1 DEF HoldersOwn, Working
  <2>4. QED
    BY <1>1, <2>2, <2>3 DEF HoldersOwn
<1>7. QED
  BY <1>4, <1>5, <1>6 DEF CrewInv
LEMMA ReqSet ==
  ASSUME CrewTypeOK, NEW r \in Request, NEW q \in ReqType, req' = [req EXCEPT ![r] = q],
         q.kind = req[r].kind, q.day = req[r].day
  PROVE  req' \in [Request -> ReqType] /\ Requests(r) /\ SameKinds /\ req'[r] = q
  BY DEF CrewTypeOK, Requests, SameKinds

\* A fault that no orderly trip has.
LEMMA FaultDisorders ==
  ASSUME CrewTypeOK, NEW k \in FaultKinds, Fault(k)
  PROVE  FaultsTyped' /\ FaultsStay /\ (k \in {"aged", "doubled", "unsure"} => ~Orderly')
         /\ (k = "dead" => faults'["dead"] # 0)
  BY FaultTyped DEF FaultsStay, Orderly, Quiet

\* Asking, and the steps up to the claim.
LEMMA ReqAsks ==
  ASSUME CrewInv, NEW r \in Request, Ask(r) \/ ReadStale(r) \/ ClearStale(r)
  PROVE  CrewInv'
<1>1. /\ CrewTypeOK /\ UNCHANGED <<places, route, run, user, crossed, faults>>
      /\ <<r, 1>> \in Run
  BY RunPair DEF CrewInv, Ask, ReadStale, ClearStale
<1>2. FaultsStay /\ Runs(<<r, 1>>)
  BY <1>1, TypedUnchanged DEF Runs
<1>3. ASSUME req' \in [Request -> ReqType], SameKinds, trip' \in TripType PROVE CrewTypeOK'
  BY <1>1, <1>3, TypedUnchanged, TypedParts
<1>4. CASE Ask(r)
  <2> DEFINE n == IF req[r].kind = "place" THEN Len(places[req[r].day]) ELSE 0
             q == [req[r] EXCEPT !.pc = "stale", !.base = n]
  <2>1. UNCHANGED trip /\ req[r].pc = "idle" /\ req' = [req EXCEPT ![r] = q]
    BY <1>4 DEF Ask
  <2>2. n \in 0..MaxPlaces
    <3>1. CASE req[r].kind = "place"
      <4>1. req[r].day \in DOMAIN places
        BY <1>4, <3>1 DEF Ask, MayPropose, MaySuggestCity, MaySuggestPlace
      <4>2. QED
        BY <1>1, <3>1, <4>1, DayPlaces
    <3>2. CASE req[r].kind # "place"
      BY <3>2, CrewJobsAssumption
    <3>3. QED
      BY <3>1, <3>2
  <2> HIDE DEF n
  <2>3. q \in ReqType /\ q.pc = "stale" /\ q.kind = req[r].kind /\ q.day = req[r].day
    BY <1>1, <2>2 DEF CrewTypeOK, ReqType, ReqPc
  <2> HIDE DEF q
  <2>4. req' \in [Request -> ReqType] /\ Requests(r) /\ SameKinds /\ req'[r] = q
    BY <1>1, <2>1, <2>3, ReqSet
  <2>5. CrewTypeOK'
    BY <1>1, <1>3, <2>1, <2>4, TypedNow
  <2>6. Serves(r) => Serves(r)'
    BY <1>1, <2>1 DEF Serves
  <2>7. HoldersOwn =>
          /\ run[<<r, 1>>].pc = "none"
          /\ trip.status # "gone" /\ run[<<r, 1>>].pc \in Hold => trip.owner = r
    BY <2>1 DEF HoldersOwn, Unsent
  <2>8. QED
    BY <1>1, <1>2, <2>1, <2>3, <2>4, <2>5, <2>6, <2>7, ReqKeeps DEF Unsent
<1>5. CASE ReadStale(r)
  <2> DEFINE q == [req[r] EXCEPT !.pc = "clear", !.saw = trip.kind]
  <2>1. UNCHANGED trip /\ req[r].pc = "stale" /\ req' = [req EXCEPT ![r] = q] /\ ~HoldersOwn
    BY <1>5 DEF ReadStale, HoldersOwn
  <2>2. q \in ReqType /\ q.pc = "clear" /\ q.kind = req[r].kind /\ q.day = req[r].day
    <3>1. req[r] \in ReqType /\ trip.kind \in Kinds \cup {None}
      BY <1>1 DEF CrewTypeOK, TripType
    <3>2. QED
      BY <3>1 DEF ReqType, ReqPc
  <2> HIDE DEF q
  <2>3. req' \in [Request -> ReqType] /\ Requests(r) /\ SameKinds /\ req'[r] = q
    BY <1>1, <2>1, <2>2, ReqSet
  <2>4. CrewTypeOK'
    BY <1>1, <1>3, <2>1, <2>3, TypedNow
  <2>5. Serves(r) => Serves(r)'
    BY <1>1, <2>1 DEF Serves
  <2>6. QED
    BY <1>1, <1>2, <2>1, <2>3, <2>4, <2>5, ReqKeeps
<1>6. CASE ClearStale(r)
  <2> DEFINE q == [req[r] EXCEPT !.pc = "claim", !.saw = None]
  <2>1. req[r].pc = "clear" /\ req' = [req EXCEPT ![r] = q] /\ ~HoldersOwn
    BY <1>6 DEF ClearStale, HoldersOwn
  <2>2. q \in ReqType /\ q.pc = "claim" /\ q.kind = req[r].kind /\ q.day = req[r].day
    BY <1>1 DEF CrewTypeOK, ReqType, ReqPc
  <2> HIDE DEF q
  <2>3. req' \in [Request -> ReqType] /\ Requests(r) /\ SameKinds /\ req'[r] = q
    BY <1>1, <2>1, <2>2, ReqSet
  <2>4. CASE trip' = NoJob(trip)
    <3>1. Released /\ trip' \in TripType
      BY <1>1, <2>4, NoJobReleases, TripValues
    <3>2. CrewTypeOK'
      BY <1>3, <2>3, <3>1
    <3>3. QED
      BY <1>1, <1>2, <2>1, <2>2, <2>3, <3>1, <3>2, ReqReleases
  <2>5. CASE UNCHANGED trip
    <3>1. CrewTypeOK'
      BY <1>1, <1>3, <2>3, <2>5, TypedNow
    <3>2. Serves(r) => Serves(r)'
      BY <1>1, <2>1 DEF Serves
    <3>3. QED
      BY <1>1, <1>2, <2>1, <2>3, <2>5, <3>1, <3>2, ReqKeeps
  <2>6. QED
    BY <1>6, <2>4, <2>5 DEF ClearStale
<1>7. QED
  BY <1>4, <1>5, <1>6
LEMMA ReqTakes == ASSUME CrewInv, NEW r \in Request, ClaimJob(r) PROVE CrewInv'
<1>1. /\ CrewTypeOK /\ UNCHANGED <<places, route, run, user, faults>>
      /\ <<r, 1>> \in Run /\ req[r].pc \in {"stale", "claim"}
  BY RunPair DEF CrewInv, ClaimJob
<1>2. FaultsStay /\ Runs(<<r, 1>>)
  BY <1>1, TypedUnchanged DEF Runs
<1>3. CASE CanClaim(trip)
  <2> DEFINE q == [req[r] EXCEPT !.pc = "enqueue", !.won = TRUE]
  <2>1. /\ trip' = Claim(trip, r) /\ req' = [req EXCEPT ![r] = q]
        /\ crossed' = \/ crossed
                      \/ req[r].kind = "propose" /\ (user.pc # "idle" \/ route = Traveler)
    BY <1>3 DEF ClaimJob
  <2>2. q \in ReqType /\ q.pc = "enqueue" /\ q.kind = req[r].kind /\ q.day = req[r].day
    BY <1>1 DEF CrewTypeOK, ReqType, ReqPc
  <2> HIDE DEF q
  <2>3. req' \in [Request -> ReqType] /\ Requests(r) /\ SameKinds /\ req'[r] = q
    BY <1>1, <2>1, <2>2, ReqSet
  <2>4. trip' \in TripType
    BY <1>1, <2>1, TripValues
  <2>5. crossed' \in BOOLEAN
    BY <1>1, <2>1 DEF CrewTypeOK
  <2>6. CrewTypeOK'
    BY <1>1, <2>3, <2>4, <2>5, TypedUnchanged, TypedParts
  <2>7. req[r].kind = "propose" /\ ~crossed' => user.pc = "idle" /\ route # Traveler
    BY <2>1
  <2>8. QED
    BY <1>1, <1>3, <2>1, <2>2, <2>3, <2>6, <2>7, ReqClaims
<1>4. CASE ~CanClaim(trip)
  <2>1. ReqGo(r, "done") /\ UNCHANGED <<trip, crossed>>
    BY <1>4 DEF ClaimJob
  <2>2. req' \in [Request -> ReqType] /\ Requests(r) /\ SameKinds /\ req'[r].pc = "done"
    BY <1>1, <2>1, ReqGoes DEF ReqPc
  <2>3. CrewTypeOK'
    BY <1>1, <2>1, <2>2, TypedNow, TypedUnchanged, TypedParts
  <2>4. Serves(r) => Serves(r)'
    BY <1>1 DEF Serves
  <2>5. HoldersOwn => run[<<r, 1>>].pc = "none"
    BY <1>1 DEF HoldersOwn, Unsent
  <2>6. QED
    BY <1>1, <1>2, <2>1, <2>2, <2>3, <2>4, <2>5, ReqKeeps DEF Unsent, Hold
<1>5. QED
  BY <1>3, <1>4

\* Sending the event, with every way it may fail.
LEMMA ReqSends == ASSUME CrewInv, NEW r \in Request, Enqueue(r) PROVE CrewInv'
<1>1. /\ CrewTypeOK /\ UNCHANGED <<trip, places, route, user, crossed>>
      /\ <<r, 1>> \in Run /\ req[r].pc = "enqueue" /\ (<<r, 1>>)[1] = r
  BY RunPair DEF CrewInv, Enqueue
<1>2. PICK pc \in {"done", "fail"} : ReqGo(r, pc)
  BY DEF Enqueue
<1>3. req' \in [Request -> ReqType] /\ Requests(r) /\ SameKinds /\ req'[r].pc = pc
  BY <1>1, <1>2, ReqGoes DEF ReqPc
<1>4. HoldersOwn => /\ run[<<r, 1>>].pc = "none"
                    /\ trip.status # "gone" => trip.owner = r
  BY <1>1 DEF HoldersOwn, Unsent
<1>5. ASSUME RunsTyped', FaultsTyped' PROVE CrewTypeOK'
  BY <1>1, <1>3, <1>5, TypedUnchanged, TypedParts
<1> USE DEF Unsent, Hold, WorkPc
<1>6. CASE Send(r)
  <2>1. RunsTyped' /\ Runs(<<r, 1>>) /\ run'[<<r, 1>>].pc = "sent"
    BY <1>1, <1>3, <1>6, RunSends DEF Send
  <2>2. Serves(r)'
    BY <1>1, <2>1 DEF Serves
  <2>3. /\ FaultsTyped' /\ FaultsStay
        /\ Orderly' => req'[r].pc = "done"
    <3>1. CASE UNCHANGED faults /\ ReqGo(r, "done")
      <4>1. req'[r].pc = "done"
        BY <1>1, <3>1, ReqGoes DEF ReqPc
      <4>2. QED
        BY <1>1, <3>1, <4>1, TypedUnchanged
    <3>2. CASE Fault("unsure")
      BY <1>1, <3>2, FaultDisorders DEF FaultKinds
    <3>3. CASE UNCHANGED <<run, faults>> /\ ReqGo(r, "fail")
      <4>1. ~HoldersOwn \/ run'[<<r, 1>>].pc = "none"
        BY <1>4, <3>3
      <4>2. ~Orderly
        BY <2>1, <4>1 DEF CrewInv
      <4>3. QED
        BY <1>1, <3>3, <4>2, TypedUnchanged, OrderlyBefore
    <3>4. QED
      BY <3>1, <3>2, <3>3 DEF Enqueue
  <2>4. QED
    BY <1>1, <1>3, <1>4, <1>5, <2>1, <2>2, <2>3, ReqKeeps
<1>7. CASE ReqGo(r, "fail") /\ UNCHANGED <<run, faults>>
  <2>1. req'[r].pc = "fail"
    BY <1>1, <1>7, ReqGoes DEF ReqPc
  <2>2. RunsTyped' /\ Runs(<<r, 1>>) /\ FaultsTyped' /\ FaultsStay
    BY <1>1, <1>3, <1>7, TypedUnchanged DEF Runs
  <2>3. Serves(r)'
    BY <2>1 DEF Serves
  <2>4. QED
    BY <1>1, <1>3, <1>4, <1>5, <1>7, <2>1, <2>2, <2>3, ReqKeeps
<1>8. QED
  BY <1>6, <1>7 DEF Enqueue

\* A request that fails, or dies.
LEMMA ReqEnds == ASSUME CrewInv, NEW r \in Request, FailRequest(r) \/ RequestDies(r) PROVE CrewInv'
<1>1. /\ CrewTypeOK /\ UNCHANGED <<places, route, run, user, crossed>>
      /\ <<r, 1>> \in Run /\ req[r].pc \in {"enqueue", "fail"} /\ ReqGo(r, "done")
  BY RunPair DEF CrewInv, FailRequest, RequestDies
<1>2. req' \in [Request -> ReqType] /\ Requests(r) /\ SameKinds /\ req'[r].pc = "done"
  BY <1>1, ReqGoes DEF ReqPc
<1>3. RunsTyped' /\ Runs(<<r, 1>>)
  BY <1>1, <1>2, TypedUnchanged DEF Runs
<1>4. ASSUME trip' \in TripType, FaultsTyped' PROVE CrewTypeOK'
  BY <1>1, <1>2, <1>3, <1>4, TypedUnchanged, TypedParts
<1>5. HoldersOwn => run[<<r, 1>>].pc = "none"
  BY <1>1 DEF HoldersOwn, Unsent
<1> USE DEF Unsent, Hold
<1>6. CASE FailRequest(r)
  <2>1. req[r].pc = "fail" /\ FaultsTyped' /\ FaultsStay
    BY <1>1, <1>6, TypedUnchanged DEF FailRequest
  <2>2. CASE trip.kind = req[r].kind
    <3>1. trip' = NoJob(trip)
      BY <1>6, <2>2 DEF FailRequest, FailJob
    <3>2. Released /\ trip' \in TripType
      BY <1>1, <3>1, NoJobReleases, TripValues
    <3>3. QED
      BY <1>1, <1>2, <1>4, <2>1, <3>2, ReqReleases
  <2>3. CASE trip.kind # req[r].kind
    <3>1. UNCHANGED trip
      BY <1>6, <2>3 DEF FailRequest, FailJob
    <3>2. trip.owner # r
      BY <2>3 DEF CrewInv, ClaimIsOwned
    <3>3. CrewTypeOK'
      BY <1>1, <1>4, <2>1, <3>1, TypedNow
    <3>4. QED
      BY <1>1, <1>2, <1>3, <1>5, <2>1, <3>1, <3>2, <3>3, ReqKeeps
  <2>4. QED
    BY <2>2, <2>3
<1>7. CASE RequestDies(r)
  <2>1. UNCHANGED trip /\ FaultsTyped' /\ FaultsStay /\ faults'["dead"] # 0
    BY <1>1, <1>7, FaultDisorders DEF RequestDies, FaultKinds
  <2>2. CrewTypeOK'
    BY <1>1, <1>4, <2>1, TypedNow
  <2>3. QED
    BY <1>1, <1>2, <1>3, <1>5, <2>1, <2>2, ReqKeeps
<1>8. QED
  BY <1>6, <1>7

\* The event is delivered a second time.
LEMMA EventDoubles == ASSUME CrewInv, NEW r \in Request, Double(r) PROVE CrewInv'
<1>1. /\ CrewTypeOK /\ UNCHANGED <<trip, places, route, req, user, crossed>>
      /\ <<r, 2>> \in Run /\ run[<<r, 2>>].pc = "none"
      /\ run' = [run EXCEPT ![<<r, 2>>].pc = "sent", ![<<r, 2>>].try = 1]
  BY RunPair DEF CrewInv, Double
<1>2. SameKinds
  BY <1>1, TypedUnchanged
<1>3. RunsTyped' /\ Runs(<<r, 2>>) /\ run'[<<r, 2>>].pc = "sent"
  BY <1>1, <1>2, RunSends
<1>4. FaultsTyped' /\ FaultsStay /\ ~Orderly'
  BY <1>1, FaultDisorders DEF Double, FaultKinds
<1>5. CrewTypeOK'
  BY <1>1, <1>3, <1>4, TypedUnchanged, TypedParts
<1>6. ClaimIsOwned' /\ ProposalIsAlone'
  BY <1>1 DEF CrewInv, ClaimIsOwned, ProposalIsAlone
<1>7. ClaimIsServed'
  <2> SUFFICES ASSUME faults'["dead"] = 0, trip.status # "gone",
                      NEW q \in Request, trip.owner = q
               PROVE  Serves(q)'
    BY <1>1 DEF ClaimIsServed
  <2>1. Serves(q)
    BY <1>4 DEF CrewInv, ClaimIsServed, FaultsStay, FaultKinds
  <2>2. QED
    BY <1>1, <1>3, <2>1 DEF Serves, Runs
<1>8. QED
  BY <1>4, <1>5, <1>6, <1>7 DEF CrewInv
-----------------------------------------------------------------------------
(* What else happens to the trip.                                          *)

LEMMA RemoveAtTyped ==
  ASSUME NEW S, NEW s \in Seq(S), NEW i \in 1..Len(s)
  PROVE  RemoveAt(s, i) \in Seq(S) /\ Len(RemoveAt(s, i)) <= Len(s)
<1> DEFINE a == SubSeq(s, 1, i - 1)
           b == SubSeq(s, i + 1, Len(s))
<1>1. a \in Seq(S) /\ Len(a) = i - 1
  OBVIOUS
<1>2. b \in Seq(S) /\ Len(b) = Len(s) - i
  OBVIOUS
<1>3. RemoveAt(s, i) = a \o b
  BY DEF RemoveAt
<1> HIDE DEF a, b
<1>4. a \o b \in Seq(S) /\ Len(a \o b) = Len(a) + Len(b)
  BY <1>1, <1>2
<1>5. QED
  BY <1>1, <1>2, <1>3, <1>4

\* A step beside the claim.
LEMMA TripKeeps ==
  ASSUME CrewInv, CrewTypeOK', UNCHANGED <<req, run>>, FaultsStay, ClaimKept,
         trip'.plan => trip.plan \/ (trip.kind = None /\ trip.status # "gone"),
         ProposalIsAlone', Orderly' /\ trip'.aged => trip.aged
  PROVE  CrewInv'
<1>1. ClaimIsOwned' /\ ClaimIsServed'
  BY DEF CrewInv, ClaimIsOwned, ClaimIsServed, ClaimKept, Serves, FaultsStay, FaultKinds
<1>2. ASSUME Orderly' PROVE HoldersOwn'
  <2>1. HoldersOwn
    BY <1>2, OrderlyBefore DEF CrewInv
  <2>2. QED
    BY <1>2, <2>1 DEF HoldersOwn, ClaimKept, Working
<1>3. QED
  BY <1>1, <1>2 DEF CrewInv

\* Age, plan-day and the lock of a deletion.
LEMMA TripChanges ==
  ASSUME CrewInv, Age \/ PlanDayClaim \/ PlanDayEnds \/ LockTrip PROVE CrewInv'
<1>1. CrewTypeOK /\ UNCHANGED <<places, route, req, run, user, crossed>>
  BY DEF CrewInv, Age, PlanDayClaim, PlanDayEnds, LockTrip
<1>2. trip' \in TripType /\ ClaimKept
  <2>1. CASE Age
    BY <1>1, <2>1, TripValues DEF Age, CrewTypeOK, TripType, ClaimKept
  <2>2. CASE PlanDayClaim
    BY <1>1, <2>2, TripValues DEF PlanDayClaim, CrewTypeOK, TripType, ClaimKept
  <2>3. CASE PlanDayEnds
    BY <1>1, <2>3, TripValues DEF PlanDayEnds, CrewTypeOK, TripType, ClaimKept
  <2>4. CASE LockTrip
    BY <1>1, <2>4, TripValues DEF LockTrip, CrewTypeOK, TripType, ClaimKept
  <2>5. QED
    BY <2>1, <2>2, <2>3, <2>4
<1>3. FaultsTyped' /\ FaultsStay /\ (Orderly' /\ trip'.aged => trip.aged)
  <2>1. CASE Age
    BY <1>1, <2>1, FaultDisorders DEF Age, FaultKinds
  <2>2. CASE UNCHANGED faults /\ (PlanDayClaim \/ PlanDayEnds \/ LockTrip)
    <3>1. trip'.aged => trip.aged
      BY <1>1, <2>2 DEF PlanDayClaim, PlanDayEnds, LockTrip, CrewTypeOK, TripType
    <3>2. QED
      BY <1>1, <2>2, <3>1, TypedUnchanged
  <2>3. QED
    BY <2>1, <2>2 DEF PlanDayClaim, PlanDayEnds, LockTrip
<1>4. CrewTypeOK'
  BY <1>1, <1>2, <1>3, TypedUnchanged, TypedParts
<1>5. trip'.plan => trip.plan \/ (trip.kind = None /\ trip.status # "gone")
  <2>1. CASE Age \/ LockTrip
    <3>1. CASE Age
      BY <1>1, <3>1 DEF Age, CrewTypeOK, TripType
    <3>2. CASE LockTrip
      BY <1>1, <3>2 DEF LockTrip, CrewTypeOK, TripType
    <3>3. QED
      BY <2>1, <3>1, <3>2
  <2>2. CASE PlanDayClaim
    BY <2>2 DEF PlanDayClaim
  <2>3. CASE PlanDayEnds
    BY <1>1, <2>3 DEF PlanDayEnds, CrewTypeOK, TripType
  <2>4. QED
    BY <2>1, <2>2, <2>3
<1>6. ProposalIsAlone'
  BY <1>1, <1>2 DEF CrewInv, ProposalIsAlone, ClaimKept
<1>7. QED
  BY <1>1, <1>2, <1>3, <1>4, <1>5, <1>6, TripKeeps

\* The traveler confirms the route, or removes a place.
LEMMA UserTyped ==
  ASSUME CrewTypeOK, NEW pc \in {"idle", "update", "route"}, UserGo(pc)
  PROVE  user' \in UserType /\ user'.pc = pc
<1>1. 0 \in 0..MaxPlaces
  BY CrewJobsAssumption
<1>2. QED
  BY <1>1 DEF CrewTypeOK, UserGo, UserType

\* The traveler's own requests keep the invariant.
LEMMA UserSteps ==
  ASSUME CrewInv, LoadConfirm \/ UpdateTrip \/ ConfirmRoute \/ LoadRemove \/ RemovePlace
  PROVE  CrewInv'
<1>1. CrewTypeOK /\ UNCHANGED <<req, run, crossed>>
  BY DEF CrewInv, LoadConfirm, UpdateTrip, ConfirmRoute, LoadRemove, RemovePlace
<1>2. user' \in UserType
  <2>1. CASE LoadConfirm \/ UpdateTrip \/ ConfirmRoute \/ RemovePlace
    BY <1>1, <2>1, UserTyped DEF LoadConfirm, UpdateTrip, ConfirmRoute, RemovePlace
  <2>2. CASE LoadRemove
    <3>1. PICK d \in DOMAIN places : user' = [pc |-> "remove", day |-> d, n |-> Len(places[d])]
      BY <2>2 DEF LoadRemove
    <3>2. d \in Day /\ Len(places[d]) \in 0..MaxPlaces
      BY <1>1, DayPlaces
    <3>3. QED
      BY <3>1, <3>2 DEF UserType
  <2>3. QED
    BY <2>1, <2>2
<1>3. /\ trip' \in TripType /\ ClaimKept
      /\ (trip'.plan => trip.plan) /\ (trip'.aged => trip.aged)
  <2>1. CASE UNCHANGED trip
    BY <1>1, <2>1 DEF ClaimKept, CrewTypeOK
  <2>2. CASE trip.status # "gone" /\ trip' = [trip EXCEPT !.status = "routing_confirmed"]
    BY <1>1, <2>2, TripValues DEF ClaimKept, CrewTypeOK, TripType
  <2>3. QED
    BY <2>1, <2>2 DEF LoadConfirm, UpdateTrip, ConfirmRoute, LoadRemove, RemovePlace
<1>4. PlacesTyped'
  <2>1. CASE UNCHANGED places
    BY <1>1, <2>1, TypedUnchanged
  <2>2. CASE RemovePlace /\ user.day \in DOMAIN places /\ Len(places[user.day]) = user.n
    <3>1. PICK i \in 1..user.n : places' = [places EXCEPT ![user.day] = RemoveAt(@, i)]
      BY <2>2 DEF RemovePlace
    <3> DEFINE s == RemoveAt(places[user.day], i)
    <3>2. /\ places[user.day] \in Seq(Contributors)
          /\ Len(places[user.day]) \in 0..MaxPlaces /\ i \in 1..Len(places[user.day])
      BY <1>1, <2>2, <3>1, DayPlaces
    <3>3. s \in Seq(Contributors) /\ Len(s) <= Len(places[user.day])
      BY <3>2, RemoveAtTyped
    <3>4. places' = [places EXCEPT ![user.day] = s]
      BY <3>1
    <3> HIDE DEF s
    <3>5. Len(s) <= MaxPlaces
      BY <3>2, <3>3, CrewJobsAssumption
    <3>6. QED
      BY <1>1, <2>2, <3>3, <3>4, <3>5, PlacesSet
  <2>3. QED
    BY <2>1, <2>2 DEF LoadConfirm, UpdateTrip, ConfirmRoute, LoadRemove, RemovePlace
<1>5. FaultsTyped' /\ FaultsStay
  <2>1. CASE LoadRemove
    BY <1>1, <2>1, FaultDisorders DEF LoadRemove, FaultKinds
  <2>2. CASE UNCHANGED faults
    BY <1>1, <2>2, TypedUnchanged
  <2>3. QED
    BY <2>1, <2>2 DEF LoadConfirm, UpdateTrip, ConfirmRoute, RemovePlace
<1>6. route' \in Request \cup {Traveler, None}
  BY <1>1 DEF CrewTypeOK, LoadConfirm, UpdateTrip, ConfirmRoute, LoadRemove, RemovePlace
<1>7. CrewTypeOK'
  BY <1>1, <1>2, <1>3, <1>4, <1>5, <1>6, TypedUnchanged, TypedParts
<1>8. ProposalIsAlone'
  <2>1. CASE LoadConfirm \/ LoadRemove
    BY <1>1, <1>3, <2>1, CrewJobsAssumption
    DEF ProposalIsAlone, ClaimKept, LoadConfirm, LoadRemove
  <2>2. CASE UpdateTrip \/ ConfirmRoute \/ RemovePlace
    <3>1. user.pc # "idle"
      BY <2>2 DEF UpdateTrip, ConfirmRoute, RemovePlace
    <3>2. QED
      BY <1>1, <1>3, <3>1 DEF CrewInv, ProposalIsAlone, ClaimKept
  <2>3. QED
    BY <2>1, <2>2
<1>9. /\ UNCHANGED <<req, run>>
      /\ trip'.plan => trip.plan \/ (trip.kind = None /\ trip.status # "gone")
      /\ Orderly' /\ trip'.aged => trip.aged
  BY <1>1, <1>3
<1>10. QED
  BY <1>3, <1>5, <1>7, <1>8, <1>9, TripKeeps

\* A trip that goes, and its days after it.
LEMMA TripGoes == ASSUME CrewInv, RemoveTrip \/ RemoveDay PROVE CrewInv'
<1>1. CrewTypeOK /\ UNCHANGED <<route, req, run, user, crossed, faults>>
  BY DEF CrewInv, RemoveTrip, RemoveDay
<1>2. FaultsStay
  BY <1>1, TypedUnchanged
<1>3. CASE RemoveTrip
  <2>1. /\ trip' \in TripType /\ UNCHANGED places /\ trip'.status = "gone" /\ trip'.kind = None
        /\ trip'.owner = None /\ ~trip'.plan /\ ~trip'.aged
    BY <1>1, <1>3, TripValues DEF RemoveTrip, NewTrip
  <2>2. CrewTypeOK'
    BY <1>1, <2>1, TypedUnchanged, TypedParts
  <2>3. ClaimIsOwned' /\ ClaimIsServed' /\ ProposalIsAlone'
    BY <2>1, CrewJobsAssumption DEF ClaimIsOwned, ClaimIsServed, ProposalIsAlone
  <2>4. ASSUME Orderly' PROVE HoldersOwn'
    <3>1. HoldersOwn
      BY <1>2, <2>4, OrderlyBefore DEF CrewInv
    <3>2. QED
      BY <1>1, <2>1, <3>1 DEF HoldersOwn, Working
  <2>5. QED
    BY <2>2, <2>3, <2>4 DEF CrewInv
<1>4. CASE RemoveDay
  <2>1. UNCHANGED trip
    BY <1>4 DEF RemoveDay
  <2>2. PICK d \in DOMAIN places : places' = [e \in DOMAIN places \ {d} |-> places[e]]
    BY <1>4 DEF RemoveDay
  <2>3. PlacesTyped'
    BY <1>1, <2>2, PlacesDrop
  <2>4. CrewTypeOK'
    BY <1>1, <2>1, <2>3, TypedUnchanged, TypedParts
  <2>5. ClaimKept /\ ProposalIsAlone'
    BY <1>1, <2>1 DEF CrewInv, ClaimKept, ProposalIsAlone
  <2>6. QED
    BY <1>1, <1>2, <2>1, <2>4, <2>5, TripKeeps DEF CrewInv, ClaimIsOwned
<1>5. QED
  BY <1>3, <1>4
-----------------------------------------------------------------------------
(* The invariant.                                                          *)

\* The invariant holds at first, and every step keeps it.
LEMMA InitCrew == ASSUME Init PROVE CrewInv
<1>1. 0 \in 0..MaxPlaces /\ 0 \in 0..Tries /\ 1 <= MaxPlaces
  BY CrewJobsAssumption
<1>2. /\ trip \in TripType /\ trip.kind = None /\ trip.owner = None /\ ~trip.plan /\ ~trip.aged
  <2>1. /\ NewTrip \in TripType /\ NewTrip.kind = None /\ NewTrip.owner = None
        /\ ~NewTrip.plan /\ ~NewTrip.aged
    BY <1>1 DEF NewTrip, TripType
  <2>2. CASE trip = NewTrip
    BY <2>1, <2>2
  <2>3. CASE trip = [NewTrip EXCEPT !.status = "complete"]
    <3> HIDE DEF NewTrip
    <3>1. QED
      BY <2>1, <2>3 DEF TripType
  <2>4. QED
    BY <2>2, <2>3 DEF Init
<1>3. PlacesTyped
  <2>1. CASE places = [d \in {} |-> <<>>]
    <3>1. places \in [{} -> Seq(Contributors)] /\ DOMAIN places = {}
      BY <2>1
    <3>2. QED
      BY <3>1 DEF PlacesTyped, PlacesType
  <2>2. CASE places = [d \in Day |-> <<Traveler>>]
    <3>1. <<Traveler>> \in Seq(Contributors) /\ Len(<<Traveler>>) = 1
      BY DEF Contributors
    <3>2. places \in [Day -> Seq(Contributors)] /\ \A d \in Day : Len(places[d]) = 1
      BY <2>2, <3>1
    <3>3. QED
      BY <1>1, <3>2 DEF PlacesTyped, PlacesType
  <2>3. QED
    BY <2>1, <2>2 DEF Init
<1>4. req \in [Request -> ReqType] /\ \A r \in Request : req[r].pc = "idle"
  <2> DEFINE Idle == { [ pc |-> "idle", kind |-> k, day |-> d, base |-> 0, saw |-> None,
                         won |-> FALSE ] : k \in Kinds, d \in Day }
  <2>1. ASSUME NEW q \in Idle PROVE q \in ReqType /\ q.pc = "idle"
    <3>1. PICK k \in Kinds, d \in Day :
            q = [ pc |-> "idle", kind |-> k, day |-> d, base |-> 0, saw |-> None,
                  won |-> FALSE ]
      OBVIOUS
    <3>2. QED
      BY <1>1, <3>1 DEF ReqType, ReqPc
  <2>2. req \in [Request -> Idle]
    BY DEF Init
  <2> HIDE DEF Idle
  <2>3. QED
    BY <2>1, <2>2
<1>5. run \in [Run -> RunType] /\ \A w \in Run : run[w].pc = "none"
  BY <1>1 DEF Init, RunType, RunPc
<1>6. user \in UserType /\ user.pc = "idle"
  <2>1. (CHOOSE d \in Day : TRUE) \in Day
    BY CrewJobsAssumption
  <2>2. QED
    BY <1>1, <2>1 DEF Init, UserType
<1>7. crossed \in BOOLEAN /\ route \in Request \cup {Traveler, None}
  <2>1. crossed = FALSE /\ (route = None \/ route = Traveler)
    BY DEF Init
  <2>2. QED
    BY <2>1
<1>8. faults \in [FaultKinds -> Nat] /\ \A k \in FaultKinds : faults[k] <= Faults[k]
  BY CrewJobsAssumption DEF Init
<1>9. CrewTypeOK
  BY <1>2, <1>3, <1>4, <1>5, <1>6, <1>7, <1>8 DEF CrewTypeOK, PlacesTyped
<1>10. ClaimIsOwned /\ ClaimIsServed /\ ProposalIsAlone
  BY <1>2, CrewJobsAssumption DEF ClaimIsOwned, ClaimIsServed, ProposalIsAlone
<1>11. HoldersOwn
  BY <1>2, <1>4, <1>5, RunPair DEF HoldersOwn, Working, Hold
<1>12. QED
  BY <1>9, <1>10, <1>11 DEF CrewInv

LEMMA NextCrew == ASSUME CrewInv, [Next]_vars PROVE CrewInv'
<1>1. ASSUME NEW r \in Request, Ask(r) \/ RequestStep(r) \/ RequestDies(r) \/ Double(r)
      PROVE  CrewInv'
  BY <1>1, ReqAsks, ReqTakes, ReqSends, ReqEnds, EventDoubles DEF RequestStep
<1>2. ASSUME NEW w \in Run, RunStep(w) \/ RunDies(w) PROVE CrewInv'
  BY <1>2, RunReads, RunWrites, RunEnds DEF RunStep
<1>3. CASE UNCHANGED vars
  <2>1. UNCHANGED <<trip, places, route, req, run, user, crossed, faults>>
    BY <1>3 DEF vars
  <2>2. CrewTypeOK' /\ FaultsStay
    BY <2>1, TypedNow, TypedUnchanged, TypedParts DEF CrewInv
  <2>3. ClaimKept /\ ProposalIsAlone'
    BY <2>1 DEF CrewInv, ClaimKept, ProposalIsAlone
  <2>4. QED
    BY <2>1, <2>2, <2>3, TripKeeps DEF CrewInv, ClaimIsOwned
<1>4. QED
  BY <1>1, <1>2, <1>3, TripChanges, UserSteps, TripGoes DEF Next

\* Whose claim the claim on the TRIP row is, in every state.
THEOREM CrewInvariant == Spec => []CrewInv
<1>1. Init => CrewInv
  BY InitCrew
<1>2. CrewInv /\ [Next]_vars => CrewInv'
  BY NextCrew
<1>3. QED
  BY <1>1, <1>2, PTL DEF Spec

-----------------------------------------------------------------------------
(* What follows from it.                                                   *)

\* Every variable keeps its type; no day gets more places than it may have.
THEOREM CrewTypeCorrect == Spec => []TypeOK
<1>1. ASSUME CrewInv PROVE TypeOK
  <2>1. CrewTypeOK
    BY <1>1 DEF CrewInv
  <2>2. ASSUME NEW d \in DOMAIN places
        PROVE  /\ d \in Day /\ Range(places[d]) \subseteq Request \cup {Traveler}
               /\ Len(places[d]) <= MaxPlaces
    <3>1. d \in Day /\ places[d] \in Seq(Contributors) /\ Len(places[d]) <= MaxPlaces
      BY <2>1, <2>2, DayPlaces DEF CrewTypeOK
    <3>2. QED
      BY <3>1 DEF Range, Contributors
  <2>3. \A k \in FaultKinds : faults[k] \in 0..Faults[k]
    BY <2>1, CrewJobsAssumption DEF CrewTypeOK
  <2>4. QED
    BY <2>1, <2>2, <2>3 DEF CrewTypeOK, TypeOK, UserType
<1>2. QED
  BY <1>1, CrewInvariant, PTL

\* One crew run or one plan-day run works on a trip at a time, for any number of
\* requests, as long as no claim grows stale, no event is doubled and no failed
\* enqueue was accepted after all.
THEOREM CrewsExclude == Spec => []OneCrewAtATime
<1>1. ASSUME CrewInv PROVE OneCrewAtATime
  <2> SUFFICES ASSUME Orderly
               PROVE  Cardinality(Working) <= 1 /\ (trip.plan => Working = {})
    BY DEF OneCrewAtATime, Orderly
  <2>1. HoldersOwn
    BY <1>1 DEF CrewInv
  <2>2. Cardinality(Working) <= 1
    <3>1. CASE Working = {}
      BY <3>1, FS_EmptySet
    <3>2. CASE Working # {}
      <4>1. PICK w : w \in Working
        BY <3>2
      <4>2. Working = {w}
        BY <2>1, <4>1 DEF HoldersOwn
      <4>3. QED
        BY <4>2, FS_Singleton
    <3>3. QED
      BY <3>1, <3>2
  <2>3. ASSUME trip.plan, NEW w \in Working PROVE FALSE
    <3>1. trip.owner = None /\ trip.status # "gone"
      BY <1>1, <2>3 DEF CrewInv, ClaimIsOwned
    <3>2. w \in Run /\ run[w].pc \in Hold
      BY DEF Working, Hold
    <3>3. trip.owner = w[1] /\ w[1] \in Request
      BY <1>1, <3>1, <3>2, HoldersAgree
    <3>4. QED
      BY <3>1, <3>3, CrewJobsAssumption
  <2>4. QED
    BY <2>2, <2>3
<1>2. QED
  BY <1>1, CrewInvariant, PTL

\* Where no request and no run goes on, no job is claimed, unless one died.
THEOREM NoClaimLingers == Spec => []NoJobLingers
<1>1. ASSUME CrewInv PROVE NoJobLingers
  <2> SUFFICES ASSUME \A r \in Request : req[r].pc \notin {"enqueue", "fail"},
                      \A w \in Run : run[w].pc \in {"none", "done"},
                      faults["dead"] = 0, trip.status # "gone"
               PROVE  trip.kind = None
    BY DEF NoJobLingers
  <2>1. \A r \in Request : ~Serves(r)
    BY DEF Serves
  <2>2. \A r \in Request : trip.owner # r
    BY <1>1, <2>1 DEF CrewInv, ClaimIsServed
  <2>3. trip.owner \in Request \cup {None}
    BY <1>1 DEF CrewInv, CrewTypeOK, TripType
  <2>4. QED
    BY <1>1, <2>2, <2>3 DEF CrewInv, ClaimIsOwned
<1>2. QED
  BY <1>1, CrewInvariant, PTL

\* A job is completed by a run of its own.
THEOREM OwnRunsComplete == Spec => JobsCompleteThemselves
<1> DEFINE Own == Quiet({"aged", "doubled", "unsure"}) /\ trip.status # "gone" =>
                    \A w \in Run : run[w].pc \in {"finish", "complete"} /\ run'[w].pc = "done"
                                     => trip.owner = w[1]
<1>1. ASSUME CrewInv PROVE Own
  <2> SUFFICES ASSUME Orderly, trip.status # "gone",
                      NEW w \in Run, run[w].pc \in {"finish", "complete"}
               PROVE  trip.owner = w[1]
    BY DEF Orderly
  <2>1. run[w].pc \in Hold
    BY DEF Hold
  <2>2. QED
    BY <1>1, <2>1, HoldersAgree
<1>2. CrewInv /\ [Next]_vars => [Own]_vars
  BY <1>1
<1> HIDE DEF Own
<1>3. Spec => [][Own]_vars
  BY <1>2, CrewInvariant, PTL DEF Spec
<1>4. QED
  BY <1>3 DEF Own, JobsCompleteThemselves

\* A proposal overwrites the traveler's confirmed ROUTE only when its claim was
\* lost, or when confirm and request have crossed.
THEOREM ProposalsSpareTheRoute == Spec => ConfirmedRouteIsKept
<1> DEFINE Kept == route = Traveler /\ route' \in Request => crossed \/ trip.owner # route'
<1>1. ASSUME CrewInv, [Next]_vars PROVE Kept
  <2> SUFFICES ASSUME route = Traveler, route' \in Request, ~crossed, trip.owner = route'
               PROVE  FALSE
    OBVIOUS
  <2>1. route' # route
    BY CrewJobsAssumption
  <2>2. PICK w \in Run : PutRoute(w)
    <3>1. ASSUME NEW r \in Request, Ask(r) \/ RequestStep(r) \/ RequestDies(r) \/ Double(r)
          PROVE  FALSE
      BY <2>1, <3>1 DEF Ask, RequestStep, ReadStale, ClearStale, ClaimJob, Enqueue, FailRequest,
                        RequestDies, Double
    <3>2. ASSUME NEW w \in Run, RunStep(w) \/ RunDies(w) PROVE PutRoute(w)
      BY <2>1, <3>2 DEF RunStep, Check, Recover, Finish, ProposeCities, SuggestCity, SuggestPlace,
                        Ends, Reject, Persist, Complete, FailRun, Raise, RunDies
    <3>3. CASE \/ Age \/ LoadConfirm \/ UpdateTrip \/ LoadRemove \/ RemovePlace
               \/ PlanDayClaim \/ PlanDayEnds \/ LockTrip \/ RemoveTrip \/ RemoveDay
      BY <2>1, <3>3 DEF Age, LoadConfirm, UpdateTrip, LoadRemove, RemovePlace, PlanDayClaim,
                        PlanDayEnds, LockTrip, RemoveTrip, RemoveDay
    <3>4. ~ConfirmRoute /\ ~UNCHANGED vars
      BY <2>1 DEF ConfirmRoute, vars
    <3>5. QED
      BY <1>1, <3>1, <3>2, <3>3, <3>4 DEF Next
  <2>3. /\ trip.owner = w[1] /\ req[w[1]].kind = "propose" /\ w[1] \in Request
    BY <2>2, RunPair DEF PutRoute, Job
  <2>4. trip.kind = "propose"
    BY <1>1, <2>3 DEF CrewInv, ClaimIsOwned
  <2>5. QED
    BY <1>1, <2>4 DEF CrewInv, ProposalIsAlone
<1>2. CrewInv /\ [Next]_vars => [Kept]_vars
  BY <1>1
<1> HIDE DEF Kept
<1>3. Spec => [][Kept]_vars
  BY <1>2, CrewInvariant, PTL DEF Spec
<1>4. QED
  BY <1>3 DEF Kept, ConfirmedRouteIsKept
-----------------------------------------------------------------------------
(* A place for every claim.                                                *)

Before == {"idle", "stale", "clear", "claim"}

\* What a claim and a run have counted is what their own request has.
CountsAreOwn ==
  /\ IsFiniteSet(Won)
  /\ \A r \in Request :
       /\ req[r].pc \in Before => ~req[r].won
       /\ req[r].pc \in {"enqueue", "fail"} => req[r].won
       /\ trip.owner = r => req[r].won /\ (trip.kind = "place" => trip.base = req[r].base)
       /\ run[<<r, 1>>].pc # "none" => req[r].won
  /\ faults["removed"] = 0 => user.pc # "remove"

Once == Orderly /\ faults["removed"] = 0

\* The request r has added place i of DAY d: once, and after those it has counted.
Added(d, i, r) == i \in 1..Len(places[d]) /\ places[d][i] = r

\* A run that looks for a place, or holds one, has not added one yet.
Pending == {"load", "put"}

AddedOnce ==
  /\ \A d \in DOMAIN places, r \in Request :
       req[r].kind = "place" /\ req[r].day = d => req[r].base <= Len(places[d])
  /\ \A d \in DOMAIN places, r \in Request : \A i \in Nat : Added(d, i, r) =>
       /\ req[r].won /\ req[r].kind = "place" /\ req[r].day = d /\ i > req[r].base
       /\ \A j \in Nat : Added(d, j, r) => i = j
  /\ \A r \in Request : req[r].kind = "place" =>
       /\ run[<<r, 1>>].pc = "recover" => run[<<r, 1>>].base = req[r].base
       /\ run[<<r, 1>>].pc \in Pending =>
            \A d \in DOMAIN places : \A i \in Nat : ~Added(d, i, r)

OnceInv == CountsAreOwn /\ (Once => AddedOnce)

\* Every added place is that of a request which has claimed its job, and no two
\* are of one.
LEMMA AddedAreClaimed ==
  ASSUME CrewInv, CountsAreOwn, AddedOnce
  PROVE  AppendsAreClaimed
<1> DEFINE f == [s \in Slots |-> places[s[1]][s[2]]]
<1>1. ASSUME NEW s \in Slots
      PROVE  /\ s = <<s[1], s[2]>> /\ s[1] \in DOMAIN places /\ s[2] \in Nat
             /\ f[s] \in Request /\ Added(s[1], s[2], f[s])
  <2>1. PICK d \in DOMAIN places : s \in {d} \X { i \in DOMAIN places[d] : places[d][i] \in Request }
    BY DEF Slots
  <2>2. s = <<d, s[2]>> /\ s[2] \in DOMAIN places[d] /\ places[d][s[2]] \in Request
    BY <2>1
  <2>3. places[d] \in Seq(Contributors)
    BY DayPlaces DEF CrewInv
  <2>4. s[2] \in 1..Len(places[d]) /\ s[2] \in Nat /\ s[1] = d
    BY <2>2, <2>3
  <2>5. QED
    BY <2>2, <2>4 DEF Added
<1> HIDE DEF f
<1>2. ASSUME NEW s \in Slots PROVE f[s] \in Won /\ req[f[s]].day = s[1]
  BY <1>1 DEF AddedOnce, Won
<1>3. ASSUME NEW s \in Slots, NEW t \in Slots, f[s] = f[t] PROVE s = t
  <2>1. s[1] = t[1]
    BY <1>2, <1>3
  <2>2. Added(s[1], s[2], f[s]) /\ Added(s[1], t[2], f[s])
    BY <1>1, <1>3, <2>1
  <2>3. s[2] = t[2]
    BY <1>1, <2>2 DEF AddedOnce
  <2>4. QED
    BY <1>1, <2>1, <2>3
<1>4. f \in Injection(Slots, Won)
  <2>1. f \in [Slots -> Won]
    BY <1>2 DEF f
  <2>2. QED
    BY <1>3, <2>1 DEF Injection, IsInjective
<1>5. QED
  BY <1>4, FS_Injection DEF CountsAreOwn, AppendsAreClaimed
NotAdded(r) == \A d \in DOMAIN places : \A i \in Nat : ~Added(d, i, r)

OwnersStay ==
  \A r \in Request : trip'.owner = r =>
    trip.owner = r /\ trip'.kind = trip.kind /\ trip'.base = trip.base

\* The writes of the TRIP row that are no claim give nobody a claim.
LEMMA TripOwners ==
  ASSUME CrewInv
  PROVE  /\ UNCHANGED trip \/ Released => OwnersStay
         /\ trip' = [trip EXCEPT !.aged = TRUE] => OwnersStay
         /\ \A s \in {"routing_confirmed", "deleting"} : trip' = [trip EXCEPT !.status = s] => OwnersStay
         /\ \A b \in BOOLEAN : trip' = [trip EXCEPT !.plan = b] => OwnersStay
         /\ trip' = [NewTrip EXCEPT !.status = "gone"] => OwnersStay
<1>1. None \notin Request
  BY CrewJobsAssumption
<1>2. trip' = [NewTrip EXCEPT !.status = "gone"] => trip'.owner = None
  BY DEF NewTrip
<1>3. QED
  BY <1>1, <1>2 DEF CrewInv, CrewTypeOK, TripType, OwnersStay, Released

\* Requests that go on with what they have counted.
SameCounts == \A r \in Request : req'[r].base = req[r].base /\ req'[r].won = req[r].won

RemovalsStay ==
  (faults'["removed"] = 0 => faults["removed"] = 0)
  /\ (user'.pc = "remove" => user.pc = "remove" \/ faults'["removed"] # 0)

\* A step that wins no claim and starts no removal keeps the counts own.
LEMMA CountsKeep ==
  ASSUME CountsAreOwn, SameCounts, OwnersStay, RemovalsStay,
         \A r \in Request :
           /\ req'[r].pc \in Before => req[r].pc \in Before
           /\ req'[r].pc \in {"enqueue", "fail"} => req[r].pc \in {"enqueue", "fail"}
           /\ run'[<<r, 1>>].pc # "none" => run[<<r, 1>>].pc # "none" \/ req[r].won
  PROVE  CountsAreOwn'
<1>1. Won' = Won
  BY DEF Won, SameCounts
<1>2. IsFiniteSet(Won')
  BY <1>1 DEF CountsAreOwn
<1>3. ASSUME NEW r \in Request
      PROVE  /\ req'[r].pc \in Before => ~req'[r].won
             /\ req'[r].pc \in {"enqueue", "fail"} => req'[r].won
             /\ trip'.owner = r => req'[r].won /\ (trip'.kind = "place" => trip'.base = req'[r].base)
             /\ run'[<<r, 1>>].pc # "none" => req'[r].won
  BY DEF CountsAreOwn, SameCounts, OwnersStay
<1>4. faults'["removed"] = 0 => user'.pc # "remove"
  BY DEF CountsAreOwn, RemovalsStay
<1>5. QED
  BY <1>2, <1>3, <1>4 DEF CountsAreOwn

\* No place comes, and no run forgets that it has added one.
LEMMA AddedKeep ==
  ASSUME AddedOnce, SameCounts, SameKinds,
         \A d \in DOMAIN places' : d \in DOMAIN places /\ places'[d] = places[d],
         \A r \in Request : req[r].kind = "place" =>
           /\ run'[<<r, 1>>].pc = "recover" => run'[<<r, 1>>].base = req[r].base
           /\ run'[<<r, 1>>].pc \in Pending => run[<<r, 1>>].pc \in Pending \/ NotAdded(r)
  PROVE  AddedOnce'
<1>1. \A d \in DOMAIN places', r \in Request : \A i \in Nat : Added(d, i, r)' => Added(d, i, r)
  BY DEF Added
<1>2. \A d \in DOMAIN places', r \in Request :
        req'[r].kind = "place" /\ req'[r].day = d => req'[r].base <= Len(places'[d])
  BY DEF AddedOnce, SameCounts, SameKinds
<1>3. \A d \in DOMAIN places', r \in Request : \A i \in Nat : Added(d, i, r)' =>
        /\ req'[r].won /\ req'[r].kind = "place" /\ req'[r].day = d /\ i > req'[r].base
        /\ \A j \in Nat : Added(d, j, r)' => i = j
  BY <1>1 DEF AddedOnce, SameCounts, SameKinds
<1>4. ASSUME NEW r \in Request, req'[r].kind = "place"
      PROVE  /\ run'[<<r, 1>>].pc = "recover" => run'[<<r, 1>>].base = req'[r].base
             /\ run'[<<r, 1>>].pc \in Pending =>
                  \A d \in DOMAIN places' : \A i \in Nat : ~Added(d, i, r)'
  BY <1>1, <1>4 DEF AddedOnce, SameCounts, SameKinds, NotAdded
<1>5. QED
  BY <1>2, <1>3, <1>4 DEF AddedOnce

\* Under Once, the runs are those of events delivered once.
LEMMA OnceRuns ==
  ASSUME CrewInv, Once, NEW w \in Run, run[w].pc # "none"
  PROVE  w = <<w[1], 1>> /\ w[1] \in Request
  BY RunPair DEF CrewInv, Once, HoldersOwn

\* A run goes on beside the DAYs.
LEMMA OnceRunKeeps ==
  ASSUME CrewInv, OnceInv, NEW w \in Run, Runs(w), UNCHANGED <<places, req, user>>,
         OwnersStay, faults'["removed"] = 0 => faults["removed"] = 0, Orderly' => Orderly,
         run[w].pc # "none", run'[w].pc \in RunPc,
         Once /\ req[w[1]].kind = "place" /\ run'[w].pc = "recover" => run'[w].base = req[w[1]].base,
         Once /\ req[w[1]].kind = "place" /\ run'[w].pc \in Pending =>
           run[w].pc \in Pending \/ NotAdded(w[1])
  PROVE  OnceInv'
<1>1. SameCounts /\ SameKinds /\ RemovalsStay
  BY DEF SameCounts, SameKinds, RemovalsStay
<1>2. \A r \in Request : run'[<<r, 1>>].pc # "none" => run[<<r, 1>>].pc # "none"
  BY RunPair DEF Runs
<1>3. CountsAreOwn'
  BY <1>1, <1>2, CountsKeep DEF OnceInv
<1>4. ASSUME Once' PROVE AddedOnce'
  <2>1. Once /\ AddedOnce
    BY <1>4 DEF Once, OnceInv
  <2>2. w = <<w[1], 1>> /\ w[1] \in Request
    BY <2>1, OnceRuns
  <2>3. ASSUME NEW r \in Request, req[r].kind = "place"
        PROVE  /\ run'[<<r, 1>>].pc = "recover" => run'[<<r, 1>>].base = req[r].base
               /\ run'[<<r, 1>>].pc \in Pending => run[<<r, 1>>].pc \in Pending \/ NotAdded(r)
    <3>1. CASE r = w[1]
      BY <2>1, <2>2, <2>3, <3>1
    <3>2. CASE r # w[1]
      <4>1. <<r, 1>> \in Run /\ <<r, 1>> # w
        BY <2>2, <3>2, RunPair
      <4>2. run'[<<r, 1>>] = run[<<r, 1>>]
        BY <4>1 DEF Runs
      <4>3. QED
        BY <2>1, <2>3, <4>2 DEF AddedOnce
    <3>3. QED
      BY <3>1, <3>2
  <2>4. QED
    BY <1>1, <2>1, <2>3, AddedKeep
<1>5. QED
  BY <1>3, <1>4 DEF OnceInv

\* A request, or another part of the trip, goes on while the runs stand.
LEMMA OnceElseKeeps ==
  ASSUME OnceInv, UNCHANGED run, SameCounts, SameKinds, OwnersStay, RemovalsStay,
         Orderly' => Orderly,
         Once' => \A d \in DOMAIN places' : d \in DOMAIN places /\ places'[d] = places[d],
         \A r \in Request :
           /\ req'[r].pc \in Before => req[r].pc \in Before
           /\ req'[r].pc \in {"enqueue", "fail"} => req[r].pc \in {"enqueue", "fail"}
  PROVE  OnceInv'
<1>1. CountsAreOwn'
  BY CountsKeep DEF OnceInv
<1>2. ASSUME Once' PROVE AddedOnce'
  <2>1. AddedOnce
    BY <1>2 DEF Once, OnceInv, RemovalsStay
  <2>2. QED
    BY <1>2, <2>1, AddedKeep DEF AddedOnce
<1>3. QED
  BY <1>1, <1>2 DEF OnceInv
\* A run finds the number of places that its own request has counted.
LEMMA OnceChecks == ASSUME CrewInv, OnceInv, NEW w \in Run, Check(w) PROVE OnceInv'
<1>1. /\ CrewTypeOK /\ w[1] \in Request /\ run[w].pc = "sent"
      /\ UNCHANGED <<trip, places, route, req, user, crossed, faults>>
  BY RunPair DEF CrewInv, Check
<1>2. SameKinds /\ OwnersStay /\ (Orderly' => Orderly)
  BY <1>1, TypedUnchanged, TripOwners, OrderlyBefore
<1>3. CASE RunGo(w, "done")
  <2>1. Runs(w) /\ run'[w].pc = "done"
    BY <1>1, <1>2, <1>3, RunGoes DEF RunPc
  <2>2. QED
    BY <1>1, <1>2, <2>1, OnceRunKeeps DEF RunPc, Pending
<1>4. CASE /\ trip.status # "gone" /\ trip.kind = Job(w).kind
           /\ run' = [run EXCEPT ![w].pc = IF Job(w).kind = "place" THEN "recover" ELSE "load",
                                 ![w].base = trip.base]
  <2> DEFINE pc == IF Job(w).kind = "place" THEN "recover" ELSE "load"
             q == [run[w] EXCEPT !.pc = pc, !.base = trip.base]
  <2>1. /\ pc \in RunPc /\ pc # "none"
        /\ q.pc = pc /\ q.base = trip.base /\ run' = [run EXCEPT ![w] = q]
    BY <1>1, <1>4 DEF CrewTypeOK, RunType, RunPc
  <2> HIDE DEF q
  <2>2. Runs(w) /\ run'[w] = q
    BY <1>1, <2>1 DEF Runs, CrewTypeOK
  <2>3. Once /\ req[w[1]].kind = "place" => trip.base = req[w[1]].base
    <3>1. Once => trip.owner = w[1]
      BY <1>1, <1>4, HoldersAgree DEF Once, Hold
    <3>2. QED
      BY <1>1, <1>4, <3>1 DEF OnceInv, CountsAreOwn, Job
  <2>4. QED
    BY <1>1, <1>2, <2>1, <2>2, <2>3, OnceRunKeeps DEF Pending, Job
<1>5. QED
  BY <1>3, <1>4 DEF Check

\* A day that has not grown since has no place of the run's request.
LEMMA OnceRecovers == ASSUME CrewInv, OnceInv, NEW w \in Run, Recover(w) PROVE OnceInv'
<1>1. /\ CrewTypeOK /\ w[1] \in Request /\ run[w].pc = "recover"
      /\ UNCHANGED <<trip, places, route, req, user, crossed, faults>>
  BY RunPair DEF CrewInv, Recover
<1>2. SameKinds /\ OwnersStay /\ (Orderly' => Orderly)
  BY <1>1, TypedUnchanged, TripOwners, OrderlyBefore
<1>3. PICK pc \in {"finish", "load"} :
        RunGo(w, pc) /\ (pc = "load" => ~(Len(DayOf(w)) > run[w].base))
  BY DEF Recover
<1>4. Runs(w) /\ run'[w].pc = pc /\ pc \in RunPc
  BY <1>1, <1>2, <1>3, RunGoes DEF RunPc
<1>5. ASSUME Once, req[w[1]].kind = "place", pc = "load" PROVE NotAdded(w[1])
  <2>1. w = <<w[1], 1>> /\ AddedOnce
    BY <1>1, <1>5, OnceRuns DEF OnceInv
  <2>2. run[w].base = req[w[1]].base
    BY <1>1, <1>5, <2>1 DEF AddedOnce
  <2>3. ASSUME NEW d \in DOMAIN places, NEW i \in Nat, Added(d, i, w[1]) PROVE FALSE
    <3>1. d = req[w[1]].day /\ i > req[w[1]].base /\ i \in 1..Len(places[d])
      BY <1>1, <2>1, <2>3 DEF AddedOnce, Added
    <3>2. DayOf(w) = places[d]
      BY <3>1 DEF DayOf, Job
    <3>3. Len(places[d]) \in Nat /\ run[w].base \in Nat
      BY <1>1, DayPlaces, CrewJobsAssumption DEF CrewTypeOK, RunType
    <3>4. QED
      BY <1>3, <1>5, <2>2, <3>1, <3>2, <3>3
  <2>4. QED
    BY <2>3 DEF NotAdded
<1>6. QED
  BY <1>1, <1>2, <1>3, <1>4, <1>5, OnceRunKeeps DEF Pending

\* The crew, the writes elsewhere and the ends of a run.
LEMMA OnceGoesOn ==
  ASSUME CrewInv, OnceInv, NEW w \in Run,
         \/ ProposeCities(w) \/ SuggestCity(w) \/ SuggestPlace(w) \/ PutRoute(w)
         \/ Finish(w) \/ Complete(w) \/ FailRun(w) \/ Raise(w) \/ RunDies(w)
  PROVE  OnceInv'
<1> USE DEF RunPc, Pending
<1>1. /\ CrewTypeOK /\ w[1] \in Request /\ run[w].pc # "none"
      /\ UNCHANGED <<places, req, user, crossed>>
  BY RunPair DEF CrewInv, ProposeCities, SuggestCity, SuggestPlace, Ends, Reject, PutRoute,
                 Finish, Complete, FailRun, Raise, RunDies
<1>2. SameKinds
  BY <1>1, TypedUnchanged
<1>3. OwnersStay
  <2>1. UNCHANGED trip \/ trip' = NoJob(trip) \/ trip' = Completed(trip, w[1])
    BY DEF ProposeCities, SuggestCity, SuggestPlace, Ends, Reject, PutRoute,
           Finish, Complete, FailRun, FailJob, Raise, RunDies
  <2>2. QED
    BY <1>1, <2>1, NoJobReleases, CompletedReleases, TripOwners
<1>4. FaultsStay
  <2>1. UNCHANGED faults \/ Fault("dead")
    BY DEF ProposeCities, SuggestCity, SuggestPlace, Ends, Reject, PutRoute,
           Finish, Complete, FailRun, Raise, RunDies
  <2>2. QED
    BY <1>1, <2>1, FaultDisorders, TypedUnchanged DEF FaultKinds
<1>5. (faults'["removed"] = 0 => faults["removed"] = 0) /\ (Orderly' => Orderly)
  BY <1>4, OrderlyBefore DEF FaultsStay, FaultKinds
<1>6. /\ Runs(w) /\ run'[w].pc \in RunPc \ {"none", "recover"}
      /\ run'[w].pc \in Pending => run[w].pc \in Pending
  <2>1. CASE \E pc \in RunPc \ {"none", "recover", "put", "load"} : RunGo(w, pc)
    BY <1>1, <1>2, <2>1, RunGoes
  <2>2. CASE Again(w)
    BY <1>1, <1>2, <2>2, RunAgain
  <2>3. CASE \/ ProposeCities(w) /\ Ends(w, "put")
             \/ SuggestCity(w) /\ Ends(w, "complete")
             \/ SuggestPlace(w) /\ Ends(w, "put") /\ ~Full(w)
    <3>1. run[w].pc = "load"
      BY <2>3 DEF ProposeCities, SuggestCity, SuggestPlace
    <3>2. Runs(w) /\ run'[w].pc \in {"put", "complete", "fail", "raise"}
      BY <1>1, <2>3, CrewEnds DEF ProposeCities, SuggestCity, SuggestPlace
    <3>3. QED
      BY <3>1, <3>2
  <2>4. QED
    BY <2>1, <2>2, <2>3
    DEF ProposeCities, SuggestCity, SuggestPlace, Reject, PutRoute, Finish, Complete, FailRun,
        Raise, RunDies
<1>7. QED
  BY <1>1, <1>3, <1>5, <1>6, OnceRunKeeps
\* A place is added behind those that its request has counted, as the request's first.
LEMMA OncePersists == ASSUME CrewInv, OnceInv, NEW w \in Run, Persist(w) PROVE OnceInv'
<1> DEFINE x == w[1]
           n == req[x].day
<1>1. /\ CrewTypeOK /\ x \in Request /\ run[w].pc = "put" /\ req[x].kind = "place"
      /\ UNCHANGED <<trip, route, req, user, crossed, faults>>
      /\ \E pc \in {"fail", "complete"} : RunGo(w, pc)
  BY RunPair DEF CrewInv, Persist, Job
<1>2. SameKinds /\ SameCounts /\ OwnersStay /\ RemovalsStay
  BY <1>1, TypedUnchanged, TripOwners DEF SameCounts, RemovalsStay
<1>3. Runs(w) /\ run'[w].pc \in {"fail", "complete"}
  BY <1>1, <1>2, RunGoes DEF RunPc
<1>4. CountsAreOwn'
  <2>1. \A r \in Request : run'[<<r, 1>>].pc # "none" => run[<<r, 1>>].pc # "none"
    BY <1>1, <1>3, RunPair DEF Runs
  <2>2. QED
    BY <1>1, <1>2, <2>1, CountsKeep DEF OnceInv
<1>5. ASSUME Once' PROVE AddedOnce'
  <2>1. Once /\ AddedOnce
    BY <1>1, <1>5 DEF Once, OnceInv, Orderly, Quiet
  <2>2. w = <<x, 1>>
    BY <1>1, <2>1, OnceRuns
  <2>3. ASSUME NEW r \in Request
        PROVE  /\ run'[<<r, 1>>].pc = "recover" => run'[<<r, 1>>] = run[<<r, 1>>]
               /\ run'[<<r, 1>>].pc \in Pending => r # x /\ run[<<r, 1>>].pc \in Pending
    <3>1. CASE r = x
      BY <1>3, <2>2, <3>1 DEF Pending
    <3>2. CASE r # x
      <4>1. run'[<<r, 1>>] = run[<<r, 1>>]
        BY <1>3, <2>2, <3>2, RunPair DEF Runs
      <4>2. QED
        BY <3>2, <4>1
    <3>3. QED
      BY <3>1, <3>2
  <2>4. CASE UNCHANGED places
    <3>1. \A d \in DOMAIN places' : d \in DOMAIN places /\ places'[d] = places[d]
      BY <2>4
    <3>2. QED
      BY <1>2, <2>1, <2>3, <3>1, AddedKeep DEF AddedOnce
  <2>5. CASE /\ n \in DOMAIN places
             /\ places' = [places EXCEPT ![n] = Append(@, x)]
    <3>1. NotAdded(x) /\ req[x].won
      <4>1. x \in Request /\ req[x].kind = "place" /\ run[<<x, 1>>].pc = "put"
        BY <1>1, <2>2
      <4>2. req[x].won
        BY <4>1 DEF OnceInv, CountsAreOwn
      <4>3. NotAdded(x)
        BY <2>1, <4>1 DEF AddedOnce, NotAdded, Pending
      <4>4. QED
        BY <4>2, <4>3
    <3>2. /\ places[n] \in Seq(Contributors) /\ Len(places[n]) \in Nat
          /\ DOMAIN places' = DOMAIN places
          /\ Len(places'[n]) = Len(places[n]) + 1 /\ places'[n][Len(places[n]) + 1] = x
          /\ \A i \in 1..Len(places[n]) : places'[n][i] = places[n][i]
          /\ \A d \in DOMAIN places \ {n} : places'[d] = places[d]
      <4>1. places[n] \in Seq(Contributors) /\ Len(places[n]) \in Nat
        BY <1>1, <2>5, DayPlaces
      <4>2. places'[n] = Append(places[n], x) /\ DOMAIN places' = DOMAIN places
        BY <1>1, <2>5 DEF CrewTypeOK, PlacesType
      <4>3. \A d \in DOMAIN places \ {n} : places'[d] = places[d]
        BY <1>1, <2>5 DEF CrewTypeOK, PlacesType
      <4>4. x \in Contributors
        BY <1>1 DEF Contributors
      <4> DEFINE s == places[n]
      <4>5. s \in Seq(Contributors)
        BY <4>1
      <4> HIDE DEF s, x
      <4>6. /\ Len(Append(s, x)) = Len(s) + 1 /\ Append(s, x)[Len(s) + 1] = x
            /\ \A i \in 1..Len(s) : Append(s, x)[i] = s[i]
        BY <4>4, <4>5
      <4>7. QED
        BY <4>1, <4>2, <4>3, <4>6 DEF s
    <3>3. /\ \A r \in Request : req[r].base \in Nat
          /\ req[x].base <= Len(places[n])
      BY <1>1, <2>1, <2>5, CrewJobsAssumption DEF CrewTypeOK, ReqType, AddedOnce
    <3> HIDE DEF x, n
    \* What is there afterwards was there before, or is the place added now.
    <3>4. ASSUME NEW d \in DOMAIN places, NEW r \in Request, NEW i \in Nat, Added(d, i, r)'
          PROVE  IF r = x THEN d = n /\ i = Len(places[n]) + 1 ELSE Added(d, i, r)
      <4>1. CASE d = n
        <5>1. i \in 1..Len(places[n]) => Added(n, i, r)
          BY <3>2, <3>4, <4>1 DEF Added
        <5>2. i \notin 1..Len(places[n]) => i = Len(places[n]) + 1 /\ r = x
          BY <3>2, <3>4, <4>1 DEF Added
        <5>3. QED
          BY <3>1, <4>1, <5>1, <5>2 DEF NotAdded
      <4>2. CASE d # n
        <5>1. Added(d, i, r)
          BY <3>2, <3>4, <4>2 DEF Added
        <5>2. QED
          BY <3>1, <5>1 DEF NotAdded
      <4>3. QED
        BY <4>1, <4>2
    <3>5. \A d \in DOMAIN places', r \in Request :
            req'[r].kind = "place" /\ req'[r].day = d => req'[r].base <= Len(places'[d])
      <4>1. ASSUME NEW d \in DOMAIN places, NEW r \in Request, req[r].kind = "place", req[r].day = d
            PROVE  req[r].base <= Len(places'[d])
        <5>1. req[r].base <= Len(places[d])
          BY <2>1, <4>1 DEF AddedOnce
        <5>2. Len(places[d]) \in Nat
          BY <1>1, DayPlaces
        <5>3. Len(places'[d]) = Len(places[d]) \/ Len(places'[d]) = Len(places[d]) + 1
          BY <3>2
        <5>4. req[r].base \in Nat
          BY <3>3
        <5>5. QED
          BY <5>1, <5>2, <5>3, <5>4
      <4>2. req' = req /\ DOMAIN places' = DOMAIN places
        BY <1>1, <3>2
      <4>3. QED
        BY <4>1, <4>2
    <3>6. ASSUME NEW d \in DOMAIN places, NEW r \in Request, NEW i \in Nat, Added(d, i, r)'
          PROVE  /\ req[r].won /\ req[r].kind = "place" /\ req[r].day = d /\ i > req[r].base
                 /\ \A j \in Nat : Added(d, j, r)' => i = j
      <4>1. CASE r = x
        <5>1. d = n /\ i = Len(places[n]) + 1
          BY <3>4, <3>6, <4>1
        <5>2. ASSUME NEW j \in Nat, Added(d, j, r)' PROVE i = j
          BY <3>4, <4>1, <5>1, <5>2
        <5>3. req[r].won /\ req[r].kind = "place" /\ req[r].day = d
          BY <1>1, <3>1, <4>1, <5>1 DEF n
        <5>4. i > req[r].base
          BY <3>2, <3>3, <4>1, <5>1
        <5>5. QED
          BY <5>2, <5>3, <5>4
      <4>2. CASE r # x
        BY <2>1, <3>4, <3>6, <4>2 DEF AddedOnce
      <4>3. QED
        BY <4>1, <4>2
    <3>7. ASSUME NEW r \in Request, req[r].kind = "place"
          PROVE  /\ run'[<<r, 1>>].pc = "recover" => run'[<<r, 1>>].base = req[r].base
                 /\ run'[<<r, 1>>].pc \in Pending =>
                      \A d \in DOMAIN places : \A i \in Nat : ~Added(d, i, r)'
      BY <2>1, <2>3, <3>4, <3>7 DEF AddedOnce
    <3>8. QED
      BY <1>1, <3>2, <3>5, <3>6, <3>7 DEF AddedOnce
  <2>6. QED
    BY <2>4, <2>5 DEF Persist, Job
<1>6. QED
  BY <1>4, <1>5 DEF OnceInv

\* A request counts the places of its DAY before it has claimed, and so added, anything.
LEMMA OnceAsks == ASSUME CrewInv, OnceInv, NEW r \in Request, Ask(r) PROVE OnceInv'
<1> DEFINE n == IF req[r].kind = "place" THEN Len(places[req[r].day]) ELSE 0
           q == [req[r] EXCEPT !.pc = "stale", !.base = n]
<1>1. /\ CrewTypeOK /\ req[r].pc = "idle" /\ ~req[r].won
      /\ UNCHANGED <<trip, places, route, run, user, crossed, faults>>
  BY DEF CrewInv, Ask, OnceInv, CountsAreOwn, Before
<1>2. /\ req' = [req EXCEPT ![r] = q] /\ q.pc = "stale" /\ q.won = req[r].won /\ q.base = n
      /\ q.kind = req[r].kind /\ q.day = req[r].day
  BY <1>1 DEF Ask, CrewTypeOK, ReqType
<1> HIDE DEF q
<1>3. Requests(r) /\ req'[r] = q
  BY <1>1, <1>2 DEF CrewTypeOK, Requests
<1>4. SameKinds /\ \A p \in Request : req'[p].won = req[p].won
  BY <1>2, <1>3 DEF SameKinds, Requests
<1>5. Won' = Won
  BY <1>4 DEF Won
<1>6. CountsAreOwn'
  BY <1>1, <1>2, <1>3, <1>4, <1>5 DEF OnceInv, CountsAreOwn, Requests, Before
<1>7. ASSUME Once' PROVE AddedOnce'
  <2>1. Once /\ AddedOnce
    BY <1>1, <1>7 DEF Once, OnceInv, Orderly, Quiet
  <2>2. run[<<r, 1>>].pc = "none" /\ NotAdded(r)
    BY <1>1, <2>1 DEF OnceInv, CountsAreOwn, AddedOnce, NotAdded
  <2>3. ASSUME NEW p \in Request, p # r PROVE req'[p] = req[p]
    BY <1>3, <2>3 DEF Requests
  <2>4. \A d \in DOMAIN places, p \in Request : \A i \in Nat : Added(d, i, p)' => Added(d, i, p) /\ p # r
    BY <1>1, <2>2 DEF Added, NotAdded
  <2>5. ASSUME NEW d \in DOMAIN places, NEW p \in Request, req[p].kind = "place", req[p].day = d
        PROVE  req'[p].base <= Len(places[d])
    <3>1. CASE p = r
      <4>1. Len(places[d]) \in Nat
        BY <1>1, DayPlaces
      <4>2. QED
        BY <1>2, <1>3, <2>5, <3>1, <4>1
    <3>2. CASE p # r
      BY <2>1, <2>3, <2>5, <3>2 DEF AddedOnce
    <3>3. QED
      BY <3>1, <3>2
  <2>6. ASSUME NEW d \in DOMAIN places, NEW p \in Request, NEW i \in Nat, Added(d, i, p)'
        PROVE  /\ req'[p].won /\ req'[p].kind = "place" /\ req'[p].day = d /\ i > req'[p].base
               /\ \A j \in Nat : Added(d, j, p)' => i = j
    BY <2>1, <2>3, <2>4, <2>6 DEF AddedOnce
  <2>7. ASSUME NEW p \in Request, req[p].kind = "place"
        PROVE  /\ run[<<p, 1>>].pc = "recover" => run[<<p, 1>>].base = req'[p].base
               /\ run[<<p, 1>>].pc \in Pending =>
                    \A d \in DOMAIN places : \A i \in Nat : ~Added(d, i, p)'
    BY <2>1, <2>2, <2>3, <2>4, <2>7 DEF AddedOnce, Pending
  <2>8. QED
    BY <1>1, <1>4, <2>5, <2>6, <2>7 DEF AddedOnce, SameKinds
<1>8. QED
  BY <1>6, <1>7 DEF OnceInv
\* A claim carries what its request has counted.
LEMMA OnceClaims == ASSUME CrewInv, OnceInv, NEW r \in Request, ClaimJob(r) PROVE OnceInv'
<1>1. /\ CrewTypeOK /\ req[r].pc \in Before
      /\ UNCHANGED <<places, route, run, user, faults>>
  BY DEF CrewInv, ClaimJob, Before
<1>2. RemovalsStay /\ (Orderly' => Orderly)
  BY <1>1 DEF RemovalsStay, Orderly, Quiet
<1>3. CASE ReqGo(r, "done") /\ UNCHANGED trip
  <2>1. Requests(r) /\ SameKinds /\ req'[r].pc = "done"
    BY <1>1, <1>3, ReqGoes DEF ReqPc
  <2>2. SameCounts
    BY <1>1, <1>3, <2>1 DEF SameCounts, Requests, ReqGo, CrewTypeOK, ReqType
  <2>3. OwnersStay
    BY <1>3, TripOwners
  <2>4. QED
    BY <1>1, <1>2, <2>1, <2>2, <2>3, OnceElseKeeps DEF Requests, Before
<1>4. CASE /\ trip' = Claim(trip, r)
           /\ req' = [req EXCEPT ![r].pc = "enqueue", ![r].won = TRUE]
  <2> DEFINE q == [req[r] EXCEPT !.pc = "enqueue", !.won = TRUE]
  <2>1. /\ req' = [req EXCEPT ![r] = q] /\ q.pc = "enqueue" /\ q.won /\ q.base = req[r].base
        /\ q.kind = req[r].kind /\ q.day = req[r].day
    BY <1>1, <1>4 DEF CrewTypeOK, ReqType
  <2> HIDE DEF q
  <2>2. Requests(r) /\ req'[r] = q
    BY <1>1, <2>1 DEF CrewTypeOK, Requests
  <2>3. SameKinds /\ \A p \in Request : req'[p].base = req[p].base /\ (req[p].won => req'[p].won)
    BY <2>1, <2>2 DEF SameKinds, Requests
  <2>4. trip'.owner = r /\ trip'.kind = req[r].kind
        /\ (req[r].kind = "place" => trip'.base = req[r].base)
    BY <1>1, <1>4 DEF Claim, CrewTypeOK, TripType
  <2>5. Won' \subseteq Won \cup {r}
    BY <2>2 DEF Won, Requests
  <2>6. IsFiniteSet(Won')
    BY <2>5, FS_AddElement, FS_Subset DEF OnceInv, CountsAreOwn
  <2>7. CountsAreOwn'
    BY <1>1, <2>1, <2>2, <2>4, <2>6 DEF OnceInv, CountsAreOwn, Requests, Before
  <2>8. ASSUME Once' PROVE AddedOnce'
    <3>1. AddedOnce
      BY <1>1, <1>2, <2>8 DEF Once, OnceInv
    <3>2. \A d, p : \A i \in Nat : Added(d, i, p)' <=> Added(d, i, p)
      BY <1>1 DEF Added
    <3>3. \A d \in DOMAIN places', p \in Request :
            req'[p].kind = "place" /\ req'[p].day = d => req'[p].base <= Len(places'[d])
      BY <1>1, <2>3, <3>1 DEF AddedOnce, SameKinds
    <3>4. \A d \in DOMAIN places', p \in Request : \A i \in Nat : Added(d, i, p)' =>
            /\ req'[p].won /\ req'[p].kind = "place" /\ req'[p].day = d /\ i > req'[p].base
            /\ \A j \in Nat : Added(d, j, p)' => i = j
      BY <1>1, <2>3, <3>1, <3>2 DEF AddedOnce, SameKinds
    <3>5. ASSUME NEW p \in Request, req'[p].kind = "place"
          PROVE  /\ run'[<<p, 1>>].pc = "recover" => run'[<<p, 1>>].base = req'[p].base
                 /\ run'[<<p, 1>>].pc \in Pending =>
                      \A d \in DOMAIN places' : \A i \in Nat : ~Added(d, i, p)'
      BY <1>1, <2>3, <3>1, <3>2, <3>5 DEF AddedOnce, SameKinds
    <3>6. QED
      BY <3>3, <3>4, <3>5 DEF AddedOnce
  <2>9. QED
    BY <2>7, <2>8 DEF OnceInv
<1>5. QED
  BY <1>3, <1>4 DEF ClaimJob

\* The other steps of a request: none has a run in its way.
LEMMA OnceRequests ==
  ASSUME CrewInv, OnceInv, NEW r \in Request,
         \/ ReadStale(r) \/ ClearStale(r) \/ Enqueue(r) \/ FailRequest(r) \/ RequestDies(r)
         \/ Double(r)
  PROVE  OnceInv'
<1>1. CrewTypeOK /\ UNCHANGED <<places, route, user, crossed>> /\ <<r, 1>> \in Run
  BY RunPair DEF CrewInv, ReadStale, ClearStale, Enqueue, FailRequest, RequestDies, Double
<1>2. FaultsStay
  <2>1. UNCHANGED faults \/ \E k \in FaultKinds : Fault(k)
    BY DEF ReadStale, ClearStale, Enqueue, FailRequest, RequestDies, Double, FaultKinds
  <2>2. QED
    BY <1>1, <2>1, FaultDisorders, TypedUnchanged
<1>3. RemovalsStay /\ (Orderly' => Orderly)
  BY <1>1, <1>2, OrderlyBefore DEF RemovalsStay, FaultsStay, FaultKinds
<1>4. OwnersStay
  <2>1. UNCHANGED trip \/ trip' = NoJob(trip)
    BY DEF ReadStale, ClearStale, Enqueue, FailRequest, FailJob, RequestDies, Double
  <2>2. QED
    BY <1>1, <2>1, NoJobReleases, TripOwners
<1> DEFINE Stands ==
             /\ SameCounts /\ SameKinds
             /\ \A p \in Request :
                  /\ req'[p].pc \in Before => req[p].pc \in Before
                  /\ req'[p].pc \in {"enqueue", "fail"} => req[p].pc \in {"enqueue", "fail"}
<1>5. Stands
  <2>1. CASE UNCHANGED req
    BY <2>1 DEF SameCounts, SameKinds
  <2>2. ASSUME NEW pc \in ReqPc, ReqGo(r, pc),
               pc \in Before => req[r].pc \in Before,
               pc \in {"enqueue", "fail"} => req[r].pc \in {"enqueue", "fail"}
        PROVE  Stands
    BY <1>1, <2>2 DEF ReqGo, SameCounts, SameKinds, CrewTypeOK, ReqType
  <2>3. ASSUME NEW pc \in Before, NEW k, req[r].pc \in Before,
               req' = [req EXCEPT ![r].pc = pc, ![r].saw = k]
        PROVE  Stands
    <3> DEFINE q == [req[r] EXCEPT !.pc = pc, !.saw = k]
    <3>1. /\ req' = [req EXCEPT ![r] = q] /\ q.pc = pc /\ q.won = req[r].won
          /\ q.base = req[r].base /\ q.kind = req[r].kind /\ q.day = req[r].day
      BY <1>1, <2>3 DEF CrewTypeOK, ReqType
    <3> HIDE DEF q
    <3>2. QED
      BY <1>1, <2>3, <3>1 DEF SameCounts, SameKinds, Before, CrewTypeOK
  <2>4. CASE ReadStale(r) \/ ClearStale(r)
    BY <2>3, <2>4 DEF ReadStale, ClearStale, Before
  <2>5. CASE Enqueue(r) \/ FailRequest(r) \/ RequestDies(r)
    BY <2>2, <2>5 DEF Enqueue, FailRequest, RequestDies, Before, ReqPc
  <2>6. QED
    BY <2>1, <2>4, <2>5 DEF Double
<1>6. CASE UNCHANGED run
  BY <1>1, <1>3, <1>4, <1>5, <1>6, OnceElseKeeps
<1>7. CASE Send(r) /\ req[r].pc = "enqueue"
  <2>1. Runs(<<r, 1>>) /\ run'[<<r, 1>>].pc = "sent" /\ req[r].won
    BY <1>1, <1>5, <1>7, RunSends DEF Send, OnceInv, CountsAreOwn
  <2>2. \A p \in Request : run'[<<p, 1>>].pc # "none" => run[<<p, 1>>].pc # "none" \/ req[p].won
    BY <2>1, RunPair DEF Runs
  <2>3. CountsAreOwn'
    BY <1>3, <1>4, <1>5, <2>2, CountsKeep DEF OnceInv
  <2>4. ASSUME Once' PROVE AddedOnce'
    <3>1. AddedOnce
      BY <1>3, <2>4 DEF Once, OnceInv, RemovalsStay
    <3>2. ASSUME NEW p \in Request, p # r PROVE run'[<<p, 1>>] = run[<<p, 1>>]
      BY <2>1, <3>2, RunPair DEF Runs
    <3>3. QED
      BY <1>1, <1>5, <2>1, <3>1, <3>2, AddedKeep DEF AddedOnce, Pending
  <2>5. QED
    BY <2>3, <2>4 DEF OnceInv
<1>8. CASE Double(r)
  <2>1. Runs(<<r, 2>>) /\ ~Orderly'
    <3>1. Runs(<<r, 2>>)
      BY <1>1, <1>8, <1>5, RunSends, RunPair DEF Double
    <3>2. ~Orderly'
      BY <1>1, <1>8, FaultDisorders DEF Double, FaultKinds
    <3>3. QED
      BY <3>1, <3>2
  <2>2. \A p \in Request : run'[<<p, 1>>] = run[<<p, 1>>]
    BY <2>1, RunPair, EventsDiffer DEF Runs
  <2>3. CountsAreOwn'
    BY <1>3, <1>4, <1>5, <2>2, CountsKeep DEF OnceInv
  <2>4. QED
    BY <2>1, <2>3 DEF OnceInv, Once
<1>9. QED
  BY <1>6, <1>7, <1>8 DEF ReadStale, ClearStale, Enqueue, FailRequest, RequestDies

\* What else happens to the trip.
LEMMA OnceElse ==
  ASSUME CrewInv, OnceInv,
         \/ Age \/ LoadConfirm \/ UpdateTrip \/ ConfirmRoute \/ LoadRemove \/ RemovePlace
         \/ PlanDayClaim \/ PlanDayEnds \/ LockTrip \/ RemoveTrip \/ RemoveDay
  PROVE  OnceInv'
<1>1. CrewTypeOK /\ UNCHANGED <<req, run>>
  BY DEF CrewInv, Age, LoadConfirm, UpdateTrip, ConfirmRoute, LoadRemove, RemovePlace,
         PlanDayClaim, PlanDayEnds, LockTrip, RemoveTrip, RemoveDay
<1>2. SameCounts /\ SameKinds
  BY <1>1 DEF SameCounts, SameKinds
<1>3. /\ UNCHANGED faults \/ Age \/ LoadRemove
      /\ Age => Fault("aged")
      /\ LoadRemove => Fault("removed")
  BY DEF Age, LoadConfirm, UpdateTrip, ConfirmRoute, LoadRemove, RemovePlace,
         PlanDayClaim, PlanDayEnds, LockTrip, RemoveTrip, RemoveDay
<1>4. FaultsStay /\ (LoadRemove => faults'["removed"] # 0)
  BY <1>1, <1>3, FaultTyped, FaultDisorders, TypedUnchanged DEF FaultKinds
<1>5. (faults'["removed"] = 0 => faults["removed"] = 0) /\ (Orderly' => Orderly)
  BY <1>4, OrderlyBefore DEF FaultsStay, FaultKinds
<1>6. OwnersStay
  BY TripOwners
  DEF Age, LoadConfirm, UpdateTrip, ConfirmRoute, LoadRemove, RemovePlace,
      PlanDayClaim, PlanDayEnds, LockTrip, RemoveTrip, RemoveDay
<1>7. RemovalsStay
  <2>1. user'.pc = "remove" => user.pc = "remove" \/ LoadRemove
    BY <1>1
    DEF Age, LoadConfirm, UpdateTrip, ConfirmRoute, RemovePlace, UserGo, CrewTypeOK, UserType,
        PlanDayClaim, PlanDayEnds, LockTrip, RemoveTrip, RemoveDay
  <2>2. QED
    BY <1>4, <1>5, <2>1 DEF RemovalsStay
<1>8. Once' => \A d \in DOMAIN places' : d \in DOMAIN places /\ places'[d] = places[d]
  <2>1. CASE UNCHANGED places
    BY <2>1
  <2>2. CASE RemovePlace
    BY <1>5, <2>2 DEF RemovePlace, Once, OnceInv, CountsAreOwn
  <2>3. CASE RemoveDay
    BY <2>3 DEF RemoveDay
  <2>4. QED
    BY <2>1, <2>2, <2>3
    DEF Age, LoadConfirm, UpdateTrip, ConfirmRoute, LoadRemove, PlanDayClaim, PlanDayEnds,
        LockTrip, RemoveTrip
<1>9. QED
  BY <1>1, <1>2, <1>5, <1>6, <1>7, <1>8, OnceElseKeeps

\* No claim is won at first, and every step keeps the counts.
LEMMA InitOnce == ASSUME Init PROVE OnceInv
<1>1. /\ \A r \in Request : req[r].pc = "idle" /\ ~req[r].won /\ req[r].base = 0
      /\ \A w \in Run : run[w].pc = "none"
      /\ trip.owner = None /\ user.pc = "idle"
  BY DEF Init, NewTrip
<1>2. Won = {}
  BY <1>1 DEF Won
<1>3. CountsAreOwn
  BY <1>1, <1>2, FS_EmptySet, RunPair, CrewJobsAssumption DEF CountsAreOwn
<1>4. \A d \in DOMAIN places : Len(places[d]) \in Nat /\ \A i \in 1..Len(places[d]) : places[d][i] = Traveler
  BY DEF Init
<1>5. \A d \in DOMAIN places, r \in Request : \A i \in Nat : ~Added(d, i, r)
  BY <1>4, CrewJobsAssumption DEF Added
<1>6. AddedOnce
  <2>1. \A r \in Request : run[<<r, 1>>].pc = "none"
    BY <1>1, RunPair
  <2>2. \A d \in DOMAIN places, r \in Request : req[r].base <= Len(places[d])
    BY <1>1, <1>4
  <2>3. QED
    BY <1>5, <2>1, <2>2 DEF AddedOnce, Pending
<1>7. QED
  BY <1>3, <1>6 DEF OnceInv

LEMMA NextOnce == ASSUME CrewInv, OnceInv, [Next]_vars PROVE OnceInv'
<1>1. ASSUME NEW r \in Request, Ask(r) \/ RequestStep(r) \/ RequestDies(r) \/ Double(r)
      PROVE  OnceInv'
  BY <1>1, OnceAsks, OnceClaims, OnceRequests DEF RequestStep
<1>2. ASSUME NEW w \in Run, RunStep(w) \/ RunDies(w) PROVE OnceInv'
  BY <1>2, OnceChecks, OnceRecovers, OnceGoesOn, OncePersists DEF RunStep
<1>3. CASE UNCHANGED vars
  BY <1>3
  DEF vars, OnceInv, CountsAreOwn, Won, Once, Orderly, Quiet, AddedOnce, Added
<1>4. QED
  BY <1>1, <1>2, <1>3, OnceElse DEF Next

\* The suggest-place runs of a trip add no more places than jobs were claimed,
\* however often they die or are tried again: as long as no event is doubled, no
\* failed enqueue was accepted, no claim is cleared and no place is removed.
THEOREM RetriesAddOnce == Spec => []AppendsAreClaimedOnce
<1>1. Init => CrewInv /\ OnceInv
  BY InitCrew, InitOnce
<1>2. CrewInv /\ OnceInv /\ [Next]_vars => CrewInv' /\ OnceInv'
  BY NextCrew, NextOnce
<1>3. CrewInv /\ OnceInv => AppendsAreClaimedOnce
  BY AddedAreClaimed DEF OnceInv, AppendsAreClaimedOnce, Quiet, Once, Orderly
<1>4. QED
  BY <1>1, <1>2, <1>3, PTL DEF Spec
=============================================================================
