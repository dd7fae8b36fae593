----------------------------- MODULE MCAccount -----------------------------
(* The quota and the trips of a user share no row: a behaviour is one of the  *)
(* quota, of the creation and deletion of all trips, or of the whole life of  *)
(* the watched ones.                                                          *)
EXTENDS Quota, TripCrud, TLC

CONSTANT Watched  \* the trips whose details are changed

VARIABLE part

vars == <<part, quotaVars, crudVars>>

MCInit == part \in {"quota", "limit", "trip"} /\ QuotaInit /\ CrudInit

MCNext ==
  /\ UNCHANGED part
  /\ \/ part = "quota" /\ QuotaNext /\ UNCHANGED crudVars
     \/ /\ part = "limit"
        /\ \E t \in Trips : Creates(t) \/ Deletes(t) \/ Stops(t, "delete")
        /\ UNCHANGED quotaVars
     \/ /\ part = "trip"
        /\ \E t \in Watched :
             Creates(t) \/ Deletes(t) \/ Changes(t) \/ \E k \in Kind : Stops(t, k)
        /\ UNCHANGED quotaVars

MCSpec == MCInit /\ [][MCNext]_vars

\* Bound: the writers of a trip at one time.
TwoWriters == \A t \in Trips : Cardinality(Busy(t)) <= 2

Symmetry == Permutations(Requests)
=============================================================================
