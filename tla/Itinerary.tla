----------------------------- MODULE Itinerary -----------------------------
(***************************************************************************)
(* What planning a trip promises, whoever runs it and however often it is  *)
(* retried: DAY rows appear one after the other and are never written      *)
(* again; the cursor, which every client and every later request trusts,   *)
(* never passes a day that does not exist; and a trip is reported complete *)
(* only when it has all its days.                                          *)
(***************************************************************************)
EXTENDS Naturals

CONSTANTS
  DayCount,   \* days of the trip
  Writer,     \* whoever may write a day
  NoRow       \* a day that does not exist

Day == 1..DayCount

VARIABLES
  row,        \* row[d]: who wrote day d, or NoRow
  cursor,     \* the day to plan next, as the trip reports it
  complete    \* whether the trip reports itself complete

vars == <<row, cursor, complete>>

AllWritten(S) == \A d \in S : row[d] # NoRow

Init ==
  /\ row = [d \in Day |-> NoRow]
  /\ cursor = 1
  /\ complete = FALSE

\* The first missing day is written.
WriteDay(d, w) ==
  /\ row[d] = NoRow
  /\ AllWritten(1..(d - 1))
  /\ row' = [row EXCEPT ![d] = w]
  /\ UNCHANGED <<cursor, complete>>

\* The trip reports progress; it may report less than there is.
Report(n, done) ==
  /\ AllWritten(1..(n - 1))
  /\ done => AllWritten(Day)
  /\ cursor' = n
  /\ complete' = done
  /\ UNCHANGED row

Next ==
  \/ \E d \in Day, w \in Writer : WriteDay(d, w)
  \/ \E n \in 1..(DayCount + 1), done \in BOOLEAN : Report(n, done)

Spec == Init /\ [][Next]_vars
=============================================================================
