------------------------------- MODULE Lists -------------------------------
(* What the loops of the code build of lists. *)
EXTENDS Integers, Sequences

\* The members at the positions K, in their order.
Only(s, K) ==
  LET upTo[n \in 0..Len(s)] ==
        IF n = 0 THEN <<>> ELSE IF n \in K THEN Append(upTo[n - 1], s[n]) ELSE upTo[n - 1]
  IN  upTo[Len(s)]

\* The sum of numbers.
Total(ns) ==
  LET upTo[n \in 0..Len(ns)] == IF n = 0 THEN 0 ELSE upTo[n - 1] + ns[n]
  IN  upTo[Len(ns)]
=============================================================================
