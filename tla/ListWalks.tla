----------------------------- MODULE ListWalks -----------------------------
(* Loops and comprehensions over a list, as recursive functions of how far  *)
(* they are.                                                                *)
EXTENDS Integers, Sequences

\* The elements of s at these places, in their order.
Picked(s, places) ==
  LET kept[n \in 0..Len(s)] ==
        IF n = 0 THEN << >> ELSE IF n \in places THEN Append(kept[n - 1], s[n]) ELSE kept[n - 1]
  IN kept[Len(s)]

\* What the numbers of s add up to.
Total(s) ==
  LET sum[n \in 0..Len(s)] == IF n = 0 THEN 0 ELSE sum[n - 1] + s[n]
  IN sum[Len(s)]
=============================================================================
