--------------------------- MODULE MCPublication ---------------------------
EXTENDS Publication, FiniteSets, TLC
CONSTANTS r1, r2, r3, pA, pB
MCJobOf == [r \in Requests |-> 1]
\* Two submissions retry one receipt; a third carries another one.
MCPhaseOne == [r \in Requests |-> IF r = r3 THEN pB ELSE pA]
Symmetry == Permutations(CheckIds)
RetrySymmetry == Permutations(CheckIds) \cup Permutations({r1, r2})
\* Any two of the three submissions race: a retry, with a fault, or a rival.
TwoSubmissions ==
  /\ Cardinality({r \in Requests : pc[r] # "new"}) <= 2
  /\ pc[r3] # "new" => faults = 0
\* For liveness, where symmetry is unsound: GitHub numbers Check Runs upwards, and
\* every other order is the same up to the names.
IdsInOrder ==
  \A k, l \in CheckIds : k < l /\ check[k] = "absent" => check[l] = "absent"
\* A paid review alone meets the faults; beside a submission of a free receipt it
\* meets the crash.
PaidBounds ==
  /\ IdsInOrder
  /\ (\E r \in Requests : pc[r] # "new") => faults = 0 /\ toggles = 0
=============================================================================
