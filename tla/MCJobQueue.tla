----------------------------- MODULE MCJobQueue -----------------------------
EXTENDS JobQueue
CONSTANTS p1, p2, g1, g2, d1, d2, dg1, dg2, dr, dc, s1, s2, s3, mA, mB

\* One group merges both pull requests, the other only the second.
MCParts == [g \in Groups |-> IF g = g1 THEN PRs ELSE {p2}]
\* dr redelivers d1's body under a new id; dc reuses d1's id for another body.
MCSubject ==
  [d \in Deliveries |-> CASE d = dg1 -> g1 [] d = dg2 -> g2 [] d = d2 -> p2 [] OTHER -> p1]
MCBody == [d \in Deliveries |-> IF d = dr THEN d1 ELSE d]
MCDeliveryId == [d \in Deliveries |-> IF d = dc THEN d1 ELSE d]
\* s3 competes with s2 for the second pull request, under s1's nonce.
MCPrOf == [s \in Submissions |-> IF s = s1 THEN p1 ELSE p2]
MCMakerOf == [s \in Submissions |-> IF s = s3 THEN mB ELSE mA]
MCNonceOf == [s \in Submissions |-> IF s = s3 THEN 1 ELSE IF s = s1 THEN 1 ELSE 2]

\* The fair specification with one thing out of the ordinary: a body redelivered, an id
\* reused, a call that fails or a crash.
Disturbances == Cardinality({d \in Deliveries \cap {dr, dc} : pc[d] # "new"}) + faults + crashes
LiveSpec ==
  /\ Init /\ [][Next /\ Disturbances' <= 1]_vars
  /\ WF_vars(Prepare(Worker) \/ Claim(Worker) \/ Restart(Worker))
=============================================================================
