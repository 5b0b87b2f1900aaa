------------------------------ MODULE JobQueue ------------------------------
(***************************************************************************)
(* How a candidate becomes a job of the review broker's worker.            *)
(*                                                                         *)
(* A signed GitHub webhook inserts a waiting job; a signed maker           *)
(* provenance queues the job of its pull request; a merge-group job is     *)
(* queued once every pull request it merges has provenance of one and the  *)
(* same maker.  Whichever arrives last has to release the group: the       *)
(* webhook's handler, the provenance's handler, or the worker when it is   *)
(* idle.  Each handler is a thread; a step is one store transaction, one   *)
(* SELECT or one exchange with GitHub; the process may die in between.     *)
(* The worker's life with a claimed job is module Publication; here the    *)
(* job is "taken" from then on.                                            *)
(***************************************************************************)
EXTENDS Naturals, Sequences, FiniteSets

CONSTANTS
  PRs,          \* pull-request candidates (number, head SHA and base SHA)
  Groups,       \* merge-group candidates of the same repository
  Parts,        \* Parts[g]: the pull requests GitHub lists for group g
  Deliveries,   \* webhook deliveries, as GitHub sends them
  Subject,      \* Subject[d]: the candidate its payload names
  Body,         \* Body[d]: the SHA-256 of its raw body
  DeliveryId,   \* DeliveryId[d]: its X-GitHub-Delivery header
  Submissions,  \* provenance submissions
  PrOf,         \* PrOf[s]: the pull request it is about
  MakerOf,      \* MakerOf[s]: the maker's vendor and model
  NonceOf,      \* NonceOf[s]: its nonce, with the key id
  Routable,     \* makers for which select_reviewer finds a reviewer
  NoSubmission, NoGroup,
  Worker,
  Limit,        \* waiting merge groups prepare_waiting_merge_groups accepts
  MaxFaults,    \* bound: failing calls in a behaviour
  MaxCrashes    \* bound: process crashes

Candidates == PRs \cup Groups
Handlers == Deliveries \cup Submissions
Threads == Handlers \cup {Worker}

ASSUME QueueAssumption ==
  /\ PRs \cap Groups = {}
  /\ Parts \in [Groups -> SUBSET PRs]
  /\ Subject \in [Deliveries -> Candidates]
  /\ PrOf \in [Submissions -> PRs]
  /\ Deliveries \cap Submissions = {}
  /\ Worker \notin Handlers
  /\ NoSubmission \notin Submissions /\ NoGroup \notin Groups
  /\ Limit \in Nat /\ MaxFaults \in Nat /\ MaxCrashes \in Nat

\* The candidate is read from the signed body.
ASSUME BodyAssumption ==
  \A d, e \in Deliveries : Body[d] = Body[e] => Subject[d] = Subject[e]

VARIABLES
  recorded,  \* webhook_deliveries
  job,       \* jobs.status of each candidate; "none": no row
  order,     \* the jobs table in job_id order
  prov,      \* provenance: the submission that holds the candidate's row
  nonces,    \* provenance_nonces
  pc,        \* pc[t]: the next step of thread t
  group,     \* group[t]: the merge group t is preparing
  todo,      \* todo[t]: the snapshot of waiting groups t has yet to prepare
  answer,    \* answer[h]: what the caller of handler h was told
  faults, crashes

rows == <<recorded, job, order, prov, nonces>>
vars == <<recorded, job, order, prov, nonces, pc, group, todo, answer,
          faults, crashes>>

Init ==
  /\ recorded = {}
  /\ job = [c \in Candidates |-> "none"]
  /\ order = << >>
  /\ prov = [p \in PRs |-> NoSubmission]
  /\ nonces = {}
  /\ pc = [t \in Threads |-> IF t = Worker THEN "claim" ELSE "new"]
  /\ group = [t \in Threads |-> NoGroup]
  /\ todo = [t \in Threads |-> {}]
  /\ answer = [h \in Handlers |-> "none"]
  /\ faults = 0 /\ crashes = 0

Goto(t, p) == pc' = [pc EXCEPT ![t] = p]
Reply(h, x) == Goto(h, "done") /\ answer' = [answer EXCEPT ![h] = x]
Waiting == {g \in Groups : job[g] = "waiting"}

-----------------------------------------------------------------------------
(* POST /webhook *)

\* Mutant: any new delivery of a new candidate is recorded.
RecordAnyId(d) ==
  LET c == Subject[d] IN
  /\ pc[d] = "new" /\ pc[Worker] # "down"
  /\ recorded' = recorded \cup {d}
  /\ IF job[c] = "none"
     THEN /\ job' = [job EXCEPT ![c] = "waiting"]
          /\ order' = Append(order, c)
          /\ IF c \in Groups
             THEN /\ Goto(d, "components")
                  /\ group' = [group EXCEPT ![d] = c]
                  /\ UNCHANGED answer
             ELSE Reply(d, "waiting") /\ UNCHANGED group
     ELSE Reply(d, "duplicate") /\ UNCHANGED <<job, order, group>>
  /\ UNCHANGED <<prov, nonces, todo, faults, crashes>>

\* Mutant: the row is inserted in a state the table does not know.
RecordPending(d) ==
  LET c == Subject[d] IN
  /\ pc[d] = "new" /\ pc[Worker] # "down"
  /\ recorded' = recorded \cup {d}
  /\ job' = [job EXCEPT ![c] = "pending"]
  /\ order' = Append(order, c)
  /\ Reply(d, "waiting")
  /\ UNCHANGED <<prov, nonces, group, todo, faults, crashes>>

\* record_delivery_candidate, one transaction: a body seen before, a delivery
\* id seen with another body, or a new delivery, whose candidate may already
\* have its job.
Record(d) ==
  LET c == Subject[d] IN
  /\ pc[d] = "new" /\ pc[Worker] # "down"
  /\ \/ /\ \E e \in recorded : Body[e] = Body[d]
        /\ Reply(d, "duplicate")
        /\ UNCHANGED <<recorded, job, order, group>>
     \/ /\ \A e \in recorded : Body[e] # Body[d]
        /\ \E e \in recorded : DeliveryId[e] = DeliveryId[d]
        /\ Reply(d, "conflict")
        /\ UNCHANGED <<recorded, job, order, group>>
     \/ /\ \A e \in recorded : Body[e] # Body[d] /\ DeliveryId[e] # DeliveryId[d]
        /\ recorded' = recorded \cup {d}
        /\ IF job[c] = "none"
           THEN /\ job' = [job EXCEPT ![c] = "waiting"]
                /\ order' = Append(order, c)
                /\ IF c \in Groups
                   THEN /\ Goto(d, "components")
                        /\ group' = [group EXCEPT ![d] = c]
                        /\ UNCHANGED answer
                   ELSE Reply(d, "waiting") /\ UNCHANGED group
           ELSE Reply(d, "duplicate") /\ UNCHANGED <<job, order, group>>
  /\ UNCHANGED <<prov, nonces, todo, faults, crashes>>

-----------------------------------------------------------------------------
(* POST /provenance *)

\* latest_installation: no webhook has named this candidate yet.
Installation(s) ==
  /\ pc[s] = "new" /\ pc[Worker] # "down"
  /\ IF job[PrOf[s]] = "none"
     THEN Reply(s, "rejected")
     ELSE Goto(s, "put") /\ UNCHANGED answer
  /\ UNCHANGED <<rows, group, todo, faults, crashes>>

\* Mutant: a conflict on the candidate's row keeps the nonce.
PutKeepsNonce(s) ==
  LET p == PrOf[s] IN
  /\ pc[s] = "put"
  /\ nonces' = nonces \cup {NonceOf[s]}
  /\ IF NonceOf[s] \notin nonces /\ prov[p] = NoSubmission
     THEN /\ prov' = [prov EXCEPT ![p] = s]
          /\ job' = [job EXCEPT ![p] = IF @ = "waiting" THEN "queued" ELSE @]
          /\ Goto(s, "list") /\ UNCHANGED answer
     ELSE Reply(s, "rejected") /\ UNCHANGED <<prov, job>>
  /\ UNCHANGED <<recorded, order, group, todo, faults, crashes>>

\* Mutant: a later submission replaces the row.
PutReplaces(s) ==
  LET p == PrOf[s] IN
  /\ pc[s] = "put"
  /\ IF NonceOf[s] \notin nonces
     THEN /\ nonces' = nonces \cup {NonceOf[s]}
          /\ prov' = [prov EXCEPT ![p] = s]
          /\ job' = [job EXCEPT ![p] = IF @ = "waiting" THEN "queued" ELSE @]
          /\ Goto(s, "list") /\ UNCHANGED answer
     ELSE Reply(s, "rejected") /\ UNCHANGED <<nonces, prov, job>>
  /\ UNCHANGED <<recorded, order, group, todo, faults, crashes>>

\* Mutant: only the provenance is stored; the job is queued by nobody.
PutOnly(s) ==
  LET p == PrOf[s] IN
  /\ pc[s] = "put"
  /\ IF NonceOf[s] \notin nonces /\ prov[p] = NoSubmission
     THEN /\ nonces' = nonces \cup {NonceOf[s]}
          /\ prov' = [prov EXCEPT ![p] = s]
          /\ Goto(s, "list") /\ UNCHANGED answer
     ELSE Reply(s, "rejected") /\ UNCHANGED <<nonces, prov>>
  /\ UNCHANGED <<recorded, job, order, group, todo, faults, crashes>>

\* put_provenance_and_queue: the nonce, the candidate's one provenance row and
\* the waiting job, in one transaction; a conflict rolls all three back.
Put(s) ==
  LET p == PrOf[s] IN
  /\ pc[s] = "put"
  /\ IF NonceOf[s] \notin nonces /\ prov[p] = NoSubmission /\ job[p] # "none"
     THEN /\ nonces' = nonces \cup {NonceOf[s]}
          /\ prov' = [prov EXCEPT ![p] = s]
          /\ job' = [job EXCEPT ![p] = IF @ = "waiting" THEN "queued" ELSE @]
          /\ Goto(s, "list") /\ UNCHANGED answer
     ELSE Reply(s, "rejected") /\ UNCHANGED <<nonces, prov, job>>
  /\ UNCHANGED <<recorded, order, group, todo, faults, crashes>>

-----------------------------------------------------------------------------
(* prepare_waiting_merge_groups and prepare_merge_group *)

\* waiting_merge_groups: a snapshot, or UNAVAILABLE beyond the limit, which the
\* provenance handler passes on and the idle worker swallows.
ListGroups(t) ==
  /\ pc[t] = "list"
  /\ IF Cardinality(Waiting) > Limit
     THEN /\ IF t = Worker THEN Goto(t, "claim") /\ UNCHANGED answer
             ELSE Reply(t, "unavailable")
          /\ UNCHANGED todo
     ELSE /\ todo' = [todo EXCEPT ![t] = Waiting]
          /\ Goto(t, "next") /\ UNCHANGED answer
  /\ UNCHANGED <<rows, group, faults, crashes>>

NextGroup(t) ==
  /\ pc[t] = "next"
  /\ \/ /\ todo[t] = {}
        /\ IF t = Worker THEN Goto(t, "claim") /\ UNCHANGED answer
           ELSE Reply(t, "queued")
        /\ UNCHANGED <<group, todo>>
     \/ \E g \in todo[t] :
          /\ todo' = [todo EXCEPT ![t] = @ \ {g}]
          /\ group' = [group EXCEPT ![t] = g]
          /\ Goto(t, "components") /\ UNCHANGED answer
  /\ UNCHANGED <<rows, faults, crashes>>

\* Mutant: the webhook's handler does not look at the error.
NotPreparedQueued(t) ==
  IF t \in Deliveries THEN Reply(t, "queued")
  ELSE Goto(t, "next") /\ UNCHANGED answer

\* A BrokerError leaves the group waiting: the webhook's handler says so, the
\* other two go on to the next group.
NotPrepared(t) ==
  IF t \in Deliveries THEN Reply(t, "waiting")
  ELSE Goto(t, "next") /\ UNCHANGED answer

\* The installation token and the pages of pull requests, from GitHub.
Components(t) ==
  /\ pc[t] = "components"
  /\ \/ Goto(t, "bind") /\ UNCHANGED <<answer, faults>>
     \/ faults < MaxFaults /\ faults' = faults + 1 /\ NotPrepared(t)
  /\ UNCHANGED <<rows, group, todo, crashes>>

MakersOf(g) == {MakerOf[prov[p]] : p \in {q \in Parts[g] : prov[q] # NoSubmission}}

\* Every component has provenance, of one maker, for whom a reviewer exists.
Ready(g) ==
  /\ Parts[g] # {}
  /\ \A p \in Parts[g] : prov[p] # NoSubmission
  /\ \E m \in Routable : MakersOf(g) = {m}

\* Mutant: a component without provenance does not count.
QueueIncomplete(t) ==
  LET g == group[t] IN
  /\ pc[t] = "bind"
  /\ IF (\E m \in Routable : MakersOf(g) = {m}) /\ job[g] = "waiting"
     THEN /\ job' = [job EXCEPT ![g] = "queued"]
          /\ IF t \in Deliveries THEN Reply(t, "queued")
             ELSE Goto(t, "next") /\ UNCHANGED answer
     ELSE NotPrepared(t) /\ UNCHANGED job
  /\ UNCHANGED <<recorded, order, prov, nonces, group, todo, faults, crashes>>

\* queue_merge_group: provenance is read and the job queued in one transaction.
QueueGroup(t) ==
  LET g == group[t] IN
  /\ pc[t] = "bind"
  /\ IF Ready(g) /\ job[g] = "waiting"
     THEN /\ job' = [job EXCEPT ![g] = "queued"]
          /\ IF t \in Deliveries THEN Reply(t, "queued")
             ELSE Goto(t, "next") /\ UNCHANGED answer
     ELSE NotPrepared(t) /\ UNCHANGED job
  /\ UNCHANGED <<recorded, order, prov, nonces, group, todo, faults, crashes>>

-----------------------------------------------------------------------------
(* The worker *)

\* Mutant: an idle worker only waits for its wake-up.
ClaimOnly(w) ==
  /\ pc[w] = "claim"
  /\ \E i \in 1..Len(order) :
       /\ job[order[i]] = "queued"
       /\ \A k \in 1..i-1 : job[order[k]] # "queued"
       /\ job' = [job EXCEPT ![order[i]] = "taken"]
  /\ UNCHANGED <<recorded, order, prov, nonces, pc, group, todo, answer,
                 faults, crashes>>

\* claim: the oldest queued job; with none, the idle worker prepares groups.
Claim(w) ==
  /\ pc[w] = "claim"
  /\ \/ /\ \A c \in Candidates : job[c] # "queued"
        /\ Waiting # {}
        /\ Goto(w, "list") /\ UNCHANGED job
     \/ /\ \E i \in 1..Len(order) :
             /\ job[order[i]] = "queued"
             /\ \A k \in 1..i-1 : job[order[k]] # "queued"
             /\ job' = [job EXCEPT ![order[i]] = "taken"]
        /\ UNCHANGED pc
  /\ UNCHANGED <<recorded, order, prov, nonces, group, todo, answer,
                 faults, crashes>>

\* A store that raises sqlite3.Error ends a handler's connection without an
\* answer; the idle worker gives up its list and polls again.
StoreFails(t) ==
  /\ pc[t] \in {"put", "list", "bind"}
  /\ faults < MaxFaults
  /\ faults' = faults + 1
  /\ IF t = Worker THEN Goto(t, "claim") /\ UNCHANGED answer
     ELSE Reply(t, "lost")
  /\ todo' = [todo EXCEPT ![t] = {}]
  /\ UNCHANGED <<rows, group, crashes>>

Crash ==
  /\ crashes < MaxCrashes
  /\ pc[Worker] # "down"
  /\ crashes' = crashes + 1
  /\ pc' = [t \in Threads |-> IF t = Worker THEN "down"
                              ELSE IF pc[t] = "new" THEN "new" ELSE "done"]
  /\ answer' = [h \in Handlers |->
                  IF pc[h] \in {"new", "done"} THEN answer[h] ELSE "lost"]
  /\ group' = [t \in Threads |-> NoGroup]
  /\ todo' = [t \in Threads |-> {}]
  /\ UNCHANGED <<rows, faults>>

Restart(w) ==
  /\ pc[w] = "down"
  /\ Goto(w, "claim")
  /\ UNCHANGED <<rows, group, todo, answer, faults, crashes>>

Prepare(t) == ListGroups(t) \/ NextGroup(t) \/ Components(t) \/ QueueGroup(t)

Next ==
  \/ \E d \in Deliveries : Record(d)
  \/ \E s \in Submissions : Installation(s) \/ Put(s)
  \/ \E t \in Threads : Prepare(t) \/ StoreFails(t)
  \/ Claim(Worker) \/ Restart(Worker) \/ Crash

Spec == Init /\ [][Next]_vars

\* The worker polls every five seconds and the service manager restarts it;
\* a handler may be as slow as it likes.
FairSpec == Spec /\ WF_vars(Prepare(Worker) \/ Claim(Worker) \/ Restart(Worker))

-----------------------------------------------------------------------------
(* Properties *)

\* Every variable has its type.
TypeOK ==
  /\ recorded \subseteq Deliveries
  /\ job \in [Candidates -> {"none", "waiting", "queued", "taken"}]
  /\ order \in Seq(Candidates)
  /\ prov \in [PRs -> Submissions \cup {NoSubmission}]
  /\ nonces \subseteq {NonceOf[s] : s \in Submissions}
  /\ pc \in [Threads -> {"new", "put", "list", "next", "components", "bind",
                         "claim", "down", "done"}]
  /\ group \in [Threads -> Groups \cup {NoGroup}]
  /\ todo \in [Threads -> SUBSET Groups]
  /\ answer \in [Handlers -> {"none", "duplicate", "conflict", "waiting", "queued",
                              "rejected", "unavailable", "lost"}]
  /\ faults \in Nat /\ crashes \in Nat

\* Every recorded delivery has its candidate's one job, every job comes from a
\* recorded delivery, and no two deliveries share a body or an id, however
\* GitHub redelivers and handlers interleave.
JobsFollowDeliveries ==
  /\ \A c \in Candidates :
       /\ job[c] # "none" <=> \E d \in recorded : Subject[d] = c
       /\ job[c] # "none" <=> \E i \in 1..Len(order) : order[i] = c
  /\ \A i, k \in 1..Len(order) : order[i] = order[k] => i = k
  /\ \A d, e \in recorded :
       Body[d] = Body[e] \/ DeliveryId[d] = DeliveryId[e] => d = e

\* A refused submission costs nothing: the spent nonces are exactly those of
\* the provenance rows, one row each, so a submitter may correct and retry.
NoncesAreSpent ==
  LET bound == {p \in PRs : prov[p] # NoSubmission} IN
  /\ nonces = {NonceOf[prov[p]] : p \in bound}
  /\ \A p, q \in bound : NonceOf[prov[p]] = NonceOf[prov[q]] => p = q

\* A pull request's job leaves "waiting" exactly when its provenance is stored,
\* whichever of the webhook and the provenance comes first.
QueuedIsBound ==
  \A p \in PRs : prov[p] # NoSubmission <=> job[p] \in {"queued", "taken"}

\* A merge group is reviewed only when all its pull requests have provenance
\* of one routable maker, though three kinds of thread release groups from
\* snapshots they took before the last provenance arrived.
GroupIsHomogeneous ==
  \A g \in Groups : job[g] \in {"queued", "taken"} => Ready(g)

\* What callers are told stays true: "queued" of a job that is not waiting and,
\* for provenance, of one's own row; "rejected" of a submission that left no
\* row; any answer to a webhook but a conflict, of a candidate with a job.
AnswersAreTrue ==
  /\ \A s \in Submissions :
       /\ answer[s] \in {"queued", "unavailable"} =>
            prov[PrOf[s]] = s /\ job[PrOf[s]] \in {"queued", "taken"}
       /\ answer[s] = "rejected" => prov[PrOf[s]] # s
  /\ \A d \in Deliveries :
       /\ answer[d] = "queued" => job[Subject[d]] \in {"queued", "taken"}
       /\ answer[d] \in {"duplicate", "waiting"} =>
            job[Subject[d]] # "none"

\* Provenance is never replaced and jobs never go back.
Later(s) ==
  IF s = "none" THEN {"none", "waiting"}
  ELSE IF s = "waiting" THEN {"waiting", "queued"} ELSE {"queued", "taken"}
NothingIsRebound ==
  [][/\ \A p \in PRs : prov[p] # NoSubmission => prov'[p] = prov[p]
     /\ \A c \in Candidates :
          /\ job'[c] \in Later(job[c])
          /\ job[c] = "taken" => job'[c] = "taken"]_vars

\* A waiting group whose last provenance has arrived is taken up in the end,
\* by whichever thread, through faults and a crash ("late provenance
\* automatically releases waiting merge group").
LateProvenanceReleases ==
  \A g \in Groups : job[g] = "waiting" /\ Ready(g) ~> job[g] = "taken"

=============================================================================
