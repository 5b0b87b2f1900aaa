--------------------------- MODULE JobQueueProofs ---------------------------
(***************************************************************************)
(* The queue's invariants for any candidates, deliveries, submissions and  *)
(* makers, any limit and any number of faults and crashes.  The tables'    *)
(* invariants need no more than each other; what callers are told needs    *)
(* Control, which says what a handler's position implies about the tables. *)
(***************************************************************************)
EXTENDS JobQueue, TLAPS

\* A provenance row is about the pull request it is filed under.
OwnRow == \A p \in PRs : prov[p] # NoSubmission => PrOf[prov[p]] = p

\* What the five tables say, whatever the threads do.
RowInv ==
  /\ JobsFollowDeliveries
  /\ OwnRow
  /\ NoncesAreSpent
  /\ QueuedIsBound
  /\ GroupIsHomogeneous

\* A webhook handler that prepares a group recorded its delivery; a provenance
\* handler past its transaction holds the row, and one before it does not.
Control ==
  /\ \A d \in Deliveries :
       /\ pc[d] \in {"new", "components", "bind", "done"}
       /\ pc[d] \in {"components", "bind"} => d \in recorded /\ group[d] = Subject[d]
  /\ \A s \in Submissions :
       /\ pc[s] \in {"new", "put", "list", "next", "components", "bind", "done"}
       /\ pc[s] \in {"list", "next", "components", "bind"} => prov[PrOf[s]] = s
       /\ pc[s] \in {"new", "put"} => prov[PrOf[s]] # s
       /\ pc[s] # "done" => answer[s] = "none"
  /\ pc[Worker] \in {"claim", "list", "next", "components", "bind", "down"}
  /\ \A t \in Threads : pc[t] \in {"components", "bind"} => group[t] \in Groups

IInv == TypeOK /\ RowInv /\ Control /\ AnswersAreTrue

USE QueueAssumption DEF Candidates, Handlers, Threads, Goto, Reply

LEMMA InitIInv == Init => IInv
<1> SUFFICES ASSUME Init PROVE IInv  OBVIOUS
<1>1. TypeOK
  BY DEF Init, TypeOK
<1>2. JobsFollowDeliveries /\ OwnRow /\ NoncesAreSpent /\ QueuedIsBound
  BY DEF Init, JobsFollowDeliveries, OwnRow, NoncesAreSpent, QueuedIsBound
<1>3. GroupIsHomogeneous
  BY DEF Init, GroupIsHomogeneous
<1>4. Control
  BY DEF Init, Control
<1>5. AnswersAreTrue
  BY DEF Init, AnswersAreTrue
<1> QED BY <1>1, <1>2, <1>3, <1>4, <1>5 DEF IInv, RowInv

-----------------------------------------------------------------------------
(* The tables *)

\* A group that was ready stays ready when a pull request of nobody is bound.
LEMMA ReadyStays ==
  ASSUME TypeOK, NEW g \in Groups, Ready(g), NEW p \in PRs, NEW s \in Submissions,
         prov[p] = NoSubmission, prov' = [prov EXCEPT ![p] = s]
  PROVE  Ready(g)'
<1>1. p \notin Parts[g]
  BY DEF Ready
<1>2. \A q \in Parts[g] : q \in PRs /\ prov'[q] = prov[q]
  BY <1>1 DEF TypeOK
<1>3. MakersOf(g)' = MakersOf(g)
  BY <1>2 DEF MakersOf
<1> QED BY <1>2, <1>3 DEF Ready

LEMMA ReadySame ==
  ASSUME UNCHANGED prov, NEW g \in Groups
  PROVE  Ready(g)' <=> Ready(g)
BY DEF Ready, MakersOf

LEMMA RecordRows ==
  ASSUME IInv, NEW d \in Deliveries, Record(d)
  PROVE  RowInv'
<1> DEFINE c == Subject[d]
           n == Len(order)
<1>1. CASE UNCHANGED <<recorded, job, order>>
  <2>1. UNCHANGED rows
    BY <1>1 DEF Record, rows
  <2> QED BY <2>1, ReadySame
        DEF IInv, RowInv, rows, JobsFollowDeliveries, OwnRow, NoncesAreSpent,
            QueuedIsBound, GroupIsHomogeneous
<1>2. CASE /\ \A e \in recorded : Body[e] # Body[d] /\ DeliveryId[e] # DeliveryId[d]
           /\ recorded' = recorded \cup {d}
           /\ job[c] = "none"
           /\ job' = [job EXCEPT ![c] = "waiting"]
           /\ order' = Append(order, c)
  <2>1. /\ n \in Nat /\ Len(order') = n + 1 /\ order'[n + 1] = c
        /\ \A i \in 1..n : order'[i] = order[i] /\ order[i] \in Candidates
        /\ c \in Candidates /\ \A i \in 1..n : order[i] # c
    BY <1>2 DEF IInv, TypeOK, RowInv, JobsFollowDeliveries
  <2>2. \A x \in Candidates : job'[x] = IF x = c THEN "waiting" ELSE job[x]
    BY <1>2 DEF IInv, TypeOK
  <2>3. \A x \in Candidates : job'[x] # "none" <=> \E e \in recorded' : Subject[e] = x
    BY <1>2, <2>2 DEF IInv, TypeOK, RowInv, JobsFollowDeliveries
  <2>4. \A x \in Candidates : job'[x] # "none" <=> \E i \in 1..Len(order') : order'[i] = x
    <3> SUFFICES ASSUME NEW x \in Candidates
                 PROVE  job'[x] # "none" <=> \E i \in 1..Len(order') : order'[i] = x
      OBVIOUS
    <3>1. CASE x = c
      BY <2>1, <2>2, <3>1
    <3>2. CASE x # c
      <4>1. job[x] # "none" <=> \E i \in 1..n : order[i] = x
        BY DEF IInv, RowInv, JobsFollowDeliveries
      <4>2. (\E i \in 1..Len(order') : order'[i] = x) <=> \E i \in 1..n : order[i] = x
        BY <2>1, <3>2
      <4> QED BY <2>2, <3>2, <4>1, <4>2
    <3> QED BY <3>1, <3>2
  <2>5. \A i, k \in 1..Len(order') : order'[i] = order'[k] => i = k
    BY <2>1 DEF IInv, RowInv, JobsFollowDeliveries
  <2>6. \A e, f \in recorded' :
          Body[e] = Body[f] \/ DeliveryId[e] = DeliveryId[f] => e = f
    BY <1>2 DEF IInv, RowInv, JobsFollowDeliveries
  <2>7. UNCHANGED <<prov, nonces>>
    BY DEF Record
  <2>8. OwnRow' /\ NoncesAreSpent'
    BY <2>7 DEF IInv, RowInv, OwnRow, NoncesAreSpent
  <2>9. QueuedIsBound'
    BY <1>2, <2>2, <2>7 DEF IInv, RowInv, QueuedIsBound
  <2>10. GroupIsHomogeneous'
    BY <2>2, <2>7, ReadySame DEF IInv, RowInv, GroupIsHomogeneous
  <2> QED BY <2>3, <2>4, <2>5, <2>6, <2>8, <2>9, <2>10
        DEF RowInv, JobsFollowDeliveries
<1>3. CASE /\ \A e \in recorded : Body[e] # Body[d] /\ DeliveryId[e] # DeliveryId[d]
           /\ recorded' = recorded \cup {d}
           /\ job[c] # "none"
           /\ UNCHANGED <<job, order>>
  <2>1. UNCHANGED <<prov, nonces>>
    BY DEF Record
  <2>2. JobsFollowDeliveries'
    BY <1>3 DEF IInv, TypeOK, RowInv, JobsFollowDeliveries
  <2>3. OwnRow' /\ NoncesAreSpent' /\ QueuedIsBound'
    BY <1>3, <2>1 DEF IInv, RowInv, OwnRow, NoncesAreSpent, QueuedIsBound
  <2>4. GroupIsHomogeneous'
    BY <1>3, <2>1, ReadySame DEF IInv, RowInv, GroupIsHomogeneous
  <2> QED BY <2>2, <2>3, <2>4 DEF RowInv
<1> QED BY <1>1, <1>2, <1>3 DEF Record

LEMMA PutRows ==
  ASSUME IInv, NEW s \in Submissions, Put(s)
  PROVE  RowInv'
<1> DEFINE p == PrOf[s]
<1>0. p \in PRs /\ UNCHANGED <<recorded, order>>
  BY DEF Put
<1>1. CASE NonceOf[s] \notin nonces /\ prov[p] = NoSubmission /\ job[p] # "none"
  <2>1. /\ nonces' = nonces \cup {NonceOf[s]}
        /\ prov' = [prov EXCEPT ![p] = s]
        /\ \A x \in Candidates :
             job'[x] = IF x = p /\ job[x] = "waiting" THEN "queued" ELSE job[x]
    BY <1>0, <1>1 DEF Put, IInv, TypeOK
  <2>2. job[p] = "waiting" /\ job'[p] = "queued"
    BY <1>0, <1>1, <2>1 DEF IInv, TypeOK, RowInv, QueuedIsBound
  <2>3. \A q \in PRs : prov'[q] = IF q = p THEN s ELSE prov[q]
    BY <2>1 DEF IInv, TypeOK
  <2>4. JobsFollowDeliveries'
    <3>1. \A x \in Candidates : job'[x] # "none" <=> job[x] # "none"
      BY <2>1
    <3> QED BY <1>0, <3>1 DEF IInv, RowInv, JobsFollowDeliveries
  <2>5. OwnRow'
    BY <2>3 DEF IInv, RowInv, OwnRow
  <2>6. NoncesAreSpent'
    <3> DEFINE old == {q \in PRs : prov[q] # NoSubmission}
               new == {q \in PRs : prov'[q] # NoSubmission}
    <3>1. new = old \cup {p} /\ p \notin old
      BY <1>0, <1>1, <2>3
    <3>2. /\ nonces = {NonceOf[prov[q]] : q \in old}
          /\ \A q, r \in old : NonceOf[prov[q]] = NonceOf[prov[r]] => q = r
      BY DEF IInv, RowInv, NoncesAreSpent
    <3>3. \A q \in old : prov'[q] = prov[q]
      BY <2>3, <3>1
    <3>4. prov'[p] = s
      BY <1>0, <2>3
    <3>5. nonces' = {NonceOf[prov'[q]] : q \in new}
      BY <2>1, <3>1, <3>2, <3>3, <3>4
    <3>6. \A q, r \in new : NonceOf[prov'[q]] = NonceOf[prov'[r]] => q = r
      BY <1>1, <3>1, <3>2, <3>3, <3>4
    <3> QED BY <3>5, <3>6 DEF NoncesAreSpent
  <2>7. QueuedIsBound'
    BY <2>1, <2>2, <2>3 DEF IInv, RowInv, QueuedIsBound
  <2>8. GroupIsHomogeneous'
    <3> SUFFICES ASSUME NEW g \in Groups, job'[g] \in {"queued", "taken"}
                 PROVE  Ready(g)'
      BY DEF GroupIsHomogeneous
    <3>1. job[g] \in {"queued", "taken"}
      BY <1>0, <2>1
    <3>2. Ready(g)
      BY <3>1 DEF IInv, RowInv, GroupIsHomogeneous
    <3> QED BY <1>0, <1>1, <2>1, <3>2, ReadyStays DEF IInv
  <2> QED BY <2>4, <2>5, <2>6, <2>7, <2>8 DEF RowInv
<1>2. CASE ~(NonceOf[s] \notin nonces /\ prov[p] = NoSubmission /\ job[p] # "none")
  <2>1. UNCHANGED rows
    BY <1>2 DEF Put, rows
  <2> QED BY <2>1, ReadySame
        DEF IInv, RowInv, rows, JobsFollowDeliveries, OwnRow, NoncesAreSpent,
            QueuedIsBound, GroupIsHomogeneous
<1> QED BY <1>1, <1>2

\* A job that is queued or taken moves on: the rows' invariants follow when a
\* group enters "queued" only ready, and a pull request only from "queued".
LEMMA JobRows ==
  ASSUME IInv, UNCHANGED <<recorded, order, prov, nonces>>,
         NEW c \in Candidates, NEW x \in {"queued", "taken"},
         job' = [job EXCEPT ![c] = x],
         \/ job[c] = "queued"
         \/ c \in Groups /\ Ready(c) /\ job[c] = "waiting"
  PROVE  RowInv'
<1>1. \A y \in Candidates : job'[y] = IF y = c THEN x ELSE job[y]
  BY DEF IInv, TypeOK
<1>2. JobsFollowDeliveries'
  <2>1. \A y \in Candidates : job'[y] # "none" <=> job[y] # "none"
    BY <1>1
  <2> QED BY <2>1 DEF IInv, RowInv, JobsFollowDeliveries
<1>3. OwnRow' /\ NoncesAreSpent'
  BY DEF IInv, RowInv, OwnRow, NoncesAreSpent
<1>4. QueuedIsBound'
  BY <1>1 DEF IInv, RowInv, QueuedIsBound
<1>5. GroupIsHomogeneous'
  BY <1>1, ReadySame DEF IInv, RowInv, GroupIsHomogeneous
<1> QED BY <1>2, <1>3, <1>4, <1>5 DEF RowInv

LEMMA QuietRows == ASSUME IInv, UNCHANGED rows PROVE RowInv'
BY ReadySame DEF IInv, RowInv, rows, JobsFollowDeliveries, OwnRow,
     NoncesAreSpent, QueuedIsBound, GroupIsHomogeneous

LEMMA NextRows == ASSUME IInv, [Next]_vars PROVE RowInv'
<1>1. ASSUME NEW d \in Deliveries, Record(d) PROVE RowInv'
  BY <1>1, RecordRows
<1>2. ASSUME NEW s \in Submissions, Put(s) PROVE RowInv'
  BY <1>2, PutRows
<1>3. ASSUME NEW t \in Threads, QueueGroup(t) PROVE RowInv'
  <2>1. CASE Ready(group[t]) /\ job[group[t]] = "waiting"
    <3>1. group[t] \in Groups
      BY <1>3 DEF QueueGroup, IInv, Control
    <3>2. job' = [job EXCEPT ![group[t]] = "queued"]
      BY <1>3, <2>1 DEF QueueGroup
    <3>3. UNCHANGED <<recorded, order, prov, nonces>>
      BY <1>3 DEF QueueGroup
    <3> QED BY <2>1, <3>1, <3>2, <3>3, JobRows
  <2>2. CASE ~(Ready(group[t]) /\ job[group[t]] = "waiting")
    BY <1>3, <2>2, QuietRows DEF QueueGroup, rows
  <2> QED BY <2>1, <2>2
<1>4. ASSUME Claim(Worker) PROVE RowInv'
  <2>1. CASE UNCHANGED job
    BY <1>4, <2>1, QuietRows DEF Claim, rows
  <2>2. CASE \E i \in 1..Len(order) :
               job[order[i]] = "queued" /\ job' = [job EXCEPT ![order[i]] = "taken"]
    <3>1. PICK i \in 1..Len(order) :
            job[order[i]] = "queued" /\ job' = [job EXCEPT ![order[i]] = "taken"]
      BY <2>2
    <3>2. order[i] \in Candidates
      BY DEF IInv, TypeOK
    <3> QED BY <1>4, <3>1, <3>2, JobRows DEF Claim
  <2> QED BY <1>4, <2>1, <2>2 DEF Claim
<1>5. CASE \/ \E s \in Submissions : Installation(s)
           \/ \E t \in Threads :
                ListGroups(t) \/ NextGroup(t) \/ Components(t) \/ StoreFails(t)
           \/ Restart(Worker) \/ Crash \/ UNCHANGED vars
  <2>1. UNCHANGED rows
    BY <1>5 DEF Installation, ListGroups, NextGroup, Components, StoreFails,
         Restart, Crash, vars, rows
  <2> QED BY <2>1, QuietRows
<1> QED BY <1>1, <1>2, <1>3, <1>4, <1>5 DEF Next, Prepare

-----------------------------------------------------------------------------
(* Types, and what a thread's position implies *)

Steps == {"new", "put", "list", "next", "components", "bind", "claim", "down", "done"}
Answers == {"none", "duplicate", "conflict", "waiting", "queued", "rejected",
            "unavailable", "lost"}

\* What thread t's step may do to the variables that belong to threads.
LocalTypes ==
  /\ pc' \in [Threads -> Steps]
  /\ group' \in [Threads -> Groups \cup {NoGroup}]
  /\ todo' \in [Threads -> SUBSET Groups]
  /\ answer' \in [Handlers -> Answers]

LEMMA LocalUpdate ==
  ASSUME TypeOK, NEW t \in Threads,
         pc' = pc \/ \E p \in Steps : pc' = [pc EXCEPT ![t] = p],
         group' = group \/ \E g \in Groups : group' = [group EXCEPT ![t] = g],
         todo' = todo \/ \E x \in SUBSET Groups : todo' = [todo EXCEPT ![t] = x],
         answer' = answer \/ \E x \in Answers : answer' = [answer EXCEPT ![t] = x]
  PROVE  LocalTypes
<1>1. pc' \in [Threads -> Steps]
  BY DEF TypeOK, Steps
<1>2. group' \in [Threads -> Groups \cup {NoGroup}]
  BY DEF TypeOK
<1>3. todo' \in [Threads -> SUBSET Groups]
  BY DEF TypeOK
<1>4. answer' \in [Handlers -> Answers]
  BY DEF TypeOK, Answers
<1> QED BY <1>1, <1>2, <1>3, <1>4 DEF LocalTypes

LEMMA NextType == ASSUME IInv, [Next]_vars PROVE TypeOK'
<1>0. TypeOK
  BY DEF IInv
<1> USE <1>0 DEF Steps, Answers
<1>1. ASSUME NEW d \in Deliveries, Record(d) PROVE TypeOK'
  <2>1. LocalTypes
    BY <1>1, LocalUpdate DEF Record
  <2>2. Subject[d] \in Candidates /\ Append(order, Subject[d]) \in Seq(Candidates)
    BY DEF TypeOK
  <2>3. /\ recorded' \subseteq Deliveries
        /\ job' \in [Candidates -> {"none", "waiting", "queued", "taken"}]
        /\ order' \in Seq(Candidates)
    BY <1>1, <2>2 DEF Record, TypeOK
  <2> QED BY <1>1, <2>1, <2>3 DEF Record, TypeOK, LocalTypes
<1>2. ASSUME NEW s \in Submissions, Installation(s) PROVE TypeOK'
  <2>1. LocalTypes
    BY <1>2, LocalUpdate DEF Installation
  <2> QED BY <1>2, <2>1 DEF Installation, rows, TypeOK, LocalTypes
<1>3. ASSUME NEW s \in Submissions, Put(s) PROVE TypeOK'
  <2>1. LocalTypes
    BY <1>3, LocalUpdate DEF Put
  <2>2. job' \in [Candidates -> {"none", "waiting", "queued", "taken"}]
    BY <1>3 DEF Put, TypeOK
  <2>3. prov' \in [PRs -> Submissions \cup {NoSubmission}]
    BY <1>3 DEF Put, TypeOK
  <2>4. nonces' \subseteq {NonceOf[x] : x \in Submissions}
    BY <1>3 DEF Put, TypeOK
  <2> QED BY <1>3, <2>1, <2>2, <2>3, <2>4 DEF Put, TypeOK, LocalTypes
<1>4. ASSUME NEW t \in Threads, ListGroups(t) PROVE TypeOK'
  <2>1. Waiting \in SUBSET Groups
    BY DEF Waiting
  <2>2. LocalTypes
    BY <1>4, <2>1, LocalUpdate DEF ListGroups
  <2> QED BY <1>4, <2>2 DEF ListGroups, rows, TypeOK, LocalTypes
<1>5. ASSUME NEW t \in Threads, NextGroup(t) PROVE TypeOK'
  <2>1. todo[t] \in SUBSET Groups
    BY DEF TypeOK
  <2>2. CASE \E g \in todo[t] :
               /\ todo' = [todo EXCEPT ![t] = @ \ {g}]
               /\ group' = [group EXCEPT ![t] = g]
               /\ pc' = [pc EXCEPT ![t] = "components"] /\ UNCHANGED answer
    <3>1. PICK g \in todo[t] :
               /\ todo' = [todo EXCEPT ![t] = todo[t] \ {g}]
               /\ group' = [group EXCEPT ![t] = g]
               /\ pc' = [pc EXCEPT ![t] = "components"] /\ UNCHANGED answer
      BY <2>2
    <3>2. g \in Groups /\ todo[t] \ {g} \in SUBSET Groups
      BY <2>1
    <3>3. LocalTypes
      BY <3>1, <3>2, LocalUpdate
    <3> QED BY <1>5, <3>3 DEF NextGroup, rows, TypeOK, LocalTypes
  <2>3. CASE UNCHANGED <<group, todo>>
    <3>1. LocalTypes
      BY <1>5, <2>3, LocalUpdate DEF NextGroup
    <3> QED BY <1>5, <3>1 DEF NextGroup, rows, TypeOK, LocalTypes
  <2> QED BY <1>5, <2>2, <2>3 DEF NextGroup
<1>6. ASSUME NEW t \in Threads, Components(t) PROVE TypeOK'
  <2>1. LocalTypes
    BY <1>6, LocalUpdate DEF Components, NotPrepared
  <2> QED BY <1>6, <2>1 DEF Components, rows, TypeOK, LocalTypes
<1>7. ASSUME NEW t \in Threads, QueueGroup(t) PROVE TypeOK'
  <2>1. LocalTypes
    BY <1>7, LocalUpdate DEF QueueGroup, NotPrepared
  <2>2. job' \in [Candidates -> {"none", "waiting", "queued", "taken"}]
    BY <1>7 DEF QueueGroup, TypeOK
  <2> QED BY <1>7, <2>1, <2>2 DEF QueueGroup, TypeOK, LocalTypes
<1>8. ASSUME NEW t \in Threads, StoreFails(t) PROVE TypeOK'
  <2>1. LocalTypes
    BY <1>8, LocalUpdate DEF StoreFails
  <2> QED BY <1>8, <2>1 DEF StoreFails, rows, TypeOK, LocalTypes
<1>9. CASE Claim(Worker)
  <2>1. LocalTypes
    BY <1>9, LocalUpdate DEF Claim
  <2>2. \A i \in 1..Len(order) : order[i] \in Candidates
    BY DEF TypeOK
  <2>3. job' \in [Candidates -> {"none", "waiting", "queued", "taken"}]
    BY <1>9, <2>2 DEF Claim, TypeOK
  <2> QED BY <1>9, <2>1, <2>3 DEF Claim, TypeOK, LocalTypes
<1>10. CASE Restart(Worker)
  <2>1. LocalTypes
    BY <1>10, LocalUpdate DEF Restart
  <2> QED BY <1>10, <2>1 DEF Restart, rows, TypeOK, LocalTypes
<1>11. CASE Crash
  <2>1. pc' \in [Threads -> Steps] /\ answer' \in [Handlers -> Answers]
    BY <1>11 DEF Crash, TypeOK
  <2> QED BY <1>11, <2>1 DEF Crash, rows, TypeOK
<1>12. CASE UNCHANGED vars
  BY <1>12 DEF vars, TypeOK
<1> QED BY <1>1, <1>2, <1>3, <1>4, <1>5, <1>6, <1>7, <1>8, <1>9, <1>10, <1>11, <1>12
      DEF Next, Prepare

LEMMA NextControl == ASSUME IInv, [Next]_vars PROVE Control'
<1> USE DEF IInv, TypeOK, Control
<1>1. ASSUME NEW d \in Deliveries, Record(d) PROVE Control'
  <2>1. /\ prov' = prov /\ recorded \subseteq recorded'
        /\ \A t \in Threads \ {d} : pc'[t] = pc[t] /\ group'[t] = group[t]
        /\ \A s \in Submissions : answer'[s] = answer[s]
    BY <1>1 DEF Record
  <2>2. \/ pc'[d] = "done"
        \/ /\ pc'[d] = "components" /\ d \in recorded'
           /\ group'[d] = Subject[d] /\ Subject[d] \in Groups
    BY <1>1 DEF Record
  <2>3. \A e \in Deliveries :
          /\ pc'[e] \in {"new", "components", "bind", "done"}
          /\ pc'[e] \in {"components", "bind"} =>
               e \in recorded' /\ group'[e] = Subject[e]
    <3> SUFFICES ASSUME NEW e \in Deliveries
                 PROVE  /\ pc'[e] \in {"new", "components", "bind", "done"}
                        /\ pc'[e] \in {"components", "bind"} =>
                             e \in recorded' /\ group'[e] = Subject[e]
      OBVIOUS
    <3>1. CASE e = d
      BY <2>2, <3>1
    <3>2. CASE e # d
      BY <2>1, <3>2
    <3> QED BY <3>1, <3>2
  <2>4. \A s \in Submissions : pc'[s] = pc[s] /\ answer'[s] = answer[s]
    BY <2>1
  <2>5. pc'[Worker] = pc[Worker]
    BY <2>1
  <2>6. \A t \in Threads : pc'[t] \in {"components", "bind"} => group'[t] \in Groups
    <3> SUFFICES ASSUME NEW t \in Threads, pc'[t] \in {"components", "bind"}
                 PROVE  group'[t] \in Groups
      OBVIOUS
    <3>1. CASE t = d
      BY <2>2, <3>1
    <3>2. CASE t # d
      BY <2>1, <3>2
    <3> QED BY <3>1, <3>2
  <2> QED BY <2>1, <2>3, <2>4, <2>5, <2>6
<1>2. ASSUME NEW s \in Submissions, Installation(s) PROVE Control'
  BY <1>2 DEF Installation, rows
<1>3. ASSUME NEW s \in Submissions, Put(s) PROVE Control'
  <2>1. CASE UNCHANGED prov
    BY <1>3, <2>1 DEF Put
  <2>2. CASE /\ prov[PrOf[s]] = NoSubmission
             /\ prov' = [prov EXCEPT ![PrOf[s]] = s]
             /\ pc' = [pc EXCEPT ![s] = "list"] /\ UNCHANGED answer
    <3>1. \A r \in Submissions :
            prov'[PrOf[r]] = IF PrOf[r] = PrOf[s] THEN s ELSE prov[PrOf[r]]
      BY <2>2
    <3>2. \A r \in Submissions : PrOf[r] = PrOf[s] => prov[PrOf[r]] # r
      BY <2>2
    <3> QED BY <1>3, <2>2, <3>1, <3>2 DEF Put
  <2> QED BY <1>3, <2>1, <2>2 DEF Put
<1>4. ASSUME NEW t \in Threads, ListGroups(t) \/ NextGroup(t) PROVE Control'
  BY <1>4 DEF ListGroups, NextGroup, rows
<1>5. ASSUME NEW t \in Threads, Components(t) PROVE Control'
  BY <1>5 DEF Components, NotPrepared, rows
<1>6. ASSUME NEW t \in Threads, QueueGroup(t) PROVE Control'
  BY <1>6 DEF QueueGroup, NotPrepared
<1>7. ASSUME NEW t \in Threads, StoreFails(t) PROVE Control'
  BY <1>7 DEF StoreFails, rows
<1>8. CASE Claim(Worker)
  BY <1>8 DEF Claim
<1>9. CASE Restart(Worker)
  BY <1>9 DEF Restart, rows
<1>10. CASE Crash
  BY <1>10 DEF Crash, rows
<1>11. CASE UNCHANGED vars
  BY <1>11 DEF vars
<1> QED BY <1>1, <1>2, <1>3, <1>4, <1>5, <1>6, <1>7, <1>8, <1>9, <1>10, <1>11
      DEF Next, Prepare

-----------------------------------------------------------------------------
(* What a step may change in the tables, and the answers *)

\* Provenance rows stay, jobs only advance, and deliveries are only added.
TablesAdvance ==
  /\ \A p \in PRs : prov[p] # NoSubmission => prov'[p] = prov[p]
  /\ \A c \in Candidates :
       /\ job'[c] \in Later(job[c])
       /\ job[c] = "taken" => job'[c] = "taken"
  /\ recorded \subseteq recorded'

LEMMA RowsAdvance == ASSUME IInv, [Next]_vars PROVE TablesAdvance
<1> USE DEF IInv, TypeOK, Later, TablesAdvance
<1>1. ASSUME NEW d \in Deliveries, Record(d) PROVE TablesAdvance
  BY <1>1 DEF Record
<1>2. ASSUME NEW s \in Submissions, Put(s) PROVE TablesAdvance
  BY <1>2 DEF Put
<1>3. ASSUME NEW t \in Threads, QueueGroup(t) PROVE TablesAdvance
  BY <1>3 DEF QueueGroup
<1>4. CASE Claim(Worker)
  BY <1>4 DEF Claim
<1>5. CASE UNCHANGED rows
  BY <1>5 DEF rows
<1> QED BY <1>1, <1>2, <1>3, <1>4, <1>5
      DEF Next, Prepare, rows, vars, Installation, ListGroups, NextGroup,
          Components, StoreFails, Restart, Crash

\* Only handler h's own steps, and a loss, change what its caller is told.
LEMMA WhoAnswers ==
  ASSUME IInv, [Next]_vars, NEW h \in Handlers, answer'[h] # answer[h]
  PROVE  \/ answer'[h] = "lost"
         \/ h \in Deliveries /\ (Record(h) \/ Components(h) \/ QueueGroup(h))
         \/ h \in Submissions /\ (Installation(h) \/ Put(h) \/ ListGroups(h) \/ NextGroup(h))
<1> USE DEF IInv, TypeOK
<1>1. ASSUME NEW d \in Deliveries, Record(d) PROVE d = h
  BY <1>1 DEF Record
<1>2. ASSUME NEW s \in Submissions, Installation(s) \/ Put(s) PROVE s = h
  BY <1>2 DEF Installation, Put
<1>3. ASSUME NEW t \in Threads, ListGroups(t) \/ NextGroup(t)
      PROVE  t = h /\ h \in Submissions
  <2>1. t = h
    BY <1>3 DEF ListGroups, NextGroup
  <2>2. pc[h] \in {"list", "next"}
    BY <1>3, <2>1 DEF ListGroups, NextGroup
  <2> QED BY <2>1, <2>2 DEF Control
<1>4. ASSUME NEW t \in Threads, Components(t) \/ QueueGroup(t)
      PROVE  t = h /\ h \in Deliveries
  BY <1>4 DEF Components, QueueGroup, NotPrepared
<1>5. ASSUME NEW t \in Threads, StoreFails(t) PROVE answer'[h] = "lost"
  BY <1>5 DEF StoreFails
<1>6. CASE Crash
  BY <1>6 DEF Crash
<1>7. ~Claim(Worker) /\ ~Restart(Worker) /\ ~UNCHANGED vars
  BY DEF Claim, Restart, vars
<1> QED BY <1>1, <1>2, <1>3, <1>4, <1>5, <1>6, <1>7 DEF Next, Prepare

LEMMA NextAnswers == ASSUME IInv, [Next]_vars PROVE AnswersAreTrue'
<1> USE DEF IInv, TypeOK
<1>0. TablesAdvance /\ RowInv'
  BY RowsAdvance, NextRows
\* An answer given earlier stays true as the tables advance.
<1>1. ASSUME NEW s \in Submissions, answer'[s] = answer[s]
      PROVE  /\ answer'[s] \in {"queued", "unavailable"} =>
                  prov'[PrOf[s]] = s /\ job'[PrOf[s]] \in {"queued", "taken"}
             /\ prov'[PrOf[s]] = prov[PrOf[s]] \/ answer'[s] # "rejected" =>
                  (answer'[s] = "rejected" => prov'[PrOf[s]] # s)
  BY <1>0, <1>1 DEF AnswersAreTrue, TablesAdvance, Later
<1>2. ASSUME NEW d \in Deliveries, answer'[d] = answer[d]
      PROVE  /\ answer'[d] = "queued" => job'[Subject[d]] \in {"queued", "taken"}
             /\ answer'[d] \in {"duplicate", "waiting"} =>
                  job'[Subject[d]] # "none"
  BY <1>0, <1>2 DEF AnswersAreTrue, TablesAdvance, Later
<1>3. ASSUME NEW s \in Submissions, answer'[s] = "rejected"
      PROVE  prov'[PrOf[s]] # s
  <2>1. CASE answer[s] = "rejected"
    <3>1. prov[PrOf[s]] # s /\ pc[s] = "done"
      BY <2>1 DEF AnswersAreTrue, Control
    <3>2. ASSUME prov'[PrOf[s]] = s PROVE FALSE
      <4>1. prov' # prov
        BY <3>1, <3>2
      <4>2. PICK r \in Submissions : Put(r)
        BY <4>1 DEF Next, Prepare, Record, Installation, ListGroups, NextGroup,
             Components, QueueGroup, StoreFails, Claim, Restart, Crash, rows, vars
      <4>3. r # s
        BY <3>1, <4>2 DEF Put
      <4> QED BY <3>1, <3>2, <4>2, <4>3 DEF Put
    <3> QED BY <3>2
  <2>2. CASE answer[s] # "rejected"
    <3>1. Installation(s) \/ Put(s)
      BY <1>3, <2>2, WhoAnswers DEF ListGroups, NextGroup
    <3>2. prov[PrOf[s]] # s
      BY <3>1 DEF Installation, Put, Control
    <3> QED BY <1>3, <2>2, <3>1, <3>2 DEF Installation, Put, rows
  <2> QED BY <2>1, <2>2
<1>4. ASSUME NEW s \in Submissions, answer'[s] # answer[s],
             answer'[s] \in {"queued", "unavailable"}
      PROVE  prov'[PrOf[s]] = s /\ job'[PrOf[s]] \in {"queued", "taken"}
  <2>1. ListGroups(s) \/ NextGroup(s)
    BY <1>4, WhoAnswers DEF Installation, Put
  <2>2. prov[PrOf[s]] = s /\ UNCHANGED rows
    BY <2>1 DEF ListGroups, NextGroup, Control
  <2>3. job[PrOf[s]] \in {"queued", "taken"}
    BY <2>2 DEF RowInv, QueuedIsBound
  <2> QED BY <2>2, <2>3 DEF rows
<1>5. ASSUME NEW d \in Deliveries, answer'[d] # answer[d], answer'[d] = "queued"
      PROVE  job'[Subject[d]] \in {"queued", "taken"}
  <2>1. QueueGroup(d) /\ job' = [job EXCEPT ![group[d]] = "queued"]
    <3>1. QueueGroup(d)
      BY <1>5, WhoAnswers DEF Record, Components, NotPrepared
    <3> QED BY <1>5, <3>1 DEF QueueGroup, NotPrepared
  <2>2. group[d] = Subject[d]
    BY <2>1 DEF QueueGroup, Control
  <2> QED BY <2>1, <2>2
<1>6. ASSUME NEW d \in Deliveries, answer'[d] # answer[d],
             answer'[d] \in {"duplicate", "waiting"}
      PROVE  job'[Subject[d]] # "none"
  <2>1. Record(d) \/ Components(d) \/ QueueGroup(d)
    BY <1>6, WhoAnswers
  <2>2. CASE Components(d) \/ QueueGroup(d)
    <3>1. d \in recorded'
      BY <1>0, <2>2 DEF Components, QueueGroup, Control, TablesAdvance
    <3> QED BY <1>0, <3>1 DEF RowInv, JobsFollowDeliveries
  <2>3. CASE Record(d)
    <3>1. \E e \in recorded' : Subject[e] = Subject[d] \/ job'[Subject[d]] # "none"
      BY <1>6, <2>3, BodyAssumption DEF Record
    <3> QED BY <1>0, <2>3, <3>1 DEF Record, RowInv, JobsFollowDeliveries
  <2> QED BY <2>1, <2>2, <2>3
<1>7. ASSUME NEW s \in Submissions
      PROVE  /\ answer'[s] \in {"queued", "unavailable"} =>
                  prov'[PrOf[s]] = s /\ job'[PrOf[s]] \in {"queued", "taken"}
             /\ answer'[s] = "rejected" => prov'[PrOf[s]] # s
  BY <1>1, <1>3, <1>4
<1>8. ASSUME NEW d \in Deliveries
      PROVE  /\ answer'[d] = "queued" => job'[Subject[d]] \in {"queued", "taken"}
             /\ answer'[d] \in {"duplicate", "waiting"} =>
                  job'[Subject[d]] # "none"
  BY <1>2, <1>5, <1>6
<1> QED BY <1>7, <1>8 DEF AnswersAreTrue

-----------------------------------------------------------------------------
(* Theorems *)

\* The inductive invariant holds in every reachable state.
THEOREM QueueInvariant == Spec => []IInv
<1>1. IInv /\ [Next]_vars => IInv'
  BY NextType, NextRows, NextControl, NextAnswers DEF IInv
<1> QED BY <1>1, InitIInv, PTL DEF Spec

\* The state of the queue's tables and threads is always well typed.
THEOREM TypeCorrect == Spec => []TypeOK
<1>1. IInv => TypeOK
  BY DEF IInv
<1> QED BY <1>1, QueueInvariant, PTL

\* Deliveries, jobs and their order correspond, whatever GitHub redelivers.
THEOREM DeliveriesAndJobs == Spec => []JobsFollowDeliveries
<1>1. IInv => JobsFollowDeliveries
  BY DEF IInv, RowInv
<1> QED BY <1>1, QueueInvariant, PTL

\* A nonce is spent exactly when the row it signed is stored.
THEOREM NoncesAndRows == Spec => []NoncesAreSpent
<1>1. IInv => NoncesAreSpent
  BY DEF IInv, RowInv
<1> QED BY <1>1, QueueInvariant, PTL

\* A pull request's job is queued exactly when its provenance is stored.
THEOREM JobsAreBound == Spec => []QueuedIsBound
<1>1. IInv => QueuedIsBound
  BY DEF IInv, RowInv
<1> QED BY <1>1, QueueInvariant, PTL

\* No merge group of mixed, unknown or unroutable makers is ever queued.
THEOREM GroupsAreHomogeneous == Spec => []GroupIsHomogeneous
<1>1. IInv => GroupIsHomogeneous
  BY DEF IInv, RowInv
<1> QED BY <1>1, QueueInvariant, PTL

\* The HTTP answers of both endpoints stay true of the tables.
THEOREM AnswersHold == Spec => []AnswersAreTrue
<1>1. IInv => AnswersAreTrue
  BY DEF IInv
<1> QED BY <1>1, QueueInvariant, PTL

\* Provenance rows are immutable and jobs only move forward.
THEOREM RowsAreStable == Spec => NothingIsRebound
<1>1. IInv /\ [Next]_vars => TablesAdvance
  BY RowsAdvance
<1>2. TablesAdvance =>
        /\ \A p \in PRs : prov[p] # NoSubmission => prov'[p] = prov[p]
        /\ \A c \in Candidates :
             /\ job'[c] \in Later(job[c])
             /\ job[c] = "taken" => job'[c] = "taken"
  BY DEF TablesAdvance
<1> QED BY <1>1, <1>2, QueueInvariant, PTL DEF Spec, NothingIsRebound
=============================================================================
