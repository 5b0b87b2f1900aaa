-------------------------- MODULE EnrollmentProofs --------------------------
(***************************************************************************)
(* The enrollment invariants for any number of repositories, receipts,     *)
(* Apps and threads.  The inductive invariant joins the log to the tables: *)
(* every logged receipt is stored, is logged under its own repository, and *)
(* a disabled event closes the repository it names.                        *)
(***************************************************************************)
EXTENDS Enrollment, TLAPS

\* Every event names a stored receipt, under that receipt's repository; a row
\* that is enabled names a stored receipt of its own.
LogOfStored ==
  \A i \in 1..Len(events) :
    /\ events[i].receipt \in stored
    /\ events[i].repo = RepoOf[events[i].receipt]

EnabledRow ==
  \A r \in Repos : enabled[r] =>
    active[r] \in stored /\ RepoOf[active[r]] = r /\ AppOf[active[r]] = expected[r]

\* A thread past its first read holds the App of a stored receipt of its
\* repository: receipts are never deleted.
ThreadAppStored ==
  \A t \in Threads : thread[t].pc # "idle" =>
    \E x \in stored : RepoOf[x] = thread[t].repo /\ AppOf[x] = thread[t].app

IInv ==
  /\ TypeOK
  /\ LogOfStored
  /\ EnabledRow
  /\ NeverReactivated
  /\ RowFollowsLog
  /\ ThreadAppStored
  /\ EvidenceAppWasEnrolled

USE DEF EventType, Event, ThreadState, Kinds

LEMMA IdleType == Idle \in ThreadState
BY BindingAssumption DEF Idle

LEMMA InitIInv == Init => IInv
<1> SUFFICES ASSUME Init PROVE IInv  OBVIOUS
<1>1. TypeOK
  BY IdleType DEF Init, TypeOK
<1>2. ThreadAppStored
  BY DEF Init, ThreadAppStored, Idle
<1>3. LogOfStored /\ NeverReactivated
  BY DEF Init, LogOfStored, NeverReactivated
<1>4. EnabledRow /\ RowFollowsLog /\ EvidenceAppWasEnrolled
  BY DEF Init, EnabledRow, RowFollowsLog, EvidenceAppWasEnrolled
<1> QED BY <1>1, <1>2, <1>3, <1>4 DEF IInv

LEMMA EnrollStep ==
  ASSUME IInv, NEW x \in Receipts, Enroll(x)
  PROVE  IInv'
<1> DEFINE r == RepoOf[x]
           e == [repo |-> r, type |-> "enabled", receipt |-> x]
           n == Len(events)
<1> USE BindingAssumption
<1>1. r \in Repos /\ e \in Event
  OBVIOUS
<1>2. /\ events' = Append(events, e)
      /\ n \in Nat /\ Len(events') = n + 1
      /\ events'[n + 1] = e
      /\ \A i \in 1..n : events'[i] = events[i]
  BY <1>1 DEF IInv, TypeOK, Enroll
<1>3. /\ \A i \in 1..n : events[i].receipt \in stored /\ events[i].receipt # x
      /\ x \notin stored /\ stored' = stored \cup {x}
  BY DEF IInv, LogOfStored, Enroll
<1>4. TypeOK'
  BY <1>1, <1>2 DEF IInv, TypeOK, Enroll
<1>5. LogOfStored'
  BY <1>1, <1>2, <1>3 DEF IInv, LogOfStored
<1>6. EnabledRow'
  BY DEF IInv, TypeOK, EnabledRow, Enroll
<1>7. NeverReactivated'
  BY <1>2, <1>3 DEF IInv, NeverReactivated
<1>8. RowFollowsLog'
  <2> SUFFICES ASSUME NEW q \in Repos
               PROVE  enabled'[q] <=>
                 \E i \in 1..Len(events') :
                   /\ events'[i] =
                        [repo |-> q, type |-> "enabled", receipt |-> active'[q]]
                   /\ \A j \in i+1..Len(events') : events'[j].repo # q
    BY DEF RowFollowsLog
  <2>1. CASE q = r
    <3>1. enabled'[q] /\ active'[q] = x
      BY <2>1, <1>1 DEF IInv, TypeOK, Enroll
    <3>2. n + 1 \in 1..Len(events') /\ (n + 1) + 1..Len(events') = {}
      BY <1>2
    <3> QED BY <1>2, <2>1, <3>1, <3>2
  <2>2. CASE q # r
    <3>1. enabled'[q] = enabled[q] /\ active'[q] = active[q]
      BY <2>2 DEF IInv, TypeOK, Enroll
    <3>2. ASSUME NEW i \in 1..n,
                 events[i] = [repo |-> q, type |-> "enabled", receipt |-> active[q]],
                 \A j \in i+1..n : events[j].repo # q
          PROVE  /\ i \in 1..Len(events')
                 /\ events'[i] =
                      [repo |-> q, type |-> "enabled", receipt |-> active'[q]]
                 /\ \A j \in i+1..Len(events') : events'[j].repo # q
      BY <1>2, <2>2, <3>1, <3>2
    <3>3. ASSUME NEW i \in 1..Len(events'),
                 events'[i] =
                   [repo |-> q, type |-> "enabled", receipt |-> active'[q]],
                 \A j \in i+1..Len(events') : events'[j].repo # q
          PROVE  /\ i \in 1..n
                 /\ events[i] =
                      [repo |-> q, type |-> "enabled", receipt |-> active[q]]
                 /\ \A j \in i+1..n : events[j].repo # q
      BY <1>2, <2>2, <3>1, <3>3
    <3> QED BY <3>1, <3>2, <3>3 DEF IInv, RowFollowsLog
  <2> QED BY <2>1, <2>2
<1>9. ThreadAppStored' /\ EvidenceAppWasEnrolled'
  BY DEF IInv, ThreadAppStored, EvidenceAppWasEnrolled, Enroll
<1> QED BY <1>4, <1>5, <1>6, <1>7, <1>8, <1>9 DEF IInv

LEMMA DisableStep ==
  ASSUME IInv, NEW x \in Receipts, Disable(x)
  PROVE  IInv'
<1> DEFINE r == RepoOf[x]
           e == [repo |-> r, type |-> "disabled", receipt |-> x]
           n == Len(events)
<1> USE BindingAssumption
<1>1. r \in Repos /\ e \in Event
  OBVIOUS
<1>2. /\ events' = Append(events, e)
      /\ n \in Nat /\ Len(events') = n + 1
      /\ events'[n + 1] = e
      /\ \A i \in 1..n : events'[i] = events[i]
  BY <1>1 DEF IInv, TypeOK, Disable
<1>3. x \in stored /\ stored' = stored
  BY DEF IInv, EnabledRow, Disable
<1>4. TypeOK'
  BY <1>1, <1>2 DEF IInv, TypeOK, Disable
<1>5. LogOfStored'
  BY <1>1, <1>2, <1>3 DEF IInv, LogOfStored
<1>6. EnabledRow'
  BY DEF IInv, TypeOK, EnabledRow, Disable
<1>7. \A i \in 1..n : events[i].receipt = x => events[i].type = "enabled"
  <2>1. PICK k \in 1..n :
          /\ events[k] = [repo |-> r, type |-> "enabled", receipt |-> x]
          /\ \A j \in k+1..n : events[j].repo # r
    BY <1>1 DEF IInv, RowFollowsLog, Disable
  <2>2. ASSUME NEW i \in 1..n, events[i].receipt = x
        PROVE  events[i].type = "enabled"
    <3>1. events[i].repo = r
      BY <2>2 DEF IInv, LogOfStored
    <3>2. i <= k
      BY <1>2, <2>1, <3>1
    <3>3. i < k => events[i].type = "enabled"
      BY <2>1, <2>2 DEF IInv, NeverReactivated
    <3> QED BY <2>1, <3>2, <3>3
  <2> QED BY <2>2
<1>8. NeverReactivated'
  BY <1>2, <1>7 DEF IInv, NeverReactivated
<1>9. RowFollowsLog'
  <2> SUFFICES ASSUME NEW q \in Repos
               PROVE  enabled'[q] <=>
                 \E i \in 1..Len(events') :
                   /\ events'[i] =
                        [repo |-> q, type |-> "enabled", receipt |-> active'[q]]
                   /\ \A j \in i+1..Len(events') : events'[j].repo # q
    BY DEF RowFollowsLog
  <2>1. CASE q = r
    <3>1. ~enabled'[q]
      BY <2>1, <1>1 DEF IInv, TypeOK, Disable
    <3>2. ASSUME NEW i \in 1..Len(events'),
                 \A j \in i+1..Len(events') : events'[j].repo # q
          PROVE  i = n + 1
      BY <1>2, <2>1, <3>2
    <3> QED BY <1>2, <3>1, <3>2
  <2>2. CASE q # r
    <3>1. enabled'[q] = enabled[q] /\ active'[q] = active[q]
      BY <2>2 DEF IInv, TypeOK, Disable
    <3>2. ASSUME NEW i \in 1..n,
                 events[i] = [repo |-> q, type |-> "enabled", receipt |-> active[q]],
                 \A j \in i+1..n : events[j].repo # q
          PROVE  /\ i \in 1..Len(events')
                 /\ events'[i] =
                      [repo |-> q, type |-> "enabled", receipt |-> active'[q]]
                 /\ \A j \in i+1..Len(events') : events'[j].repo # q
      BY <1>2, <2>2, <3>1, <3>2
    <3>3. ASSUME NEW i \in 1..Len(events'),
                 events'[i] =
                   [repo |-> q, type |-> "enabled", receipt |-> active'[q]],
                 \A j \in i+1..Len(events') : events'[j].repo # q
          PROVE  /\ i \in 1..n
                 /\ events[i] =
                      [repo |-> q, type |-> "enabled", receipt |-> active[q]]
                 /\ \A j \in i+1..n : events[j].repo # q
      BY <1>2, <2>2, <3>1, <3>3
    <3> QED BY <3>1, <3>2, <3>3 DEF IInv, RowFollowsLog
  <2> QED BY <2>1, <2>2
<1>10. ThreadAppStored' /\ EvidenceAppWasEnrolled'
  BY DEF IInv, ThreadAppStored, EvidenceAppWasEnrolled, Disable
<1> QED BY <1>4, <1>5, <1>6, <1>8, <1>9, <1>10 DEF IInv

LEMMA ThreadStep ==
  ASSUME IInv, NEW t \in Threads,
         \/ \E r \in Repos : ReadAppId(t, r)
         \/ RequireEnrolled(t) \/ PrepareFailure(t) \/ PrepareFree(t)
  PROVE  IInv'
<1> USE BindingAssumption
<1>1. UNCHANGED <<enabled, active, expected, stored, events>>
  BY DEF ReadAppId, RequireEnrolled, PrepareFailure, PrepareFree
<1>2. LogOfStored' /\ EnabledRow' /\ NeverReactivated' /\ RowFollowsLog'
  BY <1>1 DEF IInv, LogOfStored, EnabledRow, NeverReactivated, RowFollowsLog
<1>3. CASE \E r \in Repos : ReadAppId(t, r)
  <2>1. PICK r \in Repos : ReadAppId(t, r)
    BY <1>3
  <2>2. active[r] \in stored /\ RepoOf[active[r]] = r
        /\ AppOf[active[r]] = expected[r] /\ expected[r] \in Apps
    BY <2>1 DEF ReadAppId, IsEnrolled, IInv, TypeOK
  <2>3. TypeOK'
    BY <2>1, <2>2 DEF ReadAppId, IInv, TypeOK
  <2>4. ThreadAppStored'
    BY <2>1, <2>2 DEF ReadAppId, IInv, TypeOK, ThreadAppStored
  <2>5. EvidenceAppWasEnrolled'
    BY <2>1 DEF ReadAppId, IInv, EvidenceAppWasEnrolled
  <2> QED BY <1>2, <2>3, <2>4, <2>5 DEF IInv
<1>4. CASE RequireEnrolled(t)
  <2>1. TypeOK'
    BY <1>4, IdleType DEF RequireEnrolled, IInv, TypeOK
  <2>2. ThreadAppStored'
    BY <1>4 DEF RequireEnrolled, IInv, TypeOK, ThreadAppStored, Idle
  <2>3. EvidenceAppWasEnrolled'
    BY <1>4 DEF RequireEnrolled, IInv, EvidenceAppWasEnrolled
  <2> QED BY <1>2, <2>1, <2>2, <2>3 DEF IInv
<1>5. CASE PrepareFailure(t) \/ PrepareFree(t)
  <2>1. \E x \in stored : RepoOf[x] = thread[t].repo /\ AppOf[x] = thread[t].app
    BY <1>5 DEF IInv, ThreadAppStored, PrepareFailure, PrepareFree
  <2>2. \A e \in evidence' \ evidence :
          /\ e \in [kind : Kinds, repo : Repos, app : Apps]
          /\ e.repo = thread[t].repo /\ e.app = thread[t].app
    BY <1>5, <2>1 DEF IInv, TypeOK, PrepareFailure, PrepareFree, Evidence
  <2>3. thread' = [thread EXCEPT ![t] = Idle]
    BY <1>5 DEF PrepareFailure, PrepareFree
  <2>4. TypeOK'
    BY <1>1, <2>2, <2>3, IdleType DEF IInv, TypeOK
  <2>5. ThreadAppStored'
    BY <1>1, <2>3 DEF IInv, TypeOK, ThreadAppStored, Idle
  <2>6. EvidenceAppWasEnrolled'
    BY <1>1, <2>1, <2>2 DEF IInv, EvidenceAppWasEnrolled
  <2> QED BY <1>2, <2>4, <2>5, <2>6 DEF IInv
<1> QED BY <1>3, <1>4, <1>5

LEMMA NextIInv == IInv /\ [Next]_vars => IInv'
<1> SUFFICES ASSUME IInv, [Next]_vars PROVE IInv'  OBVIOUS
<1>1. ASSUME NEW x \in Receipts, Enroll(x) \/ Disable(x) PROVE IInv'
  BY <1>1, EnrollStep, DisableStep
<1>2. ASSUME NEW t \in Threads,
             \/ \E r \in Repos : ReadAppId(t, r)
             \/ RequireEnrolled(t) \/ PrepareFailure(t) \/ PrepareFree(t)
      PROVE  IInv'
  BY <1>2, ThreadStep
<1>3. CASE UNCHANGED vars
  BY <1>3 DEF vars, IInv, TypeOK, LogOfStored, EnabledRow, NeverReactivated,
       RowFollowsLog, ThreadAppStored, EvidenceAppWasEnrolled
<1> QED BY <1>1, <1>2, <1>3 DEF Next

\* The inductive invariant holds in every reachable state.
THEOREM EnrollmentInvariant == Spec => []IInv
BY InitIInv, NextIInv, PTL DEF Spec

\* The state is always well typed: enroll, disable_enrollment and the three
\* reads and writes of a publishing thread keep every column in its type.
THEOREM TypeCorrect == Spec => []TypeOK
<1>1. IInv => TypeOK
  BY DEF IInv
<1> QED BY <1>1, EnrollmentInvariant, PTL

\* A receipt that was disabled or superseded is never enabled again.
THEOREM NoReactivation == Spec => []NeverReactivated
<1>1. IInv => NeverReactivated
  BY DEF IInv
<1> QED BY <1>1, EnrollmentInvariant, PTL

\* The row the broker obeys is the one the append-only log describes.
THEOREM RowAndLogAgree == Spec => []RowFollowsLog
<1>1. IInv => RowFollowsLog
  BY DEF IInv
<1> QED BY <1>1, EnrollmentInvariant, PTL

\* Evidence carries only Apps that some receipt of its repository named,
\* whatever rotations happen between a thread's read and its commit.
THEOREM EvidenceApp == Spec => []EvidenceAppWasEnrolled
<1>1. IInv => EvidenceAppWasEnrolled
  BY DEF IInv
<1> QED BY <1>1, EnrollmentInvariant, PTL

\* Failure and review evidence is committed only under the enrollment that
\* is enabled at the commit.
THEOREM GuardedEvidence == Spec => GuardedEvidenceIsCurrent
<1>1. [Next]_vars =>
        [\A e \in evidence' \ evidence :
           e.kind = "failure" => enabled[e.repo] /\ expected[e.repo] = e.app]_vars
  <2> SUFFICES ASSUME Next, NEW e \in evidence' \ evidence, e.kind = "failure"
               PROVE  enabled[e.repo] /\ expected[e.repo] = e.app
    BY DEF vars
  <2>1. evidence' # evidence
    OBVIOUS
  <2>2. PICK t \in Threads : PrepareFailure(t) \/ PrepareFree(t)
    BY <2>1 DEF Next, Enroll, Disable, ReadAppId, RequireEnrolled
  <2>3. ~PrepareFree(t)
    BY DEF PrepareFree, Evidence
  <2> QED BY <2>2, <2>3 DEF PrepareFailure, Evidence
<1> QED BY <1>1, PTL DEF Spec, GuardedEvidenceIsCurrent
=============================================================================
