-------------------------- MODULE PublicationProofs --------------------------
(***************************************************************************)
(* The publication protocol for any number of candidates, submissions,     *)
(* Check Runs, faults and crashes.                                         *)
(*                                                                         *)
(* The inductive invariant says what each thread may rely on at each step  *)
(* (ThreadInv), what the rows and Check Runs say of each other (StoreInv), *)
(* and that the worker's snapshots still name rows (LoopInv).  A step of   *)
(* one thread only grows the store (Grow), which is why the other threads' *)
(* reliance survives it (Frame).                                           *)
(*                                                                         *)
(* The second half is about steps: jobs are not reopened, evidence only    *)
(* advances, and the whole protocol implements the gate of CheckGate,      *)
(* which knows no threads, retries or crashes.  Without paid reviews a     *)
(* candidate has one success (OneSuccess).                                 *)
(***************************************************************************)
EXTENDS Publication, TLAPS

\* Where a thread holds a row, by the row's table.
FreePcs == {"resume", "revalidate", "authorize", "patch", "observe", "commit"}
ReviewPcs == {"recover_review", "record", "review_auth", "review_patch"}
StartPcs == {"lookup", "create", "process"}
LoopPcs == {"down", "reconcile", "list_free", "next_free", "next_review",
            "next_failure", "claim"}

Known(k) == k \in CheckIds /\ check[k] # "absent"

\* A thread inside a call knows its candidate, the try block it is in and,
\* from its POST or its row on, a Check Run that exists.
CallInv(t) ==
  /\ pc[t] \in FaultSteps \cup {"finish_ok", "finish_failed"} => me[t].job \in Jobs
  /\ pc[t] \in StartPcs => me[t].ctx \in {"bind_create", "process", "review_create"}
  /\ pc[t] \in FaultSteps \ StartPcs => Known(me[t].chk)
  /\ t \in Requests /\ pc[t] \in FaultSteps => me[t].ctx \in RequestCtx
  /\ t = Worker => /\ pc[t] \in FaultSteps => me[t].ctx \in WorkerCtx
                   /\ pc[t] \in FreePcs => me[t].ctx = "recover_free"
                   /\ pc[t] \in LoopPcs => me[t].ctx = "none"

\* What the next PATCH of a thread rests on is in the store already.
RowInv(t) ==
  LET m == me[t] IN
  /\ pc[t] = "f_patch" => failure[m.chk].state # "none" /\ failure[m.chk].concl = m.concl
  /\ pc[t] \in FreePcs => free[m.job].state # "none" /\ free[m.job].chk = m.chk
  /\ pc[t] \in ReviewPcs => /\ review[m.job].state # "none"
                            /\ review[m.job].chk = m.chk
                            /\ review[m.job].concl = m.concl
  /\ pc[t] = "review_patch" => review[m.job].state = "finalized"
  /\ pc[t] = "resume" /\ m.seen = "finalized" => free[m.job].state = "finalized"

\* A submission works on its own candidate, and its Check Run carries the
\* digest of its own receipt.
OwnInv(t) ==
  t \in Requests =>
    /\ pc[t] \in FaultSteps => me[t].job = JobOf[t]
    /\ pc[t] \in FreePcs \cup {"phase_two", "prepare"} => ext[me[t].chk].of = PhaseOne[t]

ThreadInv(t) == CallInv(t) /\ RowInv(t) /\ OwnInv(t)

\* Rows name Check Runs that exist, which name candidates; a terminal Check Run
\* has its evidence.
StoreInv ==
  /\ \A k \in CheckIds : failure[k].state # "none" => check[k] # "absent"
  /\ \A j \in Jobs : free[j].state # "none" => Known(free[j].chk)
  /\ \A j \in Jobs : review[j].state # "none" => Known(review[j].chk)
  /\ \A k \in CheckIds : check[k] # "absent" => owner[k] \in Jobs
  /\ TerminalHasEvidence
  /\ PassedIsBound

\* The rows a recovery loop has yet to visit are rows of its table.
LoopInv ==
  /\ pc[Worker] = "next_free" \/ me[Worker].ctx = "recover_free" =>
       todo \subseteq {j \in Jobs : free[j].state # "none"}
  /\ pc[Worker] = "next_review" \/ me[Worker].ctx \in {"recover_review", "recover_review_exc"} =>
       todo \subseteq {j \in Jobs : review[j].state # "none"}
  /\ pc[Worker] = "next_failure" \/ me[Worker].ctx = "recover_failure" =>
       todo \subseteq {k \in CheckIds : failure[k].state # "none"}

IInv ==
  /\ TypeOK
  /\ \A t \in Threads : ThreadInv(t)
  /\ StoreInv
  /\ LoopInv

\* What no step takes back.
Grow ==
  /\ \A k \in CheckIds : check[k] # "absent" =>
       check'[k] # "absent" /\ ext'[k] = ext[k] /\ owner'[k] = owner[k]
  /\ \A k \in CheckIds : failure[k].state # "none" =>
       failure'[k].state # "none" /\ failure'[k].concl = failure[k].concl
  /\ \A j \in Jobs : free[j].state # "none" =>
       /\ free'[j].state # "none" /\ free'[j].chk = free[j].chk
       /\ free[j].state = "finalized" => free'[j].state = "finalized"
  /\ \A j \in Jobs : review[j].state # "none" =>
       /\ review'[j].state # "none" /\ review'[j].chk = review[j].chk
       /\ review'[j].concl = review[j].concl
       /\ review[j].state = "finalized" => review'[j].state = "finalized"


Others(t) == \A s \in Threads \ {t} : pc'[s] = pc[s] /\ me'[s] = me[s]

\* The locals and answers of a step that is still well typed.
Typed ==
  /\ pc' \in [Threads -> Steps] /\ me' \in [Threads -> Local]
  /\ resp' \in [Requests -> Answers]

NoNewPass == \A r \in Requests : resp'[r] = "PASSED" => resp[r] = "PASSED"

-----------------------------------------------------------------------------
(* Exceptions *)

\* Where an exception of a submission's thread, and of the worker, is caught.
LEMMA CatchRequest ==
  ASSUME NEW c \in RequestCtx
  PROVE  IF c = "bind" THEN CatchAt(c) = "exc" ELSE CatchAt(c) = "done"
BY DEF CatchAt, RequestCtx

LEMMA CatchWorker ==
  ASSUME NEW c \in WorkerCtx
  PROVE  /\ CatchAt(c) \in {"next_free", "next_review", "next_failure", "finish_failed",
                            "create", "f_observe", "reconcile", "finish_ok"}
         /\ CatchAt(c) = "create" => c = "review_create"
         /\ CatchAt(c) = "f_observe" => c \in {"review_prepare", "review_record"}
         /\ CatchAt(c) = "next_free" => c = "recover_free"
         /\ CatchAt(c) = "next_review" => c \in {"recover_review", "recover_review_exc"}
         /\ CatchAt(c) = "next_failure" => c = "recover_failure"
         /\ CatchAt(c) \in {"finish_failed", "finish_ok"} => c \in {"process", "review_exc"}
BY DEF CatchAt, WorkerCtx

LEMMA FreshType == Fresh \in Local
BY DEF Fresh, Local, Conclusions, Reasons, Stage

LEMMA CaughtType ==
  ASSUME NEW m \in Local
  PROVE  /\ Caught(m) \in Local
         /\ Caught(m).ctx \in {"none", "bind_observe", "process", "review_exc"}
         /\ m.ctx \in RequestCtx => Caught(m) = IF m.ctx = "bind" THEN [m EXCEPT !.ctx = "bind_observe"] ELSE Fresh
         /\ m.ctx \in {"review_create", "review_prepare", "review_record", "process", "review_exc"}
              => Caught(m).job = m.job /\ Caught(m).chk = m.chk /\ Caught(m).ctx # "none"
         /\ m.ctx \in {"recover_free", "recover_review", "recover_review_exc",
                       "recover_failure", "review_publish"} => Caught(m) = Fresh
<1>1. Caught(m) \in Local
  <2>1. CASE m.ctx \in {"bind", "review_create", "review_prepare", "review_record"}
    BY <2>1 DEF Caught, Local, Conclusions, Reasons, RequestCtx, WorkerCtx
  <2>2. CASE m.ctx \notin {"bind", "review_create", "review_prepare", "review_record"}
    BY <2>2, FreshType DEF Caught
  <2> QED BY <2>1, <2>2
<1>2. Caught(m).ctx \in {"none", "bind_observe", "process", "review_exc"}
  BY DEF Caught, Fresh, Local
<1>3. ASSUME m.ctx \in RequestCtx
      PROVE  Caught(m) = IF m.ctx = "bind" THEN [m EXCEPT !.ctx = "bind_observe"] ELSE Fresh
  BY <1>3 DEF Caught, RequestCtx
<1>4. ASSUME m.ctx \in {"review_create", "review_prepare", "review_record", "process", "review_exc"}
      PROVE  Caught(m).job = m.job /\ Caught(m).chk = m.chk /\ Caught(m).ctx # "none"
  BY <1>4 DEF Caught, Local
<1>5. ASSUME m.ctx \in {"recover_free", "recover_review", "recover_review_exc",
                        "recover_failure", "review_publish"}
      PROVE  Caught(m) = Fresh
  BY <1>5 DEF Caught
<1> QED BY <1>1, <1>2, <1>3, <1>4, <1>5

\* An exception leaves the thread where it relies on nothing it lacks.
LEMMA RaiseStep ==
  ASSUME IInv, NEW t \in Threads, pc[t] \in FaultSteps, Raise(t), Grow, todo' = todo
  PROVE  Typed /\ Others(t) /\ NoNewPass /\ ThreadInv(t)' /\ LoopInv'
<1> DEFINE m == me[t]
<1> USE PublicationAssumption
<1>0. /\ m \in Local /\ m.job \in Jobs /\ t \in DOMAIN pc /\ t \in DOMAIN me
      /\ pc' = [pc EXCEPT ![t] = CatchAt(m.ctx)]
      /\ me' = [me EXCEPT ![t] = Caught(m)]
  BY DEF IInv, TypeOK, ThreadInv, CallInv, Raise, Goto
<1>1. pc'[t] = CatchAt(m.ctx) /\ me'[t] = Caught(m) /\ Others(t)
  BY <1>0 DEF Others
<1>2. NoNewPass /\ resp' \in [Requests -> Answers]
  BY DEF Raise, Reply, NoNewPass, IInv, TypeOK, Answers
<1>3. /\ ThreadInv(t) /\ LoopInv
      /\ (\A k : Known(k) => Known(k)')
  BY DEF IInv, Known, Grow
<1>4. CASE t \in Requests
  <2>1. m.ctx \in RequestCtx
    BY <1>3, <1>4 DEF ThreadInv, CallInv
  <2>2. t # Worker /\ pc'[Worker] = pc[Worker] /\ me'[Worker] = me[Worker]
    BY <1>1, <1>4 DEF Others, Threads
  <2>3. LoopInv'
    BY <2>2, <1>3 DEF LoopInv, Grow
  <2>4. CASE m.ctx = "bind"
    <3>1. pc'[t] = "exc" /\ me'[t] = [m EXCEPT !.ctx = "bind_observe"]
      BY <1>1, <2>1, <2>4, CatchRequest, CaughtType, <1>0
    <3>2. Known(m.chk) /\ m.job = JobOf[t]
      BY <1>0, <1>3, <1>4, <2>4 DEF ThreadInv, CallInv, OwnInv, StartPcs
    <3>3. CallInv(t)' /\ RowInv(t)' /\ OwnInv(t)'
      BY <3>1, <3>2, <1>0, <1>3, <1>4, <2>2 DEF CallInv, RowInv, OwnInv,
         FaultSteps, StartPcs, FreePcs, ReviewPcs, LoopPcs, RequestCtx, Local
    <3>4. Typed
      BY <3>1, <1>0, <1>2, CaughtType DEF Typed, IInv, TypeOK, Steps, FaultSteps
    <3> QED BY <3>3, <3>4, <2>3, <1>1, <1>2 DEF ThreadInv
  <2>5. CASE m.ctx # "bind"
    <3>1. pc'[t] = "done" /\ me'[t] = Fresh
      BY <1>1, <2>1, <2>5, CatchRequest, CaughtType, <1>0
    <3>3. CallInv(t)' /\ RowInv(t)' /\ OwnInv(t)'
      BY <3>1, <2>2 DEF CallInv, RowInv, OwnInv,
         FaultSteps, StartPcs, FreePcs, ReviewPcs
    <3>4. Typed
      BY <3>1, <1>0, <1>2, CaughtType DEF Typed, IInv, TypeOK, Steps
    <3> QED BY <3>3, <3>4, <2>3, <1>1, <1>2 DEF ThreadInv
  <2> QED BY <2>4, <2>5
<1>5. CASE t = Worker
  <2>1. m.ctx \in WorkerCtx /\ t \notin Requests
    BY <1>3, <1>5 DEF ThreadInv, CallInv
  <2>2. pc'[t] \in Steps
    BY <2>1, <1>1, CatchWorker DEF Steps, FaultSteps
  <2>3. Typed
    BY <2>2, <1>0, <1>2, CaughtType DEF Typed, IInv, TypeOK
  <2>4. CASE m.ctx \in {"review_create", "review_prepare", "review_record", "process", "review_exc"}
    <3>1. /\ pc'[t] \in {"finish_failed", "finish_ok", "create", "f_observe"}
          /\ pc'[t] = "create" => m.ctx = "review_create"
          /\ pc'[t] = "f_observe" => m.ctx \in {"review_prepare", "review_record"}
      BY <2>1, <2>4, <1>1 DEF CatchAt
    <3>2. /\ me'[t].job = m.job /\ me'[t].chk = m.chk
          /\ me'[t].ctx \in {"process", "review_exc"}
          /\ m.ctx = "review_create" => me'[t].ctx = "process"
      BY <1>0, <1>1, <2>4 DEF Caught, Local
    <3>3. pc'[t] = "f_observe" => Known(m.chk)
      BY <1>3, <3>1 DEF ThreadInv, CallInv, StartPcs
    <3>4. CallInv(t)' /\ RowInv(t)' /\ OwnInv(t)'
      BY <3>1, <3>2, <3>3, <1>0, <1>3, <2>1 DEF CallInv, RowInv, OwnInv,
         FaultSteps, StartPcs, FreePcs, ReviewPcs, LoopPcs, WorkerCtx
    <3>5. LoopInv'
      BY <3>1, <3>2, <1>5 DEF LoopInv
    <3> QED BY <3>4, <3>5, <2>3, <1>1, <1>2 DEF ThreadInv
  <2>5. CASE m.ctx \in {"recover_free", "recover_review", "recover_review_exc",
                        "recover_failure", "review_publish"}
    <3>1. /\ pc'[t] \in {"next_free", "next_review", "next_failure", "reconcile"}
          /\ pc'[t] = "next_free" => m.ctx = "recover_free"
          /\ pc'[t] = "next_review" => m.ctx \in {"recover_review", "recover_review_exc"}
          /\ pc'[t] = "next_failure" => m.ctx = "recover_failure"
      BY <2>5, <1>1 DEF CatchAt
    <3>2. me'[t] = Fresh /\ me'[t].ctx = "none"
      BY <1>0, <1>1, <2>5, CaughtType DEF Fresh
    <3>3. CallInv(t)' /\ RowInv(t)' /\ OwnInv(t)'
      BY <3>1, <3>2, <2>1 DEF CallInv, RowInv, OwnInv,
         FaultSteps, StartPcs, FreePcs, ReviewPcs, LoopPcs
    <3>4. LoopInv'
      BY <3>1, <3>2, <1>3, <1>5 DEF LoopInv, Grow
    <3> QED BY <3>3, <3>4, <2>3, <1>1, <1>2 DEF ThreadInv
  <2> QED BY <2>1, <2>4, <2>5 DEF WorkerCtx
<1> QED BY <1>4, <1>5 DEF Threads

-----------------------------------------------------------------------------
(* Putting a step together *)

WorldTyped ==
  /\ status' \in [Jobs -> JobStatus] /\ attempts' \in [Jobs -> Nat]
  /\ enrolled' \in BOOLEAN /\ recovered' \in BOOLEAN
  /\ todo' \subseteq Jobs \cup CheckIds
  /\ faults' \in Nat /\ crashes' \in Nat /\ toggles' \in Nat

RecoverCtx == {"recover_free", "recover_review", "recover_review_exc", "recover_failure"}
ListPcs == {"next_free", "next_review", "next_failure"}

\* The worker is where its list, and so LoopInv, does not change.
SameLoop ==
  /\ pc'[Worker] \in ListPcs => pc'[Worker] = pc[Worker]
  /\ me'[Worker].ctx \in RecoverCtx =>
       \/ me'[Worker].ctx = me[Worker].ctx
       \/ me'[Worker].ctx = "recover_review_exc" /\ me[Worker].ctx = "recover_review"

LEMMA LoopStep ==
  ASSUME IInv, Grow, todo' = todo, SameLoop
  PROVE  LoopInv'
BY DEF IInv, LoopInv, Grow, SameLoop, RecoverCtx, ListPcs

\* The other threads keep what they rely on.
LEMMA Frame ==
  ASSUME IInv, Grow, NEW t \in Threads, Others(t), ThreadInv(t)'
  PROVE  \A s \in Threads : ThreadInv(s)'
<1> SUFFICES ASSUME NEW s \in Threads, s # t PROVE ThreadInv(s)'
  OBVIOUS
<1> USE PublicationAssumption
<1>1. ThreadInv(s) /\ pc'[s] = pc[s] /\ me'[s] = me[s] /\ me[s] \in Local
  BY DEF IInv, Others, TypeOK
<1>2. \A k : Known(k) => Known(k)' /\ ext'[k] = ext[k]
  BY DEF Known, Grow
<1>3. CallInv(s)'
  BY <1>1, <1>2 DEF ThreadInv, CallInv
<1>4. RowInv(s)'
  <2>1. pc[s] \in FreePcs \cup ReviewPcs => me[s].job \in Jobs
    BY <1>1 DEF ThreadInv, CallInv, FreePcs, ReviewPcs, FaultSteps
  <2>2. pc[s] = "f_patch" => me[s].chk \in CheckIds
    BY <1>1 DEF ThreadInv, CallInv, Known, FaultSteps, StartPcs
  <2>3. RowInv(s)
    BY <1>1 DEF ThreadInv
  <2>4. pc[s] = "f_patch" => failure'[me[s].chk].state # "none"
                             /\ failure'[me[s].chk].concl = me[s].concl
    BY <2>2, <2>3 DEF RowInv, Grow
  <2>5. pc[s] \in FreePcs => free'[me[s].job].state # "none"
                             /\ free'[me[s].job].chk = me[s].chk
    BY <2>1, <2>3 DEF RowInv, Grow
  <2>6. pc[s] \in ReviewPcs => /\ review'[me[s].job].state # "none"
                               /\ review'[me[s].job].chk = me[s].chk
                               /\ review'[me[s].job].concl = me[s].concl
    BY <2>1, <2>3 DEF RowInv, Grow
  <2>7. pc[s] = "review_patch" => review'[me[s].job].state = "finalized"
    BY <2>1, <2>3 DEF RowInv, Grow, ReviewPcs
  <2>8. pc[s] = "resume" /\ me[s].seen = "finalized" => free'[me[s].job].state = "finalized"
    BY <2>1, <2>3 DEF RowInv, Grow, FreePcs
  <2> QED BY <1>1, <2>4, <2>5, <2>6, <2>7, <2>8 DEF RowInv
<1>5. OwnInv(s)'
  <2>1. pc[s] \in FreePcs \cup {"phase_two", "prepare"} => Known(me[s].chk)
    BY <1>1 DEF ThreadInv, CallInv, FreePcs, FaultSteps, StartPcs
  <2> QED BY <1>1, <1>2, <2>1 DEF ThreadInv, OwnInv
<1> QED BY <1>3, <1>4, <1>5 DEF ThreadInv

\* A step that leaves GitHub and the store alone.
LEMMA QuietStep ==
  ASSUME IInv, NEW t \in Threads, UNCHANGED <<github, store>>,
         Typed, WorldTyped, Others(t), NoNewPass, ThreadInv(t)', LoopInv'
  PROVE  IInv'
<1>1. Grow
  BY DEF Grow, github, store
<1>2. TypeOK'
  BY DEF IInv, TypeOK, Typed, WorldTyped, github, store
<1>3. StoreInv'
  BY DEF IInv, StoreInv, github, store, Known, TerminalHasEvidence, EvidenceFor,
     PassedIsBound, NoNewPass
<1> QED BY <1>1, <1>2, <1>3, Frame DEF IInv

LEMMA RaiseQuiet ==
  ASSUME IInv, NEW t \in Threads, pc[t] \in FaultSteps, Raise(t),
         UNCHANGED <<status, attempts, github, store, loop, world>>, faults' \in Nat
  PROVE  IInv'
<1>1. Grow /\ todo' = todo
  BY DEF Grow, github, store, loop
<1>2. WorldTyped
  BY DEF IInv, TypeOK, WorldTyped, loop, world
<1> QED BY <1>1, <1>2, RaiseStep, QuietStep

LEMMA StepFailsStep ==
  ASSUME IInv, NEW t \in Threads, StepFails(t)
  PROVE  IInv'
<1>1. faults' \in Nat
  BY DEF StepFails, Spend, IInv, TypeOK
<1> QED BY <1>1, RaiseQuiet DEF StepFails

\* A step that moves one thread to step p with locals m and no more.
LEMMA MoveStep ==
  ASSUME IInv, NEW t \in Threads, NEW p \in Steps, NEW m \in Local,
         pc' = [pc EXCEPT ![t] = p], me' = [me EXCEPT ![t] = m],
         UNCHANGED <<status, attempts, github, store, loop, world>>, faults' \in Nat,
         resp' \in [Requests -> Answers], NoNewPass,
         ThreadInv(t)', t = Worker => SameLoop
  PROVE  IInv'
<1> USE PublicationAssumption
<1>1. Typed /\ Others(t)
  BY DEF IInv, TypeOK, Typed, Others
<1>2. WorldTyped
  BY DEF IInv, TypeOK, WorldTyped, loop, world
<1>3. SameLoop
  <2>1. CASE t # Worker
    <3>1. pc'[Worker] = pc[Worker] /\ me'[Worker] = me[Worker]
      BY <1>1, <2>1 DEF Others, Threads
    <3> QED BY <3>1 DEF SameLoop
  <2> QED BY <2>1
<1>4. Grow /\ todo' = todo
  BY DEF Grow, github, store, loop
<1>5. LoopInv'
  BY <1>3, <1>4, LoopStep
<1> QED BY <1>1, <1>2, <1>5, QuietStep


\* A step that only takes a thread from one step of a call to the next.
LEMMA AdvanceStep ==
  ASSUME IInv, NEW t \in Threads, NEW p \in Steps \ ListPcs,
         pc' = [pc EXCEPT ![t] = p], me' = me, resp' = resp,
         UNCHANGED <<status, attempts, github, store, loop, world>>, faults' \in Nat,
         ThreadInv(t)'
  PROVE  IInv'
<1>1. me' = [me EXCEPT ![t] = me[t]] /\ me[t] \in Local /\ p \in Steps
  BY DEF IInv, TypeOK
<1>2. NoNewPass /\ resp' \in [Requests -> Answers]
  BY DEF NoNewPass, IInv, TypeOK
<1>3. t = Worker => SameLoop
  BY DEF SameLoop, IInv, TypeOK
<1> QED BY <1>1, <1>2, <1>3, MoveStep

\* One that may raise instead.
LEMMA AdvanceOrRaise ==
  ASSUME IInv, NEW t \in Threads, pc[t] \in FaultSteps, NEW p \in Steps \ ListPcs,
         Raise(t) \/ (Goto(t, p) /\ UNCHANGED <<me, resp>>),
         UNCHANGED <<status, attempts, github, store, loop, world, faults>>,
         pc'[t] = p /\ me' = me => ThreadInv(t)'
  PROVE  IInv'
<1>1. faults' \in Nat
  BY DEF IInv, TypeOK
<1>2. CASE Raise(t)
  BY <1>1, <1>2, RaiseQuiet
<1>3. CASE Goto(t, p) /\ UNCHANGED <<me, resp>>
  <2>1. pc' = [pc EXCEPT ![t] = p] /\ pc'[t] = p /\ me' = me /\ resp' = resp
    BY <1>3 DEF Goto, IInv, TypeOK
  <2> QED BY <1>1, <2>1, AdvanceStep
<1> QED BY <1>2, <1>3


RowsTyped ==
  /\ check' \in [CheckIds -> CheckState]
  /\ owner' \in [CheckIds -> Jobs \cup {0}]
  /\ ext' \in [CheckIds -> ExternalId]
  /\ failure' \in [CheckIds -> [state : Stage, concl : Conclusions, link : BOOLEAN]]
  /\ free' \in [Jobs -> [state : Stage, chk : CheckIds \cup {NoCheck}]]
  /\ review' \in [Jobs -> [state : Stage \cup {"failed"},
                           chk : CheckIds \cup {NoCheck}, concl : Conclusions]]

\* A row whose state moves on stays a row of its table.
FailureRow == [state : Stage, concl : Conclusions, link : BOOLEAN]
FreeRow == [state : Stage, chk : CheckIds \cup {NoCheck}]
ReviewRow == [state : Stage \cup {"failed"}, chk : CheckIds \cup {NoCheck}, concl : Conclusions]

LEMMA FailureRowMoves ==
  ASSUME NEW x \in FailureRow
  PROVE  [x EXCEPT !.state = "finalized"] \in FailureRow
BY DEF FailureRow, Stage

LEMMA FreeRowMoves ==
  ASSUME NEW x \in FreeRow
  PROVE  [x EXCEPT !.state = "finalized"] \in FreeRow
BY DEF FreeRow, Stage

LEMMA ReviewRowMoves ==
  ASSUME NEW x \in ReviewRow, NEW s \in {"finalized", "failed"}
  PROVE  [x EXCEPT !.state = s] \in ReviewRow
BY DEF ReviewRow, Stage

\* A step that writes to GitHub, the store or the worker's loop.
LEMMA ChangeStep ==
  ASSUME IInv, NEW t \in Threads, Grow, RowsTyped, StoreInv', WorldTyped,
         Typed, Others(t), ThreadInv(t)', LoopInv'
  PROVE  IInv'
<1>1. TypeOK'
  BY DEF IInv, TypeOK, Typed, RowsTyped, WorldTyped
<1> QED BY <1>1, Frame DEF IInv

LEMMA WriteStep ==
  ASSUME IInv, NEW t \in Threads, Grow, RowsTyped, StoreInv',
         UNCHANGED <<status, attempts, loop, world>>, faults' \in Nat,
         Typed, Others(t), ThreadInv(t)', LoopInv'
  PROVE  IInv'
<1>1. WorldTyped
  BY DEF IInv, TypeOK, WorldTyped, loop, world
<1> QED BY <1>1, ChangeStep

\* The evidence of a Check Run that already has some is not lost.
LEMMA EvidenceGrows ==
  ASSUME IInv, Grow, NEW k \in CheckIds
  PROVE  EvidenceFor(k) \subseteq EvidenceFor(k)'
BY DEF EvidenceFor, Grow

LEMMA PassedKeeps ==
  ASSUME IInv, Grow, NoNewPass
  PROVE  PassedIsBound'
<1> SUFFICES ASSUME NEW r \in Requests, resp'[r] = "PASSED"
             PROVE  free'[JobOf[r]].state = "finalized"
                    /\ ext'[free'[JobOf[r]].chk].of = PhaseOne[r]
  BY DEF PassedIsBound
<1>1. JobOf[r] \in Jobs /\ resp[r] = "PASSED"
  BY PublicationAssumption DEF NoNewPass
<1>2. /\ free[JobOf[r]].state = "finalized" /\ Known(free[JobOf[r]].chk)
      /\ ext[free[JobOf[r]].chk].of = PhaseOne[r]
  BY <1>1 DEF IInv, StoreInv, PassedIsBound
<1> QED BY <1>1, <1>2 DEF Grow, Known

\* Terminal Check Runs that a step leaves as they are keep their evidence.
LEMMA EvidenceKeeps ==
  ASSUME IInv, Grow, check' = check
  PROVE  TerminalHasEvidence'
BY EvidenceGrows DEF TerminalHasEvidence, IInv, StoreInv

-----------------------------------------------------------------------------
(* The failure publication *)

LEMMA FailureObserveStep ==
  ASSUME IInv, NEW t \in Threads, FailureObserve(t)
  PROVE  IInv'
<1>1. pc[t] = "f_observe" /\ pc[t] \in FaultSteps /\ "f_insert" \in Steps \ ListPcs
      /\ ThreadInv(t) /\ check' = check
  BY DEF FailureObserve, FaultSteps, Steps, ListPcs, IInv, github
<1>2. ASSUME pc'[t] = "f_insert" /\ me' = me PROVE ThreadInv(t)'
  BY <1>1, <1>2 DEF ThreadInv, CallInv, RowInv, OwnInv, Known, FaultSteps,
     StartPcs, FreePcs, ReviewPcs, LoopPcs
<1> QED BY <1>1, <1>2, AdvanceOrRaise DEF FailureObserve

LEMMA FailureAuthorizeStep ==
  ASSUME IInv, NEW t \in Threads, FailureAuthorize(t)
  PROVE  IInv'
<1> DEFINE f == failure[me[t].chk]
<1>1. pc[t] = "f_auth" /\ pc[t] \in FaultSteps /\ "f_patch" \in Steps \ ListPcs
      /\ ThreadInv(t) /\ check' = check /\ failure' = failure
  BY DEF FailureAuthorize, FaultSteps, Steps, ListPcs, IInv, github, store
<1>2. CASE f.state = "prepared" /\ f.concl = me[t].concl
  <2>1. ASSUME pc'[t] = "f_patch" /\ me' = me PROVE ThreadInv(t)'
    BY <1>1, <1>2, <2>1 DEF ThreadInv, CallInv, RowInv, OwnInv, Known, FaultSteps,
       StartPcs, FreePcs, ReviewPcs, LoopPcs
  <2> QED BY <1>1, <2>1, AdvanceOrRaise DEF FailureAuthorize
<1>3. CASE ~(f.state = "prepared" /\ f.concl = me[t].concl)
  <2>1. Raise(t) /\ faults' \in Nat
    BY <1>3 DEF FailureAuthorize, IInv, TypeOK
  <2> QED BY <1>1, <2>1, RaiseQuiet DEF FailureAuthorize
<1> QED BY <1>2, <1>3

LEMMA FailurePatchStep ==
  ASSUME IInv, NEW t \in Threads, FailurePatch(t)
  PROVE  IInv'
<1> DEFINE k == me[t].chk
<1>1. /\ pc[t] = "f_patch" /\ pc[t] \in FaultSteps /\ ThreadInv(t) /\ todo' = todo
      /\ k \in CheckIds /\ check[k] # "absent" /\ me[t].concl \in Conclusions
      /\ failure[k].state # "none" /\ failure[k].concl = me[t].concl
  BY DEF FailurePatch, FaultSteps, StartPcs, IInv, ThreadInv, CallInv, RowInv, Known,
     TypeOK, Local, loop
<1>2. check' = [check EXCEPT ![k] = me[t].concl] /\ faults' \in Nat
      /\ UNCHANGED <<owner, ext, failure, free, review>>
  BY DEF FailurePatch, Spend, IInv, TypeOK, store
<1>3. Grow
  BY <1>1, <1>2 DEF Grow, IInv, TypeOK, Conclusions
<1>4. RowsTyped
  BY <1>1, <1>2 DEF RowsTyped, IInv, TypeOK, CheckState
<1>5. Typed /\ Others(t) /\ NoNewPass /\ ThreadInv(t)' /\ LoopInv'
  <2>1. CASE Goto(t, "f_check") /\ UNCHANGED <<me, resp>>
    <3>1. pc'[t] = "f_check" /\ me'[t] = me[t] /\ Others(t) /\ NoNewPass
      BY <2>1 DEF Goto, IInv, TypeOK, Others, NoNewPass
    <3>2. Typed
      BY <2>1 DEF Typed, Goto, IInv, TypeOK, Steps, FaultSteps
    <3>3. ThreadInv(t)'
      BY <1>1, <1>2, <1>3, <3>1 DEF ThreadInv, CallInv, RowInv, OwnInv, Known, Grow,
         FaultSteps, StartPcs, FreePcs, ReviewPcs, LoopPcs
    <3>4. SameLoop
      BY <2>1 DEF SameLoop, Goto, ListPcs, IInv, TypeOK
    <3> QED BY <1>1, <1>3, <3>1, <3>2, <3>3, <3>4, LoopStep
  <2>2. CASE Raise(t)
    BY <1>1, <1>3, <2>2, RaiseStep
  <2> QED BY <2>1, <2>2 DEF FailurePatch
<1>6. TerminalHasEvidence'
  <2>1. me[t].concl \in EvidenceFor(k)
    BY <1>1 DEF EvidenceFor
  <2> QED BY <1>1, <1>2, <1>3, <2>1, EvidenceGrows
      DEF TerminalHasEvidence, IInv, StoreInv, TypeOK
<1>7. StoreInv'
  BY <1>1, <1>2, <1>3, <1>5, <1>6 DEF StoreInv, IInv, Grow, Known, PassedIsBound, NoNewPass, TypeOK
<1> QED BY <1>2, <1>3, <1>4, <1>5, <1>7, WriteStep DEF FailurePatch

LEMMA FailureInsertStep ==
  ASSUME IInv, NEW t \in Threads, FailureInsert(t)
  PROVE  IInv'
<1> DEFINE k == me[t].chk
<1>1. /\ pc[t] = "f_insert" /\ pc[t] \in FaultSteps /\ ThreadInv(t) /\ todo' = todo
      /\ k \in CheckIds /\ check[k] # "absent" /\ me[t] \in Local /\ faults' \in Nat
  BY DEF FailureInsert, FaultSteps, StartPcs, IInv, ThreadInv, CallInv, Known,
     TypeOK, loop
<1>2. CASE CanInsertFailure(t)
  <2>1. failure' = [failure EXCEPT ![k] =
               [state |-> "prepared", concl |-> me[t].concl, link |-> me[t].link]]
        /\ failure[k].state = "none" /\ Goto(t, "f_auth")
        /\ UNCHANGED <<check, owner, ext, free, review, me, resp>>
    BY <1>1, <1>2 DEF FailureInsert, CanInsertFailure, github
  <2>2. Grow
    BY <1>1, <2>1 DEF Grow, IInv, TypeOK
  <2>3. RowsTyped
    BY <1>1, <2>1 DEF RowsTyped, IInv, TypeOK, Stage, Local
  <2>4. pc'[t] = "f_auth" /\ me'[t] = me[t] /\ Others(t) /\ NoNewPass
    BY <2>1 DEF Goto, IInv, TypeOK, Others, NoNewPass
  <2>5. Typed
    BY <2>1 DEF Typed, Goto, IInv, TypeOK, Steps, FaultSteps
  <2>6. ThreadInv(t)'
    BY <1>1, <2>1, <2>4 DEF ThreadInv, CallInv, RowInv, OwnInv, Known,
       FaultSteps, StartPcs, FreePcs, ReviewPcs, LoopPcs
  <2>7. LoopInv'
    <3>1. SameLoop
      BY <2>1 DEF SameLoop, Goto, ListPcs, IInv, TypeOK
    <3> QED BY <1>1, <2>2, <3>1, LoopStep
  <2>8. StoreInv'
    BY <1>1, <2>1, <2>2, <2>4, PassedKeeps, EvidenceKeeps DEF StoreInv, IInv, TypeOK, Known
  <2> QED BY <1>1, <2>2, <2>3, <2>4, <2>5, <2>6, <2>7, <2>8, WriteStep DEF FailureInsert
<1>3. CASE ~CanInsertFailure(t)
  <2>1. Raise(t) /\ UNCHANGED <<status, attempts, github, store, loop, world>>
    BY <1>3 DEF FailureInsert, store
  <2> QED BY <1>1, <2>1, RaiseQuiet
<1> QED BY <1>2, <1>3

LEMMA DoneStep ==
  ASSUME IInv, NEW t \in Threads, pc[t] \in {"f_check", "f_commit"}, Done(t), Grow, todo' = todo
  PROVE  Typed /\ Others(t) /\ NoNewPass /\ ThreadInv(t)' /\ LoopInv'
<1> USE PublicationAssumption
<1> DEFINE c == me[t].ctx
<1>1. /\ me[t] \in Local /\ me[t].job \in Jobs /\ ThreadInv(t)
      /\ t \in Requests => c \in RequestCtx
      /\ t = Worker => c \in WorkerCtx
  BY DEF IInv, TypeOK, ThreadInv, CallInv, FaultSteps
<1>2. /\ pc'[t] \in {"done", "finish_ok", "finish_failed"}
      /\ pc'[t] = "done" => c \in {"phase_two", "bind_exc"}
      /\ pc' = [pc EXCEPT ![t] = pc'[t]]
  BY DEF Done, Goto, IInv, TypeOK
<1>3. /\ me' = [me EXCEPT ![t] = me'[t]]
      /\ me'[t] = IF c \in {"phase_two", "bind_exc"} THEN Fresh ELSE me[t]
  BY DEF Done, IInv, TypeOK
<1>4. Others(t)
  BY <1>2, <1>3 DEF Others, IInv, TypeOK
<1>5. resp' \in [Requests -> Answers] /\ NoNewPass
  BY DEF Done, Reply, IInv, TypeOK, Answers, NoNewPass
<1>6. Typed
  BY <1>1, <1>2, <1>3, <1>5, FreshType DEF Typed, IInv, TypeOK, Steps
<1>7. ThreadInv(t)'
  BY <1>1, <1>2, <1>3 DEF ThreadInv, CallInv, RowInv, OwnInv, RequestCtx, WorkerCtx,
     FaultSteps, StartPcs, FreePcs, ReviewPcs, LoopPcs, Done, Goto
<1>8. LoopInv'
  <2>1. SameLoop
    <3>1. CASE t = Worker
      BY <1>2, <1>3, <3>1 DEF SameLoop, ListPcs, RecoverCtx, Fresh
    <3>2. CASE t # Worker
      BY <1>4, <3>2 DEF SameLoop, Others, Threads
    <3> QED BY <3>1, <3>2
  <2> QED BY <2>1, LoopStep
<1> QED BY <1>4, <1>5, <1>6, <1>7, <1>8

LEMMA FailureCheckStep ==
  ASSUME IInv, NEW t \in Threads, FailureCheck(t)
  PROVE  IInv'
<1>1. /\ pc[t] = "f_check" /\ pc[t] \in FaultSteps /\ "f_commit" \in Steps \ ListPcs
      /\ ThreadInv(t) /\ check' = check /\ faults' \in Nat
  BY DEF FailureCheck, FaultSteps, Steps, ListPcs, IInv, TypeOK, github
<1>2. CASE Done(t)
  <2>1. Grow /\ todo' = todo /\ WorldTyped
    BY <1>1 DEF FailureCheck, Grow, github, store, loop, world, WorldTyped, IInv, TypeOK
  <2> QED BY <1>1, <1>2, <2>1, DoneStep, QuietStep DEF FailureCheck
<1>3. CASE ~Done(t)
  <2>1. Raise(t) \/ (Goto(t, "f_commit") /\ UNCHANGED <<me, resp>>)
    BY <1>3 DEF FailureCheck
  <2>2. ASSUME pc'[t] = "f_commit" /\ me' = me PROVE ThreadInv(t)'
    BY <1>1, <2>2 DEF ThreadInv, CallInv, RowInv, OwnInv, Known, FaultSteps,
       StartPcs, FreePcs, ReviewPcs, LoopPcs
  <2> QED BY <1>1, <2>1, <2>2, AdvanceOrRaise DEF FailureCheck
<1> QED BY <1>2, <1>3

LEMMA FailureCommitStep ==
  ASSUME IInv, NEW t \in Threads, FailureCommit(t)
  PROVE  IInv'
<1> DEFINE k == me[t].chk
           j == owner[k]
<1>1. /\ pc[t] = "f_commit" /\ pc[t] \in FaultSteps /\ ThreadInv(t) /\ todo' = todo
      /\ k \in CheckIds /\ check[k] # "absent" /\ j \in Jobs /\ faults' \in Nat
  BY DEF FailureCommit, FaultSteps, StartPcs, IInv, ThreadInv, CallInv, Known,
     StoreInv, TypeOK, loop
<1>2. CASE failure[k].state = "prepared"
  <2>1. /\ failure' = [failure EXCEPT ![k].state = "finalized"]
        /\ review' = IF failure[k].link /\ review[j].state = "prepared"
                     THEN [review EXCEPT ![j].state = "failed"] ELSE review
        /\ Done(t) /\ UNCHANGED <<check, owner, ext, free>>
    BY <1>2 DEF FailureCommit, github
  <2>2. Grow
    BY <1>1, <1>2, <2>1 DEF Grow, IInv, TypeOK
  <2>3. RowsTyped
    <3>1. failure' \in [CheckIds -> FailureRow]
      <4>1. failure \in [CheckIds -> FailureRow]
        BY DEF IInv, TypeOK, FailureRow
      <4>2. [failure[k] EXCEPT !.state = "finalized"] \in FailureRow
        BY <1>1, <4>1, FailureRowMoves
      <4> QED BY <2>1, <4>1, <4>2
    <3>2. review' \in [Jobs -> ReviewRow]
      <4>1. review \in [Jobs -> ReviewRow]
        BY DEF IInv, TypeOK, ReviewRow
      <4>2. [review[j] EXCEPT !.state = "failed"] \in ReviewRow
        BY <1>1, <4>1, ReviewRowMoves
      <4> QED BY <2>1, <4>1, <4>2
    <3> QED BY <2>1, <3>1, <3>2 DEF RowsTyped, IInv, TypeOK, FailureRow, ReviewRow
  <2>4. Typed /\ Others(t) /\ NoNewPass /\ ThreadInv(t)' /\ LoopInv'
    BY <1>1, <2>1, <2>2, DoneStep
  <2>5. StoreInv'
    <3>1. TerminalHasEvidence' /\ PassedIsBound'
      BY <2>1, <2>2, <2>4, PassedKeeps, EvidenceKeeps
    <3>2. \A l \in CheckIds : failure'[l].state # "none" => failure[l].state # "none"
      BY <1>1, <1>2, <2>1 DEF IInv, TypeOK
    <3>3. \A i \in Jobs : review'[i].state # "none" => /\ review[i].state # "none"
                                                      /\ review'[i].chk = review[i].chk
      BY <1>1, <2>1 DEF IInv, TypeOK
    <3> QED BY <2>1, <3>1, <3>2, <3>3 DEF StoreInv, IInv, Known
  <2> QED BY <1>1, <2>2, <2>3, <2>4, <2>5, WriteStep DEF FailureCommit
<1>3. CASE failure[k].state # "prepared"
  <2>1. Raise(t) /\ UNCHANGED <<status, attempts, github, store, loop, world>>
    BY <1>3 DEF FailureCommit, store
  <2> QED BY <1>1, <2>1, RaiseQuiet
<1> QED BY <1>2, <1>3

-----------------------------------------------------------------------------
(* Check Runs and free reviews *)

LEMMA CreateCheckStep ==
  ASSUME IInv, NEW t \in Threads, CreateCheck(t)
  PROVE  IInv'
<1> USE PublicationAssumption
<1>1. /\ pc[t] = "create" /\ pc[t] \in FaultSteps /\ pc[t] \in StartPcs
      /\ ThreadInv(t) /\ todo' = todo /\ UNCHANGED <<failure, free, review>>
      /\ me[t] \in Local /\ me[t].job \in Jobs
      /\ me[t].ctx \in {"bind_create", "process", "review_create"}
      /\ t \in Requests => me[t].ctx \in RequestCtx /\ me[t].job = JobOf[t]
      /\ t = Worker => me[t].ctx \in WorkerCtx
  BY DEF CreateCheck, FaultSteps, StartPcs, IInv, TypeOK, ThreadInv, CallInv, OwnInv, loop, store
<1>2. PICK k \in CheckIds :
        /\ check[k] = "absent"
        /\ check' = [check EXCEPT ![k] = "in_progress"]
        /\ owner' = [owner EXCEPT ![k] = me[t].job]
        /\ ext' = [ext EXCEPT ![k] = ExtOf(t)]
        /\ \/ /\ Goto(t, AfterCreate(me[t].ctx))
              /\ me' = [me EXCEPT ![t].chk = k,
                          ![t].ctx = IF @ = "review_create" THEN "review_prepare" ELSE @]
              /\ UNCHANGED <<resp, faults>>
           \/ Spend /\ Raise(t)
  BY DEF CreateCheck
<1>3. Grow
  BY <1>1, <1>2 DEF Grow, IInv, TypeOK
<1>4. ExtOf(t) \in ExternalId
  <2>1. me[t].ctx = "bind_create" => t \in Requests
    BY <1>1 DEF Threads, WorkerCtx
  <2> QED BY <1>1, <2>1 DEF ExtOf, ExternalId, Local
<1>5. RowsTyped
  BY <1>1, <1>2, <1>4 DEF RowsTyped, IInv, TypeOK, CheckState
<1>6. Typed /\ Others(t) /\ NoNewPass /\ ThreadInv(t)' /\ LoopInv'
  <2>1. CASE Raise(t)
    BY <1>1, <1>3, <2>1, RaiseStep
  <2>2. CASE Goto(t, AfterCreate(me[t].ctx)) /\ ~Raise(t)
    <3> DEFINE m == [me[t] EXCEPT !.chk = k,
                       !.ctx = IF @ = "review_create" THEN "review_prepare" ELSE @]
    <3>1. me' = [me EXCEPT ![t] = m] /\ me'[t] = m /\ resp' = resp
      BY <1>2, <2>2 DEF IInv, TypeOK
    <3>2. /\ m \in Local /\ m.chk = k /\ m.job = me[t].job
          /\ m.ctx \in {"bind_create", "process", "review_prepare"}
          /\ m.ctx # "review_prepare" => m.ctx = me[t].ctx
          /\ m.ctx = "review_prepare" => me[t].ctx = "review_create"
      BY <1>1 DEF Local, WorkerCtx
    <3> HIDE DEF m
    <3>3. /\ pc' = [pc EXCEPT ![t] = pc'[t]]
          /\ m.ctx = "bind_create" => pc'[t] = "phase_two"
          /\ m.ctx = "process" => pc'[t] = "f_observe"
          /\ m.ctx = "review_prepare" => pc'[t] = "review_prepare"
      <4>1. pc' = [pc EXCEPT ![t] = AfterCreate(me[t].ctx)] /\ pc'[t] = AfterCreate(me[t].ctx)
        BY <2>2 DEF Goto, IInv, TypeOK
      <4>2. /\ AfterCreate("bind_create") = "phase_two"
            /\ AfterCreate("process") = "f_observe"
            /\ AfterCreate("review_create") = "review_prepare"
        BY DEF AfterCreate
      <4> QED BY <3>2, <4>1, <4>2
    <3>4. Others(t) /\ NoNewPass
      BY <3>1, <3>3 DEF Others, NoNewPass, IInv, TypeOK
    <3>5. Typed
      BY <3>1, <3>2, <3>3 DEF Typed, IInv, TypeOK, Steps, FaultSteps
    <3>6. check'[k] = "in_progress" /\ (m.ctx = "bind_create" => ext'[k].of = PhaseOne[t])
      <4>1. me[t].ctx = "bind_create" => ExtOf(t).of = PhaseOne[t]
        BY DEF ExtOf
      <4>2. check'[k] = "in_progress" /\ ext'[k] = ExtOf(t)
        BY <1>2 DEF IInv, TypeOK
      <4> QED BY <3>2, <4>1, <4>2
    <3>7. m.ctx = "bind_create" => t \in Requests
      BY <1>1, <3>2 DEF Threads, WorkerCtx
    <3>8. CallInv(t)' /\ RowInv(t)' /\ OwnInv(t)'
      BY <1>1, <3>1, <3>2, <3>3, <3>6, <3>7 DEF CallInv, RowInv, OwnInv, Known, FaultSteps,
         StartPcs, FreePcs, ReviewPcs, LoopPcs, RequestCtx, WorkerCtx
    <3>9. SameLoop
      <4>1. CASE t = Worker
        BY <3>1, <3>2, <3>3, <4>1 DEF SameLoop, ListPcs, RecoverCtx
      <4>2. CASE t # Worker
        BY <3>4, <4>2 DEF SameLoop, Others, Threads
      <4> QED BY <4>1, <4>2
    <3> QED BY <1>1, <1>3, <3>4, <3>5, <3>8, <3>9, LoopStep DEF ThreadInv
  <2> QED BY <1>2, <2>1, <2>2
<1>7. StoreInv'
  <2>1. TerminalHasEvidence'
    BY <1>2, <1>3, EvidenceGrows DEF TerminalHasEvidence, IInv, StoreInv, TypeOK, Conclusions
  <2> QED BY <1>1, <1>2, <1>3, <1>6, <2>1, PassedKeeps DEF StoreInv, IInv, Known, Grow, TypeOK
<1>8. faults' \in Nat /\ UNCHANGED <<status, attempts, loop, world>>
  BY <1>2 DEF CreateCheck, Spend, IInv, TypeOK
<1> QED BY <1>3, <1>5, <1>6, <1>7, <1>8, WriteStep

\* A step of a submission's thread never touches the worker's loop.
LEMMA RequestMove ==
  ASSUME IInv, NEW r \in Requests, NEW p \in Steps, NEW m \in Local,
         pc' = [pc EXCEPT ![r] = p], me' = [me EXCEPT ![r] = m],
         UNCHANGED <<status, attempts, github, store, loop, world, faults>>,
         NEW x \in Answers \ {"PASSED"},
         resp' = resp \/ resp' = [resp EXCEPT ![r] = x],
         ThreadInv(r)'
  PROVE  IInv'
<1>1. r \in Threads /\ r # Worker
  BY PublicationAssumption DEF Threads
<1>2. NoNewPass /\ resp' \in [Requests -> Answers] /\ faults' \in Nat
  BY DEF NoNewPass, IInv, TypeOK
<1> QED BY <1>1, <1>2, MoveStep

LEMMA SubmitStep ==
  ASSUME IInv, NEW r \in Requests, Submit(r)
  PROVE  IInv'
<1> DEFINE m == [me[r] EXCEPT !.job = JobOf[r], !.ctx = "bind_create"]
<1> USE PublicationAssumption
<1>1. r \in Threads /\ r # Worker /\ me[r] \in Local /\ JobOf[r] \in Jobs
      /\ {"lookup", "done"} \subseteq Steps /\ "error" \in Answers \ {"PASSED"}
  BY DEF IInv, TypeOK, Threads, Steps, FaultSteps, Answers
<1>2. m \in Local /\ m.job = JobOf[r] /\ m.ctx = "bind_create"
  BY <1>1 DEF Local, RequestCtx
<1>3. CASE enrolled /\ status[JobOf[r]] # "waiting"
  <2>1. pc' = [pc EXCEPT ![r] = "lookup"] /\ me' = [me EXCEPT ![r] = m] /\ resp' = resp
    BY <1>3 DEF Submit, Goto
  <2>2. pc'[r] = "lookup" /\ me'[r] = m
    BY <1>1, <2>1 DEF IInv, TypeOK
  <2>3. ThreadInv(r)'
    BY <1>1, <1>2, <2>2 DEF ThreadInv, CallInv, RowInv, OwnInv, RequestCtx,
       FaultSteps, StartPcs, FreePcs, ReviewPcs
  <2> QED BY <1>1, <1>2, <2>1, <2>3, RequestMove DEF Submit
<1>4. CASE ~(enrolled /\ status[JobOf[r]] # "waiting")
  <2>1. pc' = [pc EXCEPT ![r] = "done"] /\ me' = [me EXCEPT ![r] = me[r]]
        /\ resp' = [resp EXCEPT ![r] = "error"]
    BY <1>4 DEF Submit, Goto, Reply, IInv, TypeOK
  <2>2. pc'[r] = "done"
    BY <1>1, <2>1 DEF IInv, TypeOK
  <2>3. ThreadInv(r)'
    BY <1>1, <2>2 DEF ThreadInv, CallInv, RowInv, OwnInv,
       FaultSteps, StartPcs, FreePcs, ReviewPcs
  <2> QED BY <1>1, <2>1, <2>3, RequestMove DEF Submit
<1> QED BY <1>3, <1>4

LEMMA LookupStep ==
  ASSUME IInv, NEW r \in Requests, Lookup(r)
  PROVE  IInv'
<1> DEFINE row == free[me[r].job]
           m == [me[r] EXCEPT !.ctx = "resume", !.chk = row.chk, !.seen = row.state]
<1> USE PublicationAssumption
<1>1. /\ r \in Threads /\ r # Worker /\ me[r] \in Local /\ me[r].job \in Jobs
      /\ pc[r] = "lookup" /\ pc[r] \in FaultSteps /\ ThreadInv(r)
      /\ {"create", "resume", "done"} \subseteq Steps /\ "error" \in Answers \ {"PASSED"}
      /\ UNCHANGED <<check, ext, free>>
  BY DEF Lookup, IInv, TypeOK, Threads, Steps, FaultSteps, Answers, ThreadInv, CallInv,
     github, store
<1>2. CASE Goto(r, "create") /\ UNCHANGED <<me, resp>>
  <2>1. pc' = [pc EXCEPT ![r] = "create"] /\ me' = [me EXCEPT ![r] = me[r]]
    BY <1>2 DEF Goto, IInv, TypeOK
  <2>2. pc'[r] = "create" /\ me'[r] = me[r]
    BY <1>1, <2>1 DEF IInv, TypeOK
  <2>3. ThreadInv(r)'
    BY <1>1, <2>2 DEF ThreadInv, CallInv, RowInv, OwnInv,
       FaultSteps, StartPcs, FreePcs, ReviewPcs
  <2> QED BY <1>1, <1>2, <2>1, <2>3, RequestMove DEF Lookup
<1>3. CASE /\ row.state # "none" /\ ext[row.chk].of = PhaseOne[r]
           /\ Goto(r, "resume") /\ me' = [me EXCEPT ![r] = m] /\ resp' = resp
  <2>1. Known(row.chk) /\ row.chk \in CheckIds /\ row.state \in Stage
    BY <1>1, <1>3 DEF IInv, StoreInv, Known, TypeOK
  <2>2. /\ m \in Local /\ m.job = me[r].job /\ m.ctx = "resume"
        /\ m.chk = row.chk /\ m.seen = row.state
    BY <1>1, <2>1 DEF Local, RequestCtx
  <2> HIDE DEF m
  <2>3. pc' = [pc EXCEPT ![r] = "resume"] /\ pc'[r] = "resume" /\ me'[r] = m
    BY <1>1, <1>3 DEF Goto, IInv, TypeOK
  <2>4. ThreadInv(r)'
    BY <1>1, <1>3, <2>1, <2>2, <2>3 DEF ThreadInv, CallInv, RowInv, OwnInv, RequestCtx,
       FaultSteps, StartPcs, FreePcs, ReviewPcs, Known
  <2> QED BY <1>1, <1>3, <2>2, <2>3, <2>4, RequestMove DEF Lookup
<1>4. CASE Goto(r, "done") /\ Reply(r, "error") /\ me' = [me EXCEPT ![r] = Fresh]
  <2>1. pc' = [pc EXCEPT ![r] = "done"] /\ resp' = [resp EXCEPT ![r] = "error"]
        /\ pc'[r] = "done"
    BY <1>1, <1>4 DEF Goto, Reply, IInv, TypeOK
  <2>2. ThreadInv(r)'
    BY <1>1, <2>1 DEF ThreadInv, CallInv, RowInv, OwnInv,
       FaultSteps, StartPcs, FreePcs, ReviewPcs
  <2> QED BY <1>1, <1>4, <2>1, <2>2, FreshType, RequestMove DEF Lookup
<1> QED BY <1>2, <1>3, <1>4 DEF Lookup

LEMMA PhaseTwoStep ==
  ASSUME IInv, NEW r \in Requests, PhaseTwo(r)
  PROVE  IInv'
<1> USE PublicationAssumption
<1>1. /\ r \in Threads /\ r # Worker /\ me[r] \in Local
      /\ pc[r] = "phase_two" /\ ThreadInv(r)
      /\ {"prepare", "f_observe"} \subseteq Steps /\ "none" \in Answers \ {"PASSED"}
      /\ UNCHANGED <<check, ext, resp>>
  BY DEF PhaseTwo, IInv, TypeOK, Threads, Steps, FaultSteps, Answers, github
<1>2. PICK p \in {"prepare", "f_observe"}, m \in Local :
        /\ pc' = [pc EXCEPT ![r] = p] /\ me' = [me EXCEPT ![r] = m]
        /\ m.job = me[r].job /\ m.chk = me[r].chk /\ m.ctx \in {"bind", "phase_two"}
  <2>1. CASE Goto(r, "prepare") /\ me' = [me EXCEPT ![r].ctx = "bind"]
    <3> DEFINE m == [me[r] EXCEPT !.ctx = "bind"]
    <3>1. m \in Local /\ m.job = me[r].job /\ m.chk = me[r].chk /\ m.ctx = "bind"
      BY <1>1 DEF Local, RequestCtx
    <3>2. me' = [me EXCEPT ![r] = m] /\ pc' = [pc EXCEPT ![r] = "prepare"]
      BY <2>1 DEF Goto
    <3> QED BY <3>1, <3>2
  <2>2. ASSUME NEW c \in {"failure", "action_required"}, Goto(r, "f_observe"),
               me' = [me EXCEPT ![r].ctx = "phase_two", ![r].concl = c]
        PROVE  \E m \in Local :
                 /\ pc' = [pc EXCEPT ![r] = "f_observe"] /\ me' = [me EXCEPT ![r] = m]
                 /\ m.job = me[r].job /\ m.chk = me[r].chk /\ m.ctx = "phase_two"
    <3> DEFINE m == [me[r] EXCEPT !.ctx = "phase_two", !.concl = c]
    <3>1. m \in Local /\ m.job = me[r].job /\ m.chk = me[r].chk /\ m.ctx = "phase_two"
      BY <1>1 DEF Local, RequestCtx, Conclusions
    <3>2. pc' = [pc EXCEPT ![r] = "f_observe"]
      BY <2>2 DEF Goto
    <3>3. me' = [me EXCEPT ![r] = m]
      <4> DEFINE a == [me[r] EXCEPT !.ctx = "phase_two"]
                 f == [me EXCEPT ![r] = a]
      <4>1. f \in [Threads -> Local] /\ f[r] = a
        BY <1>1 DEF a, Local, RequestCtx, IInv, TypeOK
      <4>2. me' = [f EXCEPT ![r].concl = c]
        BY <2>2 DEF f, a
      <4>3. me' = [f EXCEPT ![r] = [a EXCEPT !.concl = c]]
        BY <4>1, <4>2
      <4> QED BY <4>3 DEF f, a, IInv, TypeOK
    <3> QED BY <3>1, <3>2, <3>3
  <2> QED BY <2>1, <2>2 DEF PhaseTwo
<1>3. pc'[r] = p /\ me'[r] = m
  BY <1>1, <1>2 DEF IInv, TypeOK
<1>4. ThreadInv(r)'
  BY <1>1, <1>2, <1>3 DEF ThreadInv, CallInv, RowInv, OwnInv, Known, RequestCtx,
     FaultSteps, StartPcs, FreePcs, ReviewPcs
<1> QED BY <1>1, <1>2, <1>4, RequestMove DEF PhaseTwo

LEMMA BindExceptionStep ==
  ASSUME IInv, NEW r \in Requests, BindException(r)
  PROVE  IInv'
<1> DEFINE m == [me[r] EXCEPT !.ctx = "bind_exc", !.concl = "action_required"]
<1> USE PublicationAssumption
<1>1. /\ r \in Threads /\ r # Worker /\ me[r] \in Local
      /\ pc[r] = "exc" /\ ThreadInv(r)
      /\ {"done", "f_observe"} \subseteq Steps
      /\ {"none", "UNVERIFIED"} \subseteq Answers \ {"PASSED"}
      /\ check' = check
  BY DEF BindException, IInv, TypeOK, Threads, Steps, FaultSteps, Answers, github
<1>2. CASE check[me[r].chk] = "in_progress"
  <2>1. /\ m \in Local /\ m.job = me[r].job /\ m.chk = me[r].chk /\ m.ctx = "bind_exc"
    BY <1>1 DEF Local, RequestCtx, Conclusions
  <2>2. /\ pc' = [pc EXCEPT ![r] = "f_observe"] /\ me' = [me EXCEPT ![r] = m]
        /\ resp' = resp /\ pc'[r] = "f_observe" /\ me'[r] = m
    BY <1>1, <1>2 DEF BindException, Goto, IInv, TypeOK
  <2> HIDE DEF m
  <2>3. ThreadInv(r)'
    BY <1>1, <2>1, <2>2 DEF ThreadInv, CallInv, RowInv, OwnInv, Known, RequestCtx,
       FaultSteps, StartPcs, FreePcs, ReviewPcs
  <2> QED BY <1>1, <2>1, <2>2, <2>3, RequestMove DEF BindException
<1>3. CASE check[me[r].chk] # "in_progress"
  <2>1. /\ pc' = [pc EXCEPT ![r] = "done"] /\ me' = [me EXCEPT ![r] = Fresh]
        /\ resp' = [resp EXCEPT ![r] = "UNVERIFIED"] /\ pc'[r] = "done"
    BY <1>1, <1>3 DEF BindException, Goto, Reply, IInv, TypeOK
  <2>2. ThreadInv(r)'
    BY <1>1, <2>1 DEF ThreadInv, CallInv, RowInv, OwnInv,
       FaultSteps, StartPcs, FreePcs, ReviewPcs
  <2> QED BY <1>1, <2>1, <2>2, FreshType, RequestMove DEF BindException
<1> QED BY <1>2, <1>3

LEMMA PrepareFreeStep ==
  ASSUME IInv, NEW r \in Requests, PrepareFree(r)
  PROVE  IInv'
<1> DEFINE m == me[r]
           j == m.job
<1> USE PublicationAssumption
<1>1. /\ r \in Threads /\ r # Worker /\ m \in Local /\ j \in Jobs
      /\ pc[r] = "prepare" /\ pc[r] \in FaultSteps /\ ThreadInv(r) /\ todo' = todo
      /\ m.chk \in CheckIds /\ check[m.chk] # "absent" /\ faults' \in Nat
      /\ UNCHANGED <<check, owner, ext, failure, review>>
  BY DEF PrepareFree, IInv, TypeOK, Threads, FaultSteps, StartPcs, ThreadInv, CallInv,
     Known, github, loop
<1>2. CASE check[m.chk] = "in_progress" /\ free[j].state = "none"
  <2>1. /\ free' = [free EXCEPT ![j] = [state |-> "prepared", chk |-> m.chk]]
        /\ pc' = [pc EXCEPT ![r] = "revalidate"] /\ me' = me /\ resp' = resp
    BY <1>2 DEF PrepareFree, Goto
  <2>2. Grow
    BY <1>1, <1>2, <2>1 DEF Grow, IInv, TypeOK
  <2>3. RowsTyped
    BY <1>1, <2>1 DEF RowsTyped, IInv, TypeOK, Stage
  <2>4. pc'[r] = "revalidate" /\ Others(r) /\ NoNewPass
    BY <1>1, <2>1 DEF IInv, TypeOK, Others, NoNewPass
  <2>5. Typed
    BY <2>1 DEF Typed, IInv, TypeOK, Steps, FaultSteps
  <2>6. ThreadInv(r)'
    BY <1>1, <2>1, <2>4 DEF ThreadInv, CallInv, RowInv, OwnInv, Known, IInv, TypeOK,
       FaultSteps, StartPcs, FreePcs, ReviewPcs
  <2>7. LoopInv'
    <3>1. SameLoop
      BY <1>1, <2>1, <2>4 DEF SameLoop, Others, Threads
    <3> QED BY <1>1, <2>2, <3>1, LoopStep
  <2>8. StoreInv'
    BY <1>1, <2>1, <2>2, <2>4, PassedKeeps, EvidenceKeeps DEF StoreInv, IInv, TypeOK, Known
  <2> QED BY <1>1, <2>2, <2>3, <2>4, <2>5, <2>6, <2>7, <2>8, WriteStep DEF PrepareFree
<1>3. CASE ~(check[m.chk] = "in_progress" /\ free[j].state = "none")
  <2>1. Raise(r) /\ UNCHANGED <<status, attempts, github, store, loop, world>>
    BY <1>3 DEF PrepareFree, store
  <2> QED BY <1>1, <2>1, RaiseQuiet
<1> QED BY <1>2, <1>3

LEMMA RevalidateStep ==
  ASSUME IInv, NEW t \in Threads, Revalidate(t)
  PROVE  IInv'
<1>1. /\ pc[t] = "revalidate" /\ pc[t] \in FaultSteps /\ "authorize" \in Steps \ ListPcs
      /\ ThreadInv(t) /\ UNCHANGED <<check, ext, free>>
  BY DEF Revalidate, FaultSteps, Steps, ListPcs, IInv, github, store
<1>2. ASSUME pc'[t] = "authorize" /\ me' = me PROVE ThreadInv(t)'
  BY <1>1, <1>2 DEF ThreadInv, CallInv, RowInv, OwnInv, Known, FaultSteps,
     StartPcs, FreePcs, ReviewPcs, LoopPcs
<1> QED BY <1>1, <1>2, AdvanceOrRaise DEF Revalidate

LEMMA AuthorizeStep ==
  ASSUME IInv, NEW t \in Threads, Authorize(t)
  PROVE  IInv'
<1>1. /\ pc[t] = "authorize" /\ pc[t] \in FaultSteps /\ "patch" \in Steps \ ListPcs
      /\ ThreadInv(t) /\ UNCHANGED <<check, ext, free>>
  BY DEF Authorize, FaultSteps, Steps, ListPcs, IInv, github, store
<1>2. ASSUME pc'[t] = "patch" /\ me' = me PROVE ThreadInv(t)'
  BY <1>1, <1>2 DEF ThreadInv, CallInv, RowInv, OwnInv, Known, FaultSteps,
     StartPcs, FreePcs, ReviewPcs, LoopPcs
<1> QED BY <1>1, <1>2, AdvanceOrRaise DEF Authorize

LEMMA ObserveSuccessStep ==
  ASSUME IInv, NEW t \in Threads, ObserveSuccess(t)
  PROVE  IInv'
<1>1. /\ pc[t] = "observe" /\ pc[t] \in FaultSteps /\ "commit" \in Steps \ ListPcs
      /\ ThreadInv(t) /\ UNCHANGED <<check, ext, free>>
  BY DEF ObserveSuccess, FaultSteps, Steps, ListPcs, IInv, github, store
<1>2. ASSUME pc'[t] = "commit" /\ me' = me PROVE ThreadInv(t)'
  BY <1>1, <1>2 DEF ThreadInv, CallInv, RowInv, OwnInv, Known, FaultSteps,
     StartPcs, FreePcs, ReviewPcs, LoopPcs
<1> QED BY <1>1, <1>2, AdvanceOrRaise DEF ObserveSuccess

LEMMA PatchSuccessStep ==
  ASSUME IInv, NEW t \in Threads, PatchSuccess(t)
  PROVE  IInv'
<1> DEFINE k == me[t].chk
           j == me[t].job
<1>1. /\ pc[t] = "patch" /\ pc[t] \in FaultSteps /\ ThreadInv(t) /\ todo' = todo
      /\ k \in CheckIds /\ check[k] # "absent" /\ j \in Jobs
      /\ free[j].state # "none" /\ free[j].chk = k
  BY DEF PatchSuccess, FaultSteps, StartPcs, FreePcs, IInv, ThreadInv, CallInv, RowInv,
     Known, loop
<1>2. check' = [check EXCEPT ![k] = "success"] /\ faults' \in Nat
      /\ UNCHANGED <<owner, ext, failure, free, review>>
  BY DEF PatchSuccess, Spend, IInv, TypeOK, store
<1>3. Grow
  BY <1>1, <1>2 DEF Grow, IInv, TypeOK
<1>4. RowsTyped
  BY <1>1, <1>2 DEF RowsTyped, IInv, TypeOK, CheckState, Conclusions
<1>5. Typed /\ Others(t) /\ NoNewPass /\ ThreadInv(t)' /\ LoopInv'
  <2>1. CASE Goto(t, "observe") /\ UNCHANGED <<me, resp>>
    <3>1. pc'[t] = "observe" /\ me'[t] = me[t] /\ Others(t) /\ NoNewPass
      BY <2>1 DEF Goto, IInv, TypeOK, Others, NoNewPass
    <3>2. Typed
      BY <2>1 DEF Typed, Goto, IInv, TypeOK, Steps, FaultSteps
    <3>3. ThreadInv(t)'
      BY <1>1, <1>2, <1>3, <3>1 DEF ThreadInv, CallInv, RowInv, OwnInv, Known, Grow,
         FaultSteps, StartPcs, FreePcs, ReviewPcs, LoopPcs
    <3>4. SameLoop
      BY <2>1 DEF SameLoop, Goto, ListPcs, IInv, TypeOK
    <3> QED BY <1>1, <1>3, <3>1, <3>2, <3>3, <3>4, LoopStep
  <2>2. CASE Raise(t)
    BY <1>1, <1>3, <2>2, RaiseStep
  <2> QED BY <2>1, <2>2 DEF PatchSuccess
<1>6. TerminalHasEvidence'
  <2>1. "success" \in EvidenceFor(k)
    BY <1>1 DEF EvidenceFor, Conclusions
  <2> QED BY <1>1, <1>2, <1>3, <2>1, EvidenceGrows
      DEF TerminalHasEvidence, IInv, StoreInv, TypeOK
<1>7. StoreInv'
  BY <1>1, <1>2, <1>3, <1>5, <1>6, PassedKeeps DEF StoreInv, IInv, Grow, Known, TypeOK
<1> QED BY <1>2, <1>3, <1>4, <1>5, <1>7, WriteStep DEF PatchSuccess

LEMMA PassedStep ==
  ASSUME IInv, NEW t \in Threads, pc[t] \in FreePcs, Passed(t), Grow, todo' = todo,
         free'[me[t].job].state = "finalized"
  PROVE  /\ Typed /\ Others(t) /\ ThreadInv(t)' /\ LoopInv'
         /\ PassedIsBound' /\ recovered' \in BOOLEAN
<1> USE PublicationAssumption
<1> DEFINE p == IF t = Worker THEN "next_free" ELSE "done"
<1>1. /\ ThreadInv(t) /\ me[t].job \in Jobs /\ Known(me[t].chk)
      /\ p \in Steps /\ "PASSED" \in Answers
  BY DEF IInv, ThreadInv, CallInv, FreePcs, FaultSteps, StartPcs, Steps, Answers
<1>2. /\ pc' = [pc EXCEPT ![t] = p] /\ me' = [me EXCEPT ![t] = Fresh]
      /\ t = Worker => resp' = resp
      /\ t \in Requests => resp' = [resp EXCEPT ![t] = "PASSED"]
      /\ recovered' \in BOOLEAN
  BY DEF Passed, Goto, Reply, IInv, TypeOK
<1>3. pc'[t] = p /\ me'[t] = Fresh /\ Others(t)
  BY <1>2 DEF IInv, TypeOK, Others
<1>4. Typed
  BY <1>1, <1>2, FreshType DEF Typed, IInv, TypeOK, Threads
<1>5. ThreadInv(t)'
  BY <1>3 DEF ThreadInv, CallInv, RowInv, OwnInv, Fresh,
     FaultSteps, StartPcs, FreePcs, ReviewPcs, LoopPcs
<1>6. LoopInv'
  <2>1. CASE t = Worker
    <3>1. me[t].ctx = "recover_free" /\ LoopInv
      BY <1>1, <2>1 DEF ThreadInv, CallInv, IInv
    <3>2. pc'[Worker] = "next_free" /\ me'[Worker].ctx = "none"
      BY <1>3, <2>1 DEF Fresh
    <3>3. todo' \subseteq {j \in Jobs : free'[j].state # "none"}
      BY <2>1, <3>1 DEF LoopInv, Grow
    <3> QED BY <3>2, <3>3 DEF LoopInv
  <2>2. CASE t # Worker
    <3>1. SameLoop
      BY <1>3, <2>2 DEF SameLoop, Others, Threads
    <3> QED BY <3>1, LoopStep
  <2> QED BY <2>1, <2>2
<1>7. PassedIsBound'
  <2> SUFFICES ASSUME NEW r \in Requests, resp'[r] = "PASSED"
               PROVE  free'[JobOf[r]].state = "finalized"
                      /\ ext'[free'[JobOf[r]].chk].of = PhaseOne[r]
    BY DEF PassedIsBound
  <2>1. CASE r = t
    <3>1. /\ me[t].job = JobOf[r] /\ ext[me[t].chk].of = PhaseOne[r]
          /\ free[me[t].job].state # "none" /\ free[me[t].job].chk = me[t].chk
      BY <1>1, <2>1 DEF ThreadInv, OwnInv, RowInv, FreePcs, FaultSteps
    <3>2. ext'[me[t].chk] = ext[me[t].chk]
      BY <1>1 DEF Grow, Known
    <3>3. free'[me[t].job].chk = me[t].chk
      BY <1>1, <3>1 DEF Grow
    <3> QED BY <3>1, <3>2, <3>3, <2>1
  <2>2. CASE r # t
    <3>1. JobOf[r] \in Jobs /\ resp[r] = "PASSED"
      BY <1>2, <2>2 DEF IInv, TypeOK, Threads
    <3>2. /\ free[JobOf[r]].state = "finalized" /\ Known(free[JobOf[r]].chk)
          /\ ext[free[JobOf[r]].chk].of = PhaseOne[r]
      BY <3>1 DEF IInv, StoreInv, PassedIsBound
    <3> QED BY <3>1, <3>2 DEF Grow, Known
  <2> QED BY <2>1, <2>2
<1> QED BY <1>2, <1>3, <1>4, <1>5, <1>6, <1>7

LEMMA CommitFreeStep ==
  ASSUME IInv, NEW t \in Threads, CommitFree(t)
  PROVE  IInv'
<1> DEFINE j == me[t].job
<1>1. /\ pc[t] = "commit" /\ pc[t] \in FaultSteps /\ pc[t] \in FreePcs /\ todo' = todo
      /\ ThreadInv(t) /\ j \in Jobs /\ faults' \in Nat
      /\ UNCHANGED <<check, owner, ext, failure, review>>
  BY DEF CommitFree, IInv, TypeOK, FaultSteps, FreePcs, ThreadInv, CallInv, github
<1>2. CASE free[j].state = "prepared"
  <2>1. free' = [free EXCEPT ![j].state = "finalized"] /\ Passed(t)
    BY <1>2 DEF CommitFree
  <2>2. Grow
    BY <1>1, <1>2, <2>1 DEF Grow, IInv, TypeOK
  <2>3. RowsTyped
    <3>1. free' \in [Jobs -> FreeRow]
      <4>1. free \in [Jobs -> FreeRow]
        BY DEF IInv, TypeOK, FreeRow
      <4>2. [free[j] EXCEPT !.state = "finalized"] \in FreeRow
        BY <1>1, <4>1, FreeRowMoves
      <4> QED BY <2>1, <4>1, <4>2
    <3> QED BY <1>1, <3>1 DEF RowsTyped, IInv, TypeOK, FreeRow
  <2>4. free'[j].state = "finalized"
    BY <1>1, <2>1 DEF IInv, TypeOK
  <2>5. /\ Typed /\ Others(t) /\ ThreadInv(t)' /\ LoopInv'
        /\ PassedIsBound' /\ recovered' \in BOOLEAN
    BY <1>1, <2>1, <2>2, <2>4, PassedStep
  <2>6. StoreInv'
    <3>1. \A i \in Jobs : free'[i].state # "none" => /\ free[i].state # "none"
                                                    /\ free'[i].chk = free[i].chk
      BY <1>1, <1>2, <2>1 DEF IInv, TypeOK
    <3> QED BY <1>1, <2>2, <2>5, <3>1, EvidenceKeeps DEF StoreInv, IInv, Known
  <2>7. WorldTyped
    BY <1>1, <2>5 DEF CommitFree, WorldTyped, IInv, TypeOK, world
  <2> QED BY <2>2, <2>3, <2>5, <2>6, <2>7, ChangeStep
<1>3. CASE free[j].state # "prepared"
  <2>1. Raise(t) /\ UNCHANGED <<status, attempts, github, store, loop, world>>
    BY <1>3 DEF CommitFree, store, loop
  <2> QED BY <1>1, <2>1, RaiseQuiet
<1> QED BY <1>2, <1>3

LEMMA ResumeStep ==
  ASSUME IInv, NEW t \in Threads, Resume(t)
  PROVE  IInv'
<1> DEFINE m == me[t]
<1> USE PublicationAssumption
<1>1. /\ pc[t] = "resume" /\ pc[t] \in FaultSteps /\ pc[t] \in FreePcs /\ todo' = todo
      /\ ThreadInv(t) /\ faults' \in Nat /\ {"revalidate", "observe"} \subseteq Steps \ ListPcs
      /\ UNCHANGED <<status, attempts, github, store, world, check, ext, free>>
  BY DEF Resume, IInv, TypeOK, FaultSteps, FreePcs, Steps, ListPcs, github, store
<1>2. CASE recovered' = recovered /\ Raise(t)
  <2>1. UNCHANGED loop
    BY <1>1, <1>2 DEF loop
  <2> QED BY <1>1, <1>2, <2>1, RaiseQuiet
<1>3. ASSUME NEW p \in {"revalidate", "observe"}, Goto(t, p),
             UNCHANGED <<me, resp, recovered>>
      PROVE  IInv'
  <2>1. pc' = [pc EXCEPT ![t] = p] /\ pc'[t] = p /\ me' = me /\ resp' = resp /\ UNCHANGED loop
    BY <1>1, <1>3 DEF Goto, IInv, TypeOK, loop
  <2>2. ThreadInv(t)'
    BY <1>1, <2>1 DEF ThreadInv, CallInv, RowInv, OwnInv, Known, FaultSteps,
       StartPcs, FreePcs, ReviewPcs, LoopPcs
  <2> QED BY <1>1, <2>1, <2>2, AdvanceStep
<1>4. CASE m.seen = "finalized" /\ Passed(t)
  <2>1. Grow
    BY <1>1 DEF Grow, github, store
  <2>2. free'[m.job].state = "finalized"
    BY <1>1, <1>4 DEF ThreadInv, RowInv
  <2>3. /\ Typed /\ Others(t) /\ ThreadInv(t)' /\ LoopInv'
        /\ PassedIsBound' /\ recovered' \in BOOLEAN
    BY <1>1, <1>4, <2>1, <2>2, PassedStep
  <2>4. StoreInv' /\ RowsTyped
    BY <1>1, <2>1, <2>3, EvidenceKeeps DEF StoreInv, RowsTyped, IInv, TypeOK, Known,
       github, store
  <2>5. WorldTyped
    BY <1>1, <2>3 DEF WorldTyped, IInv, TypeOK, world
  <2> QED BY <2>1, <2>3, <2>4, <2>5, ChangeStep
<1> QED BY <1>2, <1>3, <1>4 DEF Resume

-----------------------------------------------------------------------------
(* The worker's loop *)

\* A step of the worker that writes no row: to step p with locals m.
LEMMA WorkerMove ==
  ASSUME IInv, NEW p \in Steps, NEW m \in Local,
         pc' = [pc EXCEPT ![Worker] = p], me' = [me EXCEPT ![Worker] = m],
         UNCHANGED <<github, store, resp>>, WorldTyped,
         ThreadInv(Worker)', LoopInv'
  PROVE  IInv'
<1> USE PublicationAssumption
<1>1. Worker \in Threads
  BY DEF Threads
<1>2. Typed /\ Others(Worker) /\ NoNewPass
  BY DEF Typed, Others, NoNewPass, IInv, TypeOK
<1> QED BY <1>1, <1>2, QuietStep

\* At the head of the loop, or down, the worker relies on nothing.
LEMMA AtLoop ==
  ASSUME pc'[Worker] \in LoopPcs, me'[Worker].ctx = "none"
  PROVE  ThreadInv(Worker)'
BY PublicationAssumption DEF ThreadInv, CallInv, RowInv, OwnInv, LoopPcs,
   FaultSteps, StartPcs, FreePcs, ReviewPcs

LEMMA ReconcileStep ==
  ASSUME IInv, Reconcile(Worker)
  PROVE  IInv'
<1>1. /\ Worker \in Threads /\ me[Worker] \in Local /\ me[Worker].ctx = "none"
      /\ "list_free" \in Steps
  BY DEF Reconcile, IInv, TypeOK, ThreadInv, CallInv, Threads, LoopPcs, Steps
<1>2. /\ pc' = [pc EXCEPT ![Worker] = "list_free"] /\ me' = [me EXCEPT ![Worker] = me[Worker]]
      /\ pc'[Worker] = "list_free" /\ me'[Worker] = me[Worker]
      /\ UNCHANGED <<github, store, resp>>
  BY <1>1 DEF Reconcile, Goto, IInv, TypeOK
<1>3. status' \in [Jobs -> JobStatus]
  <2>1. \A j \in Jobs : Reconciled(j) \in JobStatus
    BY DEF Reconciled, JobStatus
  <2> QED BY <2>1 DEF Reconcile, IInv, TypeOK
<1>4. WorldTyped
  BY <1>3 DEF Reconcile, WorldTyped, world, IInv, TypeOK
<1>5. ThreadInv(Worker)' /\ LoopInv'
  BY <1>1, <1>2, AtLoop DEF LoopPcs, LoopInv
<1> QED BY <1>1, <1>2, <1>4, <1>5, WorkerMove

LEMMA ListPendingStep ==
  ASSUME IInv, ListPending(Worker)
  PROVE  IInv'
<1>1. /\ Worker \in Threads /\ me[Worker] \in Local /\ me[Worker].ctx = "none" /\ LoopInv
  BY DEF ListPending, IInv, TypeOK, ThreadInv, CallInv, Threads, LoopPcs
<1>2. PICK p \in {"next_free", "next_review", "next_failure", "reconcile", "claim"} :
        /\ pc' = [pc EXCEPT ![Worker] = p]
        /\ p = "next_free" => todo' = PendingFree
        /\ p = "next_review" => todo' = PendingReviews
        /\ p = "next_failure" => todo' = PendingFailures
        /\ p \in {"reconcile", "claim"} => todo' = todo
  BY DEF ListPending, Goto
<1>3. /\ p \in Steps /\ p \in LoopPcs
      /\ me' = [me EXCEPT ![Worker] = me[Worker]]
      /\ pc'[Worker] = p /\ me'[Worker] = me[Worker]
      /\ UNCHANGED <<github, store, resp, free, review, failure>>
  BY <1>1, <1>2 DEF ListPending, IInv, TypeOK, Steps, LoopPcs, store
<1>4. /\ PendingFree \subseteq {j \in Jobs : free[j].state # "none"}
      /\ PendingReviews \subseteq {j \in Jobs : review[j].state # "none"}
      /\ PendingFailures \subseteq {k \in CheckIds : failure[k].state # "none"}
  BY DEF PendingFree, PendingReviews, PendingFailures
<1>5. LoopInv'
  BY <1>1, <1>2, <1>3, <1>4 DEF LoopInv
<1>6. todo' \subseteq Jobs \cup CheckIds
  BY <1>2, <1>4 DEF IInv, TypeOK
<1>7. WorldTyped
  BY <1>6 DEF ListPending, WorldTyped, world, IInv, TypeOK
<1> QED BY <1>1, <1>3, <1>2, <1>5, <1>7, AtLoop, WorkerMove

LEMMA TakePendingStep ==
  ASSUME IInv, TakePending(Worker)
  PROVE  IInv'
<1> USE PublicationAssumption
<1>1. /\ Worker \in Threads /\ Worker \notin Requests /\ me[Worker] \in Local /\ LoopInv
      /\ UNCHANGED <<github, store, resp, check, free, review, failure>>
      /\ {"resume", "recover_review", "recover_failure"} \subseteq Steps
  BY DEF TakePending, IInv, TypeOK, Threads, Steps, FaultSteps, github, store
<1>2. PICK x \in todo :
    /\ todo' = todo \ {x}
    /\ \/ /\ pc[Worker] = "next_free" /\ enrolled /\ Goto(Worker, "resume")
          /\ me' = [me EXCEPT ![Worker] = [Fresh EXCEPT !.ctx = "recover_free",
                      !.job = x, !.chk = free[x].chk, !.seen = "prepared"]]
          /\ UNCHANGED faults
       \/ /\ pc[Worker] = "next_review" /\ enrolled /\ Goto(Worker, "recover_review")
          /\ me' = [me EXCEPT ![Worker] = [Fresh EXCEPT !.ctx = "recover_review",
                      !.job = x, !.chk = review[x].chk, !.concl = review[x].concl]]
          /\ UNCHANGED faults
       \/ /\ pc[Worker] = "next_failure" /\ enrolled /\ Goto(Worker, "recover_failure")
          /\ me' = [me EXCEPT ![Worker] = [Fresh EXCEPT !.ctx = "recover_failure",
                      !.job = owner[x], !.chk = x, !.concl = failure[x].concl]]
          /\ UNCHANGED faults
       \/ /\ pc[Worker] \in {"next_free", "next_review", "next_failure"}
          /\ \/ ~enrolled /\ UNCHANGED faults
             \/ enrolled /\ Spend
          /\ UNCHANGED <<pc, me>>
  BY DEF TakePending
<1>3. WorldTyped
  BY <1>2 DEF TakePending, WorldTyped, world, Spend, IInv, TypeOK
<1>4. CASE UNCHANGED <<pc, me>> /\ pc[Worker] \in ListPcs
  <2>1. /\ pc' = [pc EXCEPT ![Worker] = pc[Worker]] /\ me' = [me EXCEPT ![Worker] = me[Worker]]
        /\ pc[Worker] \in Steps
    BY <1>1, <1>4 DEF IInv, TypeOK
  <2>2. ThreadInv(Worker)'
    <3>1. me[Worker].ctx = "none"
      BY <1>1, <1>4 DEF IInv, ThreadInv, CallInv, ListPcs, LoopPcs
    <3> QED BY <1>4, <3>1, AtLoop DEF ListPcs, LoopPcs
  <2>3. LoopInv'
    BY <1>1, <1>2, <1>4 DEF LoopInv
  <2> QED BY <1>1, <1>3, <2>1, <2>2, <2>3, WorkerMove
<1>5. CASE pc[Worker] = "next_free" /\ Goto(Worker, "resume")
  <2> DEFINE m == [Fresh EXCEPT !.ctx = "recover_free",
                      !.job = x, !.chk = free[x].chk, !.seen = "prepared"]
  <2>1. x \in Jobs /\ free[x].state # "none" /\ Known(free[x].chk)
        /\ todo' \subseteq {j \in Jobs : free'[j].state # "none"}
    BY <1>1, <1>2, <1>5 DEF LoopInv, IInv, StoreInv
  <2>2. /\ m \in Local /\ m.job = x /\ m.chk = free[x].chk /\ m.ctx = "recover_free"
        /\ m.seen = "prepared"
    BY <2>1, FreshType DEF Fresh, Local, Known, WorkerCtx, Stage
  <2>3. /\ pc' = [pc EXCEPT ![Worker] = "resume"] /\ me' = [me EXCEPT ![Worker] = m]
        /\ pc'[Worker] = "resume" /\ me'[Worker] = m
    BY <1>1, <1>2, <1>5 DEF Goto, IInv, TypeOK
  <2> HIDE DEF m
  <2>4. ThreadInv(Worker)'
    BY <1>1, <2>1, <2>2, <2>3 DEF ThreadInv, CallInv, RowInv, OwnInv, Known, WorkerCtx,
       FaultSteps, StartPcs, FreePcs, ReviewPcs, LoopPcs
  <2>5. LoopInv'
    BY <2>1, <2>2, <2>3 DEF LoopInv
  <2> QED BY <1>1, <1>3, <2>2, <2>3, <2>4, <2>5, WorkerMove
<1>6. CASE pc[Worker] = "next_review" /\ Goto(Worker, "recover_review")
  <2> DEFINE m == [Fresh EXCEPT !.ctx = "recover_review",
                      !.job = x, !.chk = review[x].chk, !.concl = review[x].concl]
  <2>1. x \in Jobs /\ review[x].state # "none" /\ Known(review[x].chk)
        /\ review[x].concl \in Conclusions
        /\ todo' \subseteq {j \in Jobs : review'[j].state # "none"}
    BY <1>1, <1>2, <1>6 DEF LoopInv, IInv, StoreInv, TypeOK
  <2>2. /\ m \in Local /\ m.job = x /\ m.chk = review[x].chk /\ m.ctx = "recover_review"
        /\ m.concl = review[x].concl
    BY <2>1, FreshType DEF Fresh, Local, Known, WorkerCtx
  <2>3. /\ pc' = [pc EXCEPT ![Worker] = "recover_review"] /\ me' = [me EXCEPT ![Worker] = m]
        /\ pc'[Worker] = "recover_review" /\ me'[Worker] = m
    BY <1>1, <1>2, <1>6 DEF Goto, IInv, TypeOK
  <2> HIDE DEF m
  <2>4. ThreadInv(Worker)'
    BY <1>1, <2>1, <2>2, <2>3 DEF ThreadInv, CallInv, RowInv, OwnInv, Known, WorkerCtx,
       FaultSteps, StartPcs, FreePcs, ReviewPcs, LoopPcs
  <2>5. LoopInv'
    BY <2>1, <2>2, <2>3 DEF LoopInv
  <2> QED BY <1>1, <1>3, <2>2, <2>3, <2>4, <2>5, WorkerMove
<1>7. CASE pc[Worker] = "next_failure" /\ Goto(Worker, "recover_failure")
  <2> DEFINE m == [Fresh EXCEPT !.ctx = "recover_failure",
                      !.job = owner[x], !.chk = x, !.concl = failure[x].concl]
  <2>1. x \in CheckIds /\ failure[x].state # "none" /\ check[x] # "absent"
        /\ failure[x].concl \in Conclusions /\ owner[x] \in Jobs
        /\ todo' \subseteq {k \in CheckIds : failure'[k].state # "none"}
    BY <1>1, <1>2, <1>7 DEF LoopInv, IInv, StoreInv, TypeOK
  <2>2. /\ m \in Local /\ m.job = owner[x] /\ m.chk = x /\ m.ctx = "recover_failure"
    BY <2>1, FreshType DEF Fresh, Local, WorkerCtx
  <2>3. /\ pc' = [pc EXCEPT ![Worker] = "recover_failure"] /\ me' = [me EXCEPT ![Worker] = m]
        /\ pc'[Worker] = "recover_failure" /\ me'[Worker] = m
    BY <1>1, <1>2, <1>7 DEF Goto, IInv, TypeOK
  <2> HIDE DEF m
  <2>4. ThreadInv(Worker)'
    BY <1>1, <2>1, <2>2, <2>3 DEF ThreadInv, CallInv, RowInv, OwnInv, Known, WorkerCtx,
       FaultSteps, StartPcs, FreePcs, ReviewPcs, LoopPcs
  <2>5. LoopInv'
    BY <2>1, <2>2, <2>3 DEF LoopInv
  <2> QED BY <1>1, <1>3, <2>2, <2>3, <2>4, <2>5, WorkerMove
<1> QED BY <1>2, <1>4, <1>5, <1>6, <1>7 DEF ListPcs

LEMMA RecoverFailureStep ==
  ASSUME IInv, RecoverFailure(Worker)
  PROVE  IInv'
<1> DEFINE p == IF check[me[Worker].chk] = me[Worker].concl THEN "f_check" ELSE "f_auth"
<1>1. /\ Worker \in Threads /\ pc[Worker] = "recover_failure" /\ pc[Worker] \in FaultSteps
      /\ ThreadInv(Worker) /\ UNCHANGED <<check>> /\ faults' \in Nat
      /\ p \in Steps \ ListPcs /\ p \in {"f_check", "f_auth"}
  BY DEF RecoverFailure, IInv, TypeOK, Threads, FaultSteps, Steps, ListPcs, github
<1>2. pc' = [pc EXCEPT ![Worker] = p] /\ pc'[Worker] = p /\ me' = me /\ resp' = resp
  BY <1>1 DEF RecoverFailure, Goto, IInv, TypeOK
<1> HIDE DEF p
<1>3. ThreadInv(Worker)'
  BY <1>1, <1>2, PublicationAssumption DEF ThreadInv, CallInv, RowInv, OwnInv, Known, FaultSteps,
     StartPcs, FreePcs, ReviewPcs, LoopPcs
<1> QED BY <1>1, <1>2, <1>3, AdvanceStep DEF RecoverFailure

LEMMA ClaimStep ==
  ASSUME IInv, Claim(Worker)
  PROVE  IInv'
<1> USE PublicationAssumption
<1>1. /\ Worker \in Threads /\ Worker \notin Requests
      /\ me[Worker] \in Local /\ me[Worker].ctx = "none"
      /\ {"reconcile", "process"} \subseteq Steps /\ todo' = todo
      /\ UNCHANGED <<github, store, resp>>
  BY DEF Claim, IInv, TypeOK, ThreadInv, CallInv, Threads, LoopPcs, Steps, FaultSteps, loop
<1>2. CASE Goto(Worker, "reconcile") /\ UNCHANGED <<status, attempts, me>>
  <2>1. /\ pc' = [pc EXCEPT ![Worker] = "reconcile"] /\ me' = [me EXCEPT ![Worker] = me[Worker]]
        /\ pc'[Worker] = "reconcile" /\ me'[Worker] = me[Worker]
    BY <1>1, <1>2 DEF Goto, IInv, TypeOK
  <2>2. ThreadInv(Worker)' /\ LoopInv'
    BY <1>1, <2>1, AtLoop DEF LoopPcs, LoopInv
  <2>3. WorldTyped
    BY <1>2 DEF Claim, WorldTyped, loop, world, IInv, TypeOK
  <2> QED BY <1>1, <2>1, <2>2, <2>3, WorkerMove
<1>3. ASSUME NEW j \in Jobs, Goto(Worker, "process"),
             status' = [status EXCEPT ![j] = "running"],
             attempts' = [attempts EXCEPT ![j] = @ + 1],
             me' = [me EXCEPT ![Worker] = [Fresh EXCEPT !.ctx = "process", !.job = j]]
      PROVE  IInv'
  <2> DEFINE m == [Fresh EXCEPT !.ctx = "process", !.job = j]
  <2>1. m \in Local /\ m.job = j /\ m.ctx = "process"
    BY FreshType DEF Fresh, Local, WorkerCtx
  <2>2. /\ pc' = [pc EXCEPT ![Worker] = "process"] /\ me' = [me EXCEPT ![Worker] = m]
        /\ pc'[Worker] = "process" /\ me'[Worker] = m
    BY <1>1, <1>3 DEF Goto, IInv, TypeOK
  <2> HIDE DEF m
  <2>3. ThreadInv(Worker)' /\ LoopInv'
    BY <1>1, <2>1, <2>2 DEF ThreadInv, CallInv, RowInv, OwnInv, LoopInv, WorkerCtx,
       FaultSteps, StartPcs, FreePcs, ReviewPcs, LoopPcs
  <2>4. WorldTyped
    <3>1. UNCHANGED <<todo, recovered, enrolled, crashes, toggles, faults>>
      BY DEF Claim, loop, world
    <3>2. status' \in [Jobs -> JobStatus]
      BY <1>3 DEF IInv, TypeOK, JobStatus
    <3>3. attempts' \in [Jobs -> Nat]
      BY <1>3 DEF IInv, TypeOK
    <3> QED BY <3>1, <3>2, <3>3 DEF WorldTyped, IInv, TypeOK
  <2> QED BY <1>1, <2>1, <2>2, <2>3, <2>4, WorkerMove
<1> QED BY <1>2, <1>3 DEF Claim

LEMMA ProcessStep ==
  ASSUME IInv, Process(Worker)
  PROVE  IInv'
<1> USE PublicationAssumption
<1>1. /\ Worker \in Threads /\ Worker \notin Requests /\ ThreadInv(Worker)
      /\ me[Worker] \in Local /\ me[Worker].job \in Jobs
      /\ pc[Worker] = "process" /\ me[Worker].ctx \in WorkerCtx
      /\ me[Worker].ctx \in {"bind_create", "process", "review_create"}
      /\ {"finish_failed", "create"} \subseteq Steps /\ todo' = todo
      /\ UNCHANGED <<github, store, resp>> /\ WorldTyped
  BY DEF Process, IInv, TypeOK, ThreadInv, CallInv, Threads, StartPcs, Steps, FaultSteps, loop,
     world, WorldTyped
<1>2. PICK p \in {"finish_failed", "create"}, m \in Local :
        /\ pc' = [pc EXCEPT ![Worker] = p] /\ me' = [me EXCEPT ![Worker] = m]
        /\ m.job = me[Worker].job
        /\ p = "create" => m.ctx \in {"process", "review_create"}
        /\ p = "finish_failed" => m = me[Worker]
  <2>1. CASE Goto(Worker, "finish_failed") /\ UNCHANGED me
    <3>1. /\ pc' = [pc EXCEPT ![Worker] = "finish_failed"]
          /\ me' = [me EXCEPT ![Worker] = me[Worker]]
      BY <2>1 DEF Goto, IInv, TypeOK
    <3> QED BY <1>1, <3>1
  <2>2. ASSUME NEW q \in Reasons, Goto(Worker, "create"),
               me' = [me EXCEPT ![Worker].why = q, ![Worker].concl = ConclusionOf[q]]
        PROVE  \E m \in Local :
          /\ pc' = [pc EXCEPT ![Worker] = "create"] /\ me' = [me EXCEPT ![Worker] = m]
          /\ m.job = me[Worker].job /\ m.ctx \in {"process", "review_create"}
    <3> DEFINE c == ConclusionOf[q]
               m == [me[Worker] EXCEPT !.why = q, !.concl = c]
    <3>1. c \in Conclusions
      BY DEF ConclusionOf, Conclusions, Reasons
    <3> HIDE DEF c
    <3>2. m \in Local /\ m.job = me[Worker].job /\ m.ctx = me[Worker].ctx
      BY <1>1, <3>1 DEF Local
    <3>3. me' = [me EXCEPT ![Worker].why = q, ![Worker].concl = c]
      BY <2>2 DEF c
    <3>4. me' = [me EXCEPT ![Worker] = m]
      BY <3>3, <1>1 DEF IInv, TypeOK
    <3> QED BY <2>2, <3>2, <3>4, <1>1 DEF Goto, WorkerCtx
  <2>3. ASSUME NEW v \in {"success", "action_required"}, Goto(Worker, "create"),
               me' = [me EXCEPT ![Worker].ctx = "review_create", ![Worker].concl = v]
        PROVE  \E m \in Local :
          /\ pc' = [pc EXCEPT ![Worker] = "create"] /\ me' = [me EXCEPT ![Worker] = m]
          /\ m.job = me[Worker].job /\ m.ctx \in {"process", "review_create"}
    <3> DEFINE m == [me[Worker] EXCEPT !.ctx = "review_create", !.concl = v]
    <3>1. m \in Local /\ m.job = me[Worker].job /\ m.ctx = "review_create"
      BY <1>1 DEF Local, WorkerCtx, Conclusions
    <3>2. me' = [me EXCEPT ![Worker] = m]
      BY <2>3, <1>1 DEF IInv, TypeOK
    <3> QED BY <2>3, <3>1, <3>2 DEF Goto
  <2> QED BY <2>1, <2>2, <2>3 DEF Process
<1>3. pc'[Worker] = p /\ me'[Worker] = m /\ p \in Steps
  BY <1>1, <1>2 DEF IInv, TypeOK
<1>4. ThreadInv(Worker)'
  BY <1>1, <1>2, <1>3 DEF ThreadInv, CallInv, RowInv, OwnInv, WorkerCtx,
     FaultSteps, StartPcs, FreePcs, ReviewPcs, LoopPcs
<1>5. LoopInv'
  BY <1>1, <1>2, <1>3 DEF LoopInv
<1> QED BY <1>1, <1>2, <1>3, <1>4, <1>5, WorkerMove

LEMMA FinishStep ==
  ASSUME IInv, Finish(Worker)
  PROVE  IInv'
<1> USE PublicationAssumption
<1> DEFINE c == me[Worker].ctx
<1>1. /\ Worker \in Threads /\ ThreadInv(Worker) /\ LoopInv /\ todo' = todo
      /\ UNCHANGED <<github, store, resp>> /\ UNCHANGED <<free, review, failure>>
      /\ me' = [me EXCEPT ![Worker] = Fresh] /\ me'[Worker] = Fresh
  BY DEF Finish, IInv, TypeOK, Threads, store
<1>2. PICK p \in {"next_review", "next_failure", "reconcile"} :
        /\ Goto(Worker, p)
        /\ p = "next_review" => c \in {"recover_review", "recover_review_exc"}
        /\ p = "next_failure" => c = "recover_failure"
  BY DEF Finish
<1>3. pc' = [pc EXCEPT ![Worker] = p] /\ pc'[Worker] = p /\ p \in Steps
  BY <1>1, <1>2 DEF Goto, IInv, TypeOK, Steps
<1>4. ThreadInv(Worker)'
  BY <1>1, <1>3, AtLoop DEF LoopPcs, Fresh
<1>5. LoopInv'
  <2>1. me'[Worker].ctx = "none"
    BY <1>1 DEF Fresh
  <2> QED BY <1>1, <1>2, <1>3, <2>1 DEF LoopInv
<1>6. WorldTyped
  <2>1. UNCHANGED <<attempts, todo, enrolled, crashes, toggles>> /\ faults' \in Nat
    BY DEF Finish, world, Spend, IInv, TypeOK
  <2>2. status' \in [Jobs -> JobStatus]
    <3>1. "completed" \in JobStatus /\ "failed" \in JobStatus
      BY DEF JobStatus
    <3> QED BY <3>1 DEF Finish, IInv, TypeOK
  <2>3. recovered' \in BOOLEAN
    <3>1. \/ recovered' = recovered
          \/ recovered' = (recovered \/ c \in {"recover_review", "recover_failure"})
      BY DEF Finish
    <3>2. recovered \in BOOLEAN
      BY DEF IInv, TypeOK
    <3> QED BY <3>1, <3>2, Zenon
  <2> QED BY <2>1, <2>2, <2>3 DEF WorldTyped, IInv, TypeOK
<1> QED BY <1>1, <1>3, <1>4, <1>5, <1>6, FreshType, WorkerMove

-----------------------------------------------------------------------------
(* Publishing a paid review *)

LEMMA PrepareReviewStep ==
  ASSUME IInv, PrepareReview(Worker)
  PROVE  IInv'
<1> USE PublicationAssumption
<1> DEFINE m == me[Worker]
           j == m.job
           n == [m EXCEPT !.ctx = "review_record"]
           ok == /\ check[m.chk] = "in_progress" /\ status[m.job] = "running"
                 /\ enrolled /\ review[m.job].state = "none"
<1>1. /\ Worker \in Threads /\ Worker \notin Requests /\ m \in Local /\ j \in Jobs
      /\ pc[Worker] = "review_prepare" /\ pc[Worker] \in FaultSteps /\ ThreadInv(Worker)
      /\ todo' = todo /\ m.chk \in CheckIds /\ check[m.chk] # "absent" /\ faults' \in Nat
      /\ UNCHANGED <<check, owner, ext, failure, free>>
  BY DEF PrepareReview, IInv, TypeOK, Threads, FaultSteps, StartPcs, ThreadInv, CallInv,
     Known, github, loop
<1>2. CASE ok
  <2>1. /\ review' = [review EXCEPT ![j] =
               [state |-> "prepared", chk |-> m.chk, concl |-> m.concl]]
        /\ pc' = [pc EXCEPT ![Worker] = "record"] /\ resp' = resp
        /\ me' = [me EXCEPT ![Worker] = n] /\ me'[Worker] = n /\ pc'[Worker] = "record"
    BY <1>1, <1>2 DEF PrepareReview, Goto, IInv, TypeOK
  <2>2. /\ n \in Local /\ n.job = j /\ n.chk = m.chk /\ n.concl = m.concl
        /\ n.ctx = "review_record" /\ m.concl \in Conclusions
    BY <1>1 DEF Local, WorkerCtx
  <2> HIDE DEF n
  <2>3. Grow
    BY <1>1, <1>2, <2>1 DEF Grow, IInv, TypeOK
  <2>4. RowsTyped
    BY <1>1, <2>1, <2>2 DEF RowsTyped, IInv, TypeOK, Stage
  <2>5. Others(Worker) /\ NoNewPass
    BY <2>1 DEF IInv, TypeOK, Others, NoNewPass
  <2>6. Typed
    BY <2>1, <2>2 DEF Typed, IInv, TypeOK, Steps, FaultSteps
  <2>7. ThreadInv(Worker)'
    <3>1. /\ review'[j].state = "prepared" /\ review'[j].chk = m.chk
          /\ review'[j].concl = m.concl
      BY <1>1, <2>1 DEF IInv, TypeOK
    <3> QED BY <1>1, <2>1, <2>2, <3>1 DEF ThreadInv, CallInv, RowInv, OwnInv, Known,
       FaultSteps, StartPcs, FreePcs, ReviewPcs, LoopPcs, WorkerCtx
  <2>8. LoopInv'
    <3>1. SameLoop
      BY <2>1, <2>2 DEF SameLoop, ListPcs, RecoverCtx
    <3> QED BY <1>1, <2>3, <3>1, LoopStep
  <2>9. StoreInv'
    BY <1>1, <2>1, <2>3, <2>5, PassedKeeps, EvidenceKeeps DEF StoreInv, IInv, TypeOK, Known
  <2> QED BY <1>1, <2>3, <2>4, <2>5, <2>6, <2>7, <2>8, <2>9, WriteStep DEF PrepareReview
<1>3. CASE ~ok
  <2>1. Raise(Worker) /\ UNCHANGED <<status, attempts, github, store, loop, world>>
    BY <1>3 DEF PrepareReview, store
  <2> QED BY <1>1, <2>1, RaiseQuiet
<1> QED BY <1>2, <1>3

LEMMA UnverifiedStep ==
  ASSUME IInv, pc[Worker] \in ReviewPcs, Unverified(Worker),
         UNCHANGED <<status, attempts, github, store, loop, world, faults>>
  PROVE  IInv'
<1> USE PublicationAssumption
<1> DEFINE m == me[Worker]
           n == [m EXCEPT !.ctx = "recover_review_exc", !.concl = "action_required", !.link = TRUE]
<1>1. /\ Worker \in Threads /\ Worker \notin Requests /\ m \in Local /\ m.job \in Jobs
      /\ pc[Worker] \in FaultSteps /\ ThreadInv(Worker) /\ LoopInv
      /\ Known(m.chk) /\ faults' \in Nat
      /\ UNCHANGED <<check, ext, failure, free, review, todo>>
      /\ {"f_observe", "next_review"} \subseteq Steps
  BY DEF IInv, TypeOK, Threads, ReviewPcs, FaultSteps, StartPcs, ThreadInv, CallInv,
     Known, github, store, loop, Steps
<1>2. CASE m.ctx # "recover_review"
  BY <1>1, <1>2, RaiseQuiet DEF Unverified
<1>3. CASE m.ctx = "recover_review" /\ enrolled
  <2>1. /\ pc' = [pc EXCEPT ![Worker] = "f_observe"] /\ resp' = resp
        /\ me' = [me EXCEPT ![Worker] = n] /\ me'[Worker] = n /\ pc'[Worker] = "f_observe"
    BY <1>1, <1>3 DEF Unverified, Goto, IInv, TypeOK
  <2>2. /\ n \in Local /\ n.job = m.job /\ n.chk = m.chk /\ n.ctx = "recover_review_exc"
    BY <1>1 DEF Local, WorkerCtx, Conclusions
  <2> HIDE DEF n
  <2>3. ThreadInv(Worker)'
    BY <1>1, <2>1, <2>2 DEF ThreadInv, CallInv, RowInv, OwnInv, Known,
       FaultSteps, StartPcs, FreePcs, ReviewPcs, LoopPcs, WorkerCtx
  <2>4. SameLoop /\ NoNewPass /\ resp' \in [Requests -> Answers]
    BY <1>3, <2>1, <2>2 DEF SameLoop, ListPcs, NoNewPass, IInv, TypeOK
  <2> QED BY <1>1, <2>1, <2>2, <2>3, <2>4, MoveStep
<1>4. CASE m.ctx = "recover_review" /\ ~enrolled
  <2>1. /\ pc' = [pc EXCEPT ![Worker] = "next_review"] /\ resp' = resp
        /\ me' = [me EXCEPT ![Worker] = Fresh] /\ me'[Worker] = Fresh
        /\ pc'[Worker] = "next_review"
    BY <1>1, <1>4 DEF Unverified, Goto, IInv, TypeOK
  <2>2. me'[Worker].ctx = "none"
    BY <2>1 DEF Fresh
  <2>3. ThreadInv(Worker)' /\ LoopInv'
    BY <1>1, <1>4, <2>1, <2>2, AtLoop DEF LoopPcs, LoopInv
  <2>4. WorldTyped
    BY DEF WorldTyped, loop, world, IInv, TypeOK
  <2> QED BY <1>1, <2>1, <2>3, <2>4, FreshType, WorkerMove
<1> QED BY <1>2, <1>3, <1>4

LEMMA RecoverReviewStep ==
  ASSUME IInv, RecoverReview(Worker)
  PROVE  IInv'
<1> USE PublicationAssumption
<1> DEFINE m == me[Worker]
           n == [m EXCEPT !.seen = check[m.chk]]
<1>1. /\ Worker \in Threads /\ Worker \notin Requests /\ m \in Local
      /\ pc[Worker] = "recover_review" /\ pc[Worker] \in ReviewPcs /\ ThreadInv(Worker)
      /\ check[m.chk] \in CheckState /\ faults' \in Nat
      /\ UNCHANGED <<check, review>> /\ "record" \in Steps
  BY DEF RecoverReview, IInv, TypeOK, Threads, ReviewPcs, FaultSteps, StartPcs, ThreadInv,
     CallInv, Known, github, store, Steps
<1>2. CASE check[m.chk] \in {"in_progress", m.concl}
  <2>1. /\ pc' = [pc EXCEPT ![Worker] = "record"] /\ resp' = resp
        /\ me' = [me EXCEPT ![Worker] = n] /\ me'[Worker] = n /\ pc'[Worker] = "record"
    BY <1>1, <1>2 DEF RecoverReview, Goto, IInv, TypeOK
  <2>2. /\ n \in Local /\ n.job = m.job /\ n.chk = m.chk /\ n.ctx = m.ctx /\ n.concl = m.concl
    BY <1>1 DEF Local
  <2> HIDE DEF n
  <2>3. ThreadInv(Worker)'
    BY <1>1, <2>1, <2>2 DEF ThreadInv, CallInv, RowInv, OwnInv, Known,
       FaultSteps, StartPcs, FreePcs, ReviewPcs, LoopPcs
  <2>4. SameLoop /\ NoNewPass /\ resp' \in [Requests -> Answers]
    BY <2>1, <2>2 DEF SameLoop, ListPcs, NoNewPass, IInv, TypeOK
  <2> QED BY <1>1, <2>1, <2>2, <2>3, <2>4, MoveStep DEF RecoverReview
<1>3. CASE check[m.chk] \notin {"in_progress", m.concl}
  BY <1>1, <1>3, UnverifiedStep DEF RecoverReview
<1> QED BY <1>2, <1>3

LEMMA RecordReviewStep ==
  ASSUME IInv, RecordReview(Worker)
  PROVE  IInv'
<1> USE PublicationAssumption
<1> DEFINE m == me[Worker]
           j == m.job
           p == IF m.ctx = "recover_review" /\ m.seen # "in_progress"
                THEN "finish_ok" ELSE "review_auth"
           n == [m EXCEPT !.ctx = IF @ = "review_record" THEN "review_publish" ELSE @]
           ok == /\ check[m.chk] \in {"in_progress", m.concl} /\ enrolled
                 /\ review[m.job].chk = m.chk
                 /\ review[m.job].state \in {"prepared", "finalized"}
<1>1. /\ Worker \in Threads /\ Worker \notin Requests /\ m \in Local /\ j \in Jobs
      /\ pc[Worker] = "record" /\ pc[Worker] \in ReviewPcs /\ ThreadInv(Worker)
      /\ todo' = todo /\ Known(m.chk) /\ faults' \in Nat
      /\ UNCHANGED <<check, owner, ext, failure, free>>
  BY DEF RecordReview, IInv, TypeOK, Threads, ReviewPcs, FaultSteps, StartPcs, ThreadInv,
     CallInv, github, loop
<1>2. CASE ok
  <2>1. /\ review' = [review EXCEPT ![j].state = "finalized"]
        /\ pc' = [pc EXCEPT ![Worker] = p] /\ resp' = resp
        /\ me' = [me EXCEPT ![Worker] = n] /\ me'[Worker] = n /\ pc'[Worker] = p
    BY <1>1, <1>2 DEF RecordReview, Goto, IInv, TypeOK
  <2>2. /\ n \in Local /\ n.job = j /\ n.chk = m.chk /\ n.concl = m.concl
        /\ n.ctx \in {m.ctx, "review_publish"}
        /\ p \in {"finish_ok", "review_auth"}
    BY <1>1 DEF Local, WorkerCtx
  <2> HIDE DEF n, p
  <2>3. Grow
    BY <1>1, <1>2, <2>1 DEF Grow, IInv, TypeOK
  <2>4. RowsTyped
    <3>1. review' \in [Jobs -> ReviewRow]
      <4>1. review \in [Jobs -> ReviewRow]
        BY DEF IInv, TypeOK, ReviewRow
      <4>2. [review[j] EXCEPT !.state = "finalized"] \in ReviewRow
        BY <1>1, <4>1, ReviewRowMoves
      <4> QED BY <2>1, <4>1, <4>2
    <3> QED BY <1>1, <3>1 DEF RowsTyped, IInv, TypeOK, ReviewRow
  <2>5. Others(Worker) /\ NoNewPass
    BY <2>1 DEF IInv, TypeOK, Others, NoNewPass
  <2>6. Typed
    BY <2>1, <2>2 DEF Typed, IInv, TypeOK, Steps, FaultSteps
  <2>7. ThreadInv(Worker)'
    <3>1. /\ review'[j].state = "finalized" /\ review'[j].chk = m.chk
          /\ review'[j].concl = m.concl
      BY <1>1, <2>1 DEF IInv, TypeOK, ThreadInv, RowInv
    <3>2. m.ctx \in WorkerCtx
      BY <1>1 DEF ThreadInv, CallInv, ReviewPcs, FaultSteps
    <3> QED BY <1>1, <2>1, <2>2, <3>1, <3>2 DEF ThreadInv, CallInv, RowInv, OwnInv, Known,
       FaultSteps, StartPcs, FreePcs, ReviewPcs, LoopPcs, WorkerCtx
  <2>8. LoopInv'
    <3>1. SameLoop
      BY <2>1, <2>2 DEF SameLoop, ListPcs, RecoverCtx
    <3> QED BY <1>1, <2>3, <3>1, LoopStep
  <2>9. StoreInv'
    <3>1. \A i \in Jobs : review'[i].state # "none" => /\ review[i].state # "none"
                                                      /\ review'[i].chk = review[i].chk
      BY <1>1, <1>2, <2>1 DEF IInv, TypeOK
    <3> QED BY <1>1, <2>3, <2>5, <3>1, PassedKeeps, EvidenceKeeps DEF StoreInv, IInv, Known
  <2> QED BY <1>1, <2>3, <2>4, <2>5, <2>6, <2>7, <2>8, <2>9, WriteStep DEF RecordReview
<1>3. CASE ~ok
  <2>1. Unverified(Worker) /\ UNCHANGED <<status, attempts, github, store, loop, world, faults>>
    BY <1>3 DEF RecordReview, store
  <2> QED BY <1>1, <2>1, UnverifiedStep
<1> QED BY <1>2, <1>3

LEMMA AuthorizeReviewStep ==
  ASSUME IInv, AuthorizeReview(Worker)
  PROVE  IInv'
<1> USE PublicationAssumption
<1> DEFINE m == me[Worker]
           ok == review[m.job].state = "finalized" /\ review[m.job].chk = m.chk
<1>1. /\ Worker \in Threads /\ Worker \notin Requests
      /\ pc[Worker] = "review_auth" /\ pc[Worker] \in ReviewPcs /\ pc[Worker] \in FaultSteps
      /\ ThreadInv(Worker) /\ "review_patch" \in Steps \ ListPcs /\ UNCHANGED <<check, review>>
  BY DEF AuthorizeReview, IInv, Threads, ReviewPcs, FaultSteps, Steps, ListPcs, github, store
<1>2. CASE ok
  <2>1. ASSUME pc'[Worker] = "review_patch" /\ me' = me PROVE ThreadInv(Worker)'
    BY <1>1, <1>2, <2>1 DEF ThreadInv, CallInv, RowInv, OwnInv, Known, FaultSteps,
       StartPcs, FreePcs, ReviewPcs, LoopPcs
  <2> QED BY <1>1, <1>2, <2>1, AdvanceOrRaise DEF AuthorizeReview
<1>3. CASE ~ok
  BY <1>1, <1>3, UnverifiedStep DEF AuthorizeReview
<1> QED BY <1>2, <1>3

LEMMA PatchReviewStep ==
  ASSUME IInv, PatchReview(Worker)
  PROVE  IInv'
<1> USE PublicationAssumption
<1> DEFINE k == me[Worker].chk
           j == me[Worker].job
           c == me[Worker].concl
<1>1. /\ Worker \in Threads /\ Worker \notin Requests /\ ThreadInv(Worker)
      /\ pc[Worker] = "review_patch" /\ pc[Worker] \in FaultSteps /\ todo' = todo
      /\ k \in CheckIds /\ check[k] # "absent" /\ j \in Jobs /\ c \in Conclusions
      /\ review[j].state = "finalized" /\ review[j].chk = k /\ review[j].concl = c
  BY DEF PatchReview, FaultSteps, StartPcs, ReviewPcs, IInv, ThreadInv, CallInv, RowInv,
     Known, loop, TypeOK, Local, Threads
<1>2. check' = [check EXCEPT ![k] = c] /\ faults' \in Nat
      /\ UNCHANGED <<owner, ext, failure, free, review>>
  BY DEF PatchReview, Spend, IInv, TypeOK, store
<1>3. Grow
  BY <1>1, <1>2 DEF Grow, IInv, TypeOK, Conclusions
<1>4. RowsTyped
  BY <1>1, <1>2 DEF RowsTyped, IInv, TypeOK, CheckState
<1>5. Typed /\ Others(Worker) /\ NoNewPass /\ ThreadInv(Worker)' /\ LoopInv'
  <2>1. CASE Goto(Worker, "finish_ok") /\ UNCHANGED <<me, resp>>
    <3>1. pc'[Worker] = "finish_ok" /\ me'[Worker] = me[Worker] /\ Others(Worker) /\ NoNewPass
      BY <1>1, <2>1 DEF Goto, IInv, TypeOK, Others, NoNewPass
    <3>2. Typed
      BY <2>1 DEF Typed, Goto, IInv, TypeOK, Steps, FaultSteps
    <3>3. ThreadInv(Worker)'
      BY <1>1, <3>1 DEF ThreadInv, CallInv, RowInv, OwnInv,
         FaultSteps, StartPcs, FreePcs, ReviewPcs, LoopPcs
    <3>4. SameLoop
      BY <3>1 DEF SameLoop, ListPcs
    <3> QED BY <1>1, <1>3, <3>1, <3>2, <3>3, <3>4, LoopStep
  <2>2. CASE Raise(Worker)
    BY <1>1, <1>3, <2>2, RaiseStep
  <2> QED BY <2>1, <2>2 DEF PatchReview
<1>6. TerminalHasEvidence'
  <2>1. c \in EvidenceFor(k)
    BY <1>1 DEF EvidenceFor
  <2> QED BY <1>1, <1>2, <1>3, <2>1, EvidenceGrows
      DEF TerminalHasEvidence, IInv, StoreInv, TypeOK
<1>7. StoreInv'
  BY <1>1, <1>2, <1>3, <1>5, <1>6, PassedKeeps DEF StoreInv, IInv, Grow, Known, TypeOK
<1> QED BY <1>1, <1>2, <1>3, <1>4, <1>5, <1>7, WriteStep DEF PatchReview

-----------------------------------------------------------------------------
(* The environment *)

\* A step that moves no thread.
LEMMA StillStep ==
  ASSUME IInv, UNCHANGED <<github, store, pc, me, todo, resp>>, WorldTyped
  PROVE  IInv'
<1>1. Worker \in Threads /\ Others(Worker) /\ NoNewPass /\ Typed
  BY DEF Threads, Others, NoNewPass, Typed, IInv, TypeOK
<1>2. ThreadInv(Worker)
  BY <1>1 DEF IInv
<1>3. ThreadInv(Worker)'
  BY <1>2 DEF ThreadInv, CallInv, RowInv, OwnInv, Known, github, store
<1>4. LoopInv'
  BY DEF IInv, LoopInv, store
<1> QED BY <1>1, <1>3, <1>4, QuietStep

LEMMA ProvenanceStep ==
  ASSUME IInv, NEW j \in Jobs, Provenance(j)
  PROVE  IInv'
<1>1. status' \in [Jobs -> JobStatus]
  BY DEF Provenance, IInv, TypeOK, JobStatus
<1>2. WorldTyped
  BY <1>1 DEF Provenance, WorldTyped, IInv, TypeOK, loop, world
<1> QED BY <1>2, StillStep DEF Provenance, loop

LEMMA ToggleStep ==
  ASSUME IInv, ToggleEnrollment
  PROVE  IInv'
<1>1. WorldTyped
  BY DEF ToggleEnrollment, WorldTyped, IInv, TypeOK, loop
<1> QED BY <1>1, StillStep DEF ToggleEnrollment, loop

LEMMA StutterStep ==
  ASSUME IInv, UNCHANGED vars
  PROVE  IInv'
<1>1. WorldTyped
  BY DEF vars, WorldTyped, IInv, TypeOK
<1> QED BY <1>1, StillStep DEF vars, github, store

LEMMA RestartStep ==
  ASSUME IInv, Restart(Worker)
  PROVE  IInv'
<1>1. /\ Worker \in Threads /\ pc[Worker] = "down" /\ me[Worker].ctx = "none"
      /\ me[Worker] \in Local /\ "reconcile" \in Steps \ ListPcs
  BY DEF Restart, IInv, TypeOK, ThreadInv, CallInv, Threads, LoopPcs, Steps, ListPcs
<1>2. pc' = [pc EXCEPT ![Worker] = "reconcile"] /\ pc'[Worker] = "reconcile"
      /\ me' = me /\ resp' = resp /\ faults' \in Nat
  BY <1>1 DEF Restart, Goto, IInv, TypeOK
<1>3. ThreadInv(Worker)'
  BY <1>1, <1>2, AtLoop DEF LoopPcs
<1> QED BY <1>1, <1>2, <1>3, AdvanceStep DEF Restart

\* Every thread is gone; what the others were told of PASSED stays told.
LEMMA CrashStep ==
  ASSUME IInv, Crash
  PROVE  IInv'
<1> USE PublicationAssumption
<1>1. /\ \A t \in Threads : pc'[t] \in {"down", "new", "done"} /\ me'[t] = Fresh
      /\ pc'[Worker] = "down" /\ todo' = {}
      /\ \A t \in Requests : pc'[t] # "down"
      /\ UNCHANGED <<github, store>>
  BY DEF Crash, Threads
<1>2. Grow
  BY <1>1 DEF Grow, github, store
<1>3. NoNewPass
  BY DEF NoNewPass, Crash
<1>4. \A t \in Threads : ThreadInv(t)'
  <2> TAKE t \in Threads
  <2>1. pc'[t] \notin FaultSteps \cup {"finish_ok", "finish_failed"} /\ me'[t].ctx = "none"
    BY <1>1 DEF FaultSteps, Fresh
  <2> QED BY <2>1 DEF ThreadInv, CallInv, RowInv, OwnInv, FaultSteps,
       StartPcs, FreePcs, ReviewPcs
<1>5. TypeOK'
  <2>1. pc' \in [Threads -> Steps]
    BY DEF Crash, Steps
  <2>2. me' \in [Threads -> Local]
    BY FreshType DEF Crash
  <2>3. resp' \in [Requests -> Answers]
    BY DEF Crash, IInv, TypeOK, Answers
  <2>4. crashes' \in Nat /\ todo' \subseteq Jobs \cup CheckIds
    BY DEF Crash, IInv, TypeOK
  <2>6. recovered' \in BOOLEAN
    BY Zenon DEF Crash
  <2>5. UNCHANGED <<status, attempts, github, store, enrolled, toggles, faults>>
    BY DEF Crash
  <2> QED BY <2>1, <2>2, <2>3, <2>4, <2>5, <2>6 DEF IInv, TypeOK, github, store
<1>6. StoreInv'
  BY <1>1, <1>2, <1>3, PassedKeeps, EvidenceKeeps DEF StoreInv, IInv, github, store, Known
<1>7. LoopInv'
  BY <1>1 DEF LoopInv
<1> QED BY <1>4, <1>5, <1>6, <1>7 DEF IInv

-----------------------------------------------------------------------------
(* The invariant *)

LEMMA InitIInv == Init => IInv
<1> SUFFICES ASSUME Init PROVE IInv
  OBVIOUS
<1> USE PublicationAssumption DEF Init
<1>1. TypeOK
  <2>1. status \in [Jobs -> JobStatus] /\ attempts \in [Jobs -> Nat]
    BY DEF JobStatus
  <2>2. /\ check \in [CheckIds -> CheckState]
        /\ owner \in [CheckIds -> Jobs \cup {0}] /\ ext \in [CheckIds -> ExternalId]
    BY DEF CheckState, NoExt, ExternalId
  <2>3. failure \in [CheckIds -> [state : Stage, concl : Conclusions, link : BOOLEAN]]
    BY DEF NoFailure, Stage, Conclusions
  <2>4. free \in [Jobs -> [state : Stage, chk : CheckIds \cup {NoCheck}]]
    BY DEF NoFree, Stage
  <2>5. review \in [Jobs -> [state : Stage \cup {"failed"},
                             chk : CheckIds \cup {NoCheck}, concl : Conclusions]]
    BY DEF NoReview, Stage, Conclusions
  <2>6. pc \in [Threads -> Steps] /\ me \in [Threads -> Local]
    BY FreshType DEF Steps
  <2>7. resp \in [Requests -> Answers] /\ enrolled \in BOOLEAN /\ recovered \in BOOLEAN
    BY DEF Answers
  <2> QED BY <2>1, <2>2, <2>3, <2>4, <2>5, <2>6, <2>7 DEF TypeOK
<1>2. \A t \in Threads : ThreadInv(t)
  <2> TAKE t \in Threads
  <2>1. /\ pc[t] \in {"reconcile", "new"} /\ me[t].ctx = "none"
    BY DEF Fresh
  <2> QED BY <2>1 DEF ThreadInv, CallInv, RowInv, OwnInv, FaultSteps,
       StartPcs, FreePcs, ReviewPcs
<1>3. StoreInv
  BY DEF StoreInv, TerminalHasEvidence, PassedIsBound, NoFailure, NoFree, NoReview, Conclusions
<1>4. LoopInv
  BY DEF LoopInv, Threads
<1> QED BY <1>1, <1>2, <1>3, <1>4 DEF IInv

LEMMA NextIInv == IInv /\ [Next]_vars => IInv'
<1> SUFFICES ASSUME IInv, [Next]_vars PROVE IInv'
  OBVIOUS
<1>1. ASSUME NEW t \in Threads, ThreadStep(t) PROVE IInv'
  BY <1>1, CreateCheckStep, FailureObserveStep, FailureInsertStep, FailureAuthorizeStep,
     FailurePatchStep, FailureCheckStep, FailureCommitStep, ResumeStep, RevalidateStep,
     AuthorizeStep, PatchSuccessStep, ObserveSuccessStep, CommitFreeStep
     DEF ThreadStep, FailureStep, FreeStep
<1>2. ASSUME NEW t \in Threads, StepFails(t) PROVE IInv'
  BY <1>2, StepFailsStep
<1>3. ASSUME NEW r \in Requests, RequestStep(r) PROVE IInv'
  BY <1>3, SubmitStep, LookupStep, PhaseTwoStep, PrepareFreeStep, BindExceptionStep
     DEF RequestStep
<1>4. ASSUME WorkerStep(Worker) PROVE IInv'
  <2>1. ASSUME ReviewStep(Worker) PROVE IInv'
    BY <2>1, PrepareReviewStep, RecoverReviewStep, RecordReviewStep, AuthorizeReviewStep,
       PatchReviewStep DEF ReviewStep
  <2> QED BY <1>4, <2>1, ReconcileStep, ListPendingStep, TakePendingStep, RecoverFailureStep,
       ClaimStep, ProcessStep, FinishStep DEF WorkerStep
<1> QED BY <1>1, <1>2, <1>3, <1>4, RestartStep, ProvenanceStep, CrashStep, ToggleStep,
     StutterStep DEF Next

\* The inductive invariant of the publication protocol.
THEOREM PublicationInvariant == Spec => []IInv
BY InitIInv, NextIInv, PTL DEF Spec

\* Every variable keeps its type.
THEOREM TypeCorrect == Spec => []TypeOK
<1>1. IInv => TypeOK
  BY DEF IInv
<1> QED BY <1>1, PublicationInvariant, PTL

\* No Check Run of the broker is terminal without durable evidence for its
\* conclusion, with any number of candidates, submissions, faults and crashes.
THEOREM TerminalIsBacked == Spec => []TerminalHasEvidence
<1>1. IInv => TerminalHasEvidence
  BY DEF IInv, StoreInv
<1> QED BY <1>1, PublicationInvariant, PTL

\* A submitter is told PASSED only for its own finalized receipt.
THEOREM PassedIsHonest == Spec => []PassedIsBound
<1>1. IInv => PassedIsBound
  BY DEF IInv, StoreInv
<1> QED BY <1>1, PublicationInvariant, PTL

-----------------------------------------------------------------------------
(* What steps may do: ten actions touch a Check Run or an evidence row; each  *)
(* is one step of the gate of CheckGate or leaves it alone. *)

\* The actions that change a Check Run or an evidence row.
Touches ==
  \/ \E t \in Threads :
       \/ CreateCheck(t) \/ FailureInsert(t) \/ FailurePatch(t) \/ FailureCommit(t)
       \/ PatchSuccess(t) \/ CommitFree(t)
  \/ \E r \in Requests : PrepareFree(r)
  \/ PrepareReview(Worker) \/ RecordReview(Worker) \/ PatchReview(Worker)

LEMMA QuietOrTouches ==
  ASSUME [Next]_vars
  PROVE  Touches \/ UNCHANGED <<check, failure, free, review>>
<1>1. ASSUME NEW t \in Threads, ThreadStep(t)
      PROVE  Touches \/ UNCHANGED <<check, failure, free, review>>
  BY <1>1 DEF ThreadStep, FailureStep, FreeStep, Touches, FailureObserve, FailureAuthorize,
     FailureCheck, Resume, Revalidate, Authorize, ObserveSuccess, github, store
<1>2. ASSUME NEW t \in Threads, StepFails(t)
      PROVE  UNCHANGED <<check, failure, free, review>>
  BY <1>2 DEF StepFails, github, store
<1>3. ASSUME NEW r \in Requests, RequestStep(r)
      PROVE  Touches \/ UNCHANGED <<check, failure, free, review>>
  BY <1>3 DEF RequestStep, Touches, Submit, Lookup, PhaseTwo, BindException, github, store
<1>4. ASSUME WorkerStep(Worker)
      PROVE  Touches \/ UNCHANGED <<check, failure, free, review>>
  BY <1>4 DEF WorkerStep, ReviewStep, Touches, Reconcile, ListPending, TakePending,
     RecoverFailure, Claim, Process, Finish, RecoverReview, AuthorizeReview, github, store
<1>5. Next \/ UNCHANGED vars
  OBVIOUS
<1> QED BY <1>1, <1>2, <1>3, <1>4, <1>5
     DEF Next, Restart, Provenance, Crash, ToggleEnrollment, vars, github, store

-----------------------------------------------------------------------------
(* Jobs *)

LEMMA NoJobReopensStep == IInv /\ [Next]_vars => NoJobReopens
<1> SUFFICES ASSUME IInv, [Next]_vars PROVE NoJobReopens
  OBVIOUS
<1>1. UNCHANGED status \/ WorkerStep(Worker) \/ \E j \in Jobs : Provenance(j)
  <2>1. ASSUME NEW t \in Threads, ThreadStep(t) PROVE UNCHANGED status
    BY <2>1 DEF ThreadStep, FailureStep, FreeStep, CreateCheck, FailureObserve, FailureInsert,
       FailureAuthorize, FailurePatch, FailureCheck, FailureCommit, Resume, Revalidate,
       Authorize, PatchSuccess, ObserveSuccess, CommitFree
  <2>2. ASSUME NEW r \in Requests, RequestStep(r) PROVE UNCHANGED status
    BY <2>2 DEF RequestStep, Submit, Lookup, PhaseTwo, PrepareFree, BindException
  <2> QED BY <2>1, <2>2 DEF Next, StepFails, Restart, Crash, ToggleEnrollment, vars
<1>2. CASE UNCHANGED status
  BY <1>2 DEF NoJobReopens
<1>3. ASSUME NEW j \in Jobs, Provenance(j) PROVE NoJobReopens
  BY <1>3 DEF Provenance, NoJobReopens, IInv, TypeOK
<1>4. CASE WorkerStep(Worker)
  <2>1. CASE Reconcile(Worker)
    BY <2>1 DEF Reconcile, NoJobReopens
  <2>2. CASE Claim(Worker)
    BY <2>2 DEF Claim, NoJobReopens, IInv, TypeOK
  <2>3. CASE Finish(Worker)
    BY <2>3 DEF Finish, NoJobReopens, IInv, TypeOK
  <2>4. CASE UNCHANGED status
    BY <2>4 DEF NoJobReopens
  <2> QED BY <1>4, <2>1, <2>2, <2>3, <2>4 DEF WorkerStep, ReviewStep, ListPending, TakePending,
       RecoverFailure, Process, PrepareReview, RecoverReview, RecordReview, AuthorizeReview,
       PatchReview
<1> QED BY <1>1, <1>2, <1>3, <1>4

\* A completed or failed job is never taken up again, whatever reconciliation,
\* recovery and finish_job do in whichever order.
THEOREM JobsStayFinished == Spec => FinishedStaysFinished
BY PublicationInvariant, NoJobReopensStep, PTL DEF Spec, FinishedStaysFinished

-----------------------------------------------------------------------------
(* Evidence rows *)

\* Moves of a row's state; a state that stays is one of them.
LEMMA Advances ==
  /\ \A s : s \in Advance(s)
  /\ "prepared" \in Advance("none")
  /\ {"finalized", "failed"} \subseteq Advance("prepared")
BY DEF Advance

\* What EvidenceAdvances says of each table.
FailuresAdvance ==
  \A k \in CheckIds :
    /\ failure'[k].state \in Advance(failure[k].state)
    /\ failure[k].state # "none" => failure'[k].concl = failure[k].concl
FreeAdvances ==
  \A j \in Jobs :
    /\ free'[j].state \in Advance(free[j].state)
    /\ free[j].state # "none" => free'[j].chk = free[j].chk
ReviewsAdvance ==
  \A j \in Jobs :
    /\ review'[j].state \in Advance(review[j].state)
    /\ review[j].state # "none" => /\ review'[j].chk = review[j].chk
                                   /\ review'[j].concl = review[j].concl

LEMMA SameRowsAdvance ==
  /\ UNCHANGED failure => FailuresAdvance
  /\ UNCHANGED free => FreeAdvances
  /\ UNCHANGED review => ReviewsAdvance
BY Advances DEF FailuresAdvance, FreeAdvances, ReviewsAdvance

LEMMA TablesAdvance ==
  ASSUME FailuresAdvance, FreeAdvances, ReviewsAdvance
  PROVE  EvidenceAdvances
BY DEF FailuresAdvance, FreeAdvances, ReviewsAdvance, EvidenceAdvances

LEMMA FailuresStep ==
  ASSUME IInv, Touches
  PROVE  FailuresAdvance
<1>1. ASSUME NEW t \in Threads, FailureInsert(t) PROVE FailuresAdvance
  <2>1. me[t].chk \in CheckIds /\ failure \in [CheckIds -> FailureRow]
    BY <1>1 DEF FailureInsert, IInv, ThreadInv, CallInv, FaultSteps, StartPcs, Known,
       TypeOK, FailureRow
  <2>2. CASE CanInsertFailure(t)
    <3>1. failure[me[t].chk].state = "none"
      BY <2>1, <2>2 DEF CanInsertFailure
    <3> QED BY <1>1, <2>1, <2>2, <3>1, Advances DEF FailureInsert, FailuresAdvance
  <2>3. CASE ~CanInsertFailure(t)
    BY <1>1, <2>3, SameRowsAdvance DEF FailureInsert
  <2> QED BY <2>2, <2>3
<1>2. ASSUME NEW t \in Threads, FailureCommit(t) PROVE FailuresAdvance
  <2> DEFINE k == me[t].chk
             x == [failure[k] EXCEPT !.state = "finalized"]
  <2>1. k \in CheckIds /\ failure \in [CheckIds -> FailureRow]
    BY <1>2 DEF FailureCommit, IInv, ThreadInv, CallInv, FaultSteps, StartPcs, Known,
       TypeOK, FailureRow
  <2>2. CASE failure[k].state = "prepared"
    <3>1. failure' = [failure EXCEPT ![k] = x]
      BY <1>2, <2>2 DEF FailureCommit
    <3>2. x.state = "finalized" /\ x.concl = failure[k].concl
      BY <2>1 DEF FailureRow
    <3> HIDE DEF x
    <3> QED BY <2>1, <2>2, <3>1, <3>2, Advances DEF FailuresAdvance
  <2>3. CASE failure[k].state # "prepared"
    BY <1>2, <2>3, SameRowsAdvance DEF FailureCommit
  <2> QED BY <2>2, <2>3
<1>3. UNCHANGED failure \/ \E t \in Threads : FailureInsert(t) \/ FailureCommit(t)
  BY DEF Touches, CreateCheck, FailurePatch, PatchSuccess, CommitFree, PrepareFree,
     PrepareReview, RecordReview, PatchReview, store
<1> QED BY <1>1, <1>2, <1>3, SameRowsAdvance

LEMMA FreeStepAdvances ==
  ASSUME IInv, Touches
  PROVE  FreeAdvances
<1>1. ASSUME NEW t \in Threads, PrepareFree(t) \/ CommitFree(t) PROVE FreeAdvances
  <2> DEFINE j == me[t].job
             x == [free[j] EXCEPT !.state = "finalized"]
  <2>1. j \in Jobs /\ free \in [Jobs -> FreeRow]
    BY <1>1 DEF PrepareFree, CommitFree, IInv, ThreadInv, CallInv, FaultSteps, TypeOK, FreeRow
  <2>2. x.state = "finalized" /\ x.chk = free[j].chk
    BY <2>1 DEF FreeRow
  <2>3. CASE free[j].state = "none" /\ \E k : free' = [free EXCEPT ![j] = [state |-> "prepared", chk |-> k]]
    BY <2>1, <2>3, Advances DEF FreeAdvances
  <2>4. CASE free[j].state = "prepared" /\ free' = [free EXCEPT ![j] = x]
    <3> HIDE DEF x
    <3> QED BY <2>1, <2>2, <2>4, Advances DEF FreeAdvances
  <2> QED BY <1>1, <2>3, <2>4, SameRowsAdvance DEF PrepareFree, CommitFree
<1>2. UNCHANGED free \/ \E t \in Threads : PrepareFree(t) \/ CommitFree(t)
  BY DEF Touches, CreateCheck, FailureInsert, FailurePatch, FailureCommit, PatchSuccess,
     PrepareReview, RecordReview, PatchReview, store, Threads
<1> QED BY <1>1, <1>2, SameRowsAdvance

LEMMA ReviewsStep ==
  ASSUME IInv, Touches
  PROVE  ReviewsAdvance
<1> USE PublicationAssumption
<1>1. ASSUME NEW j \in Jobs, NEW s \in {"finalized", "failed"},
             review[j].state = "prepared" \/ review[j].state = s,
             review' = [review EXCEPT ![j].state = s]
      PROVE  ReviewsAdvance
  <2> DEFINE x == [review[j] EXCEPT !.state = s]
  <2>1. /\ review \in [Jobs -> ReviewRow] /\ review' = [review EXCEPT ![j] = x]
        /\ x.state = s /\ x.chk = review[j].chk /\ x.concl = review[j].concl
    BY <1>1 DEF IInv, TypeOK, ReviewRow
  <2> HIDE DEF x
  <2> QED BY <1>1, <2>1, Advances DEF ReviewsAdvance
<1>2. ASSUME NEW t \in Threads, FailureCommit(t) PROVE ReviewsAdvance
  <2>1. owner[me[t].chk] \in Jobs
    BY <1>2 DEF FailureCommit, IInv, ThreadInv, CallInv, FaultSteps, StartPcs, Known, StoreInv
  <2> QED BY <1>1, <1>2, <2>1, SameRowsAdvance DEF FailureCommit
<1>3. CASE PrepareReview(Worker)
  <2>1. me[Worker].job \in Jobs /\ review \in [Jobs -> ReviewRow]
    BY <1>3 DEF PrepareReview, IInv, ThreadInv, CallInv, FaultSteps, Threads, TypeOK, ReviewRow
  <2> QED BY <1>3, <2>1, Advances, SameRowsAdvance DEF PrepareReview, ReviewsAdvance
<1>4. CASE RecordReview(Worker)
  <2>1. me[Worker].job \in Jobs
    BY <1>4 DEF RecordReview, IInv, ThreadInv, CallInv, FaultSteps, Threads
  <2> QED BY <1>1, <1>4, <2>1, SameRowsAdvance DEF RecordReview
<1>5. \/ UNCHANGED review \/ PrepareReview(Worker) \/ RecordReview(Worker)
      \/ \E t \in Threads : FailureCommit(t)
  BY DEF Touches, CreateCheck, FailureInsert, FailurePatch, PatchSuccess, CommitFree,
     PrepareFree, PatchReview, store
<1> QED BY <1>2, <1>3, <1>4, <1>5, SameRowsAdvance

LEMMA EvidenceStep == IInv /\ [Next]_vars => EvidenceAdvances
<1> SUFFICES ASSUME IInv, [Next]_vars PROVE EvidenceAdvances
  OBVIOUS
<1>1. CASE Touches
  BY <1>1, FailuresStep, FreeStepAdvances, ReviewsStep, TablesAdvance
<1>2. CASE UNCHANGED <<check, failure, free, review>>
  BY <1>2, SameRowsAdvance, TablesAdvance
<1> QED BY <1>1, <1>2, QuietOrTouches

\* Evidence rows are never dropped, rewritten or reopened.
THEOREM EvidenceIsMonotone == Spec => EvidenceOnlyAdvances
BY PublicationInvariant, EvidenceStep, PTL DEF Spec, EvidenceOnlyAdvances

-----------------------------------------------------------------------------
(* The gate *)

EvidenceOf == [k \in CheckIds |-> EvidenceFor(k)]

\* Evidence depends on the three tables only.
LEMMA SameEvidence ==
  ASSUME UNCHANGED <<failure, free, review>>
  PROVE  EvidenceOf' = EvidenceOf
BY DEF EvidenceOf, EvidenceFor

\* A step that leaves Check Runs and evidence alone is a stutter of the gate.
LEMMA GateStutter ==
  ASSUME check' = check, \A k \in CheckIds : EvidenceFor(k)' = EvidenceFor(k)
  PROVE  [Gate!Next]_(Gate!vars)
<1>1. EvidenceOf' = EvidenceOf
  BY DEF EvidenceOf
<1> QED BY <1>1 DEF EvidenceOf, Gate!vars

LEMMA GateRecord ==
  ASSUME NEW k \in CheckIds, NEW c \in Conclusions, check[k] # "absent", check' = check,
         \A l \in CheckIds \ {k} : EvidenceFor(l)' = EvidenceFor(l),
         EvidenceFor(k)' = EvidenceFor(k) \cup {c}
  PROVE  [Gate!Next]_(Gate!vars)
<1>1. EvidenceOf' = [EvidenceOf EXCEPT ![k] = @ \cup {c}]
  BY DEF EvidenceOf
<1>2. Gate!Record(k, c)
  BY <1>1 DEF EvidenceOf, Gate!Record
<1> QED BY <1>2 DEF Gate!Next

LEMMA GateConclude ==
  ASSUME NEW k \in CheckIds, NEW c \in Conclusions, c \in EvidenceFor(k),
         check' = [check EXCEPT ![k] = c], UNCHANGED <<failure, free, review>>
  PROVE  [Gate!Next]_(Gate!vars)
<1>1. EvidenceOf' = EvidenceOf
  BY SameEvidence
<1>2. Gate!Conclude(k, c)
  BY <1>1 DEF EvidenceOf, Gate!Conclude
<1> QED BY <1>2 DEF Gate!Next

\* _create_check is the gate's Create.
LEMMA GateCreateCheck ==
  ASSUME IInv, NEW t \in Threads, CreateCheck(t)
  PROVE  [Gate!Next]_(Gate!vars)
<1>1. EvidenceOf' = EvidenceOf
  BY SameEvidence DEF CreateCheck, store
<1>2. PICK k \in CheckIds : check[k] = "absent" /\ check' = [check EXCEPT ![k] = "in_progress"]
  BY DEF CreateCheck
<1>3. Gate!Create(k)
  BY <1>1, <1>2 DEF EvidenceOf, Gate!Create
<1> QED BY <1>3 DEF Gate!Next

\* The three PATCHes are the gate's Conclude: what the thread read is still there.
LEMMA GatePatch ==
  ASSUME IInv, NEW t \in Threads, FailurePatch(t) \/ PatchSuccess(t) \/ PatchReview(t)
  PROVE  [Gate!Next]_(Gate!vars)
<1> DEFINE m == me[t]
<1>1. /\ m \in Local /\ ThreadInv(t) /\ m.chk \in CheckIds /\ m.job \in Jobs
      /\ UNCHANGED <<failure, free, review>>
  BY DEF FailurePatch, PatchSuccess, PatchReview, IInv, TypeOK, ThreadInv, CallInv,
     FaultSteps, StartPcs, Known, store
<1>2. CASE FailurePatch(t)
  <2>1. m.concl \in EvidenceFor(m.chk) /\ m.concl \in Conclusions
    BY <1>1, <1>2 DEF FailurePatch, ThreadInv, RowInv, EvidenceFor, Local
  <2> QED BY <1>1, <1>2, <2>1, GateConclude DEF FailurePatch
<1>3. CASE PatchSuccess(t)
  <2>1. "success" \in EvidenceFor(m.chk) /\ "success" \in Conclusions
    BY <1>1, <1>3 DEF PatchSuccess, ThreadInv, RowInv, FreePcs, EvidenceFor, Conclusions
  <2> QED BY <1>1, <1>3, <2>1, GateConclude DEF PatchSuccess
<1>4. CASE PatchReview(t)
  <2>1. m.concl \in EvidenceFor(m.chk) /\ m.concl \in Conclusions
    BY <1>1, <1>4 DEF PatchReview, ThreadInv, RowInv, ReviewPcs, EvidenceFor, Local
  <2> QED BY <1>1, <1>4, <2>1, GateConclude DEF PatchReview
<1> QED BY <1>2, <1>3, <1>4

\* prepare_failure_publication is the gate's Record, or raises.
LEMMA GateFailureInsert ==
  ASSUME IInv, NEW t \in Threads, FailureInsert(t)
  PROVE  [Gate!Next]_(Gate!vars)
<1>0. PICK k \in CheckIds, c \in Conclusions : k = me[t].chk /\ c = me[t].concl
  BY DEF FailureInsert, IInv, TypeOK, ThreadInv, CallInv, FaultSteps, StartPcs, Known, Local
<1>1. /\ check[k] # "absent" /\ UNCHANGED <<check, free, review>>
  BY <1>0 DEF FailureInsert, IInv, ThreadInv, CallInv, FaultSteps, StartPcs, Known, github
<1>2. CASE CanInsertFailure(t)
  <2>1. failure[k].state = "none"
    BY <1>0, <1>2 DEF CanInsertFailure
  <2>2. failure' = [failure EXCEPT ![k] = [state |-> "prepared", concl |-> c, link |-> me[t].link]]
    BY <1>0, <1>2 DEF FailureInsert
  <2>3. \A l \in CheckIds \ {k} : EvidenceFor(l)' = EvidenceFor(l)
    BY <1>1, <2>2 DEF EvidenceFor
  <2>4. EvidenceFor(k)' = EvidenceFor(k) \cup {c}
    <3>1. /\ failure'[k].state # "none" /\ failure'[k].concl = c
      BY <1>1, <2>2 DEF IInv, TypeOK
    <3> QED BY <1>1, <2>1, <3>1 DEF EvidenceFor
  <2> QED BY <1>1, <2>3, <2>4, GateRecord
<1>3. CASE ~CanInsertFailure(t)
  BY <1>1, <1>3, SameEvidence, GateStutter DEF FailureInsert, EvidenceFor
<1> QED BY <1>2, <1>3

\* Committing a published failure neither adds nor removes evidence.
LEMMA GateFailureCommit ==
  ASSUME IInv, NEW t \in Threads, FailureCommit(t)
  PROVE  [Gate!Next]_(Gate!vars)
<1> USE PublicationAssumption
<1>1. EvidenceAdvances /\ UNCHANGED <<check, free>>
  BY EvidenceStep DEF FailureCommit, Next, ThreadStep, FailureStep, github
<1>2. \A k \in CheckIds : /\ failure'[k].state # "none" <=> failure[k].state # "none"
                          /\ failure[k].state # "none" => failure'[k].concl = failure[k].concl
  BY <1>1 DEF FailureCommit, EvidenceAdvances, IInv, TypeOK
<1>3. \A j \in Jobs : /\ review'[j].state = "finalized" <=> review[j].state = "finalized"
                      /\ review[j].state = "finalized" => /\ review'[j].chk = review[j].chk
                                                          /\ review'[j].concl = review[j].concl
  BY <1>1 DEF FailureCommit, EvidenceAdvances, IInv, TypeOK
<1>4. \A k \in CheckIds : EvidenceFor(k)' = EvidenceFor(k)
  BY <1>1, <1>2, <1>3 DEF EvidenceFor
<1> QED BY <1>1, <1>4, GateStutter

\* prepare_free_review is the gate's Record of success, finalize a stutter.
LEMMA GateFree ==
  ASSUME IInv, NEW t \in Threads, PrepareFree(t) \/ CommitFree(t)
  PROVE  [Gate!Next]_(Gate!vars)
<1>0. PICK k \in CheckIds, j \in Jobs : k = me[t].chk /\ j = me[t].job
  BY DEF PrepareFree, CommitFree, IInv, ThreadInv, CallInv, FaultSteps, StartPcs, Known
<1>1. /\ check[k] # "absent" /\ UNCHANGED <<check, failure, review>>
  BY <1>0 DEF PrepareFree, CommitFree, IInv, ThreadInv, CallInv, FaultSteps, StartPcs, Known, github
<1>2. CASE UNCHANGED free
  BY <1>1, <1>2, GateStutter DEF EvidenceFor
<1>3. CASE /\ free[j].state = "none"
           /\ free' = [free EXCEPT ![j] = [state |-> "prepared", chk |-> k]]
  <2>1. /\ free'[j].state = "prepared" /\ free'[j].chk = k
        /\ \A i \in Jobs \ {j} : free'[i] = free[i]
    BY <1>1, <1>3 DEF IInv, TypeOK
  <2>2. \A l \in CheckIds \ {k} : EvidenceFor(l)' = EvidenceFor(l)
    BY <1>1, <1>3, <2>1 DEF EvidenceFor
  <2>3. EvidenceFor(k)' = EvidenceFor(k) \cup {"success"} /\ "success" \in Conclusions
    BY <1>1, <1>3, <2>1 DEF EvidenceFor, Conclusions
  <2> QED BY <1>1, <2>2, <2>3, GateRecord
<1>4. CASE free[j].state = "prepared" /\ free' = [free EXCEPT ![j].state = "finalized"]
  <2>1. \A i \in Jobs : /\ free'[i].state # "none" <=> free[i].state # "none"
                        /\ free'[i].chk = free[i].chk
    BY <1>1, <1>4 DEF IInv, TypeOK
  <2>2. \A l \in CheckIds : EvidenceFor(l)' = EvidenceFor(l)
    BY <1>1, <2>1 DEF EvidenceFor
  <2> QED BY <1>1, <2>2, GateStutter
<1> QED BY <1>0, <1>2, <1>3, <1>4 DEF PrepareFree, CommitFree

\* A prepared review is no evidence yet; reviews_v3 is the gate's Record.
LEMMA GatePrepareReview ==
  ASSUME IInv, PrepareReview(Worker)
  PROVE  [Gate!Next]_(Gate!vars)
<1>0. PICK j \in Jobs : j = me[Worker].job
  BY DEF PrepareReview, IInv, ThreadInv, CallInv, FaultSteps, Threads
<1>1. UNCHANGED <<check, failure, free>>
  BY DEF PrepareReview, github
<1>2. CASE UNCHANGED review
  BY <1>1, <1>2, GateStutter DEF EvidenceFor
<1>3. CASE /\ review[j].state = "none"
           /\ review' = [review EXCEPT ![j] = [state |-> "prepared", chk |-> me[Worker].chk,
                                               concl |-> me[Worker].concl]]
  <2>1. /\ review'[j].state = "prepared"
        /\ \A i \in Jobs \ {j} : review'[i] = review[i]
    BY <1>1, <1>3 DEF IInv, TypeOK
  <2>2. \A l \in CheckIds : EvidenceFor(l)' = EvidenceFor(l)
    BY <1>1, <1>3, <2>1 DEF EvidenceFor
  <2> QED BY <1>1, <2>2, GateStutter
<1> QED BY <1>0, <1>2, <1>3 DEF PrepareReview

LEMMA GateRecordReview ==
  ASSUME IInv, RecordReview(Worker)
  PROVE  [Gate!Next]_(Gate!vars)
<1> USE PublicationAssumption
<1>0. PICK k \in CheckIds, j \in Jobs, c \in Conclusions :
        k = me[Worker].chk /\ j = me[Worker].job /\ c = review[j].concl
  BY DEF RecordReview, IInv, TypeOK, ThreadInv, CallInv, FaultSteps, StartPcs, Known, Threads
<1>1. /\ check[k] # "absent" /\ UNCHANGED <<check, failure, free>>
  BY <1>0 DEF RecordReview, IInv, ThreadInv, CallInv, FaultSteps, StartPcs, Known,
     Threads, github
<1>2. CASE UNCHANGED review
  BY <1>1, <1>2, GateStutter DEF EvidenceFor
<1>3. CASE /\ review[j].chk = k /\ review[j].state \in {"prepared", "finalized"}
           /\ review' = [review EXCEPT ![j].state = "finalized"]
  <2>1. /\ review'[j].state = "finalized" /\ review'[j].chk = k /\ review'[j].concl = c
        /\ \A i \in Jobs \ {j} : review'[i] = review[i]
    BY <1>0, <1>1, <1>3 DEF IInv, TypeOK
  <2>2. \A l \in CheckIds \ {k} : EvidenceFor(l)' = EvidenceFor(l)
    BY <1>1, <1>3, <2>1 DEF EvidenceFor
  <2>3. EvidenceFor(k)' = EvidenceFor(k) \cup {c}
    BY <1>1, <1>3, <2>1 DEF EvidenceFor
  <2> QED BY <1>1, <2>2, <2>3, GateRecord
<1> QED BY <1>0, <1>2, <1>3 DEF RecordReview

LEMMA GateStep == IInv /\ [Next]_vars => [Gate!Next]_(Gate!vars)
<1> SUFFICES ASSUME IInv, [Next]_vars PROVE [Gate!Next]_(Gate!vars)
  OBVIOUS
<1>1. CASE UNCHANGED <<check, failure, free, review>>
  BY <1>1, GateStutter DEF EvidenceFor
<1>2. ASSUME NEW t \in Threads,
             CreateCheck(t) \/ FailureInsert(t) \/ FailurePatch(t) \/ FailureCommit(t)
             \/ PatchSuccess(t) \/ CommitFree(t) \/ PrepareFree(t)
      PROVE  [Gate!Next]_(Gate!vars)
  BY <1>2, GateCreateCheck, GatePatch, GateFailureInsert, GateFailureCommit, GateFree
<1>3. CASE PrepareReview(Worker) \/ RecordReview(Worker)
  BY <1>3, GatePrepareReview, GateRecordReview
<1>4. CASE PatchReview(Worker)
  <2>1. Worker \in Threads
    BY DEF Threads
  <2> QED BY <1>4, <2>1, GatePatch
<1>5. Requests \subseteq Threads
  BY DEF Threads
<1> QED BY <1>1, <1>2, <1>3, <1>4, <1>5, QuietOrTouches DEF Touches

LEMMA GateInit == Init => Gate!Init
BY DEF Init, Gate!Init, EvidenceFor, NoFailure, NoFree, NoReview

\* Workers, handlers, retries and crashes together implement the gate.
THEOREM PublicationImplementsGate == Spec => GateSpec
BY PublicationInvariant, GateStep, GateInit, PTL DEF Spec, GateSpec, Gate!Spec

-----------------------------------------------------------------------------
(* One candidate, one success *)

PaidCtx == {"recover_review", "recover_review_exc", "review_create", "review_prepare",
            "review_record", "review_publish", "review_exc"}
PaidPcs == ReviewPcs \cup {"review_prepare"}

\* A thread that has nothing to do with paid reviews concludes no success from
\* its locals: the one success it may send is that of a free receipt.
Unpaid(t) ==
  me[t].concl # "success" /\ me[t].ctx \notin PaidCtx /\ pc[t] \notin PaidPcs

\* Without paid reviews no other evidence speaks for success.
FreeOnly ==
  /\ \A t \in Threads : Unpaid(t)
  /\ \A k \in CheckIds : failure[k].concl # "success"
  /\ \A j \in Jobs : review[j].state = "none"

\* The Check Run of a candidate's free receipt, and the one a submission is about
\* to make the receipt's, carry that candidate.
OwnCheck ==
  /\ \A j \in Jobs : free[j].state # "none" => owner[free[j].chk] = j
  /\ \A r \in Requests : pc[r] \in {"phase_two", "prepare"} => owner[me[r].chk] = me[r].job

UniqueInv == FreeOnly /\ OwnCheck

\* One thread moves and stays unpaid.
MovesUnpaid(t) == Others(t) /\ Unpaid(t)'

LEMMA RaiseUnpaid ==
  ASSUME IInv, NEW t \in Threads, Unpaid(t), Raise(t)
  PROVE  MovesUnpaid(t)
<1>1. /\ me[t] \in Local /\ pc' = [pc EXCEPT ![t] = CatchAt(me[t].ctx)]
      /\ me' = [me EXCEPT ![t] = Caught(me[t])] /\ t \in DOMAIN pc /\ t \in DOMAIN me
  BY DEF Raise, Goto, IInv, TypeOK
<1>2. CatchAt(me[t].ctx) \notin PaidPcs
  BY DEF CatchAt, PaidPcs, ReviewPcs
<1>3. Caught(me[t]).concl # "success" /\ Caught(me[t]).ctx \notin PaidCtx
  BY <1>1 DEF Caught, Unpaid, PaidCtx, Local, Fresh
<1> QED BY <1>1, <1>2, <1>3 DEF MovesUnpaid, Others, Unpaid

\* A thread that goes on with the locals it has.
LEMMA GoUnpaid ==
  ASSUME IInv, NEW t \in Threads, Unpaid(t), NEW p, p \notin PaidPcs, Goto(t, p), me' = me
  PROVE  MovesUnpaid(t)
BY DEF Goto, IInv, TypeOK, MovesUnpaid, Others, Unpaid

\* A thread whose call is over.
LEMMA FreshUnpaid ==
  ASSUME IInv, NEW t \in Threads, NEW p, p \notin PaidPcs, Goto(t, p),
         me' = [me EXCEPT ![t] = Fresh]
  PROVE  MovesUnpaid(t)
BY DEF Goto, IInv, TypeOK, MovesUnpaid, Others, Unpaid, Fresh, PaidCtx

LEMMA DoneUnpaid ==
  ASSUME IInv, NEW t \in Threads, Unpaid(t), Done(t)
  PROVE  MovesUnpaid(t)
BY GoUnpaid, FreshUnpaid DEF Done, PaidPcs, ReviewPcs

LEMMA PassedUnpaid ==
  ASSUME IInv, NEW t \in Threads, Passed(t)
  PROVE  MovesUnpaid(t)
BY FreshUnpaid DEF Passed, PaidPcs, ReviewPcs

LEMMA ThreadUnpaid ==
  ASSUME IInv, NEW t \in Threads, Unpaid(t), ThreadStep(t) \/ StepFails(t)
  PROVE  MovesUnpaid(t)
<1> USE DEF PaidPcs, ReviewPcs
<1>1. CASE CreateCheck(t)
  <2>1. CASE Raise(t)
    BY <2>1, RaiseUnpaid
  <2>2. ASSUME NEW k \in CheckIds, Goto(t, AfterCreate(me[t].ctx)), pc[t] = "create",
               me' = [me EXCEPT ![t].chk = k,
                        ![t].ctx = IF @ = "review_create" THEN "review_prepare" ELSE @]
        PROVE  MovesUnpaid(t)
    <3>1. me[t].ctx \in {"bind_create", "process"}
      BY <2>2 DEF Unpaid, PaidCtx, IInv, ThreadInv, CallInv, StartPcs
    <3>2. AfterCreate(me[t].ctx) \notin PaidPcs
      BY <3>1 DEF AfterCreate
    <3>3. me[t] \in Local
      BY DEF IInv, TypeOK
    <3>4. me'[t] = [me[t] EXCEPT !.chk = k] /\ \A s \in Threads \ {t} : me'[s] = me[s]
      BY <2>2, <3>1, <3>3 DEF IInv, TypeOK, Local
    <3>5. me'[t].concl = me[t].concl /\ me'[t].ctx = me[t].ctx
      BY <3>3, <3>4 DEF Local
    <3> QED BY <2>2, <3>2, <3>4, <3>5 DEF Goto, MovesUnpaid, Others, Unpaid, IInv, TypeOK
  <2> QED BY <1>1, <2>1, <2>2 DEF CreateCheck
<1>2. CASE FailureStep(t)
  BY <1>2, RaiseUnpaid, GoUnpaid, DoneUnpaid DEF FailureStep, FailureObserve, FailureInsert,
     FailureAuthorize, FailurePatch, FailureCheck, FailureCommit
<1>3. CASE FreeStep(t)
  BY <1>3, RaiseUnpaid, GoUnpaid, PassedUnpaid DEF FreeStep, Resume, Revalidate, Authorize,
     PatchSuccess, ObserveSuccess, CommitFree
<1>4. CASE StepFails(t)
  BY <1>4, RaiseUnpaid DEF StepFails
<1> QED BY <1>1, <1>2, <1>3, <1>4 DEF ThreadStep

LEMMA RequestUnpaid ==
  ASSUME IInv, NEW r \in Requests, Unpaid(r), RequestStep(r)
  PROVE  MovesUnpaid(r)
<1> USE DEF PaidPcs, ReviewPcs
<1>0. r \in Threads /\ me[r] \in Local
  BY DEF Threads, IInv, TypeOK
<1>1. CASE Submit(r)
  BY <1>0, <1>1, GoUnpaid DEF Submit, Goto, MovesUnpaid, Others, Unpaid, PaidCtx, IInv,
     TypeOK, Local
<1>2. CASE Lookup(r)
  BY <1>0, <1>2, GoUnpaid, FreshUnpaid DEF Lookup, Goto, MovesUnpaid, Others, Unpaid,
     PaidCtx, IInv, TypeOK, Local
<1>3. CASE PhaseTwo(r)
  BY <1>0, <1>3 DEF PhaseTwo, Goto, MovesUnpaid, Others, Unpaid, PaidCtx, IInv, TypeOK, Local
<1>4. CASE PrepareFree(r)
  BY <1>0, <1>4, GoUnpaid, RaiseUnpaid DEF PrepareFree
<1>5. CASE BindException(r)
  BY <1>0, <1>5, FreshUnpaid DEF BindException, Goto, MovesUnpaid, Others, Unpaid, PaidCtx,
     IInv, TypeOK, Local
<1> QED BY <1>1, <1>2, <1>3, <1>4, <1>5 DEF RequestStep

LEMMA WorkerUnpaid ==
  ASSUME IInv, FreeOnly, Paid = FALSE, WorkerStep(Worker)
  PROVE  MovesUnpaid(Worker)
<1> USE DEF PaidPcs, ReviewPcs
<1>0. Worker \in Threads /\ Unpaid(Worker) /\ me[Worker] \in Local
  BY DEF Threads, FreeOnly, IInv, TypeOK
<1>1. CASE Reconcile(Worker)
  BY <1>0, <1>1, GoUnpaid DEF Reconcile
<1>2. CASE ListPending(Worker)
  BY <1>0, <1>2, GoUnpaid DEF ListPending
<1>3. CASE TakePending(Worker)
  <2>1. PICK x \in todo :
          \/ UNCHANGED <<pc, me>>
          \/ pc[Worker] = "next_review"
          \/ /\ pc[Worker] = "next_free" /\ Goto(Worker, "resume")
             /\ me' = [me EXCEPT ![Worker] = [Fresh EXCEPT !.ctx = "recover_free",
                         !.job = x, !.chk = free[x].chk, !.seen = "prepared"]]
          \/ /\ pc[Worker] = "next_failure" /\ Goto(Worker, "recover_failure")
             /\ me' = [me EXCEPT ![Worker] = [Fresh EXCEPT !.ctx = "recover_failure",
                         !.job = owner[x], !.chk = x, !.concl = failure[x].concl]]
    BY <1>3 DEF TakePending
  <2>2. pc[Worker] # "next_review"
    BY DEF IInv, LoopInv, FreeOnly
  <2>3. CASE UNCHANGED <<pc, me>>
    BY <1>0, <2>3 DEF MovesUnpaid, Others, Unpaid
  <2>4. CASE /\ pc[Worker] = "next_free" /\ Goto(Worker, "resume")
             /\ me' = [me EXCEPT ![Worker] = [Fresh EXCEPT !.ctx = "recover_free",
                         !.job = x, !.chk = free[x].chk, !.seen = "prepared"]]
    BY <1>0, <2>4 DEF Fresh, Goto, MovesUnpaid, Others, Unpaid, PaidCtx, IInv, TypeOK
  <2>5. CASE /\ pc[Worker] = "next_failure" /\ Goto(Worker, "recover_failure")
             /\ me' = [me EXCEPT ![Worker] = [Fresh EXCEPT !.ctx = "recover_failure",
                         !.job = owner[x], !.chk = x, !.concl = failure[x].concl]]
    <3>1. failure[x].concl # "success"
      BY <2>5 DEF IInv, LoopInv, FreeOnly
    <3> QED
      BY <1>0, <2>5, <3>1 DEF Fresh, Goto, MovesUnpaid, Others, Unpaid, PaidCtx, IInv, TypeOK
  <2> QED
    BY <2>1, <2>2, <2>3, <2>4, <2>5
<1>4. CASE RecoverFailure(Worker)
  BY <1>0, <1>4, GoUnpaid DEF RecoverFailure
<1>5. CASE Claim(Worker)
  <2>1. \/ Goto(Worker, "reconcile") /\ me' = me
        \/ \E j \in Jobs : /\ Goto(Worker, "process")
                           /\ me' = [me EXCEPT ![Worker] =
                                       [Fresh EXCEPT !.ctx = "process", !.job = j]]
    BY <1>5 DEF Claim
  <2> QED
    <3>1. CASE Goto(Worker, "reconcile") /\ me' = me
      BY <1>0, <3>1, GoUnpaid
    <3>2. ASSUME NEW j \in Jobs, Goto(Worker, "process"),
                 me' = [me EXCEPT ![Worker] = [Fresh EXCEPT !.ctx = "process", !.job = j]]
          PROVE  MovesUnpaid(Worker)
      BY <1>0, <3>2 DEF Fresh, Goto, MovesUnpaid, Others, Unpaid, PaidCtx, IInv, TypeOK
    <3> QED BY <2>1, <3>1, <3>2
<1>6. CASE Process(Worker)
  <2>1. \/ Goto(Worker, "finish_failed") /\ me' = me
        \/ \E q \in Reasons :
             /\ Goto(Worker, "create")
             /\ me' = [me EXCEPT ![Worker].why = q, ![Worker].concl = ConclusionOf[q]]
    BY <1>6 DEF Process
  <2>2. \A q \in Reasons : ConclusionOf[q] # "success"
    BY DEF ConclusionOf
  <2>3. CASE Goto(Worker, "finish_failed") /\ me' = me
    BY <1>0, <2>3, GoUnpaid
  <2>4. ASSUME NEW q \in Reasons, Goto(Worker, "create"),
               me' = [me EXCEPT ![Worker].why = q, ![Worker].concl = ConclusionOf[q]]
        PROVE  MovesUnpaid(Worker)
    <3>1. me'[Worker].concl = ConclusionOf[q] /\ me'[Worker].ctx = me[Worker].ctx
      BY <1>0, <2>4 DEF IInv, TypeOK, Local
    <3> QED
      BY <1>0, <2>2, <2>4, <3>1 DEF Goto, MovesUnpaid, Others, Unpaid, IInv, TypeOK
  <2> QED
    BY <2>1, <2>3, <2>4
<1>7. CASE Finish(Worker)
  <2>1. /\ me[Worker].ctx \notin PaidCtx /\ me' = [me EXCEPT ![Worker] = Fresh]
        /\ \E p \in {"next_failure", "next_review", "reconcile"} : Goto(Worker, p)
    BY <1>0, <1>7 DEF Finish, Unpaid
  <2> QED BY <1>0, <2>1, FreshUnpaid
<1>8. ~ReviewStep(Worker)
  BY <1>0 DEF ReviewStep, PrepareReview, RecoverReview, RecordReview, AuthorizeReview,
     PatchReview, Unpaid
<1> QED BY <1>1, <1>2, <1>3, <1>4, <1>5, <1>6, <1>7, <1>8 DEF WorkerStep

LEMMA FreeOnlyStep ==
  ASSUME IInv, FreeOnly, Paid = FALSE, [Next]_vars
  PROVE  FreeOnly'
<1>0. Requests \subseteq Threads /\ Worker \in Threads
  BY DEF Threads
<1>1. \A t \in Threads : Unpaid(t)'
  <2>1. ASSUME NEW t \in Threads, MovesUnpaid(t) PROVE \A s \in Threads : Unpaid(s)'
    BY <2>1 DEF MovesUnpaid, Others, FreeOnly, Unpaid
  <2>2. ASSUME NEW t \in Threads, ThreadStep(t) \/ StepFails(t)
        PROVE  \A s \in Threads : Unpaid(s)'
    BY <2>1, <2>2, ThreadUnpaid DEF FreeOnly
  <2>3. ASSUME NEW r \in Requests, RequestStep(r) PROVE \A s \in Threads : Unpaid(s)'
    BY <1>0, <2>1, <2>3, RequestUnpaid DEF FreeOnly
  <2>4. CASE WorkerStep(Worker)
    BY <1>0, <2>1, <2>4, WorkerUnpaid
  <2>5. CASE Restart(Worker)
    BY <1>0, <2>1, <2>5, GoUnpaid DEF Restart, FreeOnly, PaidPcs, ReviewPcs
  <2>6. CASE Crash
    BY <2>6 DEF Crash, Unpaid, PaidPcs, ReviewPcs, PaidCtx, Fresh
  <2>7. CASE UNCHANGED <<pc, me>>
    BY <2>7 DEF FreeOnly, Unpaid
  <2> QED BY <2>2, <2>3, <2>4, <2>5, <2>6, <2>7 DEF Next, Provenance, ToggleEnrollment, vars
<1>2. \A k \in CheckIds : failure'[k].concl # "success"
  <2>1. ASSUME NEW t \in Threads, FailureInsert(t)
        PROVE  \A k \in CheckIds : failure'[k].concl # "success"
    BY <2>1 DEF FailureInsert, FreeOnly, Unpaid, IInv, TypeOK
  <2>2. ASSUME NEW t \in Threads, FailureCommit(t)
        PROVE  \A k \in CheckIds : failure'[k].concl # "success"
    <3>1. \/ failure' = failure
          \/ failure' = [failure EXCEPT ![me[t].chk].state = "finalized"]
      BY <2>2 DEF FailureCommit
    <3>2. \A k \in CheckIds : failure'[k].concl = failure[k].concl
      BY <3>1 DEF IInv, TypeOK
    <3> QED BY <3>2 DEF FreeOnly
  <2>3. CASE UNCHANGED failure
    BY <2>3 DEF FreeOnly
  <2> QED BY <2>1, <2>2, <2>3, QuietOrTouches DEF Touches, CreateCheck, FailurePatch,
       PatchSuccess, CommitFree, PrepareFree, PrepareReview, RecordReview, PatchReview, store
<1>3. \A j \in Jobs : review'[j].state = "none"
  <2>1. ~PrepareReview(Worker) /\ ~RecordReview(Worker)
    BY <1>0 DEF PrepareReview, RecordReview, FreeOnly, Unpaid, PaidPcs, ReviewPcs
  <2>2. ASSUME NEW t \in Threads, FailureCommit(t) PROVE review' = review
    <3>1. owner[me[t].chk] \in Jobs
      BY <2>2 DEF FailureCommit, IInv, ThreadInv, CallInv, FaultSteps, StartPcs, Known, StoreInv
    <3> QED BY <2>2, <3>1 DEF FailureCommit, FreeOnly
  <2> QED BY <2>1, <2>2, QuietOrTouches DEF Touches, CreateCheck, FailureInsert, FailurePatch,
       PatchSuccess, CommitFree, PrepareFree, PatchReview, store, FreeOnly
<1> QED BY <1>1, <1>2, <1>3 DEF FreeOnly

LEMMA OwnCheckStep ==
  ASSUME IInv, FreeOnly, OwnCheck, [Next]_vars
  PROVE  OwnCheck'
<1>0. Requests \subseteq Threads /\ Worker \in Threads
  BY DEF Threads
<1>1. \A k \in CheckIds : check[k] # "absent" => owner'[k] = owner[k]
  <2>1. ASSUME NEW t \in Threads, CreateCheck(t)
        PROVE  \A k \in CheckIds : check[k] # "absent" => owner'[k] = owner[k]
    BY <2>1 DEF CreateCheck, IInv, TypeOK
  <2>2. (\E t \in Threads : CreateCheck(t)) \/ owner' = owner
    BY DEF Next, ThreadStep, FailureStep, FreeStep, StepFails, RequestStep, WorkerStep,
       ReviewStep, FailureObserve, FailureInsert, FailureAuthorize, FailurePatch,
       FailureCheck, FailureCommit, Resume, Revalidate, Authorize, PatchSuccess,
       ObserveSuccess, CommitFree, Submit, Lookup, PhaseTwo, PrepareFree, BindException,
       Reconcile, ListPending, TakePending, RecoverFailure, Claim, Process, Finish,
       PrepareReview, RecoverReview, RecordReview, AuthorizeReview, PatchReview, Restart,
       Provenance, Crash, ToggleEnrollment, vars, github
  <2> QED BY <2>1, <2>2
<1>2. \A j \in Jobs : free'[j].state # "none" => owner'[free'[j].chk] = j
  <2>1. ASSUME NEW r \in Requests, PrepareFree(r)
        PROVE  \A j \in Jobs : free'[j].state # "none" =>
                 free'[j] = free[j] \/ (free'[j].chk = me[r].chk /\ j = me[r].job)
    BY <2>1 DEF PrepareFree, IInv, TypeOK
  <2>2. ASSUME NEW r \in Requests, PrepareFree(r)
        PROVE  Known(me[r].chk) /\ owner[me[r].chk] = me[r].job
    BY <1>0, <2>2 DEF PrepareFree, IInv, ThreadInv, CallInv, FaultSteps, StartPcs, OwnCheck
  <2>3. ASSUME NEW t \in Threads, CommitFree(t)
        PROVE  \A j \in Jobs : free'[j].state # "none" =>
                 free[j].state # "none" /\ free'[j].chk = free[j].chk
    BY <2>3 DEF CommitFree, IInv, TypeOK
  <2>4. (\E r \in Requests : PrepareFree(r)) \/ (\E t \in Threads : CommitFree(t)) \/ free' = free
    BY QuietOrTouches DEF Touches, CreateCheck, FailureInsert, FailurePatch, FailureCommit,
       PatchSuccess, PrepareReview, RecordReview, PatchReview, store
  <2>5. \A j \in Jobs : free[j].state # "none" =>
          free[j].chk \in CheckIds /\ check[free[j].chk] # "absent" /\ owner[free[j].chk] = j
    BY DEF IInv, StoreInv, Known, OwnCheck
  <2> QED BY <1>1, <2>1, <2>2, <2>3, <2>4, <2>5 DEF Known
<1>3. ASSUME NEW r \in Requests, pc'[r] \in {"phase_two", "prepare"}
      PROVE  owner'[me'[r].chk] = me'[r].job
  <2>1. CASE pc'[r] = pc[r] /\ me'[r] = me[r]
    <3>1. Known(me[r].chk)
      BY <1>0, <1>3, <2>1 DEF IInv, ThreadInv, CallInv, FaultSteps, StartPcs
    <3> QED BY <1>1, <1>3, <2>1, <3>1 DEF OwnCheck, Known
  <2>2. CASE PhaseTwo(r)
    <3>1. /\ Known(me[r].chk) /\ owner' = owner /\ me[r] \in Local
          /\ owner[me[r].chk] = me[r].job
      BY <1>0, <2>2 DEF PhaseTwo, IInv, TypeOK, ThreadInv, CallInv, FaultSteps, StartPcs,
         github, OwnCheck
    <3>2. me'[r].chk = me[r].chk /\ me'[r].job = me[r].job
      BY <1>0, <2>2, <3>1 DEF PhaseTwo, IInv, TypeOK, Local
    <3> QED BY <3>1, <3>2
  <2>3. CASE CreateCheck(r)
    <3>1. Goto(r, CatchAt(me[r].ctx)) => pc'[r] \notin {"phase_two", "prepare"}
      BY <1>0 DEF Goto, IInv, TypeOK, CatchAt
    <3>2. PICK k \in CheckIds :
            /\ check[k] = "absent" /\ owner' = [owner EXCEPT ![k] = me[r].job]
            /\ me' = [me EXCEPT ![r].chk = k,
                        ![r].ctx = IF @ = "review_create" THEN "review_prepare" ELSE @]
      BY <1>3, <2>3, <3>1 DEF CreateCheck, Raise
    <3>3. me'[r].chk = k /\ me'[r].job = me[r].job /\ owner'[k] = me[r].job
      BY <1>0, <3>2 DEF IInv, TypeOK, Local
    <3> QED BY <3>3
  <2>4. ASSUME NEW t \in Threads, ThreadStep(t) \/ StepFails(t)
        PROVE  CreateCheck(r) \/ (pc'[r] = pc[r] /\ me'[r] = me[r])
    <3>1. CASE t # r
      BY <1>0, <2>4, <3>1, ThreadUnpaid DEF FreeOnly, MovesUnpaid, Others
    <3>2. CASE t = r
      BY <1>0, <1>3, <2>4, <3>2 DEF ThreadStep, FailureStep, FreeStep, StepFails,
         FailureObserve, FailureInsert, FailureAuthorize, FailurePatch, FailureCheck,
         FailureCommit, Done, Resume, Revalidate, Authorize, PatchSuccess, ObserveSuccess,
         CommitFree, Passed, Raise, CatchAt, Goto, IInv, TypeOK
    <3> QED BY <3>1, <3>2
  <2>5. ASSUME NEW q \in Requests, RequestStep(q)
        PROVE  PhaseTwo(r) \/ (pc'[r] = pc[r] /\ me'[r] = me[r])
    <3>1. CASE q # r
      BY <1>0, <2>5, <3>1, RequestUnpaid DEF FreeOnly, MovesUnpaid, Others
    <3>2. CASE q = r
      BY <1>0, <1>3, <2>5, <3>2 DEF RequestStep, Submit, Lookup, PrepareFree, BindException,
         Raise, CatchAt, Goto, IInv, TypeOK
    <3> QED BY <3>1, <3>2
  <2>6. CASE WorkerStep(Worker) \/ Restart(Worker)
    <3>1. r # Worker
      BY PublicationAssumption
    <3> QED
      BY <1>0, <2>1, <2>6, <3>1 DEF WorkerStep, ReviewStep, Restart, Reconcile, ListPending, TakePending,
         RecoverFailure, Claim, Process, Finish, PrepareReview, RecoverReview, RecordReview,
         AuthorizeReview, PatchReview, Unverified, Raise, Goto, IInv, TypeOK
  <2>7. CASE Crash
    BY <1>0, <1>3, <2>7 DEF Crash
  <2> QED BY <2>1, <2>2, <2>3, <2>4, <2>5, <2>6, <2>7 DEF Next, Provenance, ToggleEnrollment, vars
<1> QED BY <1>2, <1>3 DEF OwnCheck

LEMMA UniqueInit == Init => UniqueInv
BY DEF Init, UniqueInv, FreeOnly, OwnCheck, Unpaid, PaidCtx, PaidPcs, ReviewPcs, Fresh,
   NoFailure, NoFree, NoReview, Threads

LEMMA UniqueImplied == IInv /\ UniqueInv => SuccessIsUnique
<1> SUFFICES ASSUME IInv, UniqueInv, NEW k \in CheckIds, check[k] = "success"
             PROVE  \E j \in Jobs : j = owner[k] /\ free[j].chk = k
  BY DEF SuccessIsUnique
<1>1. "success" \in EvidenceFor(k)
  BY DEF IInv, StoreInv, TerminalHasEvidence, Conclusions
<1>2. PICK j \in Jobs : free[j].state # "none" /\ free[j].chk = k
  BY <1>1 DEF EvidenceFor, UniqueInv, FreeOnly
<1> QED BY <1>2 DEF UniqueInv, OwnCheck

\* Without paid reviews a candidate is green on at most one Check Run, however
\* many submissions, retries, rivals and crashes there are: a success speaks for
\* the one free receipt of the candidate the Check Run was created for.
THEOREM OneSuccess ==
  ASSUME Paid = FALSE
  PROVE  Spec => []SuccessIsUnique
<1>1. IInv /\ UniqueInv /\ [Next]_vars => UniqueInv'
  BY FreeOnlyStep, OwnCheckStep DEF UniqueInv
<1> QED BY PublicationInvariant, UniqueInit, UniqueImplied, <1>1, PTL DEF Spec
=============================================================================
