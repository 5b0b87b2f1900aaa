----------------------------- MODULE Publication -----------------------------
(***************************************************************************)
(* How the review broker publishes GitHub Check Runs for its jobs.         *)
(*                                                                         *)
(* One worker thread reconciles, recovers, claims and processes jobs.  One *)
(* HTTP handler thread per free-review request binds a signed receipt at   *)
(* the same time.  Both write the same SQLite store and the same Check     *)
(* Runs; the process may die between any two steps and be restarted.       *)
(*                                                                         *)
(* A step is one request to GitHub or one store transaction.  A GitHub     *)
(* call can raise without effect; a POST or PATCH can also take effect and *)
(* lose its reply.  An exception goes where the Python code catches it,    *)
(* which depends on the caller: me[t].ctx names the enclosing try block.   *)
(***************************************************************************)
EXTENDS Naturals

CONSTANTS
  Jobs,        \* job_id of each exact candidate, in order of arrival
  Requests,    \* free-review submissions
  JobOf,       \* JobOf[r]: the candidate submission r names
  PhaseOne,    \* PhaseOne[r]: the signed phase-one receipt it carries
  Receipts,    \* phase-one receipts
  Worker,      \* the worker thread
  CheckIds,    \* Check Run ids GitHub can hand out
  NoCheck,
  Paid,        \* TRUE: process is called with paid_review_requested
  MaxFaults,   \* bound: exceptions and lost replies in a behaviour
  MaxCrashes,  \* bound: process crashes
  MaxToggles   \* bound: enrollment disables and re-enrollments

Threads == Requests \cup {Worker}

ASSUME PublicationAssumption ==
  /\ Jobs \subseteq Nat \ {0}
  /\ JobOf \in [Requests -> Jobs]
  /\ PhaseOne \in [Requests -> Receipts]
  /\ Worker \notin Requests
  /\ NoCheck \notin CheckIds
  /\ Paid \in BOOLEAN
  /\ MaxFaults \in Nat /\ MaxCrashes \in Nat /\ MaxToggles \in Nat

\* successConclusion, unavailableConclusion and unverifiedConclusion.
Conclusions == {"success", "failure", "action_required"}
CheckState == {"absent", "in_progress"} \cup Conclusions
JobStatus == {"waiting", "queued", "running", "completed", "failed"}

\* The reasons process gives up on.
Reasons == {"consent", "github", "stale"}

\* Mutant: the status name goes out as the conclusion.
ConclusionIsStatus ==
  [q \in Reasons |-> IF q = "stale" THEN "unverified" ELSE "failure"]

\* The conclusion of each reason's status.
ConclusionOf ==
  [q \in Reasons |-> IF q = "stale" THEN "action_required" ELSE "failure"]

VARIABLES
  status,    \* jobs.status
  attempts,  \* jobs.attempts
  check,     \* GitHub: state of each Check Run
  owner,     \* GitHub: the job whose head SHA and name a Check Run carries
  ext,       \* GitHub: external_id
  failure,   \* failure_preparations, one row per Check Run at most
  free,      \* free_review_receipts, one row per candidate at most
  review,    \* review_preparations, one row per candidate at most
  enrolled,  \* the repository's enrollment is active
  pc,        \* pc[t]: the next step of thread t
  me,        \* me[t]: its local variables
  todo,      \* the rows the worker's current recovery loop has yet to visit
  recovered, \* recover_pending_publications counted something
  resp,      \* resp[r]: what the submitter of request r was told
  faults, crashes, toggles

store == <<failure, free, review>>
github == <<check, owner, ext>>
loop == <<todo, recovered>>
world == <<enrolled, crashes, toggles>>
vars == <<status, attempts, check, owner, ext, failure, free, review, enrolled,
          pc, me, todo, recovered, resp, faults, crashes, toggles>>

NoFailure == [state |-> "none", concl |-> "failure", link |-> FALSE]
NoFree == [state |-> "none", chk |-> NoCheck]
NoReview == [state |-> "none", chk |-> NoCheck, concl |-> "success"]
NoExt == [kind |-> "none", job |-> 0, of |-> NoCheck]

\* Locals: the candidate, the Check Run, the enclosing try block, the conclusion
\* being published, its reason, whether the failure names a review preparation,
\* and what an earlier read saw.
RequestCtx ==
  {"bind_create", "bind", "bind_observe", "phase_two", "bind_exc", "resume"}
WorkerCtx ==
  {"recover_free", "recover_review", "recover_review_exc", "recover_failure",
   "process", "review_create", "review_prepare", "review_record",
   "review_publish", "review_exc"}
Stage == {"none", "prepared", "finalized"}
Local == [job : Jobs \cup {0}, chk : CheckIds \cup {NoCheck},
          ctx : RequestCtx \cup WorkerCtx \cup {"none"},
          concl : Conclusions, why : Reasons, link : BOOLEAN,
          seen : Stage \cup CheckState]
Fresh == [job |-> 0, chk |-> NoCheck, ctx |-> "none", concl |-> "failure",
          why |-> "consent", link |-> FALSE, seen |-> "none"]

Init ==
  /\ status = [j \in Jobs |-> "waiting"]
  /\ attempts = [j \in Jobs |-> 0]
  /\ check = [k \in CheckIds |-> "absent"]
  /\ owner = [k \in CheckIds |-> 0]
  /\ ext = [k \in CheckIds |-> NoExt]
  /\ failure = [k \in CheckIds |-> NoFailure]
  /\ free = [j \in Jobs |-> NoFree]
  /\ review = [j \in Jobs |-> NoReview]
  /\ enrolled = TRUE
  /\ pc = [t \in Threads |-> IF t = Worker THEN "reconcile" ELSE "new"]
  /\ me = [t \in Threads |-> Fresh]
  /\ todo = {}
  /\ recovered = FALSE
  /\ resp = [r \in Requests |-> "none"]
  /\ faults = 0 /\ crashes = 0 /\ toggles = 0

-----------------------------------------------------------------------------
(* Control flow shared by every caller *)

Goto(t, p) == pc' = [pc EXCEPT ![t] = p]
Reply(t, x) == resp' = IF t \in Requests THEN [resp EXCEPT ![t] = x] ELSE resp

\* Where an exception raised in each context is caught.
CatchAt(c) ==
  CASE c = "bind" -> "exc"
    [] c \in {"bind_create", "bind_observe", "phase_two", "bind_exc", "resume"} -> "done"
    [] c = "recover_free" -> "next_free"
    [] c \in {"recover_review", "recover_review_exc"} -> "next_review"
    [] c = "recover_failure" -> "next_failure"
    [] c = "process" -> "finish_failed"
    [] c = "review_create" -> "create"
    [] c \in {"review_prepare", "review_record"} -> "f_observe"
    [] c = "review_publish" -> "reconcile"
    [] OTHER -> "finish_ok"  \* review_exc

\* The locals the handler runs with; none once the call is over.
Caught(m) ==
  CASE m.ctx = "bind" -> [m EXCEPT !.ctx = "bind_observe"]
    [] m.ctx = "review_create" ->
         [m EXCEPT !.ctx = "process", !.why = "github", !.concl = "failure"]
    [] m.ctx \in {"review_prepare", "review_record"} ->
         [m EXCEPT !.ctx = "review_exc", !.concl = "action_required",
                   !.link = (m.ctx = "review_record")]
    [] m.ctx \in {"process", "review_exc"} -> m
    [] OTHER -> Fresh

Raise(t) ==
  /\ Goto(t, CatchAt(me[t].ctx))
  /\ me' = [me EXCEPT ![t] = Caught(@)]
  /\ IF CatchAt(me[t].ctx) = "done"
     THEN Reply(t, IF me[t].ctx = "bind_exc" THEN "UNVERIFIED" ELSE "error")
     ELSE UNCHANGED resp

Spend == faults < MaxFaults /\ faults' = faults + 1

\* Steps that call GitHub or the store and may raise before any effect.
FaultSteps ==
  {"lookup", "create", "phase_two", "prepare", "revalidate", "authorize",
   "patch", "observe", "commit", "resume", "exc", "process",
   "review_prepare", "record", "review_auth", "review_patch", "recover_review",
   "recover_failure",
   "f_observe", "f_insert", "f_auth", "f_patch", "f_check", "f_commit"}

StepFails(t) ==
  /\ pc[t] \in FaultSteps
  /\ Spend
  /\ Raise(t)
  /\ UNCHANGED <<status, attempts, github, store, loop, world>>

-----------------------------------------------------------------------------
(* _create_check *)

ExtOf(t) ==
  CASE me[t].ctx = "bind_create" ->
         [kind |-> "free", job |-> me[t].job, of |-> PhaseOne[t]]
    [] me[t].ctx = "process" ->
         [kind |-> me[t].why, job |-> me[t].job, of |-> NoCheck]
    [] OTHER -> [kind |-> me[t].concl, job |-> me[t].job, of |-> NoCheck]

\* Mutant: _publish_failure completes the Check Run before it prepares.
AfterCreateUnprepared(c) ==
  CASE c = "bind_create" -> "phase_two"
    [] c = "process" -> "f_patch"
    [] OTHER -> "review_prepare"

\* What follows the call, for each caller.
AfterCreate(c) ==
  CASE c = "bind_create" -> "phase_two"
    [] c = "process" -> "f_observe"
    [] OTHER -> "review_prepare"  \* review_create

\* POST check-runs: in progress from the start, with the caller's external_id.
\* The reply may be lost, which leaves a Check Run nothing in the store names.
CreateCheck(t) ==
  /\ pc[t] = "create"
  /\ \E k \in CheckIds :
       /\ check[k] = "absent"
       /\ check' = [check EXCEPT ![k] = "in_progress"]
       /\ owner' = [owner EXCEPT ![k] = me[t].job]
       /\ ext' = [ext EXCEPT ![k] = ExtOf(t)]
       /\ \/ /\ Goto(t, AfterCreate(me[t].ctx))
             /\ me' = [me EXCEPT ![t].chk = k,
                         ![t].ctx = IF @ = "review_create" THEN "review_prepare" ELSE @]
             /\ UNCHANGED <<resp, faults>>
          \/ Spend /\ Raise(t)
  /\ UNCHANGED <<status, attempts, store, loop, world>>

-----------------------------------------------------------------------------
(* The failure publication: prepare_failure_publication, _complete_check and *)
(* record_failure_publication, as _publish_failure,                          *)
(* _publish_failure_on_check and the failure loop of recovery run them.      *)

Done(t) ==
  LET c == me[t].ctx IN
  /\ Goto(t, CASE c \in {"phase_two", "bind_exc"} -> "done"
               [] c \in {"process", "review_exc"} -> "finish_ok"
               [] OTHER -> "finish_failed")
  /\ me' = IF c \in {"phase_two", "bind_exc"} THEN [me EXCEPT ![t] = Fresh] ELSE me
  /\ IF c = "phase_two" THEN Reply(t, "refused")
     ELSE IF c = "bind_exc" THEN Reply(t, "UNVERIFIED") ELSE UNCHANGED resp

\* The Check Run must be in progress or already hold the very conclusion.
FailureObserve(t) ==
  /\ pc[t] = "f_observe"
  /\ IF check[me[t].chk] \in {"in_progress", me[t].concl}
     THEN Goto(t, "f_insert") /\ UNCHANGED <<me, resp>>
     ELSE Raise(t)
  /\ UNCHANGED <<status, attempts, github, store, loop, world, faults>>

\* One transaction: an enrolled candidate, the exact review preparation when
\* one is named, and no failure row yet for this Check Run or external_id.
CanInsertFailure(t) ==
  LET m == me[t] IN
  /\ enrolled
  /\ m.link => review[m.job].chk = m.chk /\ review[m.job].state = "prepared"
  /\ \A k \in CheckIds :
       failure[k].state # "none" => k # m.chk /\ ext[k] # ext[m.chk]

FailureInsert(t) ==
  /\ pc[t] = "f_insert"
  /\ IF CanInsertFailure(t)
     THEN /\ failure' = [failure EXCEPT ![me[t].chk] =
               [state |-> "prepared", concl |-> me[t].concl, link |-> me[t].link]]
          /\ Goto(t, "f_auth") /\ UNCHANGED <<me, resp>>
     ELSE Raise(t) /\ UNCHANGED failure
  /\ UNCHANGED <<status, attempts, github, free, review, loop, world, faults>>

\* authorize_terminal_publication("failure"): read the row, release the lock.
FailureAuthorize(t) ==
  LET f == failure[me[t].chk] IN
  /\ pc[t] = "f_auth"
  /\ IF f.state = "prepared" /\ f.concl = me[t].concl
     THEN Goto(t, "f_patch") /\ UNCHANGED <<me, resp>>
     ELSE Raise(t)
  /\ UNCHANGED <<status, attempts, github, store, loop, world, faults>>

\* The PATCH that follows overwrites whatever the Check Run says by then.
FailurePatch(t) ==
  /\ pc[t] = "f_patch"
  /\ check' = [check EXCEPT ![me[t].chk] = me[t].concl]
  /\ \/ Goto(t, "f_check") /\ UNCHANGED <<me, resp, faults>>
     \/ Spend /\ Raise(t)
  /\ UNCHANGED <<status, attempts, owner, ext, store, loop, world>>

\* record_failure_publication: done already, or observe the exact conclusion.
FailureCheck(t) ==
  LET k == me[t].chk IN
  /\ pc[t] = "f_check"
  /\ \/ failure[k].state = "finalized" /\ Done(t)
     \/ /\ failure[k].state # "finalized"
        /\ IF check[k] = failure[k].concl
           THEN Goto(t, "f_commit") /\ UNCHANGED <<me, resp>>
           ELSE Raise(t)
  /\ UNCHANGED <<status, attempts, github, store, loop, world, faults>>

\* Mutant: the row is deleted once it is published.
FailureCommitDeletes(t) ==
  /\ pc[t] = "f_commit"
  /\ failure' = [failure EXCEPT ![me[t].chk] = NoFailure]
  /\ Done(t)
  /\ UNCHANGED <<status, attempts, github, free, review, loop, world, faults>>

\* prepared -> finalized, and the linked review preparation is written off.
FailureCommit(t) ==
  LET k == me[t].chk
      j == owner[k] IN
  /\ pc[t] = "f_commit"
  /\ IF failure[k].state = "prepared"
     THEN /\ failure' = [failure EXCEPT ![k].state = "finalized"]
          /\ review' = IF failure[k].link /\ review[j].state = "prepared"
                       THEN [review EXCEPT ![j].state = "failed"] ELSE review
          /\ Done(t)
     ELSE Raise(t) /\ UNCHANGED <<failure, review>>
  /\ UNCHANGED <<status, attempts, github, free, loop, world, faults>>

FailureStep(t) ==
  \/ FailureObserve(t) \/ FailureInsert(t) \/ FailureAuthorize(t)
  \/ FailurePatch(t) \/ FailureCheck(t) \/ FailureCommit(t)

-----------------------------------------------------------------------------
(* POST /free-review: bind_free_review and _resume_free_review *)

\* latest_installation and get_provenance need the candidate's webhook and its
\* provenance, which is what takes a job out of "waiting".
Submit(r) ==
  /\ pc[r] = "new" /\ pc[Worker] # "down"
  /\ IF enrolled /\ status[JobOf[r]] # "waiting"
     THEN /\ Goto(r, "lookup")
          /\ me' = [me EXCEPT ![r].job = JobOf[r], ![r].ctx = "bind_create"]
          /\ UNCHANGED resp
     ELSE Goto(r, "done") /\ Reply(r, "error") /\ UNCHANGED me
  /\ UNCHANGED <<status, attempts, github, store, loop, world, faults>>

\* Mutant: any receipt resumes the one the candidate is bound to.
LookupAnyReceipt(r) ==
  LET row == free[me[r].job] IN
  /\ pc[r] = "lookup"
  /\ Goto(r, IF row.state = "none" THEN "create" ELSE "resume")
  /\ me' = IF row.state = "none" THEN me
           ELSE [me EXCEPT ![r].ctx = "resume", ![r].chk = row.chk,
                           ![r].seen = row.state]
  /\ UNCHANGED <<status, attempts, github, store, loop, world, resp, faults>>

\* free_review_for_coordinates: the very same receipt resumes, another is refused.
Lookup(r) ==
  LET row == free[me[r].job] IN
  /\ pc[r] = "lookup"
  /\ \/ /\ row.state = "none"
        /\ Goto(r, "create") /\ UNCHANGED <<me, resp>>
     \/ /\ row.state # "none" /\ ext[row.chk].of = PhaseOne[r]
        /\ Goto(r, "resume")
        /\ me' = [me EXCEPT ![r].ctx = "resume", ![r].chk = row.chk,
                            ![r].seen = row.state]
        /\ UNCHANGED resp
     \/ /\ row.state # "none" /\ ext[row.chk].of # PhaseOne[r]
        /\ Goto(r, "done") /\ Reply(r, "error") /\ me' = [me EXCEPT ![r] = Fresh]
  /\ UNCHANGED <<status, attempts, github, store, loop, world, faults>>

\* github_app_phase_two_receipt: the candidate still matches, or it does not.
PhaseTwo(r) ==
  /\ pc[r] = "phase_two"
  /\ \/ Goto(r, "prepare") /\ me' = [me EXCEPT ![r].ctx = "bind"]
     \/ \E c \in {"failure", "action_required"} :
          /\ Goto(r, "f_observe")
          /\ me' = [me EXCEPT ![r].ctx = "phase_two", ![r].concl = c]
  /\ UNCHANGED <<status, attempts, github, store, loop, world, resp, faults>>

\* Mutant: free_review_receipts without its key on the candidate.
PrepareFreeAgain(r) ==
  LET m == me[r] IN
  /\ pc[r] = "prepare"
  /\ free' = [free EXCEPT ![m.job] = [state |-> "prepared", chk |-> m.chk]]
  /\ Goto(r, "revalidate")
  /\ UNCHANGED <<status, attempts, github, failure, review, loop, me, world, resp, faults>>

\* prepare_free_review: only this thread knows the Check Run so far, so the
\* observation and the insert are one step.
PrepareFree(r) ==
  LET m == me[r] IN
  /\ pc[r] = "prepare"
  /\ IF check[m.chk] = "in_progress" /\ free[m.job].state = "none"
     THEN /\ free' = [free EXCEPT ![m.job] =
                        [state |-> "prepared", chk |-> m.chk]]
          /\ Goto(r, "revalidate") /\ UNCHANGED <<me, resp>>
     ELSE Raise(r) /\ UNCHANGED free
  /\ UNCHANGED <<status, attempts, github, failure, review, loop, world, faults>>

\* The receipt is bound: the submitter is told PASSED, or recovery goes on.
Passed(t) ==
  /\ me' = [me EXCEPT ![t] = Fresh]
  /\ IF t = Worker
     THEN Goto(t, "next_free") /\ recovered' = TRUE /\ UNCHANGED resp
     ELSE Goto(t, "done") /\ Reply(t, "PASSED") /\ UNCHANGED recovered

\* Mutant: a Check Run that is green already needs no finalization.
ResumeGreen(t) ==
  /\ pc[t] = "resume"
  /\ CASE check[me[t].chk] = "in_progress" /\ me[t].seen = "prepared" ->
            Goto(t, "revalidate") /\ UNCHANGED <<me, resp, recovered>>
       [] check[me[t].chk] = "success" -> Passed(t)
       [] OTHER -> Raise(t) /\ UNCHANGED recovered
  /\ UNCHANGED <<status, attempts, github, store, todo, world, faults>>

\* The first observation of _resume_free_review, against the row read earlier.
Resume(t) ==
  LET m == me[t] IN
  /\ pc[t] = "resume"
  /\ CASE check[m.chk] = "in_progress" /\ m.seen = "prepared" ->
            Goto(t, "revalidate") /\ UNCHANGED <<me, resp, recovered>>
       [] check[m.chk] = "success" /\ m.seen = "prepared" ->
            Goto(t, "observe") /\ UNCHANGED <<me, resp, recovered>>
       [] check[m.chk] = "success" /\ m.seen = "finalized" ->
            Passed(t)
       [] OTHER -> Raise(t) /\ UNCHANGED recovered
  /\ UNCHANGED <<status, attempts, github, store, todo, world, faults>>

\* _revalidate_free_publication: the pull request may have moved, and the
\* Check Run must still be in progress.
Revalidate(t) ==
  /\ pc[t] = "revalidate"
  /\ \/ /\ check[me[t].chk] = "in_progress"
        /\ Goto(t, "authorize") /\ UNCHANGED <<me, resp>>
     \/ Raise(t)
  /\ UNCHANGED <<status, attempts, github, store, loop, world, faults>>

\* authorize_terminal_publication("free_review")
Authorize(t) ==
  /\ pc[t] = "authorize"
  /\ IF free[me[t].job].state = "prepared"
     THEN Goto(t, "patch") /\ UNCHANGED <<me, resp>>
     ELSE Raise(t)
  /\ UNCHANGED <<status, attempts, github, store, loop, world, faults>>

PatchSuccess(t) ==
  /\ pc[t] = "patch"
  /\ check' = [check EXCEPT ![me[t].chk] = "success"]
  /\ \/ Goto(t, "observe") /\ UNCHANGED <<me, resp, faults>>
     \/ Spend /\ Raise(t)
  /\ UNCHANGED <<status, attempts, owner, ext, store, loop, world>>

\* Mutant: the success PATCH alone counts as bound.
ObservePasses(t) ==
  /\ pc[t] = "observe"
  /\ check[me[t].chk] = "success"
  /\ Passed(t)
  /\ UNCHANGED <<status, attempts, github, store, todo, world, faults>>

\* finalize_free_review: the row and the Check Run are read first ...
ObserveSuccess(t) ==
  /\ pc[t] = "observe"
  /\ IF free[me[t].job].state = "prepared" /\ check[me[t].chk] = "success"
     THEN Goto(t, "commit") /\ UNCHANGED <<me, resp>>
     ELSE Raise(t)
  /\ UNCHANGED <<status, attempts, github, store, loop, world, faults>>

\* ... and the update finds the row prepared, or "free review finalization raced".
CommitFree(t) ==
  LET j == me[t].job IN
  /\ pc[t] = "commit"
  /\ IF free[j].state = "prepared"
     THEN /\ free' = [free EXCEPT ![j].state = "finalized"]
          /\ Passed(t)
     ELSE Raise(t) /\ UNCHANGED <<free, recovered>>
  /\ UNCHANGED <<status, attempts, github, failure, review, todo, world, faults>>

\* bind_free_review's except clause: publish a failure unless the Check Run is
\* terminal already; either way the submitter is told UNVERIFIED.
BindException(r) ==
  /\ pc[r] = "exc"
  /\ IF check[me[r].chk] = "in_progress"
     THEN /\ Goto(r, "f_observe")
          /\ me' = [me EXCEPT ![r].ctx = "bind_exc",
                              ![r].concl = "action_required"]
          /\ UNCHANGED resp
     ELSE Goto(r, "done") /\ Reply(r, "UNVERIFIED") /\ me' = [me EXCEPT ![r] = Fresh]
  /\ UNCHANGED <<status, attempts, github, store, loop, world, faults>>

FreeStep(t) ==
  \/ Resume(t) \/ Revalidate(t) \/ Authorize(t) \/ PatchSuccess(t)
  \/ ObserveSuccess(t) \/ CommitFree(t)

RequestStep(r) ==
  \/ Submit(r) \/ Lookup(r) \/ PhaseTwo(r) \/ PrepareFree(r)
  \/ BindException(r)

-----------------------------------------------------------------------------
(* The worker's loop *)

\* reconcile_interrupted_jobs, one transaction over every running job.
FailureStates(j) ==
  {failure[k].state : k \in {c \in CheckIds : owner[c] = j}} \ {"none"}

\* Mutant: a running job with nothing prepared is left alone.
ReconciledNoRequeue(j) ==
  CASE "finalized" \in FailureStates(j) -> "failed"
    [] FailureStates(j) = {} /\ review[j].state = "failed" -> "failed"
    [] OTHER -> "running"

\* Mutant: a published failure does not finish the job.
ReconciledNoFailure(j) ==
  IF FailureStates(j) = {} /\ review[j].state = "none" THEN "queued" ELSE "running"

Reconciled(j) ==
  CASE "finalized" \in FailureStates(j) -> "failed"
    [] FailureStates(j) = {"prepared"} -> "running"
    [] FailureStates(j) = {} /\ review[j].state = "none" -> "queued"
    [] FailureStates(j) = {} /\ review[j].state = "failed" -> "failed"
    [] OTHER -> "running"

\* Mutant: every job, not only the running ones.
ReconcileEveryJob(w) ==
  /\ pc[w] = "reconcile"
  /\ status' = [j \in Jobs |-> Reconciled(j)]
  /\ Goto(w, "list_free")
  /\ recovered' = FALSE
  /\ UNCHANGED <<attempts, github, store, me, todo, world, resp, faults>>

Reconcile(w) ==
  /\ pc[w] = "reconcile"
  /\ status' = [j \in Jobs |->
                  IF status[j] = "running" THEN Reconciled(j) ELSE status[j]]
  /\ Goto(w, "list_free")
  /\ recovered' = FALSE
  /\ UNCHANGED <<attempts, github, store, me, todo, world, resp, faults>>

\* recover_pending_publications reads its three lists one after the other;
\* each is a snapshot that the loop below it then walks.
PendingFree == {j \in Jobs : free[j].state = "prepared"}
PendingReviews ==
  {j \in Jobs :
     /\ review[j].state \in {"prepared", "finalized"}
     /\ status[j] = "running"
     /\ \A k \in CheckIds :
          owner[k] = j /\ failure[k].state # "none" => ~failure[k].link}
\* Mutant: failures of running jobs only, as the review list has it.
PendingRunningFailures ==
  {k \in CheckIds : failure[k].state = "prepared" /\ status[owner[k]] = "running"}
PendingFailures == {k \in CheckIds : failure[k].state = "prepared"}

ListPending(w) ==
  /\ \/ pc[w] = "list_free" /\ todo' = PendingFree /\ Goto(w, "next_free")
     \/ /\ pc[w] = "next_free" /\ todo = {}
        /\ todo' = PendingReviews /\ Goto(w, "next_review")
     \/ /\ pc[w] = "next_review" /\ todo = {}
        /\ todo' = PendingFailures /\ Goto(w, "next_failure")
     \/ /\ pc[w] = "next_failure" /\ todo = {}
        /\ Goto(w, IF recovered THEN "reconcile" ELSE "claim")
        /\ UNCHANGED todo
  /\ UNCHANGED <<status, attempts, github, store, me, recovered, world, resp, faults>>

\* Take one row of the list.  Without an enrollment, or when GitHub does not
\* mint a token, the row is left for a later round.
TakePending(w) ==
  \E x \in todo :
    /\ todo' = todo \ {x}
    /\ \/ /\ pc[w] = "next_free" /\ enrolled /\ Goto(w, "resume")
          /\ me' = [me EXCEPT ![w] = [Fresh EXCEPT !.ctx = "recover_free",
                      !.job = x, !.chk = free[x].chk, !.seen = "prepared"]]
          /\ UNCHANGED faults
       \/ /\ pc[w] = "next_review" /\ enrolled /\ Goto(w, "recover_review")
          /\ me' = [me EXCEPT ![w] = [Fresh EXCEPT !.ctx = "recover_review",
                      !.job = x, !.chk = review[x].chk, !.concl = review[x].concl]]
          /\ UNCHANGED faults
       \/ /\ pc[w] = "next_failure" /\ enrolled /\ Goto(w, "recover_failure")
          /\ me' = [me EXCEPT ![w] = [Fresh EXCEPT !.ctx = "recover_failure",
                      !.job = owner[x], !.chk = x, !.concl = failure[x].concl]]
          /\ UNCHANGED faults
       \/ /\ pc[w] \in {"next_free", "next_review", "next_failure"}
          /\ \/ ~enrolled /\ UNCHANGED faults
             \/ enrolled /\ Spend
          /\ UNCHANGED <<pc, me>>
    /\ UNCHANGED <<status, attempts, github, store, recovered, world, resp>>

\* The failure loop skips the PATCH when GitHub already shows the conclusion.
RecoverFailure(w) ==
  /\ pc[w] = "recover_failure"
  /\ Goto(w, IF check[me[w].chk] = me[w].concl THEN "f_check" ELSE "f_auth")
  /\ UNCHANGED <<status, attempts, github, store, loop, me, world, resp, faults>>

\* claim: the oldest queued job; with none, the worker waits and loops.
Claim(w) ==
  LET queued == {j \in Jobs : status[j] = "queued"} IN
  /\ pc[w] = "claim"
  /\ \/ /\ queued = {} /\ Goto(w, "reconcile")
        /\ UNCHANGED <<status, attempts, me>>
     \/ \E j \in queued :
          /\ \A i \in queued : j <= i
          /\ status' = [status EXCEPT ![j] = "running"]
          /\ attempts' = [attempts EXCEPT ![j] = @ + 1]
          /\ me' = [me EXCEPT ![w] = [Fresh EXCEPT !.ctx = "process", !.job = j]]
          /\ Goto(w, "process")
  /\ UNCHANGED <<github, store, loop, world, resp, faults>>

\* process, up to its Check Run: it gives up for some reason, or (only when a
\* paid review was requested) it holds a settled verdict.
Process(w) ==
  /\ pc[w] = "process"
  /\ \/ ~enrolled /\ Goto(w, "finish_failed") /\ UNCHANGED me
     \/ /\ enrolled
        /\ Goto(w, "create")
        /\ \/ \E q \in Reasons :
                me' = [me EXCEPT ![w].why = q, ![w].concl = ConclusionOf[q]]
           \/ /\ Paid
              /\ \E v \in {"success", "action_required"} :
                   me' = [me EXCEPT ![w].ctx = "review_create", ![w].concl = v]
  /\ UNCHANGED <<status, attempts, github, store, loop, world, resp, faults>>

\* finish_job writes the outcome whatever the row says.  If the store refuses
\* it three times the job stays running for the next reconciliation.
Finish(w) ==
  LET c == me[w].ctx IN
  /\ pc[w] \in {"finish_ok", "finish_failed"}
  /\ \/ /\ status' = [status EXCEPT ![me[w].job] =
                        IF pc[w] = "finish_ok" THEN "completed" ELSE "failed"]
        /\ Goto(w, CASE c \in {"recover_review", "recover_review_exc"} -> "next_review"
                     [] c = "recover_failure" -> "next_failure"
                     [] OTHER -> "reconcile")
        /\ recovered' = (recovered \/ c \in {"recover_review", "recover_failure"})
        /\ UNCHANGED faults
     \/ Spend /\ Goto(w, "reconcile") /\ UNCHANGED <<status, recovered>>
  /\ me' = [me EXCEPT ![w] = Fresh]
  /\ UNCHANGED <<attempts, github, store, todo, world, resp>>

-----------------------------------------------------------------------------
(* Publishing a paid review *)

\* Mutant: the verdict is published before reviews_v3 holds it.
PrepareReviewAndPublish(w) ==
  LET m == me[w] IN
  /\ pc[w] = "review_prepare"
  /\ enrolled /\ review[m.job].state = "none"
  /\ review' = [review EXCEPT ![m.job] =
                  [state |-> "prepared", chk |-> m.chk, concl |-> m.concl]]
  /\ me' = [me EXCEPT ![w].ctx = "review_record"]
  /\ Goto(w, "review_patch")
  /\ UNCHANGED <<status, attempts, github, failure, free, loop, world, resp, faults>>

\* _write_review("prepare"): the Check Run is in progress, the job running, the
\* enrollment active and the candidate has no preparation.
PrepareReview(w) ==
  LET m == me[w] IN
  /\ pc[w] = "review_prepare"
  /\ IF /\ check[m.chk] = "in_progress" /\ status[m.job] = "running"
        /\ enrolled /\ review[m.job].state = "none"
     THEN /\ review' = [review EXCEPT ![m.job] =
               [state |-> "prepared", chk |-> m.chk, concl |-> m.concl]]
          /\ me' = [me EXCEPT ![w].ctx = "review_record"]
          /\ Goto(w, "record") /\ UNCHANGED resp
     ELSE Raise(w) /\ UNCHANGED review
  /\ UNCHANGED <<status, attempts, github, failure, free, loop, world, faults>>

\* Recovery's handler for a BrokerError that is not UNAVAILABLE: downgrade the
\* Check Run with a failure that names the preparation.
Unverified(w) ==
  IF me[w].ctx # "recover_review" THEN Raise(w)
  ELSE /\ IF enrolled
          THEN /\ Goto(w, "f_observe")
               /\ me' = [me EXCEPT ![w].ctx = "recover_review_exc",
                           ![w].concl = "action_required", ![w].link = TRUE]
          ELSE Goto(w, "next_review") /\ me' = [me EXCEPT ![w] = Fresh]
       /\ UNCHANGED resp

RecoverReview(w) ==
  LET m == me[w] IN
  /\ pc[w] = "recover_review"
  /\ IF check[m.chk] \in {"in_progress", m.concl}
     THEN /\ Goto(w, "record")
          /\ me' = [me EXCEPT ![w].seen = check[m.chk]]
          /\ UNCHANGED resp
     ELSE Unverified(w)
  /\ UNCHANGED <<status, attempts, github, store, loop, world, faults>>

\* _write_review("finalize"): reviews_v3 and the preparation in one transaction.
RecordReview(w) ==
  LET m == me[w] IN
  /\ pc[w] = "record"
  /\ IF /\ check[m.chk] \in {"in_progress", m.concl} /\ enrolled
        /\ review[m.job].chk = m.chk
        /\ review[m.job].state \in {"prepared", "finalized"}
     THEN /\ review' = [review EXCEPT ![m.job].state = "finalized"]
          /\ Goto(w, IF m.ctx = "recover_review" /\ m.seen # "in_progress"
                     THEN "finish_ok" ELSE "review_auth")
          /\ me' = [me EXCEPT ![w].ctx =
                      IF @ = "review_record" THEN "review_publish" ELSE @]
          /\ UNCHANGED resp
     ELSE Unverified(w) /\ UNCHANGED review
  /\ UNCHANGED <<status, attempts, github, failure, free, loop, world, faults>>

\* authorize_terminal_publication("review")
AuthorizeReview(w) ==
  /\ pc[w] = "review_auth"
  /\ IF review[me[w].job].state = "finalized" /\ review[me[w].job].chk = me[w].chk
     THEN Goto(w, "review_patch") /\ UNCHANGED <<me, resp>>
     ELSE Unverified(w)
  /\ UNCHANGED <<status, attempts, github, store, loop, world, faults>>

\* A PATCH that fails leaves the job running, for recovery to publish it.
PatchReview(w) ==
  /\ pc[w] = "review_patch"
  /\ check' = [check EXCEPT ![me[w].chk] = me[w].concl]
  /\ \/ Goto(w, "finish_ok") /\ UNCHANGED <<me, resp, faults>>
     \/ Spend /\ Raise(w)
  /\ UNCHANGED <<status, attempts, owner, ext, store, loop, world>>

ReviewStep(w) ==
  \/ PrepareReview(w) \/ RecoverReview(w) \/ RecordReview(w)
  \/ AuthorizeReview(w) \/ PatchReview(w)

WorkerStep(w) ==
  \/ Reconcile(w) \/ ListPending(w) \/ TakePending(w) \/ RecoverFailure(w)
  \/ Claim(w) \/ Process(w) \/ Finish(w) \/ ReviewStep(w)

-----------------------------------------------------------------------------
(* The environment *)

\* put_provenance_and_queue, for a candidate whose webhook has arrived.
Provenance(j) ==
  /\ pc[Worker] # "down"
  /\ status[j] = "waiting"
  /\ status' = [status EXCEPT ![j] = "queued"]
  /\ UNCHANGED <<attempts, github, store, loop, pc, me, world, resp, faults>>

\* The process dies: threads and their locals are gone, the store and GitHub stay.
Crash ==
  /\ crashes < MaxCrashes
  /\ pc[Worker] # "down"
  /\ crashes' = crashes + 1
  /\ pc' = [t \in Threads |-> IF t = Worker THEN "down"
                              ELSE IF pc[t] = "new" THEN "new" ELSE "done"]
  /\ resp' = [r \in Requests |->
                IF pc[r] \in {"new", "done"} THEN resp[r] ELSE "lost"]
  /\ me' = [t \in Threads |-> Fresh]
  /\ todo' = {} /\ recovered' = FALSE
  /\ UNCHANGED <<status, attempts, github, store, enrolled, toggles, faults>>

Restart(w) ==
  /\ pc[w] = "down"
  /\ Goto(w, "reconcile")
  /\ UNCHANGED <<status, attempts, github, store, me, loop, world, resp, faults>>

\* The operator disables the enrollment, or enrolls a fresh receipt.
ToggleEnrollment ==
  /\ toggles < MaxToggles
  /\ toggles' = toggles + 1
  /\ enrolled' = ~enrolled
  /\ UNCHANGED <<status, attempts, github, store, loop, pc, me, crashes, resp, faults>>

-----------------------------------------------------------------------------

\* What a thread does when nothing goes wrong around it.
ThreadStep(t) == CreateCheck(t) \/ FailureStep(t) \/ FreeStep(t)

Next ==
  \/ \E t \in Threads : ThreadStep(t) \/ StepFails(t)
  \/ \E r \in Requests : RequestStep(r)
  \/ WorkerStep(Worker) \/ Restart(Worker)
  \/ \E j \in Jobs : Provenance(j)
  \/ Crash \/ ToggleEnrollment

Spec == Init /\ [][Next]_vars

\* The worker and the handlers keep running and the service manager restarts
\* the process; faults and crashes are finite, so GitHub and the store answer
\* in the end.
Fairness ==
  /\ WF_vars(ThreadStep(Worker) \/ WorkerStep(Worker) \/ Restart(Worker))
  /\ \A r \in Requests : WF_vars(ThreadStep(r) \/ (pc[r] # "new" /\ RequestStep(r)))

FairSpec == Spec /\ Fairness

-----------------------------------------------------------------------------
(* Properties *)

Steps ==
  FaultSteps \cup
  {"new", "done", "down", "reconcile", "list_free", "next_free", "next_review",
   "next_failure", "claim", "finish_ok", "finish_failed"}
Answers == {"none", "error", "refused", "UNVERIFIED", "PASSED", "lost"}
ExternalId ==
  [kind : {"none", "free"} \cup Reasons \cup Conclusions,
   job : Jobs \cup {0}, of : Receipts \cup {NoCheck}]

\* Every variable has its type.
TypeOK ==
  /\ status \in [Jobs -> JobStatus]
  /\ attempts \in [Jobs -> Nat]
  /\ check \in [CheckIds -> CheckState]
  /\ owner \in [CheckIds -> Jobs \cup {0}]
  /\ ext \in [CheckIds -> ExternalId]
  /\ failure \in [CheckIds -> [state : Stage, concl : Conclusions, link : BOOLEAN]]
  /\ free \in [Jobs -> [state : Stage, chk : CheckIds \cup {NoCheck}]]
  /\ review \in [Jobs -> [state : Stage \cup {"failed"},
                          chk : CheckIds \cup {NoCheck}, concl : Conclusions]]
  /\ enrolled \in BOOLEAN /\ recovered \in BOOLEAN
  /\ pc \in [Threads -> Steps]
  /\ me \in [Threads -> Local]
  /\ todo \subseteq Jobs \cup CheckIds
  /\ resp \in [Requests -> Answers]
  /\ faults \in Nat /\ crashes \in Nat /\ toggles \in Nat

\* The conclusions the store backs for a Check Run: a failure row's own, success
\* for a free receipt, and a review's once reviews_v3 holds it.
EvidenceFor(k) ==
  {c \in Conclusions :
     \/ failure[k].state # "none" /\ failure[k].concl = c
     \/ c = "success" /\ \E j \in Jobs : free[j].state # "none" /\ free[j].chk = k
     \/ \E j \in Jobs : review[j].state = "finalized" /\ review[j].chk = k
                        /\ review[j].concl = c}

\* No Check Run is terminal without durable evidence for that very conclusion,
\* though the store is read, released and only then the PATCH sent, by several
\* threads, with crashes and lost replies in between ("Fail closed unless the
\* exact terminal PATCH already has evidence").
TerminalHasEvidence ==
  \A k \in CheckIds : check[k] \in Conclusions => check[k] \in EvidenceFor(k)

\* A submitter that was told PASSED relies on a finalized receipt, and on its
\* own: not on a rival's, whichever thread finalized it.
PassedIsBound ==
  \A r \in Requests : resp[r] = "PASSED" =>
    LET row == free[JobOf[r]] IN
      row.state = "finalized" /\ ext[row.chk].of = PhaseOne[r]

\* A finished job is never taken up again, though reconciliation requeues
\* running jobs after a crash and finish_job overwrites any status.
NoJobReopens ==
  \A j \in Jobs : status[j] \in {"completed", "failed"} =>
                    status'[j] \in {"completed", "failed"}
FinishedStaysFinished == [][NoJobReopens]_vars

\* Durable evidence only advances: a row is never dropped or rewritten, a
\* finalized one never reopened, and a review is written off only before it is
\* recorded.
Advance(s) ==
  CASE s = "none" -> {"none", "prepared"}
    [] s = "prepared" -> {"prepared", "finalized", "failed"}
    [] OTHER -> {s}

EvidenceAdvances ==
  /\ \A k \in CheckIds :
       /\ failure'[k].state \in Advance(failure[k].state)
       /\ failure[k].state # "none" => failure'[k].concl = failure[k].concl
  /\ \A j \in Jobs :
       /\ free'[j].state \in Advance(free[j].state)
       /\ free[j].state # "none" => free'[j].chk = free[j].chk
       /\ review'[j].state \in Advance(review[j].state)
       /\ review[j].state # "none" => /\ review'[j].chk = review[j].chk
                                      /\ review'[j].concl = review[j].concl
EvidenceOnlyAdvances == [][EvidenceAdvances]_vars

\* Workers, handlers, retries and crashes together still behave like the gate
\* that only adds evidence and concludes a Check Run from it.
Gate == INSTANCE CheckGate
          WITH evidence <- [k \in CheckIds |-> EvidenceFor(k)]
GateSpec == Gate!Spec

\* One candidate is never green twice: however many submissions race, only the
\* Check Run of its one free receipt shows success (without paid reviews).
SuccessIsUnique ==
  \A k, l \in CheckIds :
    check[k] = "success" /\ check[l] = "success" /\ owner[k] = owner[l] => k = l

\* A queued job is finished in the end, through faults and crashes, unless the
\* operator disables its repository.
QueuedIsFinished ==
  \A j \in Jobs :
    status[j] = "queued" ~> status[j] \in {"completed", "failed"} \/ ~enrolled

\* A prepared failure reaches GitHub and is finalized in the end, whichever
\* thread prepared it and wherever that thread stopped, unless the operator
\* disables its repository.
FailureIsPublished ==
  \A k \in CheckIds :
    failure[k].state = "prepared" ~> failure[k].state = "finalized" \/ ~enrolled

\* What the deployment guide says and the code does not do: "Any finding,
\* unavailable model, stale coordinate, forged signer, or persistence failure
\* keeps the Check fail-closed."
FailureKeepsCheckClosed ==
  \A k \in CheckIds : failure[k].state = "finalized" => check[k] # "success"

=============================================================================
