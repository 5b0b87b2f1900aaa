# Idea to Deploy: a TLA+ development

This directory holds TLA+ models of *Idea to Deploy*, the TLC configurations
that check them and TLAPS proofs about their core. Paths are relative to the
repository's root. Short names used below:

| name | file |
|---|---|
| primitives | `skills/_shared/itd_review_broker_primitives.py` |
| broker | `skills/_shared/itd_review_broker.py` |
| server | `services/review_broker/server.py` |
| verifier | `skills/goal/scripts/itd_goal_verify.py` |
| producer | `skills/_shared/itd_free_reviewer_producer.py` |

The repository is a methodology: skills, hooks and command-line tools an agent
runs, and one long-running concurrent service, the **review broker**, which
decides whether a pull request's external gate turns green. The models start with
the broker, and go on with the local tools that produce, keep and judge the
evidence everything else is decided from.

## 1. Inventory

### The review broker

The broker runs as one process: an HTTP server with a thread per request, one
worker thread, and a SQLite store that both share (each store method is one
`BEGIN IMMEDIATE` transaction or one `SELECT` under the store's lock). An
operator runs a second process on the same store. GitHub and a paid model
provider are reached over the network. The process may die anywhere;
`Restart=on-failure` of the systemd unit and `restart: unless-stopped` of the
compose file bring it back.

**Enrollment** (`enroll`, `disable_enrollment`, `enrollment_app_id`,
`require_enrolled`). State: the mutable `repositories` row, the append-only
receipts and events. A receipt names the GitHub App allowed to publish for its
repository. The operator rotates receipts while publishing threads read the App
id, mint a token and commit evidence later: what was read may be out of date when
it is used. Correct when a retired receipt never comes back, the row says what the
log says, and evidence carries only Apps that were enrolled.

**Job queue** (`record_webhook`, `put_provenance_and_queue`,
`prepare_waiting_merge_groups`, `prepare_merge_group`, `claim`). State:
deliveries, jobs, provenance, nonces. A signed webhook inserts a waiting job; a
signed provenance releases it; a merge group is released when all its pull
requests have provenance of one maker. Webhooks are redelivered and arrive in any
order, several handlers and the worker try to release the same group. Correct
when nothing is queued without provenance, nothing is rebound, a refused
submission costs nothing, and the last arrival does release the job.

**Publication and recovery** (`bind_free_review`, `_resume_free_review`,
`process`, `_publish_failure`, `_complete_check`, `recover_pending_publications`,
`reconcile_interrupted_jobs`). State: job status, three tables of evidence
(`failure_preparations`, `free_review_receipts`, `review_preparations`), and the
Check Runs at GitHub. The discipline is *prepare, authorize, PATCH, observe,
finalize*; several threads run it on the same rows, a call's effect may survive
its lost reply, and after a crash the rows have to say what to do. Correct when no
Check Run is terminal without evidence, a submitter told PASSED has it, and
nothing started is left unfinished.

**Candidate construction and the paid review** (`build_candidate`,
`_review_units`, `ReviewerAdapter.review`, `_write_review`). A comparison is read
page by page, its diff divided into units when it is too large, each unit and then
the whole is judged, and the evidence is recorded. Correct when every changed line
is judged exactly once and a review that was paid for is not thrown away.

**Monthly budget** (`reserve`, `settle`, `settle_uncertain`). State: a row per
reservation, two totals per month. Reservations are taken before a call whose
cost is known only afterwards, or never. Correct when the month is not
overspent, the books cover the provider's bill, and both survive crashes, month
ends and error paths that settle twice.

**HTTP service** (`_BoundedThreadingHTTPServer`, `BrokerWorker`, `BrokerRuntime`,
`serve`). State: 32 handler slots, the stop event and the wake-up event. Correct
when no slot and no notification is lost, and the worker never meets a closed
store.

The GitHub client and the policy file are network I/O and validation of static
data. From the models' side they succeed, fail, or take effect and lose their
reply.

### The local tools

They keep state in files and are run by an agent or a hook, often several at once.
What is hard about them is what a crash leaves between two files, and a checkout,
an index or a `HEAD` that moves between two reads of one command.

| component | state and operations | what is hard, what makes it correct |
|---|---|---|
| goal verification, the verifier | units of `GOAL.json` and their transitions, `events.jsonl`, a recovery file | goal and event are two files: after a crash a transition has happened in both or in neither; only a run of the unit's command makes it verified; one unit in progress |
| unit log, `skills/task/scripts/itd_unit_log.py`, `itd_unit_lifecycle.py` | current unit of `STATE.json`, append-only events | pairs of activated and terminal events; a terminal event that landed before its state; two sessions under a lock |
| verification loop, `itd_verification_loop.py` | machine and checker receipts, adjudications, an attempt ledger per candidate | attempts reserved under a lock whose owner may be dead; receipts bound to the exact tree and declared input |
| atomic replacement, `itd_safe_atomic.py` | temporary file, fsync, rename | a reader sees the old or the new version after every crash; what was acknowledged stays |
| free reviewer producer, the producer | prompt ledger, checkpoints, observations, two-phase signed receipts, child processes | a lost answer must not be shopped around; the text reviewed is the tree signed; process trees are ended |
| external reviewer, `itd_external_reviewer.py` | monthly ledger under a lock directory, prompts, reports, metadata | two reviews at once; metadata of a change that is not the staged one |
| stop rule, `scripts/itd_stop_rule.py` | histories of review rounds, merges, dispositions | decides once and for all, from evidence that may be declared but not proven; reads a diff's surface from its headers |
| guarded delivery, `scripts/itd.py pr create`, `scripts/itd_pre_push.py` | pushes, pull request, provenance, check runs | everything moves between its reads; lost pushes that land later |
| machine oracle, `scripts/itd_machine_oracle.py` | one execution of a contract | some twenty reads of two repositories that move |
| gate control, `itd_gate_control.py`, `itd gate` | `gates.json` | unlocked writers; a claim made of many probes at many moments |
| pre-deploy gate, `skills/deploy/scripts/itd_predeploy_gate.py` | declared risks, passes, the emitted artifact | a pass used for another candidate; declarations lost |
| completion gate, `hooks/completion_lib.py`, `completion-signals.sh`, `completion-gate.sh`, `itd_run_record.py` | run records, a ledger all sessions share | overlapping hooks, a ledger cut to its last lines, a `HEAD` that moved since the run |
| fresh sessions, `itd_fresh_session_worktree.py` | packets, worktrees, sessions | preparations race for one target; half-made worktrees |
| review cache, external write gate, operating loops | context-bound verdicts, write records, loop runs | not modelled yet |
| dispatch and advisory hooks, blind protocol, installation, analysis tools | little or no state | sequential |

`PROJECT.json` lists every component with its sources and status, and every
hazard with its source line and the properties that would catch it.

### How the parts interact

The verification loop, the stop rule, the review tools and the goal verifier write
through `itd_safe_atomic`. The producer's packets are validated from the machine
receipts of the loop; its phase-one receipts are countersigned by the broker's App
and bound by `bind_free_review`. Guarded delivery runs the machine oracle, pushes
through the hook, submits provenance to the broker's job queue and waits for the
check the broker publishes; the doctor asks the broker for its enrollment. The
goal verifier and task units share one log and one `STATE.json`. Where two parts
share state (handler and worker, goal and task, handler slots and worker, the two
readings of a diff) they are in one module; where one uses the other's result, the
result is a value the environment may choose among those the other allows.

## 2. Modules

### The broker

| module | models | how it corresponds |
|---|---|---|
| `Enrollment` | enrollment | `enabled`, `active`, `expected` are columns of `repositories`, `stored` and `events` the two append-only tables. `Enroll`, `Disable` are the operator's calls. A publishing thread takes three steps: `ReadAppId`, `RequireEnrolled`, and a commit that re-reads the row (`PrepareFailure`) or does not (`PrepareFree`). |
| `CheckGate` | what the broker promises of Check Runs | abstract: evidence is only added; a Check Run concludes only from evidence for that conclusion. |
| `Publication` | worker, free-review handlers, evidence tables, recovery | see below. `Gate == INSTANCE CheckGate WITH evidence <- ...` is the refinement mapping: the conclusions that a failure row, a free receipt, or a finalized review backs. |
| `JobQueue` | webhook and provenance handlers, merge groups, claim | `recorded`, `job`, `order`, `prov`, `nonces` are tables. Handlers are threads with a step for every transaction, SELECT and exchange with GitHub. |
| `Budget` | reservations and settlements | `reserved`, `spent`, `row` are tables; `billed` is the provider's own count, which no code reads. |
| `HierarchicalReview` | candidate and paid review | a diff is a sequence of files of lines with a raw and a JSON size; `Packed` closes and opens units as the two loops of `_review_units` do (`ByFile`, `ByLine`), `WriteReview` re-derives what `_write_review` re-derives. |
| `BrokerService` | threads of the process | a semaphore, a counter, an event and a flag, with a step for each of their operations, so that `wait` and `clear` are two. |

### Evidence and its tools

| module | models | how it corresponds |
|---|---|---|
| `GoalLedger` | what the verifier promises of GOAL.json and events.jsonl | abstract: a transition changes a unit's status and appends its event at once, from a status that allows it. |
| `Goal` | verifier, with the task unit log as its neighbour | see below. `Ledger == INSTANCE GoalLedger WITH status <- ...`: GOAL.json, or what the recovery record says it was or will be, depending on whether the record's event is in the log. |
| `VerificationLoop` | machine, checker, adjudicate, check | a receipt is a value, a set of receipts the files; commands are processes that allocate, seal and append under the lock file, the input and the tree change under them. |
| `SafeAtomic` | replacement, exclusive creation, append, read | a name's entry is kept as programs see it (`leaf`) and as it is on the disk (`disk`), data as written and as synchronised; `PowerFails` keeps what was synchronised and any part of the rest. |
| `FreeReview` | the keyless route | invocations with the same output paths share prompt ledger, checkpoint, archive of stale checkpoints, and observations. |
| `TwoPhaseReceipt` | freeze, phase one, countersignature | one action per Git call of `freeze_packet` and per request of `github_app_phase_two_receipt`; a tree is a content, a diff the pair of its ends. |
| `ProcessTree` | `run_bounded_process` | the tree forks, leaves its group and is adopted between the listing of `/proc` and each signal; an entry may be unreadable and `/proc` missing; the walk takes one process after another and ends at `Limit` (4096 in `_descendant_pids`). `platform` is POSIX (a session, then the walk) or Windows (a Job Object). |
| `ReviewTransport` | one call of a client | the pinned executable and credentials are files that may be replaced, the stream a sequence of events the client chooses; each vendor's own reading of it. |
| `ExternalReview` | review and validate | each process reads index, policy and month when the code does; the lock directory can be broken when old. |
| `ListWalks` | loops over lists | the elements a comprehension keeps (`Picked`) and a sum (`Total`), as recursive functions; `StopRule` and `HierarchicalReview` are built from them. |
| `StopRule` | `decide` | a history is a sequence of rounds; `Scan` walks it once, a round at a time (`Scanned`); the properties define a recurrence without a scan, as two blocking rounds of one mechanism on different candidates. |
| `DiffSurface` | `parse_diff_surface`, `project_hunk_headers` | one text is fed to both readers a line at a time. |

### Gates

| module | models | how it corresponds |
|---|---|---|
| `GuardedPr` | `itd pr create`, pre-push hook | the command is one process; the maker, rivals, maintainers, GitHub and the broker are the environment; a push may be reported lost and land later. |
| `MachineOracle` | one execution of a contract | one action per Git read of the two repositories; `drifts` counts what moves, `returned` whether something read came back. |
| `GateDoctor` | registry and doctor | `Register`, `Unregister` read, `Save` replaces the file; the doctor probes one fact after another of its snapshot while facts break and are repaired. |
| `PredeployGate` | check and classify | each digest, read and write of the two commands is a step. |
| `CompletionGate` | hooks, ledger, gate | every finished call has a hook process of its own; `AppendSignal`, `ReadForTrim` and `Replace` are steps, the cut under an advisory lock; `Judge` and `Weigh` read the lines as `compute_verdict` does. |
| `FreshSession` | packets, prepare, finalize | preparation fails, cleans up or is killed at each step; finalization reads the index twice. |

`MC...` modules instantiate these for TLC: model values, constant functions,
symmetry sets, bounds. `...Proofs` hold the TLAPS proofs. Each extends the module it is
named after and instantiates the others it is about: `BudgetProofs` the external
reviewer; `FreeReviewProofs` the stop rule and the paid review; `GoalProofs` process tree
and transport; `VerificationLoopProofs` the files it is written with, the reading of
diffs, fresh sessions and the two-phase receipt. `GateProofs` extends none: it
instantiates six modules whose names overlap.

### Reading notes

**How `Publication` reads the code.** `pc[t]` is a thread's next step and `me[t]`
its locals. A step is one request to GitHub or one store transaction, so every
place where another thread or a crash can come between two effects is a place
between two actions. An exception goes where Python catches it: `me[t].ctx` names
the enclosing `try`, `CatchAt` says where control goes, and `StepFails` raises at
any step that calls GitHub or the store. A POST or PATCH may also take effect and
raise (`CreateCheck`, `FailurePatch`, `PatchSuccess`, `PatchReview` have a second
disjunct for that). Code that several callers share is written once:
`FailureStep` is `prepare_failure_publication` to `record_failure_publication`
for `_publish_failure`, `_publish_failure_on_check` and the recovery loop;
`FreeStep` is the tail that `bind_free_review`, `_resume_free_review` and
recovery share. Jobs are numbers because `claim` takes the oldest. A Check Run's
`owner` stands for its head SHA and name, `ext` for its external id. Candidate
moves, model verdicts and stale coordinates are choices the environment makes.

**How `Goal` reads the code.** A command is `Begin` (main's check of the recovery
record), `Load`, `Preflight` (status and STATE guards), then its own choices
(`Run`, `Decide`, `SaveGoal`, `SavePause`), and `commit_goal_transition` with a step
per file: `Prepare`, `WriteGoal`, `AppendEvent`, `WriteState`, `Clear`. An append may
fail with nothing, a part or the whole of its line in the file; `Crash` kills a command
between two writes. `Recover`, `RollBack` and again `WriteState`, `Clear` are
`recover_goal_transition`, inline after a failed append or for `--reconcile`. Task
units append to the same log and write the same STATE under the same lock
(`TaskAppend`, `TaskState`); `RepairTail` is the operator the error messages ask for.
An event is its unit, decision, and whether it belongs to a transaction; events that
are no transition (checkpoints, acknowledgements, resumptions, seals) are left out,
`verification_failed` goes to another file, and the activation that `cmd_verify`
backfills concerns goals edited by hand.

**Moving checkouts.** The tools of the last two tables call Git again and again.
Their models make each call a step and let the index, `HEAD`, a file or the base
move between any two. A property then says what the evidence is worth in spite of
that, and its exceptions are part of the statement: `ArtifactIsReviewed` excepts a
`HEAD` that went away and came back, `OraclePassIsExact` also a contract that is
written into the file of another `HEAD` (`ContractFile`), `TextIsTheTree` a text that
is read separately from the tree it is said to be of. History variables (`moves`, `same`, `overtaken`,
`raced`, `returned`, `seen`, `taken`) record just enough for these statements; no step of a program depends on them (the bounds do).

**Two worlds for paid reviews.** `process` publishes a verdict of a paid review
only when called with `paid_review_requested`; the worker of `server.py` passes
its default, and test code passes `True`. The constant `Paid` covers both, so the
paid path is checked as what the code can do, not as what the deployed worker does.

**What is simplified.** In `Publication` webhook and provenance are one step,
`Provenance`, and enrollment is one Boolean: `JobQueue` and `Enrollment` have
the detail. In `JobQueue` a job is *taken* once claimed. In `Budget` a review is
the sequence of its calls' outcomes. In `GateDoctor` and `MachineOracle` a
validation is whether a fact holds. Signatures and JSON are not in any module: a
hash is the value it is taken of, a signature cannot be forged, and what a parser
decides is a choice between accept and refuse.

## 3. Model checking

Components that share no variable are checked in one run: `focus` picks, in the
initial state, the one a behaviour is about, and the others stay in an initial state.
So a run is about a neighbourhood of the system, and each of its properties about
one or a few foci. The properties that combine several named parts
(`FilesAreDurable`, `WorkIsBound`, ...) are conjunctions; the parts are defined and
commented in the component's module.

The `publication_...` runs check for deadlock as well: the worker's loop never
ends. In the others receipts, deliveries, invocations or edits run out and then the
system really has nothing to do, so there deadlock checking is off.

| run | foci and instance | distinct states | shows |
|---|---|---|---|
| `enrollment` | enrollment: 2 repositories, 4 receipts (two with one App), 2 Apps; service: 3 connections on 2 slots; delivery: 2 commits, 1 disturbance, 2 invocations; registry: 6 requests of two commands, 2 changes; oracle: 2 commits in each repository, 3 moves | 2,629,636 | log, row and receipts agree through every rotation and failures are committed under the current enrollment (`NeverReactivated`, `RowFollowsLog`, `GuardedEvidenceIsCurrent`); no slot, no notification lost and no closed store met (`ServerKeepsServing`); what `pr create` pushed was reviewed and what it reports passed is exact (`DeliveryIsExact`); the registry stays valid and the doctor's claim earned (`DoctorIsHonest`); a passed oracle names what it ran (`OraclePassIsExact`) |
| `publication_race` | 1 job, 1 submission, 4 Check Runs, fault, crash, enrollment toggle | 424,532 | the handler and the worker's recovery interleave on one row: no terminal Check Run without evidence, the gate is implemented |
| `publication_rivals` | 1 job, two submissions of three (one receipt twice, and a rival), 3 Check Runs, a fault when a receipt is retried | 1,127,235 | a retry or a rival at the same time as the first submission: one green Check Run, PASSED only for one's own finalized receipt |
| `publication_paid` | 1 job, paid, 5 Check Runs, 2 faults, crash, disabling, fairness | 149,866 | reviews beside a handler that binds a free receipt: a finished job stays finished, a queued job finishes, a prepared failure is published, unless the repository is disabled |
| `job_queue` | 2 pull requests, the group of both, 3 webhooks, 3 provenances (two rivals, one reused nonce), fault, crash | 2,509,696 | rows, groups and answers stay consistent in every order of arrival |
| `job_queue_live` | 2 pull requests, their group, 2 provenances, one disturbance (a redelivery, a reused delivery id, a fault or a crash), fairness of the worker | 891,570 | one job per candidate; late provenance releases the group though every handler may stall |
| `budget` | budget: 2 workers, 2 reservations, 2 months of which the first is capped, direct or three calls, fault, crash; division: candidates of up to 5 files; shared and moving review: 2 reviews of one index, 1 of an index that moves; checks and deploy: 2 checks asked different things, 1 with 3 moves; crowded, recorded, strict: 2 hooks on a full ledger, recorded runs, a contract that changes | 1,410,566 | no capped month overspent, books that balance and cover the bill, once, in spite of the second settlement (`BooksAreHonest`, `WithinMonthly`, `BillIsCovered`, `ClosedIsFinal`); all that changed is reviewed once and recorded (`ReviewIsWhole`); evidence of the external reviewer is current and the month's cap kept (`ReviewIsBound`); the hooks let through what was reviewed, or earned green (`HookIsRight`) |
| `goal` | goal: 2 units, a task, 3 events, fault, 2 crashes, with and without STATE.json; receipt: 4 contents, 2 edits, a commit, 2 moves of GitHub; tree and crowd: 4 processes, within and beyond the limit of the walk; client: 5 vendors, 3 events; preparing and finishing: 2 preparations, 2 finalizations | 1,120,777 | when nothing is pending GOAL and log agree, and with a STATE.json at most one unit is open and it is the one STATE names; transitions are atomic over GOAL and log (`TransitionIsWhole`, `MirrorFollows`, `InterruptedIsFrozen`, `LedgerSpec`); receipts, processes, reports and sessions are bound to what they are of (`WorkIsBound`) |
| `review_tools` | loop: 2 trees, 2 inputs, 3 adjudicators, edit, day, crash; files: 7 writers of which 2, or three creators, begin, fault, death, power failure; route: 2 candidates, 3 invocations, 2 lost transports, crash; series: 3 rounds of which one may not block, 2 keys; surface: 2 files, 5 hunks | 508,249 | what the check accepts is proved and reviewed (`AcceptedIsSound`), ledger numbers name receipts (`LedgerNamesReceipts`), files are durable (`FilesAreDurable`), negative outcomes bind and findings survive (`NegativesBind`, `LedgerIsExact`, `FindingsSurvive`), a series stops exactly for a proven recurrence (`DecisionIsSound`), both readings of a diff agree (`SurfaceIsExact`) |
| `publication_closed`, `job_queue_wedge`, `goal_stuck` | see below | | expected to fail |

**Bounds of the broker's runs.** `MaxFaults`, `MaxCrashes` and `MaxToggles` bound
what the environment does wrong. One fault between any two steps is what a handler
written for one exception has to survive; `publication_paid` has two because there
the error path (the downgrade) has a fault of its own to meet. One crash reaches
every state the store can be left in; what happens after it is another complete run
of the protocol. `CheckIds` bounds Check Runs created: with one left over, a retry
after a lost reply creates its orphan; the proofs have no such bound. Two
submissions are enough for a rival, two pull requests for a mixed group, two months
for a settlement after the month's end, and `Unit = 2` for usage that is not a whole
microdollar. `Capped` names the months in which no call costs more than its cap:
the budget can be kept in those only, and both kinds stand next to each other.
Check Run ids, workers, reservations and, in `review_tools`, processes are
interchangeable and used as symmetry sets in runs of safety properties only; the fair
runs number Check Runs in the order of their creation instead (`PaidBounds`). A list of waiting groups that is too long
(`Limit`) is met in `job_queue_wedge` only; the proofs hold for every limit.
`job_queue_live` lets one thing out of the ordinary happen (`Disturbances`), `job_queue`
a fault and a crash together. Three
connections on two slots make one wait for a slot or be turned away.

**Bounds of the tools' runs.** In `goal` two crashes let a recovery die as well, and
no command begins after three events, which is room for a transition, an event of a
task and a second transition; the proofs hold for any number. `LoopBounds`, `FilesBounds`, `RouteBounds`, `StopBounds` and
`DiffBounds` in `MCReviewTools` combine hazards in pairs, not all at once: an edit
or a stale day meets one command, a crash or a race meets a fixed receipt; two of
the writers begin (two of a kind, or one of each of two kinds), or three creators, the
third with the bytes of the first; overlapping
invocations lose at most one transport. Three rounds are a recurrence with a round
in between; five hunks hold every adjacency of content that looks like a header. The
comparisons of `division` go past each limit of the policy and past the API's page
limit, with scaled limits. The move bounds allow away and back again (two moves),
the shortest way to deceive a check that compares ends. `Shared` and `Moving`,
`Checking` and `Deploying`, `Preparing` and `Finishing`, and `Crowded`, `Recorded`
and `Strict` are instances of one module that are small in different directions:
several processes while little moves, or one while more does.

**Fairness.** Liveness assumes weak fairness of the worker thread with the
service manager's restart, and, in `Publication`, of handlers that have begun. The
worker's loop never ends and polls at least every five seconds
(`_wait(timeout=5)` in the server), the manager restarts it, and a handler is a
thread that runs until it answers. `JobQueue` asks nothing of handlers: group
release must not depend on them. Nothing is assumed of GitHub or the store except
that faults are finite, and nothing obliges callers to call. The local tools promise
no progress: who runs them may stop.

**Mutants.** Every property of a passing run has a mutated operator next to the
original, marked `Mutant:`, that a plausible slip would produce (a dropped guard,
a step out of order, the wrong month); put in the original's place, it makes that
run report that property.

**Stated and not run.** `TypeOK` of `Enrollment`, `Publication` and `JobQueue` is
proved instead; so are `EvidenceAppWasEnrolled`, `EvidenceOnlyAdvances` and
`NoncesAreSpent`, `EvidenceIsImmutable` and `TypeOK` of `Budget`. `EnabledIsExact`,
`AllocationIsSerial` and `NoSecondOpinion` are definitions kept for their readers.

### Where documents and code disagree

Three runs are expected to fail; each checks one sentence of the repository.

`publication_closed`: the deployment guide says that any failure "keeps the Check
fail-closed". The handler that bound a receipt fails its revalidation, sees the
Check Run in progress, and publishes and finalizes a failure. Meanwhile the
worker's recovery lists the same prepared receipt and revalidates it while the
Check Run is still in progress. Its authorization looks only at the free row,
which is still prepared, and its PATCH turns the failed Check Run green. Both
conclusions have evidence, which is why `TerminalHasEvidence` holds all the same.

`job_queue_wedge`: a test says that late provenance releases a waiting merge
group. `waiting_merge_groups` refuses to list more than 100 groups and nothing
expires one: beyond that number neither handler nor worker releases any group.

`goal_stuck`: `recover_goal_transition` says that it finishes or rolls back one
interrupted transaction. `--block` of a pending unit that dies after its event is
appended leaves a transaction that it never accepts: `current_canonical_event` looks
for the event after the unit's first activation, and there is none. The record stays,
and with it the refusal of every other command.

The following was met while modelling and has no run of its own; the properties
named state the exception.

- **Paid reviews.** A diff of at most `maxRawDiffBytes` whose JSON is too large is
  divided, and then `_write_review` asks for more bytes than that: the paid review is
  never recorded. The policy's `hierarchicalReview.activation`
  (`canonical-diff-bytes-gt-maxRawDiffBytes`) names only the size of the diff. A
  separator U+0085, U+2028 or U+2029 is refused after payment in the prompts of the
  units and of the integration alike: in a line of the diff, or in the text of a unit's
  verdict, where `_validate_unit` refuses control characters only (`RefusalIsKnown`).
- **Delivery.** `docs/RELEASE_RUNBOOK.md` says that a push is not retried;
  `guarded_push` retries once after reconciliation. A second `itd pr create` after
  the external check has ended cannot report `CHECKS_PASSED`: it ignores the
  external runs it finds and submits the cached provenance, and nothing publishes a new run.
- **Pre-deploy gate.** `record_risk_escalation` promises never to record a
  de-escalation: a second `--migrations-dir` replaces the first, and of two
  overlapping checks one declaration may be lost (`DeclaredStays`). The deploy hook's
  docstring (`itd_predeploy_gate.py:1003-1005`) says that only a writer with the host's
  key can swap the record between its two reads; the gate is such a writer: if HEAD moves
  to another reviewed commit in between, the artifact handed out is named by the first
  one's record and verified against the second's. `ArtifactIsReviewed` excepts it; the
  proof found it, the run's one reviewed commit had not.
- **External reviewer.** Breaking the lock of a live, slow holder lets a month's
  reservations pass its budget (`BudgetHolds`). A crash in an append leaves a
  malformed ledger, which refuses every later review.
- **Producer.** Reviewed text of a large or projected candidate is read from the
  index separately from the tree: one change of the index between the two reads gives
  a receipt for one tree with the text of another (`TextIsTheTree`). What lives on when
  a bounded call returns (`NothingReachableSurvives`): on a POSIX host without `/proc`,
  whatever left the group, which the docstring of `_descendant_pids` declares; and,
  which its declared limits do not mention, what is below an entry that could not be
  read, what the walk had not reached when it had found 4096, and what a process
  that left its session forks between the listing and its own kill.
- **Durable files.** `write_immutable_bytes` promises "a durable immutable child:
  created, existing-same or collision" (`itd_safe_atomic.py:165`), but on its
  existing-same paths (172-178, 194-197) it does not synchronise the directory: a
  caller told so, which then goes on as if the child were archived, may lose it to a
  power failure that comes before its creator's own synchronisation. `CreatedOnce`
  states the exception (`taken`); the proof found it, after the run with two creators
  had not.
- **Completion gate.** The comment in `compute_verdict` has three layers block; the
  calibrated gate never blocks on a red third layer. An unknown later outcome of a
  command displaces its earlier red one; a run record names no commit and no time,
  so an older green record that surfaces late supersedes a newer red one. Lines
  appended without the lock, after two seconds' wait, may be lost to another hook's
  cut (`CompletionIsEarned` says which).
- **Fresh sessions.** An allowed path must still be a file when the worktree is
  finalized: a candidate that deletes one cannot be. `write_new_read_only` unlinks its
  path also when another process has just created it, so two packet commands with one
  output may leave none. A killed preparation leaves a target no later one accepts
  and nothing removes.

## 4. Proofs

TLAPS checks the theorems below for all values of the constants, so for any
number of threads, jobs, receipts, faults and crashes. They use only the
assumptions declared with the constants (`BindingAssumption`,
`PublicationAssumption`, `QueueAssumption`, `BodyAssumption`,
`BudgetAssumption`, `SentinelAssumption`, `BoundsAssumption`, `RouteAssumption`,
`ServiceAssumption`, `DeliveryAssumption`, `RequestAssumption`, `FileAssumption`,
`HunkAssumption`, `StopAssumption`, `DivisionAssumption`, `ReviewerAssumption`, `PredeployAssumption`,
`CompletionAssumption`, `SessionAssumption`, `ReceiptAssumption`, `TreeAssumption`,
`VendorAssumption`); TLC evaluates them in each run. Those say that sentinels are
not ids, kinds of threads do not overlap, bounds are numbers, there are finitely many
worker threads, a writer calls one of three primitives and is no file that was there
before, ranges of a hunk are pairs of numbers, rounds are records of the shape the stop
rule reads, a comparison lists a file GitHub describes exactly once, a request for a deployment is one of the shape its command line has, a
webhook's candidate is read from its signed body, a packet asks for units and paths of
the project, there are finitely many process numbers and the reaper has none of them, a
verdict is a record that says whether its text has a line separator, a
transport is one of the five there are, and a registration asks for one of the three protections there are. Two groups of theorems have one hypothesis more, named
below: `OneSuccess` and those about goals.

**Enrollment** (`EnrollmentProofs`): `TypeOK`, `NeverReactivated`, `RowFollowsLog`,
`EvidenceAppWasEnrolled`, `GuardedEvidenceIsCurrent`. None of these is inductive.
`NeverReactivated` needs that every receipt in the log is stored (`LogOfStored`),
because `enroll` looks at `enrollment_receipts` and not at the log. The evidence
needs that an App a thread has read belongs to a stored receipt (`ThreadAppStored`).

**Publication** (`PublicationProofs`): `TypeOK`, `TerminalHasEvidence`,
`PassedIsBound`. `TerminalHasEvidence` is not inductive because a PATCH
reads nothing: what makes it right is something the thread read before. `ThreadInv`
says, for each step of each call, which row the thread relies on; `Grow` says
what no step takes back (rows and their conclusions, owners and external ids).
Lemma `Frame` puts them together: whatever step another thread takes, what a
thread relies on stays. Each action then has one lemma about the thread it moves.
`LoopInv` says the recovery loops walk rows that exist.

**Refinement and action properties** (`PublicationProofs`):
`FinishedStaysFinished`, `EvidenceOnlyAdvances`, and
`PublicationImplementsGate == Spec => GateSpec`. Of the actions, few touch
evidence or Check Runs; `QuietOrTouches` sorts them, each that does is shown to
be one step of the gate, and all others are stutters. `SuccessIsUnique` is proved
where paid reviews are off (`OneSuccess`, with `Paid = FALSE`, as in the run that
checks it): no thread then concludes success from its locals (`Unpaid`), so every
success is that of a candidate's one free receipt, on the Check Run that receipt
names (`OwnCheck`). With paid reviews a candidate may get a second one on purpose.

**Job queue** (`JobQueueProofs`): `TypeOK`, `JobsFollowDeliveries`,
`NoncesAreSpent`, `QueuedIsBound`, `GroupIsHomogeneous`, `AnswersAreTrue`,
`NothingIsRebound`. The invariant joins facts about rows (`RowInv`, with
`OwnRow`: a row belongs to a submission for that pull request) and about threads
(`Control`: a webhook handler past its insert has recorded its delivery, a
provenance handler past its transaction holds the row). `AnswersAreTrue` follows
from `Control` at the step that answers and from `RowsAdvance` afterwards.

**Budget** (`BudgetProofs`): `WithinMonthly`, `BillIsCovered`, `ClosedIsFinal`,
`BooksAreHonest`, `TypeOK`. An open reservation belongs to one worker (`Apart`) and
covers all its calls' caps (`Planned`); the bill is what the worker has been told
(`Held`) and, after an ambiguous call, at most one cap more. The rest is arithmetic
about rounding up (`ChargeCovers`), which is where a code that rounds down would
fail. `BooksAreHonest` is about sums over the rows of a month. The library defines a
sum by recursion over a set, taking elements in the order CHOOSE has it; to show that
the order does not matter, a sum is identified with the size of a *heap*, the set of
pairs of an element and a number below its value (`SumIsHeap`), and a heap grows by an
element's value when the element is added (`HeapAdd`). What the sums and
`LossesAreFailures` need of a behaviour is that finitely many rows were ever used
(`Used`) and that a worker that holds nothing names no reservation (`EmptyHanded`).
The totals are never negative because they are such sums, which gives `TypeOK`.

**Goal** (`GoalProofs`): `TransitionIsWhole`, `MirrorFollows`, `InterruptedIsFrozen`
and the refinement `LedgerSpec`, for any units, sessions, events, failed appends and
crashes, under the hypothesis `[]OneAtATime`: commands do not overlap. That is needed
and not an artefact: nothing serializes commands, and two that overlap break all four
(see the hazard at `itd_goal_verify.py:1280`). `OneSession` shows that a single session,
which the checked instance has, satisfies it. The invariant says what a command may rely
on at each step (`SessionInv`), what a recovery record and a torn line say of the
documents (`RecordInv`, `TailInv`), and what STATE says of GOAL as recovery would leave
it (`MirrorInv`, `TaskInv`). `Effective` is GOAL as recovery would leave it: with it as
the mapping every step is a transition of `GoalLedger` or a stutter, and
`TransitionIsWhole` follows from the abstract ledger alone.

**Verification loop** (`VerificationLoopProofs`): `AcceptedIsSound`,
`LedgerNamesReceipts`, `EvidenceIsImmutable`, for any trees, inputs, processes,
budgets, edits, days and crashes. The invariant does not mention the lock, and
cannot: two processes that found a dead owner allocate at once. What the proofs
rest on is that a receipt is linked once at a path that carries its number, and that
an entry is appended only in its turn.

**Files and diffs** (`VerificationLoopProofs`, the sections after the loop's):
`FilesStayDurable` and `ReadingsAgree`, that is `FilesAreDurable` of `SafeAtomic` and
`SurfaceIsExact` of `DiffSurface`, for any writers and faults and for texts of any length.
The files' invariant says which of a writer's bytes are on the disk at each stage, and that
what both directories name was synchronised whole; that a log which can be read has no torn
line (`NothingTorn`) needs the first end after it. The two readings of a text are
alike in all that decides about a header (`Shared`), the projection's counters are those
of the open hunk, and the projected reading is ahead of the full one by exactly the lines
the hunk still owes (`Pending`). A hunk that has more lines than it announced leaves this
relation, and for good: such a text is never accepted (`Overrun`).

**Fresh sessions** (`VerificationLoopProofs`): `SessionIsBound` of `FreshSession`, for
any preparations and finalizations that race, fail and die. What two preparations of one
target cannot do is both have made it: from the `worktree add` that succeeded until the
session is sealed or the target is removed, a preparation has its target to itself
(`Owns`, `Tied`), and nothing is bound there yet. That is what lets a failing one remove
the worktree it made without looking at what is there by then. Once sealed, a session's packet and state
never change (`Settled`), and a finalization that read it has checked the index it is
about to write against that packet, unless the index moved since (`Finalizing`).

**Two-phase receipt** (`VerificationLoopProofs`, last section): `TextIsTheTree`,
`CountersignIsExact` and `LineageHolds` of `TwoPhaseReceipt`, for any contents, commits
and moves of GitHub. A freeze runs Git several times and compares only some of the
answers; `Frozen` says at each step which answers can differ from the tree that is
signed, and how often the index must have moved for that. One move is not enough to sign
a diff of another tree: a second reading, against the parent, has to agree with the
machine receipt, whose diff leads to its tree, so the index must move away and back. One
is enough for a text that is read separately.

**A reviewer's process** (`GoalProofs`, the last two sections):
`NothingReachableSurvives` of `ProcessTree`, for any number of processes, any limit of
the walk and a `/proc` that may be missing or unreadable in part, and
`ReportIsClean` of `ReviewTransport`, for any output and bounds. What is reachable is
closed upwards: the parent of a process that has stayed a descendant has stayed one
(`ReachInv`), and a parent changes only to the reaper, which cuts the process off, as
does an entry that is not read. So a parent that was read once is still right, and by
the parents read the process is a descendant again (`LineageKept`, by induction over the
depth; `LineageSteps` shows that the recursive function exists). The walk has the
children of every process it has looked at; with none left to look at, it has every
descendant (`ClosedHasAll`), and otherwise it ended because it had as many as its limit.
What is assumed: a process number is not used twice while the call ends its processes
(the docstring tracks that case), and a signal ends whoever it is sent to. A report was judged on the whole output, because a cut one
does not count as success, and each client's stream has to show the session and neither
failure nor tool (`ShownIsClean`).

**Keyless route** (`FreeReviewProofs`): `NegativesBind`, `LedgerIsExact`,
`FindingsSurvive` of `FreeReview`, for any invocations that overlap or not. The first
invariant follows one invocation: past the guard its context was in no preserved
observation when it began (`Guarded`), and the prompts it has sent are counted by the
rows it holds, the one of a primary given up included (`Along`). Of two invocations
that share the files nothing more is needed, because observations only grow and a
receipt needs the ledger on disk to be the invocation's own. `FindingsSurvive` is about
invocations one after another (`Alone`): the running one extends the checkpoint it
found or has archived it (`Keeps`). The run checks the same properties of the instance
`Route`, and `RouteAssumption` of its constants.

**Stop rule** (`FreeReviewProofs`, second part): `SeriesStopsSoundly`, that is the whole
`DecisionIsSound` of `StopRule` (`StopsOnRecurrence`, `TreadmillIsRecent`,
`LedgersDecide`, `NothingIsTakenBack`), for any reports, rounds and merged groups. The
scan of `decide` is a recursive function; that it exists (`ScanSteps`) and what it knows
after n rounds (`Collected`, `Judged`) are shown by induction over n. With `DecisionIs`,
which says what `decide` answers without its scan, the rest is about pairs of rounds: a
pair found in one history is found in a longer or reordered one (`FoundElsewhere`), and
a merge takes whole groups (`StayTogether`). The treadmill looks at the last verdicts
only; `TreadmillIs` says, without the list of verdicts, which rounds those are.

**Paid review** (`FreeReviewProofs`, last part): `PaidReviewIsWhole`, that is the whole
`ReviewIsWhole` of `HierarchicalReview`, for any comparisons, bounds, sizes of lines and
verdicts. The argument has three layers. *Packing:* `Well` is the invariant of the loops
of `_review_units`: closed units and the open one hold chunks that are not empty, of
files in the order of the diff, at most the last file of one unit going on in the next.
Each put, flush and file keeps it (`PutKeeps`, `FlushKeeps`, `PackedKeeps`), so a path is
held by an interval of units (`HoldingIsClosed`). That no line is lost or repeated needs
no such invariant: `Coverage` compares, and what passes it adds up (`FlatSteps`,
`StartsFollow`, `NoneIsLost`). *Conversation:* `PaidInv` says of every stage how many
prompts, requests and verdicts there are, and that the n-th of each is about unit n
(`Evident`), from which the three parts of the property follow for a review that ended.
*Record:* `EvidenceIsAdmitted` shows that each check of `_write_review` finds what the
division and the conversation wrote, but for those that are known to refuse it. An
answered review that is not recorded therefore has a small diff, a line separator in the
diff, or one in a unit's verdict, and there is no fourth reason.

**Service and gates** (`GateProofs`): `ServerKeepsServing` of `BrokerService`,
`DeliveryIsExact` of `GuardedPr`, `OraclePassIsExact` of `MachineOracle` and
`DoctorIsHonest` of `GateDoctor`, each for its module by itself; the run checks them as
the foci of one instance. The service's permits are counted as sets (`Held`, `Leaving`),
and each step of a connection moves one element between them; the lost notification is
excluded by what the worker has missed between its last look and its sleep
(`WorkerInv`). A delivery carries from step to step which commit the command proved
(`CommandInv`) and what a push still in flight may take off the branch (`FlightInv`):
such a push lands whenever it likes, so what is true of it has to be about its own
locals and about sets that only grow. The oracle's reads are tied to what both
repositories still say (`ReadInv`), up to `returned`, and its commands to how far it is
(`RunInv`). The doctor's invariant is that every row already inspected is attested by
the statuses collected (`Attested`), and the one being probed by the facts read so far
(`HeldUpTo`); `WeakestIsLeast` turns that into the claim.

**Gates before a commit and a deploy** (`GateProofs`, the last two sections):
`HookIsRight` of `PredeployGate`, for any checks, commits, requests and moves, and
`CompletionIsEarned` of `CompletionGate`, for any hooks, commands, deaths and moves. A
predeploy check's digest is of a reviewed commit if HEAD is still that digest and has not
come back to it (`Checked`), so every archived pass is sound (`LedgerInv`), whichever
check wrote it; a declaration stays because it is in what each check about to write has
read (`RiskInv`). The completion gate rests on its ledger: as long as no hook has gone
without the lock, the last `MaxLines` lines ever written are in the file and in every copy
about to replace it (`LogInv`), so what a reading misses is old (`Faithful`); the verdict
on such a reading is earned (`VerdictIsEarned`), and stays so because `written` only
grows (`EarnedStays`).

**External reviewer** (`BudgetProofs`, last section): `ReviewIsBound` of
`ExternalReview`, for any overlapping reviews, stages and stops. Until a live
holder's lock is broken, who is between the check of the month and its append owns the
lock, and there is room for its row (`LockInv`). Metadata on the disk was answered by a
model eligible for its risk (`DiskInv`), and each comparison of a validation holds as
long as the index has not moved (`ValidInv`).

**How induction is done.** The library's induction theorems take a property as an
operator, which the provers cannot instantiate. Its minimal-element theorem for a
well-founded relation takes sets only; `FiniteInduction` in `BudgetProofs` derives
from it induction over the subsets of a finite set, with the set of subsets that have
the property in the property's place. That is enough for sums; where the induction is over an index of a
sequence the same theorem gives a least counterexample
(`UpTo` in `FreeReviewProofs`). A recursive function is a CHOOSE to the provers, so that one exists
that satisfies its equation is a lemma as well: `Recursion` shows it for any walk over
0..N whose step stays in a set.

**Only model-checked:** the liveness properties (`QueuedIsFinished`,
`FailureIsPublished`, `LateProvenanceReleases`), which TLAPS cannot prove. Every
invariant and action property of the runs has a theorem. Where a run checks several
modules side by side, one per value of `focus`, its property is that of the module's
instance while the focus is on it (`MCReviewTools`, `MCBudget`, `MCEnrollment`,
`MCGoal`), and the theorem is stated of the module itself, for any constants.

## 5. Not modelled, and the plan

One listed hazard has no property: `--reconcile` takes no lock, and a second session
that runs it while a commit is under way rolls that commit back
(`itd_goal_verify.py:1280`). `Goal` gives commands one session: GOAL and log need not
agree after two, and nothing in the repository says what should still hold. Another is
covered in part: two unlocked writers of `gates.json` (`itd.py:437`) can lose a
registration. `DoctorIsHonest` says that the registry stays valid and the claim earned
all the same; the loss itself is what the code lets happen. Parts left out of modelled
components:

- goal verification: attempts, budgets, checkpoints, handoff and sealing beyond the
  choices they leave; recheck without STATE.json, which may reopen a unit beside
  another one in progress;
- unit log: `close`, backfill, and ledgers that use the same unit ids;
- HTTP service: GET routes, the keyring file, start-up;
- producer: how a packet is divided into units (the broker's division is in
  `HierarchicalReview`), the legacy quorum of several adapters;
- `SafeAtomic`: the Windows variant; `FreshSession`: captured runs;
- producer: `SignPhaseOne` writes and signs phase one in one step, for nothing of it is
  read while it is written;
- completion gate: the ledger keeps the first 300 characters of a command
  (`completion_lib.py:1101`), so longer ones that begin alike are one to it; `Commands`
  are those it tells apart; the classification of commands, the state guard and crash recovery
  hooks;
- gate control: what one probe checks.

Plan, in this order:

1. Model: the review cache (verdicts looked up under a hash of the context, an
   unlocked read, change and replacement), the external write gate (prepare,
   commit), the ledger of operating loops, `UnitLog`, recheck without STATE.json.
2. Compose `JobQueue` and `Publication`, with `Budget` as what `process` does on the
   paid path.

Left out for good: cryptography, JSON encodings, parsing of command lines,
network transport, and report generators, which have no behaviour beyond a
function of their input and no state to get wrong.
