----------------------------- MODULE GuardedPr -----------------------------
(***************************************************************************)
(* `itd pr create` (scripts/itd.py) and the pre-push hook it pushes         *)
(* through (scripts/itd_pre_push.py): one command that reads HEAD, proves   *)
(* it, delivers it to the remote branch, opens the Draft pull request,      *)
(* submits the maker provenance and waits for the two required checks,      *)
(* while the maker moves HEAD, a rival pushes the branch, the base moves,   *)
(* the maintainers mark the pull request ready, every call may be lost or   *)
(* be applied after it was reported lost, and the command may be killed and *)
(* run again.                                                               *)
(*                                                                         *)
(* A test merge is named by its pair <<head, base>>.  One pull request per  *)
(* branch: GitHub refuses a second open one.  Deadlines are a free choice   *)
(* to give up.                                                              *)
(***************************************************************************)
EXTENDS Naturals, FiniteSets

CONSTANTS Commits,          \* the maker's own commits
          Foreign,          \* the commit a rival pushes to the same branch
          Extends,          \* pairs <<old, new>> where new is a fast-forward of old
          Nothing,
          PushAttempts,     \* GUARDED_PUSH_ATTEMPTS
          MaxDisturbances,  \* bound: moves of HEAD, of the base, of the rival, of draft
          MaxInvocations,   \* bound: times the command is run
          MaxChecks         \* bound: check runs GitHub ever creates

\* No commit stands for a missing reference.
DeliveryAssumption == Nothing \notin Commits \cup {Foreign} /\ MaxChecks \in Nat

VARIABLES head, remote, pull, computed, checks, nonces, reviewed, flight,
          profile, p, disturbed, invoked, lost, seen, delivered
github == <<remote, pull, computed, checks>>
vars == <<head, remote, pull, computed, checks, nonces, reviewed, flight, profile,
          p, disturbed, invoked, lost, seen, delivered>>

Machine == "machine"
External == "external"
Bases == {"b1", "b2"}
Coordinates == (Commits \cup {Foreign}) \X Bases
Idle == [pc |-> "idle", want |-> Nothing, steady |-> TRUE, sent |-> Nothing, lease |-> Nothing,
         forced |-> FALSE, attempt |-> 0, exact |-> Nothing, ignored |-> {}]

TypeOK ==
  /\ head \in Commits /\ remote \in Commits \cup {Foreign, Nothing}
  /\ pull \in {Nothing} \cup [draft : BOOLEAN, base : Bases]
  /\ computed \in BOOLEAN /\ nonces \subseteq Coordinates /\ reviewed \subseteq Commits
  /\ \A r \in checks : r.id \in 1..MaxChecks /\ r.name \in {Machine, External} /\ r.at \in Coordinates
  /\ profile \in {"local-review", "organization-workflow"}

Init ==
  /\ head \in Commits /\ remote \in Commits \cup {Nothing}
  /\ pull \in IF remote = Nothing THEN {Nothing} ELSE {Nothing, [draft |-> TRUE, base |-> "b1"]}
  /\ computed = FALSE /\ checks = {} /\ nonces = {} /\ flight = Nothing
  /\ reviewed \in SUBSET Commits /\ profile \in {"local-review", "organization-workflow"}
  /\ p = Idle /\ disturbed = 0 /\ invoked = 0
  /\ lost = {} /\ seen = {} /\ delivered = {}

-----------------------------------------------------------------------------
(* Everybody else                                                          *)

Disturb ==
  /\ disturbed < MaxDisturbances /\ disturbed' = disturbed + 1
  /\ UNCHANGED <<nonces, reviewed, flight, profile, p, invoked, lost, seen, delivered>>
MakerMovesHead == Disturb /\ head' \in Commits \ {head} /\ UNCHANGED github
RivalPushes ==
  /\ Disturb /\ remote # Foreign /\ remote' = Foreign /\ computed' = FALSE
  /\ UNCHANGED <<head, pull, checks>>
BaseMoves ==
  /\ Disturb /\ pull # Nothing /\ pull.base = "b1" /\ profile = "organization-workflow"
  /\ pull' = [pull EXCEPT !.base = "b2"] /\ computed' = FALSE
  /\ UNCHANGED <<head, remote, checks>>
MarkedReady ==
  /\ Disturb /\ pull # Nothing /\ pull.draft
  /\ pull' = [pull EXCEPT !.draft = FALSE] /\ UNCHANGED <<head, remote, computed, checks>>

Current == <<remote, pull.base>>
TestMergeComputed ==
  /\ pull # Nothing /\ ~computed /\ computed' = TRUE
  /\ UNCHANGED <<head, remote, pull, checks, nonces, reviewed, flight, profile, p, disturbed,
                 invoked, lost, seen, delivered>>

\* A check run of the right App, or of some other one under the same name.
Published(name, at, app, success) ==
  /\ Cardinality(checks) < MaxChecks
  /\ checks' = checks \cup {[id |-> Cardinality(checks) + 1, name |-> name, at |-> at,
                             app |-> app, success |-> success]}
  /\ UNCHANGED <<head, remote, pull, computed, nonces, reviewed, flight, profile, p, disturbed,
                 invoked, lost, seen, delivered>>
WorkflowRuns ==
  /\ pull # Nothing /\ computed /\ ~\E r \in checks : r.name = Machine /\ r.at = Current
  /\ \E ok \in BOOLEAN : Published(Machine, Current, TRUE, ok)
BrokerPublishes ==
  \E at \in nonces, ok \in BOOLEAN : Published(External, at, TRUE, ok)
ForeignAppPublishes ==
  /\ pull # Nothing /\ computed /\ ~\E r \in checks : ~r.app
  /\ Published(External, Current, FALSE, TRUE)

-----------------------------------------------------------------------------
(* The remote branch                                                       *)

\* What receive-pack and the hook allow: the reference moves from the value the
\* client saw, to a descendant unless the push is forced under its lease.
Admits(from, to, forced, lease) ==
  IF forced THEN from = lease ELSE from = Nothing \/ <<from, to>> \in Extends
Applied(from, to) ==
  /\ remote' = to /\ computed' = FALSE /\ UNCHANGED <<pull, checks>>
  /\ delivered' = delivered \cup {to}
  /\ lost' = IF from = Nothing \/ <<from, to>> \in Extends THEN lost ELSE lost \cup {from}
\* A push reported lost reaches the server afterwards.
LatePushLands ==
  /\ flight # Nothing /\ flight' = Nothing
  /\ IF remote = flight.from THEN Applied(flight.from, flight.to)
                             ELSE UNCHANGED <<github, delivered, lost>>
  /\ UNCHANGED <<head, nonces, reviewed, profile, p, disturbed, invoked, seen>>

\* What the hook asks of a push: that it updates something, and either the machine
\* receipt's HEAD, which a fresh run of the oracle reproduces, or a local review that
\* is valid now.
Updates(to) == to # remote
Reproduced(to) == to = p.want /\ to \in reviewed
ReviewValid(to) == to \in reviewed
HookAccepts(to) ==
  Updates(to) /\ IF profile = "local-review" THEN ReviewValid(to) ELSE Reproduced(to)

-----------------------------------------------------------------------------
(* The command                                                             *)

Step(pc) == p.pc = pc
Only(next) == p' = next /\ UNCHANGED <<head, nonces, reviewed, profile, disturbed, invoked, flight>>
Quiet == UNCHANGED <<github, lost, delivered>>
Ended(status) == [p EXCEPT !.pc = status]
Goto(pc) == [p EXCEPT !.pc = pc]
Running == p.pc \notin {"idle", "LOCAL_REVIEWED", "CHECKS_PASSED", "FAILED"}

\* repository_entry, require_registered_origin and ensure_clean_branch read HEAD.
Begin ==
  /\ Step("idle") /\ invoked < MaxInvocations /\ invoked' = invoked + 1
  /\ p' = [Idle EXCEPT !.pc = "preflight", !.want = head]
  /\ UNCHANGED <<head, github, nonces, reviewed, flight, profile, disturbed, lost, seen, delivered>>

\* machine_preflight binds its receipt to the HEAD read before; the local review is
\* inspected on whatever HEAD is by now.
Preflight ==
  /\ Step("preflight") /\ Quiet /\ UNCHANGED seen
  /\ LET passes == head \in reviewed /\ (profile = "organization-workflow" => head = p.want)
     IN Only(IF passes THEN [p EXCEPT !.pc = "look", !.steady = (head = p.want)] ELSE Ended("FAILED"))

\* create_draft_pr looks for the pull request of the branch.
LookUp ==
  /\ Step("look") /\ Quiet
  /\ IF pull = Nothing THEN Only(Goto("list")) /\ UNCHANGED seen
     ELSE IF ~pull.draft THEN Only(Ended("FAILED")) /\ UNCHANGED seen
     ELSE /\ seen' = seen \cup {remote}
          /\ Only([p EXCEPT !.pc = IF head = remote THEN "ensure" ELSE "push", !.sent = head,
                            !.lease = remote, !.forced = TRUE, !.attempt = 1])
\* remote_branch_head: without a pull request the decision follows the remote reference.
ListRemote ==
  /\ Step("list") /\ Quiet /\ seen' = seen \cup {remote}
  /\ Only([p EXCEPT !.pc = IF head = remote THEN "ensure" ELSE "push", !.sent = head,
                    !.lease = remote, !.forced = FALSE, !.attempt = 1])

\* guarded_push: git resolves HEAD when it runs, the hook judges that commit, and a
\* transport failure says nothing about what the server did or will do.
Push ==
  /\ Step("push") /\ UNCHANGED <<head, nonces, reviewed, profile, disturbed, invoked, seen>>
  /\ \/ /\ HookAccepts(head) /\ Admits(remote, head, p.forced, p.lease) /\ Applied(remote, head)
        /\ p' \in {Goto("ensure"), Goto("reconcile")} /\ UNCHANGED flight
     \/ /\ p' = Goto("reconcile") /\ Quiet /\ UNCHANGED flight
     \/ /\ HookAccepts(head) /\ Admits(remote, head, p.forced, p.lease) /\ flight = Nothing
        /\ flight' = [from |-> remote, to |-> head] /\ p' = Goto("reconcile") /\ Quiet
     \/ /\ ~(HookAccepts(head) /\ Admits(remote, head, p.forced, p.lease))
        /\ p' = Ended("FAILED") /\ Quiet /\ UNCHANGED flight

\* guarded_push_reconciliation: only the exact previous head authorises another push.
Reconcile ==
  /\ Step("reconcile") /\ Quiet /\ UNCHANGED seen
  /\ Only(IF remote = p.sent THEN Goto("ensure")
          ELSE IF remote # p.lease \/ p.attempt = PushAttempts THEN Ended("FAILED")
          ELSE [p EXCEPT !.pc = "push", !.attempt = @ + 1])

\* create_pull_request: every attempt to create is preceded by a lookup, so what a
\* lost request created is found.  draft and pr_create then judge the value found.
CreatePull ==
  /\ Step("ensure") /\ pull = Nothing /\ remote # Nothing
  /\ pull' = [draft |-> TRUE, base |-> "b1"] /\ computed' = FALSE
  /\ Only(p) /\ UNCHANGED <<remote, checks, lost, seen, delivered>>
UsePull ==
  /\ Step("ensure") /\ pull # Nothing /\ Quiet /\ UNCHANGED seen
  /\ Only(IF ~pull.draft \/ remote # p.want THEN Ended("FAILED")
          ELSE IF profile = "local-review" THEN [Ended("LOCAL_REVIEWED") EXCEPT !.exact = Current]
          ELSE [p EXCEPT !.pc = "candidate", !.exact = Current])

\* Mutant: the publisher of a run is not looked at.
NewestOfAnybody(name, ignored) ==
  LET eligible == {r \in checks : r.name = name /\ r.at = p.exact /\ r.id \notin ignored}
  IN {r \in eligible : \A q \in eligible : q.id <= r.id}
\* check_state: per name the newest run of the right App, those the first look saw
\* left out; one that failed ends the wait, both successful complete it.
Newest(name, ignored) ==
  LET eligible == {r \in checks : r.name = name /\ r.app /\ r.at = p.exact /\ r.id \notin ignored}
  IN {r \in eligible : \A q \in eligible : q.id <= r.id}
Candidates(ignored) == Newest(Machine, {}) \cup Newest(External, ignored)
CheckFailure(ignored) == \E r \in Candidates(ignored) : ~r.success
CheckComplete(ignored) == {r.name : r \in {c \in Candidates(ignored) : c.success}} = {Machine, External}

\* current_pull_request: still an open draft on the exact head and base.
Unmoved == pull # Nothing /\ pull.draft /\ Current = p.exact
\* wait_pull_candidate, then the first look at the checks.
Candidate ==
  /\ Step("candidate") /\ Quiet /\ UNCHANGED seen
  /\ IF ~Unmoved THEN Only(Ended("FAILED"))
     ELSE /\ computed
          /\ Only(IF CheckFailure({}) THEN Ended("FAILED")
                  ELSE [p EXCEPT !.pc = "submit", !.ignored = {r.id : r \in Newest(External, {})}])

\* cached_provenance keeps one signed statement, hence one nonce, per head and base:
\* submitting it again is answered as a duplicate.  A lost answer ends the command.
Submit ==
  /\ Step("submit") /\ Quiet
  /\ nonces' \in {nonces, nonces \cup {p.exact}}
  /\ p' \in {Ended("FAILED")} \cup {Goto("wait") : n \in nonces' \cap {p.exact}}
  /\ UNCHANGED <<head, reviewed, profile, disturbed, invoked, flight, seen>>

\* wait_checks: the pull request is read first, the checks of its test merge after.
WaitPull ==
  /\ Step("wait") /\ Quiet /\ UNCHANGED seen
  /\ IF Unmoved THEN computed /\ Only(Goto("checks")) ELSE Only(Ended("FAILED"))
WaitChecks ==
  /\ Step("checks") /\ Quiet /\ UNCHANGED seen
  /\ Only(IF CheckFailure(p.ignored) THEN Ended("FAILED")
          ELSE IF CheckComplete(p.ignored) THEN Ended("CHECKS_PASSED") ELSE Goto("wait"))

\* A deadline, an exhausted retry, an error that is not one of transport, or a kill.
GivesUp == Running /\ Quiet /\ UNCHANGED seen /\ Only(Ended("FAILED"))
RunAgain ==
  /\ Step("FAILED") /\ invoked < MaxInvocations /\ Quiet /\ UNCHANGED seen /\ Only(Idle)

Environment ==
  \/ MakerMovesHead \/ RivalPushes \/ BaseMoves \/ MarkedReady
  \/ profile = "organization-workflow"
     /\ (TestMergeComputed \/ WorkflowRuns \/ BrokerPublishes \/ ForeignAppPublishes)
Command ==
  \/ Begin \/ Preflight \/ LookUp \/ ListRemote \/ Push \/ Reconcile \/ CreatePull \/ UsePull
  \/ Candidate \/ Submit \/ WaitPull \/ WaitChecks \/ GivesUp \/ RunAgain
\* What no invocation will ever see is left out: the world moves while one runs or
\* another may be started, and a local route has no App, no workflow and no broker.
Watched == Running \/ (Step("FAILED") /\ invoked < MaxInvocations)
Next == (Watched /\ Environment) \/ LatePushLands \/ Command

Spec == Init /\ [][Next]_vars

-----------------------------------------------------------------------------
\* Whatever the interleaving of retries, late pushes and rivals, the command puts only
\* commits on the branch that the oracle or the review accepted, and takes none off
\* it that this invocation or an earlier one had not read there first.
NothingUnseenIsLost ==
  delivered \subseteq reviewed /\ lost \subseteq seen

\* A passed wait rests on runs of the right publishers for the exact head proved and
\* the exact base, submitted to the broker, and never on a verdict older than the command.
PassedIsExact ==
  p.pc = "CHECKS_PASSED" =>
    /\ p.exact[1] = p.want /\ p.want \in reviewed /\ p.exact \in nonces
    /\ \E m, x \in checks : /\ m.name = Machine /\ x.name = External /\ x.id \notin p.ignored
                            /\ \A r \in {m, x} : r.app /\ r.success /\ r.at = p.exact

\* A local route ends well only with the head it read in the pull request, and that
\* head was reviewed unless HEAD moved between reading it and inspecting its review.
LocalIsReviewed ==
  p.pc = "LOCAL_REVIEWED" => p.exact[1] = p.want /\ (p.steady => p.want \in reviewed)

DeliveryIsExact == NothingUnseenIsLost /\ PassedIsExact /\ LocalIsReviewed
=============================================================================
