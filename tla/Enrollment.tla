----------------------------- MODULE Enrollment -----------------------------
(***************************************************************************)
(* Repository enrollment in the review broker's SQLite store.              *)
(*                                                                         *)
(* An enrollment receipt binds one repository to the GitHub App that may   *)
(* publish the external review gate.  The operator's command line enables  *)
(* and disables receipts while the broker's threads, in another process,   *)
(* read the binding, mint a token and only later commit evidence.  Every   *)
(* store method is one BEGIN IMMEDIATE transaction or one SELECT under the *)
(* store's lock, so each is one action; what is interleaved is the         *)
(* sequence of calls a publishing thread makes.                            *)
(***************************************************************************)
EXTENDS Naturals, Sequences

CONSTANTS
  Repos,      \* repositories
  Receipts,   \* enrollment receipts, named by their SHA-256
  Apps,       \* GitHub App integration ids
  RepoOf,     \* RepoOf[x]: receipt x's "repository" field
  AppOf,      \* AppOf[x]: its externalReview.integrationId
  Threads,    \* broker threads that publish (worker and HTTP handlers)
  NoReceipt, NoApp

ASSUME BindingAssumption ==
  /\ Repos # {}
  /\ RepoOf \in [Receipts -> Repos]
  /\ AppOf \in [Receipts -> Apps]
  /\ NoReceipt \notin Receipts
  /\ NoApp \notin Apps

VARIABLES
  enabled,    \* repositories.enabled
  active,     \* repositories.active_receipt_sha256; NoReceipt: no row
  expected,   \* repositories.expected_app_id
  stored,     \* enrollment_receipts, append-only
  events,     \* enrollment_events, append-only
  thread,     \* thread[t]: where the publication of t stands, and with what
  evidence    \* preparation rows committed so far

vars == <<enabled, active, expected, stored, events, thread, evidence>>

Kinds == {"failure", "free"}
EventType == {"enabled", "disabled"}
Event == [repo : Repos, type : EventType, receipt : Receipts]
Idle == [pc |-> "idle", repo |-> CHOOSE r \in Repos : TRUE, app |-> NoApp]
ThreadState ==
  [pc : {"idle", "bound", "checked"}, repo : Repos, app : Apps \cup {NoApp}]

Init ==
  /\ enabled = [r \in Repos |-> FALSE]
  /\ active = [r \in Repos |-> NoReceipt]
  /\ expected = [r \in Repos |-> NoApp]
  /\ stored = {}
  /\ events = << >>
  /\ thread = [t \in Threads |-> Idle]
  /\ evidence = {}

-----------------------------------------------------------------------------
(* The operator *)

\* Mutant: the superseded receipts are not looked up.
EnrollSuperseded(x) ==
  LET r == RepoOf[x] IN
  /\ ~enabled[r]
  /\ active[r] # x
  /\ stored' = stored \cup {x}
  /\ enabled' = [enabled EXCEPT ![r] = TRUE]
  /\ active' = [active EXCEPT ![r] = x]
  /\ expected' = [expected EXCEPT ![r] = AppOf[x]]
  /\ events' = Append(events, [repo |-> r, type |-> "enabled", receipt |-> x])
  /\ UNCHANGED <<thread, evidence>>

\* Mutant: a rotation leaves the App id of the receipt it replaces.
EnrollKeepsApp(x) ==
  LET r == RepoOf[x] IN
  /\ ~enabled[r]
  /\ active[r] # x
  /\ x \notin stored
  /\ stored' = stored \cup {x}
  /\ enabled' = [enabled EXCEPT ![r] = TRUE]
  /\ active' = [active EXCEPT ![r] = x]
  /\ expected' = [expected EXCEPT ![r] = IF @ = NoApp THEN AppOf[x] ELSE @]
  /\ events' = Append(events, [repo |-> r, type |-> "enabled", receipt |-> x])
  /\ UNCHANGED <<thread, evidence>>

\* enroll of a receipt that is not the active one.  With an enabled row the
\* call is refused ("immutable"), or returns without a change when the very
\* same receipt is active; a receipt the table already holds is refused as
\* superseded, and so is the receipt the disabled row still names.
Enroll(x) ==
  LET r == RepoOf[x] IN
  /\ ~enabled[r]
  /\ active[r] # x
  /\ x \notin stored
  /\ stored' = stored \cup {x}
  /\ enabled' = [enabled EXCEPT ![r] = TRUE]
  /\ active' = [active EXCEPT ![r] = x]
  /\ expected' = [expected EXCEPT ![r] = AppOf[x]]
  /\ events' = Append(events, [repo |-> r, type |-> "enabled", receipt |-> x])
  /\ UNCHANGED <<thread, evidence>>

\* Mutant: the event is logged with the column disable has just cleared.
DisableClears(x) ==
  LET r == RepoOf[x] IN
  /\ enabled[r]
  /\ active[r] = x
  /\ enabled' = [enabled EXCEPT ![r] = FALSE]
  /\ active' = [active EXCEPT ![r] = NoReceipt]
  /\ events' = Append(events, [repo |-> r, type |-> "disabled", receipt |-> active'[r]])
  /\ UNCHANGED <<expected, stored, thread, evidence>>

\* Mutant: no "disabled" event.
DisableSilently(x) ==
  LET r == RepoOf[x] IN
  /\ enabled[r]
  /\ active[r] = x
  /\ enabled' = [enabled EXCEPT ![r] = FALSE]
  /\ UNCHANGED <<active, expected, stored, events, thread, evidence>>

\* Mutant: the receipt is deleted with the enrollment.
DisableDeletes(x) ==
  LET r == RepoOf[x] IN
  /\ enabled[r]
  /\ active[r] = x
  /\ enabled' = [enabled EXCEPT ![r] = FALSE]
  /\ stored' = stored \ {x}
  /\ events' = Append(events, [repo |-> r, type |-> "disabled", receipt |-> x])
  /\ UNCHANGED <<active, expected, thread, evidence>>

\* disable_enrollment names the exact active receipt.
Disable(x) ==
  LET r == RepoOf[x] IN
  /\ enabled[r]
  /\ active[r] = x
  /\ enabled' = [enabled EXCEPT ![r] = FALSE]
  /\ events' = Append(events, [repo |-> r, type |-> "disabled", receipt |-> x])
  /\ UNCHANGED <<active, expected, stored, thread, evidence>>

-----------------------------------------------------------------------------
(* A publishing thread *)

\* The join that enrollment_app_id and require_enrolled share.
IsEnrolled(r) ==
  /\ enabled[r]
  /\ active[r] \in stored
  /\ RepoOf[active[r]] = r
  /\ AppOf[active[r]] = expected[r]

\* enrollment_app_id: the thread remembers the App id it read.
ReadAppId(t, r) ==
  /\ thread[t].pc = "idle"
  /\ IsEnrolled(r)
  /\ thread' = [thread EXCEPT ![t] =
                  [pc |-> "bound", repo |-> r, app |-> expected[r]]]
  /\ UNCHANGED <<enabled, active, expected, stored, events, evidence>>

\* require_enrolled, a second SELECT: the row may have changed in between.
RequireEnrolled(t) ==
  LET r == thread[t].repo IN
  /\ thread[t].pc = "bound"
  /\ thread' = [thread EXCEPT ![t] =
                  IF IsEnrolled(r) /\ expected[r] = thread[t].app
                  THEN [@ EXCEPT !.pc = "checked"]
                  ELSE Idle]
  /\ UNCHANGED <<enabled, active, expected, stored, events, evidence>>

Evidence(t, kind) ==
  [kind |-> kind, repo |-> thread[t].repo, app |-> thread[t].app]

\* Mutant: the transaction trusts the earlier require_enrolled.
PrepareFailureUnguarded(t) ==
  /\ thread[t].pc = "checked"
  /\ evidence' = evidence \cup {Evidence(t, "failure")}
  /\ thread' = [thread EXCEPT ![t] = Idle]
  /\ UNCHANGED <<enabled, active, expected, stored, events>>

\* prepare_failure_publication (and _write_review, which checks the same row)
\* looks at the enrollment again inside the transaction that commits.
PrepareFailure(t) ==
  LET r == thread[t].repo IN
  /\ thread[t].pc = "checked"
  /\ evidence' = IF enabled[r] /\ expected[r] = thread[t].app
                 THEN evidence \cup {Evidence(t, "failure")}
                 ELSE evidence
  /\ thread' = [thread EXCEPT ![t] = Idle]
  /\ UNCHANGED <<enabled, active, expected, stored, events>>

\* prepare_free_review commits without reading the enrollment again.
PrepareFree(t) ==
  /\ thread[t].pc = "checked"
  /\ evidence' = evidence \cup {Evidence(t, "free")}
  /\ thread' = [thread EXCEPT ![t] = Idle]
  /\ UNCHANGED <<enabled, active, expected, stored, events>>

Next ==
  \/ \E x \in Receipts : Enroll(x) \/ Disable(x)
  \/ \E t \in Threads :
       \/ \E r \in Repos : ReadAppId(t, r)
       \/ RequireEnrolled(t) \/ PrepareFailure(t) \/ PrepareFree(t)

Spec == Init /\ [][Next]_vars

-----------------------------------------------------------------------------
(* Properties *)

\* Every variable has its type.
TypeOK ==
  /\ enabled \in [Repos -> BOOLEAN]
  /\ active \in [Repos -> Receipts \cup {NoReceipt}]
  /\ expected \in [Repos -> Apps \cup {NoApp}]
  /\ stored \subseteq Receipts
  /\ events \in Seq(Event)
  /\ thread \in [Threads -> ThreadState]
  /\ evidence \subseteq [kind : Kinds, repo : Repos, app : Apps]

\* The log holds at most one "enabled" and one "disabled" event of a receipt,
\* in that order: a receipt that was disabled or superseded is never enabled
\* again, whatever the operator calls in whatever order (enroll's "superseded
\* enrollment receipt cannot be reactivated").
NeverReactivated ==
  \A i, j \in 1..Len(events) :
    i < j /\ events[i].receipt = events[j].receipt
      => events[i].type = "enabled" /\ events[j].type = "disabled"

\* The mutable row agrees with the append-only log: a repository is enabled
\* exactly when its last event enabled the receipt the row calls active, so
\* an auditor who replays enrollment_events finds the row the broker obeys.
RowFollowsLog ==
  \A r \in Repos :
    enabled[r] <=>
      \E i \in 1..Len(events) :
        /\ events[i] = [repo |-> r, type |-> "enabled", receipt |-> active[r]]
        /\ \A j \in i+1..Len(events) : events[j].repo # r

\* An enabled row always carries a stored receipt of its own repository and
\* that receipt's App, so IsEnrolled refuses only rows that are not enabled.
EnabledIsExact == \A r \in Repos : enabled[r] => IsEnrolled(r)

\* A thread that read the App id before a rotation still commits only under
\* an App some receipt of that repository named.
EvidenceAppWasEnrolled ==
  \A e \in evidence :
    \E x \in stored : RepoOf[x] = e.repo /\ AppOf[x] = e.app

\* Failure and review evidence enters the store only while the enrollment
\* that expects its App is enabled, however long ago the thread read it.
GuardedEvidenceIsCurrent ==
  [][\A e \in evidence' \ evidence :
       e.kind = "failure" => enabled[e.repo] /\ expected[e.repo] = e.app]_vars
=============================================================================
