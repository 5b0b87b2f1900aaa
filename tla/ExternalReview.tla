--------------------------- MODULE ExternalReview ---------------------------
(***************************************************************************)
(* The external checker transport (skills/_shared/itd_external_reviewer.py).*)
(* `review` builds a candidate from the staged tree with one Git call after *)
(* another, reserves the most a call can cost from a monthly budget that    *)
(* all processes share under a lock directory, asks the eligible providers  *)
(* in turn, and writes prompt, report and metadata under the tree's name.   *)
(* `validate` says whether such metadata is evidence for what is staged     *)
(* now.  Reviews run at once, stop at any point, and nothing stands still:  *)
(* the index moves, the policy file changes, the month turns.               *)
(***************************************************************************)
EXTENDS Naturals, Sequences, FiniteSets

CONSTANTS
  Reviews,       \* processes running `review`
  Paths, Base,   \* Base[h]: the content of each path at commit h
  Stages,        \* what may be staged: [head, tree]
  Preference,    \* the automated providers, in the order the route prefers
  MakerModel,    \* the maker's model, of the providers' vendor
  Risks, Limit,  \* Limit: reservations a month has room for
  Nothing,
  MaxMoves,      \* bound: changes of the index or the policy
  Months, MaxStops  \* bounds: months; reviews that die

ReviewerAssumption == Nothing \notin Reviews /\ Limit \in Nat /\ Months \in Nat \ {0}

VARIABLES
  staged, policy,        \* the index over HEAD; the version of the policy file
  lock, owner,           \* the lock directory, and (history) who made it
  month, rows, torn,     \* rows[m]: reservations dated m; torn: a half-written line
  disk,                  \* disk[t]: prompt, report and metadata of tree t
  review, validation,
  answers, overtaken,    \* history: what providers said; a live holder lost the lock
  moved, stops
vars == <<staged, policy, lock, owner, month, rows, torn, disk, review, validation,
          answers, overtaken, moved, stops>>

world == <<staged, policy, month>>
budget == <<lock, owner, rows, torn, overtaken>>

\* changed_files and the text of `git diff --cached` of some paths.
Changed(s) == {p \in Paths : s.tree[p] # Base[s.head][p]}
Diff(s, ps) == [p \in ps |-> <<Base[s.head][p], s.tree[p]>>]

\* eligible: every provider is of the maker's vendor here.
Eligible(model, risk) == risk = "high" => model # MakerModel
Route(risk) == SelectSeq(Preference, LAMBDA model : Eligible(model, risk))

Empty == [prompt |-> Nothing, report |-> Nothing, metadata |-> Nothing]
Idle == [pc |-> "idle"]

Init ==
  /\ staged \in Stages /\ policy = 0
  /\ lock = "free" /\ owner = Nothing
  /\ month = 1 /\ rows = [m \in 1..Months |-> 0] /\ torn = FALSE
  /\ disk = [t \in {s.tree : s \in Stages} |-> Empty]
  /\ review = [r \in Reviews |-> Idle] /\ validation = Idle
  /\ answers = {} /\ overtaken = FALSE /\ moved = 0 /\ stops = 0

At(r, pc) == review[r].pc = pc /\ UNCHANGED <<world, validation, moved, stops>>
Goto(r, pc) == review' = [review EXCEPT ![r].pc = pc]
End(r, outcome) == review' = [review EXCEPT ![r] = [pc |-> outcome]]

-----------------------------------------------------------------------------
(* build_candidate *)
Building(r, pc) == At(r, pc) /\ UNCHANGED <<budget, disk, answers>>

\* policy_from, the consent and the maker's provenance come before the first Git call.
Start(r) ==
  /\ Building(r, "idle")
  /\ \E risk \in Risks :
       review' = [review EXCEPT ![r] =
         [pc |-> "files", risk |-> risk, policy |-> Nothing, todo |-> Route(risk), files |-> {},
          diff |-> Nothing, tree |-> Nothing, head |-> Nothing, failed |-> {}, answer |-> Nothing]]
\* Unsafe, binary and too many paths refuse like none at all.
ReadFiles(r) ==
  /\ Building(r, "files")
  /\ IF Changed(staged) = {} THEN End(r, "UNVERIFIED")
     ELSE review' = [review EXCEPT ![r].pc = "diff", ![r].files = Changed(staged)]
\* A diff that is too long, or in which scrub left something behind, refuses.
ReadDiff(r) ==
  /\ Building(r, "diff")
  /\ \/ review' = [review EXCEPT ![r].pc = "tree", ![r].diff = Diff(staged, review[r].files)]
     \/ End(r, "UNVERIFIED")
ReadTree(r) ==
  Building(r, "tree") /\ review' = [review EXCEPT ![r].pc = "head", ![r].tree = staged.tree]
ReadHead(r) ==
  Building(r, "head") /\ review' = [review EXCEPT ![r].pc = "lock", ![r].head = staged.head]

-----------------------------------------------------------------------------
(* reserve_monthly_budget *)
Reserving(r, pc) == At(r, pc) /\ UNCHANGED <<disk, answers>>
InLock == {"spend", "append", "unlock", "over budget"}

\* A provider that fails leaves its status; the next one is tried.
Failed(r, status) ==
  LET failed == review[r].failed \cup {status} IN
  IF Len(review[r].todo) = 1
  THEN End(r, IF "UNVERIFIED" \in failed THEN "UNVERIFIED" ELSE "UNAVAILABLE")
  ELSE review' = [review EXCEPT ![r].pc = "lock", ![r].todo = Tail(@), ![r].failed = failed]

\* Mutant: the budget is looked at before the lock is taken.
LockTooLate(r) ==
  /\ Reserving(r, "lock") /\ rows[month] < Limit
  /\ lock' = "held" /\ owner' = r /\ Goto(r, "append")
  /\ UNCHANGED <<rows, torn, overtaken>>
Lock(r) ==
  /\ Reserving(r, "lock") /\ lock = "free"
  /\ lock' = "held" /\ owner' = r /\ Goto(r, "spend")
  /\ UNCHANGED <<rows, torn, overtaken>>
\* Older than thirty seconds: whoever holds it is taken for dead.
SeesStale(r) == Reserving(r, "lock") /\ lock = "old" /\ Goto(r, "break") /\ UNCHANGED budget
TimesOut(r) ==
  Reserving(r, "lock") /\ lock # "free" /\ Failed(r, "UNAVAILABLE") /\ UNCHANGED budget
\* rmdir does not know whose directory it removes, or how old it is by now.
Removed(r) ==
  /\ lock' = "free" /\ owner' = Nothing
  /\ overtaken' = (overtaken \/ (owner \notin {r, Nothing} /\ review[owner].pc \in InLock))
Break(r) == Reserving(r, "break") /\ Removed(r) /\ Goto(r, "lock") /\ UNCHANGED <<rows, torn>>

\* monthly_spend: one malformed line makes the ledger unusable, in every month.
Spend(r) ==
  /\ Reserving(r, "spend") /\ UNCHANGED budget
  /\ Goto(r, IF torn \/ rows[month] >= Limit THEN "over budget" ELSE "append")
\* The reservation is durable before anything is sent, and dated when it is written.
Reserve(r) ==
  /\ Reserving(r, "append") /\ Goto(r, "unlock")
  /\ rows' = [rows EXCEPT ![month] = @ + 1] /\ UNCHANGED <<lock, owner, torn, overtaken>>
Unlock(r) ==
  /\ review[r].pc \in {"unlock", "over budget"} /\ Reserving(r, review[r].pc)
  /\ Removed(r) /\ UNCHANGED <<rows, torn>>
  /\ IF review[r].pc = "unlock" THEN Goto(r, "call") ELSE Failed(r, "UNVERIFIED")

-----------------------------------------------------------------------------
(* run_review: the call, the verdict, the artifacts *)
\* No answer; or one without a session's provenance, of too high a cost, refused by
\* validate_verdict.
Failures == {"UNAVAILABLE", "UNVERIFIED"}
Verdicts == {"PASSED", "FINDINGS"}
\* The provider reports the model it used.
Answers(r) == [provider : {Head(review[r].todo)}, model : {Head(review[r].todo), MakerModel},
               status : Verdicts]
\* A model that is the maker's does not serve high risk.
Call(r) ==
  /\ At(r, "call") /\ UNCHANGED <<budget, disk>>
  /\ \/ \E status \in Failures : Failed(r, status) /\ UNCHANGED answers
     \/ \E answer \in Answers(r) :
          IF Eligible(answer.model, review[r].risk)
          THEN /\ review' = [review EXCEPT ![r].pc = "prompt", ![r].answer = answer]
               /\ answers' = answers \cup {[diff |-> review[r].diff, of |-> answer]}
          ELSE Failed(r, "UNVERIFIED") /\ UNCHANGED answers

\* write_artifacts: three files, one after another, under names made of the tree.
Writing(r, pc) == At(r, pc) /\ UNCHANGED <<budget, answers>>
\* The policy is hashed here, once more than it was read.
WritePrompt(r) ==
  /\ Writing(r, "prompt")
  /\ review' = [review EXCEPT ![r].pc = "report", ![r].policy = policy]
  /\ disk' = [disk EXCEPT ![review[r].tree].prompt = review[r].diff]
WriteReport(r) ==
  /\ Writing(r, "report") /\ Goto(r, "metadata")
  /\ disk' = [disk EXCEPT ![review[r].tree].report = review[r].answer.status]
Metadata(r) == [k \in {"risk", "files", "diff", "tree", "head", "answer", "policy"} |-> review[r][k]]
WriteMetadata(r) ==
  /\ Writing(r, "metadata") /\ End(r, review[r].answer.status)
  /\ disk' = [disk EXCEPT ![review[r].tree].metadata = Metadata(r)]

ReviewStep(r) ==
  \/ Start(r) \/ ReadFiles(r) \/ ReadDiff(r) \/ ReadTree(r) \/ ReadHead(r)
  \/ Lock(r) \/ SeesStale(r) \/ TimesOut(r) \/ Break(r) \/ Spend(r) \/ Reserve(r) \/ Unlock(r)
  \/ Call(r) \/ WritePrompt(r) \/ WriteReport(r) \/ WriteMetadata(r)

-----------------------------------------------------------------------------
(* validate_metadata *)
ValidationAt(pc) ==
  validation.pc = pc /\ UNCHANGED <<world, budget, disk, review, answers, moved, stops>>
Require(holds, next) ==
  validation' = IF holds THEN [validation EXCEPT !.pc = next] ELSE [pc |-> "refused"]
Meta == validation.metadata

\* One of the metadata files, for the risk the caller names.
ReadMetadata ==
  /\ ValidationAt("idle")
  /\ \E t \in DOMAIN disk, risk \in Risks :
       /\ disk[t].metadata # Nothing
       /\ LET metadata == disk[t].metadata IN
          validation' =
            IF metadata.risk = risk /\ metadata.policy = policy
            THEN [pc |-> "tree", risk |-> risk, metadata |-> metadata, tree |-> Nothing, since |-> moved]
            ELSE [pc |-> "refused"]
CompareTree ==
  /\ ValidationAt("tree")
  /\ validation' = IF Meta.tree = staged.tree
                   THEN [validation EXCEPT !.pc = "head", !.tree = staged.tree] ELSE [pc |-> "refused"]
CompareHead == ValidationAt("head") /\ Require(Meta.head = staged.head, "files")
CompareFiles == ValidationAt("files") /\ Require(Meta.files = Changed(staged), "diff")
CompareDiff == ValidationAt("diff") /\ Require(Meta.diff = Diff(staged, Meta.files), "prompt")
ComparePrompt == ValidationAt("prompt") /\ Require(disk[validation.tree].prompt = Meta.diff, "report")
CompareReport ==
  ValidationAt("report") /\ Require(disk[validation.tree].report = Meta.answer.status, "verdict")
\* The report is read once more; then the checker must be one the route would choose.
Independent(answer, risk) ==
  /\ answer.provider \in {Route(risk)[n] : n \in 1..Len(Route(risk))}
  /\ answer.model = answer.provider
CompareVerdict ==
  /\ ValidationAt("verdict")
  /\ Require(/\ disk[validation.tree].report = Meta.answer.status
             /\ Independent(Meta.answer, validation.risk), "valid")
ValidateStep ==
  \/ ReadMetadata \/ CompareTree \/ CompareHead \/ CompareFiles \/ CompareDiff
  \/ ComparePrompt \/ CompareReport \/ CompareVerdict

-----------------------------------------------------------------------------
\* The world around.
StageMoves ==
  /\ moved < MaxMoves /\ moved' = moved + 1
  /\ \/ staged' \in Stages \ {staged} /\ UNCHANGED policy
     \/ policy' = 1 - policy /\ UNCHANGED staged
  /\ UNCHANGED <<budget, month, disk, review, validation, answers, stops>>
MonthTurns ==
  /\ month < Months /\ month' = month + 1
  /\ UNCHANGED <<staged, policy, budget, disk, review, validation, answers, moved, stops>>
LockAges ==
  /\ lock = "held" /\ lock' = "old"
  /\ UNCHANGED <<world, owner, rows, torn, overtaken, disk, review, validation, answers, moved, stops>>
\* A review dies; in the middle of its line it leaves the ledger malformed.
Dies(r) ==
  /\ stops < MaxStops /\ stops' = stops + 1
  /\ review[r].pc \in InLock \cup {"call", "prompt", "report", "metadata"} /\ End(r, "dead")
  /\ torn' \in IF review[r].pc = "append" THEN BOOLEAN ELSE {torn}
  /\ UNCHANGED <<world, lock, owner, rows, overtaken, disk, validation, answers, moved>>

Next ==
  \/ \E r \in Reviews : ReviewStep(r) \/ Dies(r)
  \/ ValidateStep
  \/ StageMoves \/ MonthTurns \/ LockAges
Spec == Init /\ [][Next]_vars

-----------------------------------------------------------------------------
\* A month's reservations stay within its budget, unless a live process's lock was taken
\* away, by a waiter who held it for dead or by the one that waiter had taken it from.
BudgetHolds == overtaken \/ \A m \in 1..Months : rows[m] <= Limit

\* Metadata validated while the index stood still: a checker independent enough for that
\* risk gave the report's verdict on exactly the change that is staged.
EvidenceIsCurrent ==
  validation.pc = "valid" /\ validation.since = moved =>
    \E a \in answers :
      /\ a.diff = Diff(staged, Changed(staged))
      /\ a.of.status = Meta.answer.status
      /\ Eligible(a.of.model, validation.risk)

ReviewIsBound == BudgetHolds /\ EvidenceIsCurrent
=============================================================================
