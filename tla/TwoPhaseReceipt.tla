-------------------------- MODULE TwoPhaseReceipt --------------------------
(***************************************************************************)
(* A free review from the frozen packet to the App's countersignature.     *)
(*                                                                         *)
(* freeze_packet describes the candidate with one Git call after another;  *)
(* nothing holds the index, HEAD or the contract files still meanwhile.    *)
(* The packet is reviewed, a phase-one receipt is signed over it, and the  *)
(* App reads the pull request, its commits and its Check Run, one request  *)
(* after another, before it countersigns.  Another session edits, stages,  *)
(* commits and pushes; GitHub moves the base and recomputes the merge.     *)
(***************************************************************************)
EXTENDS Naturals, Sequences, FiniteSets, SequencesExt

CONSTANTS
  Contents,      \* what a tree may hold
  LargeTrees,    \* trees whose diff exceeds the direct bound
  LogicalTrees,  \* trees with a transparent (projected) path
  ClosingTrees,  \* trees whose change is a ledger close
  FileCount,     \* FileCount[t]: files changed in t
  NamesIn,       \* NamesIn[t]: the commits the text of t names
  Maker,         \* the maker's family, model and session
  Reviewers,     \* what the keyless route may report: the same, and whose standby it was
  Permitted,     \* Permitted[family]: the models that may review that family's work
  Standby,       \* Standby[m]: the model that stands in for m
  Nothing,
  MaxEdits,      \* bound: changes of the index, the working tree and the scope
  MaxCommits,    \* bound: commits made here
  MaxMoves       \* bound: changes of the pull request on GitHub

\* A machine receipt that is missing is told from one that is there.
Content == Contents \cup {0, 1}
ReceiptAssumption ==
  Nothing \notin [base : Seq(Content), tree : Content, diff : [from : Content, to : Content],
                  scope : Seq(Content)]

VARIABLES
  repo,          \* head, index, dirty: the checkout; scope: the commit the scope names
  machine,       \* the machine receipt file
  pull,          \* the pull request on GitHub
  check,         \* its Check Run
  packet,        \* the freeze under way
  phaseOne,      \* the signed phase-one receipt, or nothing
  binding,       \* the App's binding under way
  phaseTwo,      \* the countersigned receipt, or nothing
  edits, moves

vars == <<repo, machine, pull, check, packet, phaseOne, binding, phaseTwo, edits, moves>>
checkout == <<repo, machine, edits>>
github == <<pull, check, moves>>
review == <<packet, phaseOne>>

-----------------------------------------------------------------------------
(* Commits and diffs *)

\* A commit is the trees from the root to it.
Root == <<0>>
FirstParent(c) == Front(c)
IsAncestor(a, c) == IsPrefix(a, c)
History(c) == {SubSeq(c, 1, n) : n \in 1..Len(c)}
Objects == History(repo.head) \cup History(pull.head) \cup History(pull.base)

\* A diff tells what it leads from and to; _staged_file_records are one too.
Diff(commit, tree) == [from |-> Last(commit), to |-> tree]
IsEmptyDiff(d) == d.from = d.to
NoDiff == [from |-> 0, to |-> 0]

\* A reviewer's text is not the hashed diff itself if that is too large or a path
\* is transparent.
IsLogical(d) == d.to \in LogicalTrees
IsLarge(d) == d.to \in LargeTrees
IsDerived(d) == IsLogical(d) \/ IsLarge(d)

\* _resolve_commit and the relations of one named commit.
Relation(c, start, parent) ==
  [commit |-> c, first |-> FirstParent(c),
   above |-> IsAncestor(c, parent), below |-> IsAncestor(start, c)]

\* _closing_provenance: what the named commits are, by the objects there are now.
Provenance(parent, start, text) ==
  [start |-> start,
   commits |-> {Relation(c, start, parent) : c \in NamesIn[text.to] \cap Objects},
   unresolved |-> NamesIn[text.to] \ Objects]
StartHolds(parent, start) == start \in Objects /\ IsAncestor(start, parent)
IsClosing(records) == records.to \in ClosingTrees

\* independent_identities, _reviewer_identity, reviewer_independence_level
IsIndependent(r) ==
  /\ <<r.family, r.model>> # <<Maker.family, Maker.model>> /\ r.session # Maker.session
  /\ r.model \in Permitted[Maker.family]
IsDeclared(r) == r.from # Nothing => r.from # r.model /\ Standby[r.from] = r.model
Level(r) == IF r.family = Maker.family THEN "same-vendor" ELSE "cross-vendor"
\* verify_phase_one
VerifyPhaseOne(receipt) ==
  /\ IsIndependent(receipt.reviewer) /\ IsDeclared(receipt.reviewer)
  /\ receipt.level = Level(receipt.reviewer)

Idle == [step |-> "idle", mode |-> "staged", base |-> Root, parent |-> Root, target |-> Nothing,
         tree |-> 0, diff |-> NoDiff, own |-> NoDiff, records |-> NoDiff, text |-> NoDiff,
         lineage |-> Nothing, moved |-> 0]
NoBinding == [step |-> "idle", pull |-> Nothing]

Init ==
  /\ repo \in [head : {Root}, index : {1}, dirty : {FALSE}, scope : {Root}]
  /\ machine = Nothing
  /\ pull = [open |-> TRUE, mergeable |-> FALSE, head |-> Root, base |-> Root, merge |-> Nothing]
  /\ check = Nothing /\ packet = Idle /\ phaseOne = Nothing
  /\ binding = NoBinding /\ phaseTwo = Nothing /\ edits = 0 /\ moves = 0

-----------------------------------------------------------------------------
(* Another session in the checkout *)

Freezing == packet.step \notin {"idle", "frozen"}
Stage ==
  /\ edits < MaxEdits /\ edits' = edits + 1
  /\ \E t \in Contents \ {repo.index} : repo' = [repo EXCEPT !.index = t]
  /\ packet' = IF Freezing THEN [packet EXCEPT !.moved = @ + 1] ELSE packet
  /\ UNCHANGED <<machine, github, phaseOne, binding, phaseTwo>>
Touch ==
  /\ edits < MaxEdits /\ edits' = edits + 1
  /\ \/ repo' = [repo EXCEPT !.dirty = ~@]
     \/ \E c \in Objects \ {repo.scope} : repo' = [repo EXCEPT !.scope = c]
  /\ UNCHANGED <<machine, github, review, binding, phaseTwo>>
Commit ==
  /\ Len(repo.head) <= MaxCommits /\ repo.index # Last(repo.head)
  /\ repo' = [repo EXCEPT !.head = Append(@, repo.index)]
  /\ UNCHANGED <<machine, edits, github, review, binding, phaseTwo>>

\* The verification loop writes the machine receipt of the candidate it finds.
RunMachine ==
  /\ \E parent \in {repo.head} \cup (IF Len(repo.head) > 1 THEN {FirstParent(repo.head)} ELSE {}) :
       machine' = [base |-> parent, tree |-> repo.index, diff |-> Diff(parent, repo.index),
                   scope |-> repo.scope]
  /\ machine' # machine
  /\ UNCHANGED <<repo, edits, github, review, binding, phaseTwo>>

(* GitHub *)
Moved(p) == pull' = p /\ moves' = moves + 1 /\ moves < MaxMoves
PullMoves ==
  /\ \/ /\ pull.head # repo.head
        /\ Moved([pull EXCEPT !.head = repo.head, !.mergeable = FALSE])
     \/ Moved([pull EXCEPT !.base = Append(@, 0)])
     \/ pull.open /\ Moved([pull EXCEPT !.open = FALSE])
  /\ UNCHANGED <<checkout, check, review, binding, phaseTwo>>
\* The merge simulation is recomputed some time after the head or the base moved;
\* until then a moved base still shows the old one as mergeable.
Recompute ==
  /\ ~pull.mergeable \/ pull.merge # <<pull.base, pull.head>>
  /\ pull' = [pull EXCEPT !.mergeable = TRUE, !.merge = <<pull.base, pull.head>>]
  /\ UNCHANGED <<checkout, check, moves, review, binding, phaseTwo>>
\* The App opens its Check Run on the simulated merge, naming the receipt, and
\* completes it.
OpenCheck ==
  /\ phaseOne # Nothing /\ pull.merge # Nothing /\ check = Nothing
  /\ check' = [head |-> pull.merge, receipt |-> phaseOne.candidate, status |-> "in_progress"]
  /\ UNCHANGED <<checkout, pull, moves, review, binding, phaseTwo>>
CompleteCheck ==
  /\ check # Nothing /\ check.status = "in_progress"
  /\ check' = [check EXCEPT !.status = "completed"]
  /\ UNCHANGED <<checkout, pull, moves, review, binding, phaseTwo>>

-----------------------------------------------------------------------------
(* freeze_packet: one Git call per action *)

Unmoved == UNCHANGED <<checkout, github, phaseOne, binding, phaseTwo>>
Refuse == packet' = Idle
Then(s) == packet.step = s

\* The parent, the target and the ancestry of the base.
Freeze ==
  /\ packet.step = "idle" /\ phaseOne = Nothing
  /\ \E mode \in {"staged", "committed-head"}, base \in {Root, pull.base},
        target \in {Nothing, pull.head} :
       LET parent == IF mode = "staged" THEN repo.head ELSE FirstParent(repo.head) IN
       /\ mode = "committed-head" => Len(repo.head) > 1
       /\ base \in Objects /\ IsAncestor(base, parent)
       /\ packet' = [Idle EXCEPT !.step = "clean", !.mode = mode, !.base = base,
                                 !.parent = parent, !.target = target]
  /\ Unmoved
\* git diff --quiet, ls-files --others
CheckClean ==
  /\ Then("clean")
  /\ IF repo.dirty THEN Refuse ELSE packet' = [packet EXCEPT !.step = "tree"]
  /\ Unmoved
WriteTree ==
  /\ Then("tree")
  /\ packet' = [packet EXCEPT !.tree = repo.index,
                              !.step = IF packet.mode = "staged" THEN "diff" ELSE "head"]
  /\ Unmoved
CompareHead ==
  /\ Then("head")
  /\ IF packet.tree # Last(repo.head) THEN Refuse ELSE packet' = [packet EXCEPT !.step = "diff"]
  /\ Unmoved
ReadDiff ==
  /\ Then("diff")
  /\ packet' = [packet EXCEPT !.diff = Diff(packet.base, repo.index), !.step = "own"]
  /\ Unmoved
ReadOwnDiff ==
  /\ Then("own")
  /\ LET own == Diff(packet.parent, repo.index) IN
       IF IsEmptyDiff(own) \/ IsEmptyDiff(packet.diff)
       THEN Refuse ELSE packet' = [packet EXCEPT !.own = own, !.step = "records"]
  /\ Unmoved
\* _staged_file_records
ReadRecords ==
  /\ Then("records")
  /\ LET records == Diff(packet.base, repo.index) IN
       IF IsEmptyDiff(records)
       THEN Refuse ELSE packet' = [packet EXCEPT !.records = records, !.step = "text"]
  /\ Unmoved

\* The text the reviewer reads: the projected blobs of the records, the diff that
\* was hashed, or another diff without renames; it has a part for every record.
ReadText ==
  /\ Then("text")
  /\ LET logical == IsLogical(packet.records) \/ IsLogical(packet.diff)
         text == CASE logical -> packet.records
                   [] ~logical /\ ~IsLarge(packet.diff) -> packet.diff
                   [] OTHER -> Diff(packet.base, repo.index)
     IN IF \/ logical /\ ~IsLogical(packet.records)
           \/ FileCount[text.to] # FileCount[packet.records.to]
        THEN Refuse ELSE packet' = [packet EXCEPT !.text = text, !.step = "contracts"]
  /\ Unmoved

\* _machine_summary: the receipt is about this parent, tree, diff and scope.
MachineIsExact ==
  machine = [base |-> packet.parent, tree |-> packet.tree, diff |-> packet.own,
             scope |-> repo.scope]
\* The contracts and the machine receipt; a ledger close gets its lineage.
ReadContracts ==
  /\ Then("contracts")
  /\ IF MachineIsExact /\ (IsClosing(packet.records) => StartHolds(packet.parent, repo.scope))
     THEN packet' = [packet EXCEPT !.step = "frozen",
                       !.lineage = IF IsClosing(packet.records)
                                   THEN Provenance(packet.parent, repo.scope, packet.text)
                                   ELSE Nothing]
     ELSE Refuse
  /\ Unmoved

\* _recompute_provenance
LineageIsCurrent(l) ==
  l # Nothing => /\ StartHolds(packet.parent, l.start)
                 /\ l = Provenance(packet.parent, l.start, packet.text)
\* The review: the prompt is validated against the packet, the lineage derived
\* again, and the receipt signed over it.
SignPhaseOne ==
  /\ packet.step = "frozen"
  /\ IF LineageIsCurrent(packet.lineage)
     THEN \E r \in Reviewers :
          /\ IsIndependent(r) /\ IsDeclared(r)
          /\ phaseOne' = [candidate |-> [base |-> packet.base, parent |-> packet.parent,
                                         tree |-> packet.tree, diff |-> packet.diff],
                           reviewer |-> r, level |-> Level(r),
                           target |-> packet.target, text |-> packet.text,
                           lineage |-> packet.lineage, moved |-> packet.moved,
                           known |-> Objects]
     ELSE UNCHANGED phaseOne
  /\ Refuse
  /\ UNCHANGED <<checkout, github, binding, phaseTwo>>

-----------------------------------------------------------------------------
(* github_app_phase_two_receipt *)

\* Mutant: the pull request is not read again before the countersignature.
OnceRead(p, again) == TRUE

\* The second reading of the pull request must equal the first.
Unchanged(p, again) == again = p

\* The pull request as the receipt has it: head, head commit, merge commit.
PullIsExact(p, r) ==
  /\ p.open /\ p.mergeable /\ r.target = p.head
  /\ Last(p.head) = r.candidate.tree
  /\ Len(p.head) > 1 /\ FirstParent(p.head) = r.candidate.parent
  /\ p.merge = <<p.base, p.head>>
CheckIsExact(p, r) ==
  /\ check # Nothing /\ check.status = "in_progress"
  /\ check.head = p.merge /\ check.receipt = r.candidate
\* _live: the observed coordinates are the candidate's.
Live(p, r) == p.base = r.candidate.base /\ p.head = r.target

ReadPull ==
  /\ binding.step = "idle" /\ phaseOne # Nothing /\ phaseTwo = Nothing
  /\ VerifyPhaseOne(phaseOne) /\ PullIsExact(pull, phaseOne)
  /\ binding' = [step |-> "check", pull |-> pull]
  /\ UNCHANGED <<checkout, github, review, phaseTwo>>
ReadCheck ==
  /\ binding.step = "check"
  /\ binding' = IF CheckIsExact(binding.pull, phaseOne)
                THEN [binding EXCEPT !.step = "again"] ELSE NoBinding
  /\ UNCHANGED <<checkout, github, review, phaseTwo>>
Countersign ==
  /\ binding.step = "again"
  /\ binding' = NoBinding
  /\ phaseTwo' = IF Unchanged(binding.pull, pull) /\ Live(binding.pull, phaseOne)
                 THEN [phaseOne |-> phaseOne, live |-> binding.pull, seen |-> pull]
                 ELSE Nothing
  /\ UNCHANGED <<checkout, github, review>>

Next == \/ Stage \/ Touch \/ Commit \/ RunMachine \/ PullMoves \/ Recompute
        \/ OpenCheck \/ CompleteCheck
        \/ Freeze \/ CheckClean \/ WriteTree \/ CompareHead \/ ReadDiff \/ ReadOwnDiff
        \/ ReadRecords \/ ReadText \/ ReadContracts \/ SignPhaseOne
        \/ ReadPull \/ ReadCheck \/ Countersign
Spec == Init /\ [][Next]_vars

-----------------------------------------------------------------------------
\* What a receipt says was reviewed is its tree.  Only an index that moved under
\* the freeze breaks it: twice, there and back, for the hashed diff, because the
\* machine receipt binds the tree and the diff to the parent; once for a text that
\* is read separately, which nothing compares with the tree afterwards.
TextIsTheTree ==
  phaseOne # Nothing =>
    LET candidate == phaseOne.candidate
        exact == Diff(candidate.base, candidate.tree)
    IN /\ candidate.diff # exact => phaseOne.moved >= 2
       /\ phaseOne.text # exact => phaseOne.moved >= (IF IsDerived(phaseOne.text)
                                                       \/ IsDerived(candidate.diff)
                                                      THEN 1 ELSE 2)

\* A countersigned receipt names a pull request that was open and exactly the
\* candidate when it was last read: this base, this parent, this tree, and a merge
\* simulated from both, though each was fetched at another moment.
CountersignIsExact ==
  phaseTwo # Nothing =>
    LET c == phaseTwo.phaseOne.candidate IN
      /\ phaseTwo.seen.open
      /\ phaseTwo.seen.head = Append(c.parent, c.tree)
      /\ phaseTwo.seen.base = c.base
      /\ phaseTwo.seen.merge = <<c.base, phaseTwo.seen.head>>

\* The lineage a signed ledger close shows its reviewer was true of the objects
\* of the repository when it was signed: no commit made since the freeze is left
\* unresolved in it, and its start is an ancestor of the parent.
LineageHolds ==
  phaseOne # Nothing /\ phaseOne.lineage # Nothing =>
    /\ phaseOne.lineage.unresolved \cap phaseOne.known = {}
    /\ IsAncestor(phaseOne.lineage.start, phaseOne.candidate.parent)
    /\ \A r \in phaseOne.lineage.commits : r.commit \in phaseOne.known
=============================================================================
