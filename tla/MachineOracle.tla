--------------------------- MODULE MachineOracle ---------------------------
(***************************************************************************)
(* The machine oracle (scripts/itd_machine_oracle.py): one execution of a   *)
(* verification contract, of the candidate itself or of a trusted           *)
(* repository, on an isolated copy of the candidate's exact tree.  It reads *)
(* two repositories with some twenty Git calls while both are free to move: *)
(* the maker commits, checks out and edits, the trusted base is updated.    *)
(*                                                                         *)
(* A commit is named; what it holds is given by Verifier (the content of    *)
(* the declared verifier paths) and Contract (that of the contract file).   *)
(***************************************************************************)
EXTENDS Naturals

CONSTANTS Candidates, Trusted,   \* commits of the candidate and of the trusted repository
          Verifier, Contract,    \* functions of both kinds of commit
          NumCommands,           \* commands of a contract
          Nothing,
          MaxMoves               \* bound: moves and edits of either repository

VARIABLES root, base,  \* the two worktrees; base is root itself when same
          same, o, moves
vars == <<root, base, same, o, moves>>

\* The text of a contract file: that of some commit, or any other.
Texts == {Contract[c] : c \in DOMAIN Contract} \cup {"edited"}
Clean(c) == [head |-> c, dirty |-> FALSE, file |-> Contract[c]]
Edited(w, text) == [head |-> w.head, dirty |-> TRUE, file |-> text]
Worktrees(commits) == {Clean(c) : c \in commits} \cup {Edited(Clean(c), "edited") : c \in commits}
ContractRoot == IF same THEN root ELSE base
\* The contract file on disk: that of HEAD unless the worktree is edited.
ContractFile == ContractRoot.file

Start == [pc |-> "clean", contract |-> Nothing, head |-> Nothing, tree |-> Nothing, from |-> Nothing,
          trusted |-> TRUE, ran |-> 0, accepted |-> TRUE, altered |-> FALSE, returned |-> FALSE]
Init ==
  /\ root \in Worktrees(Candidates) /\ base \in Worktrees(Trusted)
  /\ same \in BOOLEAN /\ o = Start /\ moves = 0

Ended == o.pc \in {"PASSED", "UNVERIFIED", "ERROR"}
Goto(pc) == [o EXCEPT !.pc = pc]
Step(pc) == o.pc = pc /\ UNCHANGED <<root, base, same, moves>>
\* A check of the code: the next step, or an OracleError that ends the execution.
Require(holds, next) == o' = IF holds THEN next ELSE Goto("ERROR")

-----------------------------------------------------------------------------
\* Both worktrees are clean, untracked files included.
CheckClean ==
  Step("clean") /\ Require(~root.dirty /\ ~ContractRoot.dirty, Goto("contract"))
\* The contract of the trusted HEAD, and the same bytes on disk.
ReadContract ==
  Step("contract") /\ Require(ContractFile = Contract[ContractRoot.head],
                              [Goto("head") EXCEPT !.contract = Contract[ContractRoot.head]])
\* HEAD and its tree are two reads, the trusted HEAD a third.
ReadHead == Step("head") /\ o' = [Goto("tree") EXCEPT !.head = root.head]
ReadTree == Step("tree") /\ o' = [Goto("from") EXCEPT !.tree = root.head]
ReadTrusted == Step("from") /\ o' = [Goto("load") EXCEPT !.from = ContractRoot.head]
\* load_contract: a contract of an invalid shape ends the execution too.
LoadContract ==
  Step("load") /\ \E valid \in BOOLEAN : Require(valid /\ ContractFile = o.contract, Goto("bind"))
\* verifier_bindings compares the verifiers of both HEADs as they are by now.
BindVerifiers ==
  Step("bind") /\ o' = [Goto("dispatch") EXCEPT !.trusted = (Verifier[root.head] = Verifier[ContractRoot.head])]
\* Every command must invoke one of its declared verifiers directly, and in isolation.
CheckDispatch == Step("dispatch") /\ \E direct \in BOOLEAN : Require(direct, Goto("isolate"))
\* isolated_head: a clone with the tree and the HEAD that were read, or an error.
Isolate == Step("isolate") /\ \E made \in BOOLEAN : Require(made, Goto("run"))

\* parser_passed: a run that timed out or whose output overflowed is no pass.
Accepted(result) == result.exit = 0 /\ ~result.cut /\ result.matches
Results == [exit : {0, 1}, cut : BOOLEAN, matches : BOOLEAN]
\* A command runs in the isolated copy, which it may alter; after a trust failure none runs.
RunCommand ==
  /\ Step("run") /\ o.ran < NumCommands /\ o.trusted
  /\ \E result \in Results, alters \in BOOLEAN :
       o' = [o EXCEPT !.ran = @ + 1, !.accepted = @ /\ Accepted(result), !.altered = @ \/ alters]
RunsDone ==
  /\ Step("run") /\ (o.ran = NumCommands \/ ~o.trusted)
  /\ \E missing \in BOOLEAN :
       o' = [Goto("recheck") EXCEPT !.accepted = @ /\ o.trusted /\ ~missing]
\* The contract once more, then the copy, then both repositories.
RecheckContract == Step("recheck") /\ Require(ContractFile = o.contract /\ ~o.altered, Goto("root"))
\* Mutant: HEAD is not compared once more.
RecheckCleanOnly == Step("root") /\ Require(~root.dirty, Goto("base"))
RecheckRoot ==
  Step("root") /\ Require(root.head = o.head /\ root.head = o.tree /\ ~root.dirty, Goto("base"))
RecheckBase ==
  Step("base") /\ Require(ContractRoot.head = o.from /\ ~ContractRoot.dirty,
                          Goto(IF o.accepted THEN "PASSED" ELSE "UNVERIFIED"))

\* Somebody moves HEAD of a worktree, which rewrites its files, or edits it, or undoes
\* the edits.  returned remembers that a HEAD came back to where the oracle read it, or
\* that the contract it read was written into the file of a HEAD with another one.
Disturbed == ~Ended /\ moves < MaxMoves /\ moves' = moves + 1 /\ UNCHANGED same
RootMoves ==
  /\ Disturbed /\ UNCHANGED base
  /\ \E c \in Candidates \ {root.head} :
       /\ root' = Clean(c)
       /\ o' = [o EXCEPT !.returned = @ \/ c \in {o.head, o.tree, o.from}]
BaseMoves ==
  /\ Disturbed /\ ~same /\ UNCHANGED root
  /\ \E c \in Trusted \ {base.head} :
       /\ base' = Clean(c)
       /\ o' = [o EXCEPT !.returned = @ \/ c = o.from]
Edits(w) == {Clean(w.head)} \cup {Edited(w, text) : text \in Texts}
FileEdited ==
  /\ Disturbed
  /\ \E w \in Edits(ContractRoot) \ {ContractRoot} :
       /\ IF same THEN root' = w /\ UNCHANGED base ELSE base' = w /\ UNCHANGED root
       /\ o' = [o EXCEPT !.returned = @ \/ (w.file = o.contract /\ o.contract # Contract[w.head])]
CandidateEdited ==
  /\ Disturbed /\ ~same /\ UNCHANGED <<o, base>>
  /\ root' = IF root.dirty THEN Clean(root.head) ELSE Edited(root, "edited")

Next ==
  \/ CheckClean \/ ReadContract \/ ReadHead \/ ReadTree \/ ReadTrusted \/ LoadContract
  \/ BindVerifiers \/ CheckDispatch \/ Isolate \/ RunCommand \/ RunsDone \/ RecheckContract \/ RecheckRoot \/ RecheckBase
  \/ RootMoves \/ BaseMoves \/ FileEdited \/ CandidateEdited

Spec == Init /\ [][Next]_vars

-----------------------------------------------------------------------------
\* A PASSED receipt names the tree its commands ran on, and every command ran, was
\* accepted and altered nothing; unless a HEAD or the contract read went away and came
\* back under the oracle, the contract is that of the trusted HEAD named and the
\* verifiers of the candidate are its.
OraclePassIsExact ==
  o.pc = "PASSED" =>
    /\ o.tree = o.head /\ o.ran = NumCommands /\ o.accepted /\ ~o.altered
    /\ ~o.returned => o.contract = Contract[o.from] /\ Verifier[o.head] = Verifier[o.from]
=============================================================================
