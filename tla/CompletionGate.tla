--------------------------- MODULE CompletionGate ---------------------------
(***************************************************************************)
(* The completion gate: what the shell did becomes evidence, and evidence  *)
(* decides whether source may be committed.                                *)
(*                                                                         *)
(* Every finished call is handed to a hook of its own, which names HEAD as *)
(* it is by then, binds the record of the run whose output it sees, and    *)
(* appends a line to the ledger all sessions share; the ledger is cut to   *)
(* its last lines under an advisory lock that a hook waits two seconds     *)
(* for.  Hooks overlap, are killed, and HEAD moves under them and under    *)
(* the gate.                                                               *)
(***************************************************************************)
EXTENDS Naturals, FiniteSets, Sequences

CONSTANTS
  Slots,       \* hooks that may run at a time
  Commands,    \* command lines, each the sequence of what its pipe runs: a member of
               \* Kinds, or "show" for a program that only displays
  Responses,   \* what the host may hand over: its exit code, the last code echoed, the
               \* words of the output, and what a declared check was found to answer
  Runs,        \* what the recorder may have recorded: a script, its exit, where it ran
  Sessions,    \* "mine", and "other": its calls only fill the ledger
  Unnamed,     \* {0} if Git may fail to name HEAD, else {}
  Modes,       \* whether the policy and the unit's risk may make the gate strict
  MaxLines,    \* lines a trim leaves
  MaxCalls, MaxHeads, MaxEdits,   \* bounds: calls, commits, edits of the contract
  Nothing

CompletionAssumption == MaxLines \in Nat /\ Nothing \notin Slots

VARIABLES
  head,        \* the commit the checkout is at
  contract,    \* the verification contract in the working tree; 1 is the committed one
  record,      \* run records on the disk whose line no call has shown yet
  hook,        \* hook[s]: its step, its signal and its copy of the ledger
  lock,        \* the holder of the ledger's lock
  written,     \* history: every signal ever appended, in order
  ledger,      \* the positions in written whose lines are in the file
  gate,        \* the gate's step and what it has read
  calls, edits,
  loose        \* history: a hook has appended without the lock

vars == <<head, contract, record, hook, lock, written, ledger, gate, calls, edits, loose>>
Size == Len(written)

Idle == [step |-> "idle", signal |-> Nothing, copy |-> {}]
Closed == [step |-> "idle", strict |-> FALSE, read |-> {}, at |-> 0, head |-> 0, counted |-> 0,
           tests |-> FALSE, ran |-> Nothing, touched |-> FALSE, answer |-> "none"]

Init ==
  /\ head = 1 /\ contract = 1 /\ record = {}
  /\ hook = [s \in Slots |-> Idle] /\ lock = Nothing
  /\ written = <<>> /\ ledger = {} /\ gate = Closed
  /\ calls = 0 /\ edits = 0 /\ loose = FALSE

SomeHead == Unnamed \cup {head}

-----------------------------------------------------------------------------
(* Commands and what is seen of them *)

RunsAny(command, kind) == \E i \in DOMAIN command : command[i] = kind
IsDisplay(command) == \A i \in DOMAIN command : command[i] = "show"
\* Tests are looked for before static checks, and these before the application; a line
\* that only displays is no signal, whatever it mentions.
Layer(command) ==
  CASE IsDisplay(command) -> 0
    [] RunsAny(command, "test") -> 2
    [] ~RunsAny(command, "test") /\ RunsAny(command, "lint") -> 1
    [] OTHER -> 3

\* normalize_command_key: displays at the end of the pipe do not make another command.
Key(command) ==
  SubSeq(command, 1, CHOOSE n \in DOMAIN command :
    /\ n = 1 \/ command[n] # "show"
    /\ \A i \in DOMAIN command : i > n => command[i] = "show")

\* outcome_from: the exit code, else the code echoed last, else words of failure before
\* words of success; anything else, silence above all, is unknown.
OutcomeFrom(code, echo, words) ==
  CASE code # Nothing -> IF code = 0 THEN "pass" ELSE "fail"
    [] code = Nothing /\ echo # Nothing -> IF echo = 0 THEN "pass" ELSE "fail"
    [] OTHER -> IF words \in {"pass", "fail"} THEN words ELSE "unknown"
\* strip_expected_exit: the echo of a declared check does not count if the hook gets the
\* same answer from the check itself and the rest is plainly green without it.
Outcome(r) ==
  OutcomeFrom(r.code, IF r.answer = "confirmed" /\ OutcomeFrom(Nothing, Nothing, r.words) = "pass"
                      THEN Nothing ELSE r.echo, r.words)

\* match_run_record: the output shows one run's line and nothing that is not the run's.
Bound(shown, alone) ==
  IF Cardinality(shown) = 1 /\ alone THEN CHOOSE run \in shown : TRUE ELSE Nothing

Silence == [code |-> Nothing, echo |-> Nothing, words |-> "none", answer |-> "none"]
\* A call ends and its hook starts: a record is used up by the first call that shows it.
Call(s) ==
  /\ hook[s].step = "idle" /\ calls < MaxCalls /\ calls' = calls + 1
  /\ \E session \in Sessions, command \in Commands, alone \in BOOLEAN :
     \E r \in IF session = "mine" THEN Responses ELSE {Silence},
        shown \in IF session = "mine" THEN {{run} : run \in Runs} \cup (SUBSET record) ELSE {{}} :
       /\ Layer(command) # 0
       /\ hook' = [hook EXCEPT ![s] =
            [step |-> "observe", copy |-> {},
             signal |-> [session |-> session, command |-> command, head |-> 0,
                         outcome |-> Outcome(r), run |-> Bound(shown, alone)]]]
       /\ record' = record \ shown
  /\ UNCHANGED <<head, contract, lock, written, ledger, gate, edits, loose>>
\* itd_run_record: a recorded run whose output went elsewhere; a later call may show it.
HiddenRun ==
  /\ calls < MaxCalls /\ calls' = calls + 1
  /\ \E run \in Runs \ record : record' = record \cup {run}
  /\ UNCHANGED <<head, contract, hook, lock, written, ledger, gate, edits, loose>>

-----------------------------------------------------------------------------
(* The hook: classify_bash, append_signal *)

\* HEAD is named when the hook runs.
Observe(s) ==
  /\ hook[s].step = "observe"
  /\ \E h \in SomeHead :
       hook' = [hook EXCEPT ![s].signal.head = h, ![s].step = "append"]
  /\ UNCHANGED <<head, contract, record, lock, written, ledger, gate, calls, edits, loose>>

\* With the lock, or without it when another kept it for two seconds.
AppendSignal(s) ==
  /\ hook[s].step = "append"
  /\ written' = Append(written, hook[s].signal)
  /\ ledger' = ledger \cup {Size + 1}
  /\ IF lock = Nothing THEN lock' = s /\ UNCHANGED loose
     ELSE loose' = TRUE /\ UNCHANGED lock
  /\ hook' = [hook EXCEPT ![s].step = "trim"]
  /\ UNCHANGED <<head, contract, record, gate, calls, edits>>

Unlock(s) == lock' = IF lock = s THEN Nothing ELSE lock

\* The last lines of what was read.
Kept(S) == {i \in S : Cardinality({j \in S : j > i}) < MaxLines}
\* The file is looked at only once it is large, and cut only if it has too many lines.
ReadForTrim(s) ==
  /\ hook[s].step = "trim"
  /\ \/ /\ Cardinality(ledger) > MaxLines
        /\ hook' = [hook EXCEPT ![s].step = "replace", ![s].copy = Kept(ledger)]
        /\ UNCHANGED lock
     \/ hook' = [hook EXCEPT ![s] = Idle] /\ Unlock(s)
  /\ UNCHANGED <<head, contract, record, written, ledger, gate, calls, edits, loose>>
\* atomic_write_text
Replace(s) ==
  /\ hook[s].step = "replace"
  /\ ledger' = hook[s].copy
  /\ hook' = [hook EXCEPT ![s] = Idle] /\ Unlock(s)
  /\ UNCHANGED <<head, contract, record, written, gate, calls, edits, loose>>
\* The host kills a hook after five seconds; the system drops its lock.
Die(s) ==
  /\ hook[s].step # "idle"
  /\ hook' = [hook EXCEPT ![s] = Idle] /\ Unlock(s)
  /\ UNCHANGED <<head, contract, record, written, ledger, gate, calls, edits, loose>>

-----------------------------------------------------------------------------
(* The verdict *)

Mine(S) == {i \in S : written[i].session = "mine"}
IsRed(i) == written[i].outcome = "fail"
Same(i, j) == Key(written[i].command) = Key(written[j].command)
Recorded(i) == written[i].run # Nothing
\* An invocation is its script, and the layer it was run as.
SameRun(i, j) ==
  /\ Recorded(i) /\ Recorded(j) /\ written[i].run.script = written[j].run.script
  /\ Layer(written[i].command) = Layer(written[j].command)
\* A green run from the project's root, at this HEAD.
IsGreen(i, h) ==
  /\ written[i].outcome = "pass" /\ written[i].run.green /\ written[i].run.root
  /\ h # 0 /\ written[i].head = h
\* Mutant: any green record of the invocation takes the red away, whatever came after.
AnyGreen(S, h) ==
  {i \in S : ~(/\ Recorded(i) /\ IsRed(i) /\ ~written[i].run.green
               /\ \E j \in S : SameRun(i, j) /\ IsGreen(j, h))}

\* counted_signals: a recorded red goes when the last record of its invocation is green.
Counted(S, h) ==
  {i \in S : ~(/\ Recorded(i) /\ IsRed(i) /\ ~written[i].run.green
               /\ \E j \in S : /\ SameRun(i, j) /\ IsGreen(j, h)
                               /\ \A k \in S : k > j => ~SameRun(i, k))}
\* A signal bound to another commit says nothing of this one.
AtHead(S, layer, h) ==
  {i \in S : Layer(written[i].command) = layer /\ (h # 0 => written[i].head \in {0, h})}
Last(S) == {i \in S : \A j \in S : j > i => ~Same(i, j)}
\* Mutant: the last run of a command is chosen first, and dropped if it is stale.
LatestFirst(S, layer, h) == Last(S) \cap AtHead(S, layer, h)

\* _layer_status: of this HEAD's signals, the last one of each command.
Latest(S, layer, h) == Last(AtHead(S, layer, h))
Status(S, layer, h) ==
  LET outcomes == {written[i].outcome : i \in Latest(S, layer, h)}
  IN CASE "fail" \in outcomes -> "fail"
       [] "fail" \notin outcomes /\ "pass" \in outcomes -> "pass"
       [] OTHER -> "unknown"
\* compute_verdict: a red layer three blocks nothing.
Blocked(S, h, tests) ==
  \/ Status(S, 1, h) = "fail" \/ Status(S, 2, h) = "fail"
  \/ tests /\ Status(S, 2, h) = "unknown"
\* runtime_evidence_status: no red of layers two and three, at whatever HEAD, and a green.
EvidenceHolds(S) ==
  LET outcomes == {written[i].outcome : i \in {j \in S : Layer(written[j].command) \in {2, 3}}}
  IN "fail" \notin outcomes /\ "pass" \in outcomes

-----------------------------------------------------------------------------
(* The gate, before a commit of source *)

Rest == UNCHANGED <<head, contract, record, hook, lock, written, ledger, calls, edits, loose>>
Deny == gate' = Closed

\* The policy, the unit's risk and the staged paths are read; a strict gate compares
\* the contract with HEAD's and the last source commit's.
Begin ==
  /\ gate.step = "idle"
  /\ \E strict \in Modes :
       \/ gate' = [Closed EXCEPT !.step = "ledger", !.strict = strict] /\ (strict => contract = 1)
       \/ strict /\ Deny
       \* Without scope, transport, session or a working evaluation the gate only advises.
       \/ ~strict /\ gate' = [Closed EXCEPT !.step = "commit", !.answer = "unjudged"]
  /\ Rest
\* An explicit bypass is allowed once its audit line is durable, and denied otherwise.
Bypass ==
  /\ gate.step = "idle"
  /\ gate' = [Closed EXCEPT !.step = "commit", !.answer = "unjudged"] \/ Deny
  /\ Rest
\* read_signals, read_strict_signals
ReadLedger ==
  /\ gate.step = "ledger"
  /\ gate' = [gate EXCEPT !.step = "head", !.read = Mine(ledger), !.at = Size]
  /\ Rest
\* compute_verdict names HEAD and looks for tests; counted_signals names HEAD again.
NameHead ==
  /\ gate.step = "head"
  /\ \E h \in SomeHead, tests \in BOOLEAN :
       gate' = [gate EXCEPT !.step = "verdict", !.head = h, !.tests = tests]
  /\ Rest
Judge ==
  /\ gate.step = "verdict"
  /\ \E h \in SomeHead :
       IF Blocked(Counted(gate.read, h), gate.head, gate.tests) THEN Deny
       ELSE gate' = [gate EXCEPT !.counted = h,
                                 !.step = IF gate.strict THEN "evidence" ELSE "commit",
                                 !.answer = IF gate.strict THEN "none" ELSE "allow"]
  /\ Rest
Weigh ==
  /\ gate.step = "evidence"
  /\ \E h \in SomeHead :
       IF EvidenceHolds(Counted(gate.read, h)) THEN gate' = [gate EXCEPT !.step = "rerun"] ELSE Deny
  /\ Rest
\* rerun_strict_verification reads the contract again and runs its commands.
Rerun ==
  /\ gate.step = "rerun"
  /\ \/ gate' = [gate EXCEPT !.step = "commit", !.answer = "allow", !.ran = contract]
     \/ Deny
  /\ Rest

\* git commit, when the gate let it through; and what else moves.
Commit ==
  /\ gate.step = "commit"
  /\ head' = IF head < MaxHeads THEN head + 1 ELSE head
  /\ gate' = Closed
  /\ UNCHANGED <<contract, record, hook, lock, written, ledger, calls, edits, loose>>
Move ==
  /\ head' \in (1..MaxHeads) \ {head}
  /\ UNCHANGED <<contract, record, hook, lock, written, ledger, gate, calls, edits, loose>>
Edit ==
  /\ edits < MaxEdits /\ edits' = edits + 1
  /\ contract' = 3 - contract
  /\ gate' = [gate EXCEPT !.touched = gate.step # "idle"]
  /\ UNCHANGED <<head, record, hook, lock, written, ledger, calls, loose>>

Next ==
  \/ \E s \in Slots : Call(s) \/ Observe(s) \/ AppendSignal(s) \/ ReadForTrim(s) \/ Replace(s) \/ Die(s)
  \/ HiddenRun \/ Begin \/ Bypass \/ ReadLedger \/ NameHead \/ Judge \/ Weigh \/ Rerun
  \/ Commit \/ Move \/ Edit
Spec == Init /\ [][Next]_vars

-----------------------------------------------------------------------------
\* What this session's hooks had written when the gate read, and what bears on its HEAD.
Seen == {i \in 1..gate.at : written[i].session = "mine"}
Bears(i, layers) == Layer(written[i].command) \in layers /\ (gate.head = 0 \/ written[i].head \in {0, gate.head})
\* A later green run of the same recorded invocation took the red's place.
Superseded(i) == \E j \in Seen : j > i /\ SameRun(i, j) /\ IsGreen(j, gate.counted)
\* Its line was cut away by a trim that had to, or lost where two hooks were in the file.
Lost(i) == i \notin gate.read /\ (gate.at - i >= MaxLines \/ loose)
Gone(i) == Lost(i) \/ Superseded(i)
IsLast(i, layers) == \A j \in Seen : j > i /\ Bears(j, layers) /\ Same(i, j) => Gone(j)

\* Source is let through on a verdict only if no red of the first two layers that this
\* session's hooks wrote at this HEAD is the last word on its command, the lines lost to
\* the ledger's bound apart; with tests in the repository, only if a test run is green
\* and the last word; and a strict gate reran the committed contract, unless the
\* contract was replaced while the gate was at work.
CompletionIsEarned ==
  gate.answer = "allow" =>
    /\ \A i \in Seen : IsRed(i) /\ Bears(i, {1, 2}) =>
         Gone(i) \/ \E j \in Seen : j > i /\ Bears(j, {1, 2}) /\ Same(i, j)
    /\ gate.tests => \E i \in Seen : /\ written[i].outcome = "pass"
                                     /\ Bears(i, {2}) /\ IsLast(i, {2})
    /\ gate.strict => gate.ran = 1 \/ gate.touched
=============================================================================
