--------------------------- MODULE PredeployGate ---------------------------
(***************************************************************************)
(* The pre-deploy review gate (skills/deploy/scripts/itd_predeploy_gate.py).*)
(* `check` decides for one deploy candidate and leaves two things in the    *)
(* checkout's ledger: the risks the operator declared, and, per candidate   *)
(* digest, a pass that names the artifact it emitted.  `classify`, called   *)
(* by the deploy hook, answers from them.  Each is a process of its own:    *)
(* between two of their reads HEAD moves, files change, and another check   *)
(* writes the same ledger.  A process that crashes takes no further step.   *)
(***************************************************************************)
EXTENDS Naturals

CONSTANTS Checks, Requests,  \* runs of `check`; what one is asked: [data, dir, path]
          Commits, Reviewed, \* Reviewed: the commits with a valid adjudication receipt
          Detected,          \* commits whose own files declare a risk
          Populated,         \* <<commit, directory>>: the migration directories with files
          Poison,            \* a symlink or a directory in the place of the declarations
          Paths, Ignored,    \* where an artifact may go; Ignored: those Git ignores
          Nothing, MaxMoves  \* bound: moves of HEAD and changes of files

\* What a check may be asked.
PredeployAssumption ==
  Requests \subseteq [data : BOOLEAN, dir : {r.dir : r \in Requests}, path : Paths \cup {Nothing}]

VARIABLES head, dirty, files,  \* files: the commit a path holds the archive of, or Other
          declared, ledger, check, hook, moves
vars == <<head, dirty, files, declared, ledger, check, hook, moves>>

Other == "other bytes"
NoDeclaration == [data |-> FALSE, dir |-> Nothing]

\* load_risk_escalation: what cannot be read counts as data-sensitive.
Loaded == IF declared = Poison THEN [NoDeclaration EXCEPT !.data = TRUE] ELSE declared
\* merged_risk_signals and derive_risk_class: some signal, found or declared.
Gated(data, dir) ==
  head \in Detected \/ data \/ Loaded.data \/ \E d \in {dir, Loaded.dir} : <<head, d>> \in Populated
\* worktree_clean: nothing but ignored files and the one path that is exempt.
Clean(exempt) == ~dirty /\ \A p \in Paths \ (Ignored \cup exempt) : files[p] = Nothing

Init ==
  /\ head \in Commits /\ dirty = FALSE /\ files = [p \in Paths |-> Nothing]
  /\ declared \in {NoDeclaration, Poison} /\ ledger = [c \in Commits |-> Nothing]
  /\ check = [k \in Checks |-> [pc |-> "idle"]]
  /\ hook = [pc |-> "idle"] /\ moves = 0

-----------------------------------------------------------------------------
(* command_check *)
Now(k, pc) == check[k].pc = pc /\ UNCHANGED <<head, dirty, hook, moves>>
Goto(k, pc) == check' = [check EXCEPT ![k].pc = pc]
Require(k, holds, pc) == Goto(k, IF holds THEN pc ELSE "BLOCKED")
Untouched == UNCHANGED <<files, declared, ledger>>

Start(k) ==
  /\ Now(k, "idle") /\ Untouched
  /\ \E r \in Requests :
       check' = [check EXCEPT ![k] =
         [pc |-> IF r.data \/ r.dir # Nothing THEN "load" ELSE "merge", ask |-> r, previous |-> NoDeclaration,
          raced |-> FALSE, gated |-> FALSE, digest |-> Nothing, valid |-> FALSE, input |-> Nothing,
          returned |-> FALSE]]
\* record_risk_escalation reads what was declared before and adds to it; there is room
\* for one directory, and a new one takes the place of the old.
LoadDeclared(k) ==
  Now(k, "load") /\ Untouched
  /\ check' = [check EXCEPT ![k].pc = "persist", ![k].previous = Loaded]
\* Mutant: what this check was asked replaces what was declared.
PersistOwn(k) ==
  /\ Now(k, "persist") /\ UNCHANGED <<files, ledger>>
  /\ declared' = [data |-> check[k].ask.data, dir |-> check[k].ask.dir] /\ Goto(k, "merge")
Persist(k) ==
  /\ Now(k, "persist") /\ UNCHANGED <<files, ledger>>
  /\ IF declared = Poison
     THEN Goto(k, "BLOCKED") /\ UNCHANGED declared
     ELSE /\ declared' = [data |-> check[k].previous.data \/ check[k].ask.data,
                          dir |-> IF check[k].ask.dir # Nothing THEN check[k].ask.dir
                                  ELSE check[k].previous.dir]
          /\ check' = [j \in Checks |->
               IF j = k THEN [check[j] EXCEPT !.pc = "merge"]
               ELSE IF check[j].pc = "persist" THEN [check[j] EXCEPT !.raced = TRUE] ELSE check[j]]
Merge(k) ==
  Now(k, "merge") /\ Untouched
  /\ check' = [check EXCEPT ![k].pc = "clean", ![k].gated = Gated(check[k].ask.data, check[k].ask.dir)]
CheckClean(k) == Now(k, "clean") /\ Untouched /\ Require(k, check[k].gated => Clean({}), "digest")
\* derive_candidate_digest, its two rev-parse calls as one.
Digest(k) ==
  Now(k, "digest") /\ Untouched
  /\ check' = [check EXCEPT ![k].pc = "receipt", ![k].digest = head]
\* validate_receipt: an error or a timeout of the validator is an invalid receipt.
Validate(k) ==
  Now(k, "receipt") /\ Untouched
  /\ \E fails \in BOOLEAN :
       check' = [check EXCEPT ![k].pc = "decide",
         ![k].valid = check[k].gated /\ head \in Reviewed /\ ~fails]
\* evaluate_gate: a gated class needs the receipt, whatever the override.
Allowed(k, override) == check[k].gated => check[k].valid
\* load_override: one that does not load blocks even a routine candidate.
Overrides == {"none", "loads", "fails"}
\* The destination must be one the gate may write: inside the checkout and not tracked.
Decide(k) ==
  Now(k, "decide") /\ Untouched
  /\ \E override \in Overrides :
       Goto(k, IF head # check[k].digest \/ override = "fails" \/ ~Allowed(k, override) THEN "BLOCKED"
               ELSE IF ~check[k].gated THEN "ROUTINE"
               ELSE IF check[k].ask.path # Nothing THEN "before" ELSE "BLOCKED")
Before(k) == Now(k, "before") /\ Untouched /\ Require(k, head = check[k].digest, "emit")
\* emit_deploy_input archives whatever HEAD is by then.
Emit(k) ==
  /\ Now(k, "emit") /\ UNCHANGED <<declared, ledger>>
  /\ \/ files' = [files EXCEPT ![check[k].ask.path] = head]
        /\ check' = [check EXCEPT ![k].pc = "after", ![k].input = head]
     \/ Goto(k, "BLOCKED") /\ UNCHANGED files
After(k) == Now(k, "after") /\ Untouched /\ Require(k, head = check[k].digest, "record")
RecordPass(k) ==
  /\ Now(k, "record") /\ UNCHANGED <<files, declared>>
  /\ \/ /\ ledger' = [ledger EXCEPT ![check[k].digest] =
             [path |-> check[k].ask.path, input |-> check[k].input, returned |-> check[k].returned]]
        /\ Goto(k, "ALLOWED")
     \/ Goto(k, "BLOCKED") /\ UNCHANGED ledger

CheckStep(k) ==
  \/ Start(k) \/ LoadDeclared(k) \/ Persist(k) \/ Merge(k) \/ CheckClean(k) \/ Digest(k)
  \/ Validate(k) \/ Decide(k) \/ Before(k) \/ Emit(k) \/ After(k) \/ RecordPass(k)

-----------------------------------------------------------------------------
(* classify: gate_pass_is_current, then recorded_deploy_input_path, which reads the *)
(* record once more and asks gate_pass_is_current again.                            *)
HookAt(pc) == hook.pc = pc /\ UNCHANGED <<head, dirty, files, declared, ledger, check, moves>>
NoPass == hook' = [hook EXCEPT !.pc = "answered", !.artifact = Nothing]

HookStart ==
  /\ HookAt("idle")
  /\ hook' = [pc |-> "digest", gated |-> Gated(FALSE, Nothing), digest |-> Nothing, record |-> Nothing,
              artifact |-> Nothing, again |-> FALSE, hashed |-> {}]
HookDigest ==
  /\ hook.pc \in {"digest", "digest for the path"} /\ HookAt(hook.pc)
  /\ hook' = [hook EXCEPT !.pc = IF hook.pc = "digest" THEN "read" ELSE "path", !.digest = head]
\* A record of this digest, authentic and neither expired nor from the future.
ReadRecord ==
  /\ HookAt("read")
  /\ \/ /\ ledger[hook.digest] # Nothing
        /\ hook' = [hook EXCEPT !.pc = "clean", !.record = ledger[hook.digest]]
     \/ NoPass
HookClean ==
  HookAt("clean") /\ IF Clean({hook.record.path}) THEN hook' = [hook EXCEPT !.pc = "hash"] ELSE NoPass
Hash ==
  /\ HookAt("hash")
  /\ IF files[hook.record.path] # hook.record.input THEN NoPass
     ELSE hook' = [hook EXCEPT !.pc = IF hook.again THEN "answered" ELSE "digest for the path",
                     !.hashed = @ \cup {<<hook.record.path, hook.record.input>>}]
ReadPath ==
  /\ HookAt("path")
  /\ IF ledger[hook.digest] = Nothing THEN NoPass
     ELSE hook' = [hook EXCEPT !.pc = "digest", !.again = TRUE, !.artifact = ledger[hook.digest].path]
HookStep == HookStart \/ HookDigest \/ ReadRecord \/ HookClean \/ Hash \/ ReadPath

-----------------------------------------------------------------------------
\* HEAD moves, a tracked file is edited or restored, an artifact is replaced or removed.
\* returned remembers a HEAD that came back to where a check had read it.
Moved == moves < MaxMoves /\ moves' = moves + 1 /\ UNCHANGED <<declared, ledger>>
HeadMoves ==
  /\ Moved /\ UNCHANGED <<files, hook>>
  /\ \E c \in Commits \ {head} :
       /\ head' = c /\ dirty' = FALSE
       /\ check' = [k \in Checks |-> IF check[k].pc # "idle" /\ check[k].digest = c
                                     THEN [check[k] EXCEPT !.returned = TRUE] ELSE check[k]]
Edited == Moved /\ dirty' = ~dirty /\ UNCHANGED <<head, files, check, hook>>
FileReplaced ==
  /\ Moved /\ UNCHANGED <<head, dirty, check, hook>>
  /\ \E p \in Paths, content \in {Nothing, Other} :
       content # files[p] /\ files' = [files EXCEPT ![p] = content]

Next ==
  \/ \E k \in Checks : CheckStep(k)
  \/ HookStep
  \/ HeadMoves \/ Edited \/ FileReplaced
Spec == Init /\ [][Next]_vars

-----------------------------------------------------------------------------
\* An artifact the hook lets through held, when the hook hashed it, the archive of a
\* reviewed commit; unless HEAD went away and came back under the check that recorded it,
\* or the record the hook verified last is not the one it had read the path from, because
\* HEAD moved or a check finished in between, and names another path.
ArtifactIsReviewed ==
  hook.pc = "answered" /\ hook.artifact # Nothing
    /\ hook.record.path = hook.artifact /\ ~hook.record.returned =>
    \E c \in Reviewed : <<hook.artifact, c>> \in hook.hashed
\* What a check declared stays declared, unless another check wrote between its read of
\* the declarations and its own write.
DeclaredStays ==
  declared # Poison =>
    \A k \in Checks :
      check[k].pc \notin {"idle", "load", "persist", "BLOCKED"} /\ (\A j \in Checks \ {k} :
          check[j].pc # "idle" => ~check[j].raced)
        => (check[k].ask.data => declared.data) /\ (check[k].ask.dir # Nothing => declared.dir # Nothing)
\* The two together: what classify tells the deploy hook can be relied upon.
HookIsRight == ArtifactIsReviewed /\ DeclaredStays
=============================================================================
