------------------------------- MODULE MCGoal -------------------------------
(* The goal verifier; the worktrees fresh sessions work in; and the free      *)
(* reviewer producer's dealings with Git, with GitHub and with its processes. *)
(* They share no variable: focus says which one a behaviour is about.         *)
EXTENDS Goal, TLC
CONSTANTS u1, u2, Nothing, Focus
VARIABLES
  focus,
  repo, machine, pull, check, packet, phaseOne, binding, phaseTwo, edits, moves,
  platform, proc, released, ctl, todo, parents, found, reachable,
  vendor, binary, auth, private, output, drained, overflow, child, step, answer,
  canon, packets, worktree, prep, fin, staged, bound, raced

Symmetry == Permutations({u1, u2})

receipt == <<repo, machine, pull, check, packet, phaseOne, binding, phaseTwo, edits, moves>>
process == <<platform, proc, released, ctl, todo, parents, found, reachable>>
client == <<vendor, binary, auth, private, output, drained, overflow, child, step, answer>>
fresh == <<canon, packets, worktree, prep, fin, staged, bound, raced>>

Session(family, model, number, from) ==
  [family |-> family, model |-> model, session |-> number, from |-> from]
\* 1 is small and closes a ledger, 2 is too large for one call, 3 is projected.
Receipts == INSTANCE TwoPhaseReceipt WITH
              Contents <- 0..3, LargeTrees <- {2}, LogicalTrees <- {3}, ClosingTrees <- {1},
              FileCount <- [t \in 0..3 |-> IF t = 3 THEN 2 ELSE 1],
              NamesIn <- [t \in 0..3 |-> IF t = 1 THEN {<<0>>, <<0, 1>>} ELSE {}],
              Maker <- Session("anthropic", "opus", 1, Nothing),
              Reviewers <- {Session("openai", "sol", 2, Nothing), Session("openai", "terra", 3, "sol"),
                            Session("anthropic", "opus", 4, Nothing)},
              Permitted <- [f \in {"anthropic"} |-> {"sol", "terra"}],
              Standby <- [m \in {"sol"} |-> "terra"],
              MaxEdits <- 2, MaxCommits <- 1, MaxMoves <- 2
\* A limit that no tree reaches, and one that a tree passes.
Trees == INSTANCE ProcessTree WITH Child <- 1, Others <- {2, 3, 4}, Reaper <- 0, Limit <- 4
Crowds == INSTANCE ProcessTree WITH Child <- 1, Others <- {2, 3, 4}, Reaper <- 0, Limit <- 2
Clients == INSTANCE ReviewTransport WITH
             Vendors <- {"codex", "claude", "gemini", "antigravity", "copilot"},
             MaxEvents <- 3, MaxOutput <- 2

\* Two preparations for one target while the parent goes on; two finalizations while the
\* maker works.
Asked == {[unit |-> "unit", allowed |-> {"a"}], [unit |-> "unit", allowed |-> {"a", "b"}]}
Preparing == INSTANCE FreshSession WITH
               Units <- {"unit"}, Paths <- {"a", "b"}, Targets <- {1}, Offers <- Asked,
               Preparers <- {1, 2}, Finalizers <- {1},
               MaxPackets <- 2, MaxChanges <- 1, MaxEdits <- 1,
               state <- canon, tree <- worktree, edits <- staged
Finishing == INSTANCE FreshSession WITH
               Units <- {"unit"}, Paths <- {"a", "b"}, Targets <- {1}, Offers <- Asked,
               Preparers <- {1}, Finalizers <- {1, 2},
               MaxPackets <- 2, MaxChanges <- 0, MaxEdits <- 2,
               state <- canon, tree <- worktree, edits <- staged

ASSUME ReceiptsFit == Receipts!ReceiptAssumption
ASSUME CallsFit == Trees!TreeAssumption /\ Crowds!TreeAssumption /\ Clients!VendorAssumption
ASSUME SessionsFit == Preparing!SessionAssumption /\ Finishing!SessionAssumption

MCInit ==
  /\ focus \in Focus
  /\ Init /\ Receipts!Init /\ Trees!Init /\ Clients!Init
  /\ IF focus = "preparing" THEN Preparing!Init ELSE Finishing!Init
  /\ focus # "goal" => mirrored
  /\ focus # "tree" => platform = "posix"    \* also of a crowd: only there is a limit
  /\ focus # "client" => vendor = "codex" /\ binary = "pinned" /\ auth = "closed"

\* The machine receipt is written before the freeze, and the checkout is left alone
\* once the receipt is signed, for nothing reads it any more; GitHub moves once
\* before and once after.
ReceiptNext ==
  /\ Receipts!Next /\ phaseTwo = Nothing
  /\ (packet.step # "idle" \/ phaseOne # Nothing) => machine' = machine
  /\ phaseOne # Nothing => edits' = edits
  /\ phaseOne = Nothing => moves' <= 1
MCNext ==
  \/ focus = "goal" /\ Next /\ UNCHANGED <<focus, receipt, process, client, fresh>>
  \/ focus = "receipt" /\ ReceiptNext /\ UNCHANGED <<focus, vars, process, client, fresh>>
  \/ focus = "tree" /\ Trees!Next /\ UNCHANGED <<focus, vars, receipt, client, fresh>>
  \/ focus = "crowd" /\ Crowds!Next /\ UNCHANGED <<focus, vars, receipt, client, fresh>>
  \/ focus = "client" /\ Clients!Next /\ UNCHANGED <<focus, vars, receipt, process, fresh>>
  \/ focus = "preparing" /\ Preparing!Next /\ UNCHANGED <<focus, vars, receipt, process, client>>
  \/ focus = "finishing" /\ Finishing!Next /\ UNCHANGED <<focus, vars, receipt, process, client>>
MCSpec == MCInit /\ [][MCNext]_<<focus, vars, receipt, process, client, fresh>>

-----------------------------------------------------------------------------
\* A fresh session is bound to its packet and its state.  What the free reviewer producer
\* signs is about the change that was reviewed: the
\* receipt's text and tree agree unless the index moved under the freeze, the
\* countersigned pull request was exact when read last, the lineage shown was true;
\* no process it ran outlives the call that could be found, within the limit of the walk;
\* and a report is the whole, clean output of the pinned client.
WorkIsBound ==
  /\ focus = "receipt" => /\ Receipts!TextIsTheTree
                          /\ Receipts!CountersignIsExact
                          /\ Receipts!LineageHolds
  /\ focus = "tree" => Trees!NothingReachableSurvives
  /\ focus = "crowd" => Crowds!NothingReachableSurvives
  /\ focus = "client" => Clients!ReportIsClean
  /\ focus = "preparing" => Preparing!SessionIsBound
  /\ focus = "finishing" => Finishing!SessionIsBound
=============================================================================
