------------------------------ MODULE MCBudget ------------------------------
(* The monthly budget of the broker, and the paid review it is for; and three *)
(* programs that run in a checkout of their own: the external reviewer, the   *)
(* pre-deploy gate and the completion gate.  They share no variable: focus    *)
(* says which one a behaviour is about.                                       *)
EXTENDS Budget, Sequences, TLC

CONSTANTS w1, w2, r1, r2, r3, v1, v2, c1, c2, k1, k2, p1, p2, dir, Nothing, Poison
VARIABLES
  focus,
  staged, policy, lock, owner, turn, rows, torn, disk, review, validation, answers, overtaken,
  moved, stops,
  deployed, dirty, files, declared, ledger, check, hook, moves,
  changed, stage, diff, units, evidence, calls,
  commit, contract, record, runner, mutex, written, journal, gate, called, edits, loose

Symmetry == Permutations(Workers) \cup Permutations(Reservations)

external == <<staged, policy, lock, owner, turn, rows, torn, disk, review, validation, answers,
              overtaken, moved, stops>>
deploy == <<deployed, dirty, files, declared, ledger, check, hook, moves>>
division == <<changed, stage, diff, units, evidence, calls>>
completion == <<commit, contract, record, runner, mutex, written, journal, gate, called, edits, loose>>

\* Two contents over one commit, and the second over a later one; the maker's model is
\* the second choice.
MCBase == [h1 |-> [p |-> 0, q |-> 0], h2 |-> [p |-> 1, q |-> 0]]
One == [head |-> "h1", tree |-> [p |-> 1, q |-> 0]]
Both == [head |-> "h1", tree |-> [p |-> 1, q |-> 1]]
Rest == [head |-> "h2", tree |-> [p |-> 1, q |-> 1]]
\* Two reviews of an index that stands still.
Shared == INSTANCE ExternalReview WITH
            Reviews <- {v1, v2}, Paths <- {"p", "q"}, Base <- MCBase, Stages <- {Both},
            Preference <- <<"sol", "terra">>, MakerModel <- "terra", Risks <- {"medium", "high"},
            Limit <- 1, MaxMoves <- 0, Months <- 2, MaxStops <- 1, month <- turn
\* One review of an index that moves.
Moving == INSTANCE ExternalReview WITH
            Reviews <- {v1}, Paths <- {"p", "q"}, Base <- MCBase, Stages <- {One, Both, Rest},
            Preference <- <<"sol", "terra">>, MakerModel <- "terra", Risks <- {"medium", "high"},
            Limit <- 1, MaxMoves <- 3, Months <- 1, MaxStops <- 0, month <- turn
ASSUME ReviewersFit == Shared!ReviewerAssumption /\ Moving!ReviewerAssumption
\* A reviewed commit with a directory of migrations, one with neither.
Asked == {[data |-> TRUE, dir |-> Nothing, path |-> p1], [data |-> FALSE, dir |-> dir, path |-> p2]}
\* Two checks while little moves, one check while more does.
Checking == INSTANCE PredeployGate WITH
              Checks <- {k1, k2}, Commits <- {c1, c2}, Reviewed <- {c1}, Detected <- {},
              Populated <- {<<c1, dir>>}, Paths <- {p1, p2}, Ignored <- {p2},
              MaxMoves <- 1, head <- deployed, Requests <- Asked
Deploying == INSTANCE PredeployGate WITH
               Checks <- {k1}, Commits <- {c1, c2}, Reviewed <- {c1}, Detected <- {},
               Populated <- {<<c1, dir>>}, Paths <- {p1, p2}, Ignored <- {p2},
               MaxMoves <- 3, head <- deployed, Requests <- Asked
ASSUME RequestsFit == Checking!PredeployAssumption

\* Lines that grow as JSON, a separator in a line or in a verdict, a line no unit holds;
\* comparisons of one to three files, past the policy's limit and past the API's.
Line(raw, encoded) == [raw |-> raw, encoded |-> encoded, separator |-> FALSE]
Plain == Line(1, 1)
Odd == [Plain EXCEPT !.separator = TRUE]
Bodies == UNION {[1..n -> {Plain, Line(1, 2)}] : n \in 1..3}
            \cup {<<Plain, Plain, Plain, Plain>>, <<Plain, Odd>>, <<Line(4, 4)>>}
File(p, state, lines) == [path |-> p, row |-> state, lines |-> lines]
Small(p) == File(p, "exact", <<Plain>>)
AnyFile(p) == {File(p, "exact", lines) : lines \in Bodies}
            \cup {File(p, state, <<Plain>>) : state \in {"incomplete", "opaque", "differs", "sensitive"}}
MCComparisons ==
  {<<>>} \cup {<<f>> : f \in AnyFile("p")} \cup {<<f, g>> : f \in AnyFile("p"), g \in AnyFile("q")}
    \cup {<<Small("p"), f, Small("r")>> : f \in AnyFile("q")}
    \cup {[i \in 1..n |-> Small(<<"p", "q", "r", "s", "t">>[i])] : n \in {4, 5}}
Division == INSTANCE HierarchicalReview WITH
              Comparisons <- MCComparisons, ApiCap <- 4, MaxFiles <- 3, MaxRaw <- 3, MaxWhole <- 6,
              MaxUnits <- 4, CallLimit <- 4,
              Verdicts <- {[verdict |-> "PASSED", separator |-> FALSE],
                           [verdict |-> "BLOCKED", separator |-> TRUE]}
ASSUME FilesFit == Division!DivisionAssumption

\* Green and red by exit code; silence, and a declared check whose echo may be set aside.
Response(code, echo, words, answer) == [code |-> code, echo |-> echo, words |-> words, answer |-> answer]
Coded == {Response(code, Nothing, "none", "none") : code \in {0, 1}}
AnyResponse == Coded \cup {Response(Nothing, Nothing, "none", "none")}
                 \cup {Response(Nothing, 2, "pass", answer) : answer \in {"confirmed", "refuted"}}
Tests == {<<"test">>, <<"test", "show">>}
AnyRun == {[script |-> dir, green |-> green, root |-> TRUE] : green \in BOOLEAN}
            \cup {[script |-> dir, green |-> TRUE, root |-> FALSE]}
\* Two hooks and a full ledger; one hook, recorded runs and a checkout that moves; one
\* hook, any response, and a contract that changes.
Crowded == INSTANCE CompletionGate WITH
             Slots <- {1, 2}, Commands <- {<<"test">>}, Responses <- Coded, Runs <- {},
             Sessions <- {"mine", "other"}, Unnamed <- {}, Modes <- {FALSE}, MaxLines <- 1,
             MaxCalls <- 3, MaxHeads <- 1, MaxEdits <- 0,
             head <- commit, hook <- runner, lock <- mutex, ledger <- journal, calls <- called
Recorded == INSTANCE CompletionGate WITH
             Slots <- {1}, Commands <- Tests, Responses <- Coded, Runs <- AnyRun,
             Sessions <- {"mine"}, Unnamed <- {}, Modes <- {FALSE}, MaxLines <- 3,
             MaxCalls <- 2, MaxHeads <- 2, MaxEdits <- 0,
             head <- commit, hook <- runner, lock <- mutex, ledger <- journal, calls <- called
Strict == INSTANCE CompletionGate WITH
             Slots <- {1}, Commands <- Tests \cup {<<"lint">>, <<"show">>}, Responses <- AnyResponse,
             Runs <- {}, Sessions <- {"mine"}, Unnamed <- {0}, Modes <- BOOLEAN, MaxLines <- 3,
             MaxCalls <- 2, MaxHeads <- 1, MaxEdits <- 1,
             head <- commit, hook <- runner, lock <- mutex, ledger <- journal, calls <- called

ASSUME GatesFit ==
  Crowded!CompletionAssumption /\ Recorded!CompletionAssumption /\ Strict!CompletionAssumption

MCInit ==
  /\ focus \in {"budget", "shared review", "moving review", "checks", "deploy", "division",
               "crowded", "recorded", "strict"}
  /\ Init
  /\ Division!Init /\ (focus # "division" => changed = <<>>)
  /\ IF focus = "moving review" THEN Moving!Init ELSE Shared!Init
  /\ IF focus = "crowded" THEN Crowded!Init ELSE Recorded!Init
  /\ IF focus = "deploy" THEN Deploying!Init ELSE Checking!Init
  /\ focus \notin {"checks", "deploy"} => deployed = c1 /\ declared # Poison
\* Of two checks each is asked something else.
AskedApart(started) ==
  \A k \in {k1, k2} : started[k].pc # "idle" => (started[k].ask.data <=> k = k1)
MCNext ==
  \/ /\ focus = "budget" /\ Next
     /\ UNCHANGED <<focus, external, deploy, division, completion>>
  \/ /\ focus = "shared review" /\ Shared!Next
     /\ UNCHANGED <<focus, vars, deploy, division, completion>>
  \/ /\ focus = "moving review" /\ Moving!Next
     /\ UNCHANGED <<focus, vars, deploy, division, completion>>
  \/ /\ focus = "checks" /\ Checking!Next /\ AskedApart(check')
     /\ UNCHANGED <<focus, vars, external, division, completion>>
  \/ /\ focus = "deploy" /\ Deploying!Next
     /\ UNCHANGED <<focus, vars, external, division, completion>>
  \/ /\ focus = "division" /\ Division!Next
     /\ UNCHANGED <<focus, vars, external, deploy, completion>>
  \/ /\ \/ focus = "crowded" /\ Crowded!Next
        \/ focus = "recorded" /\ Recorded!Next
        \/ focus = "strict" /\ Strict!Next
     /\ UNCHANGED <<focus, vars, external, deploy, division>>
MCSpec == MCInit /\ [][MCNext]_<<focus, vars, external, deploy, division, completion>>

\* The month's cap holds, validated metadata is evidence for what is staged: ExternalReview.
ReviewIsBound ==
  /\ focus = "shared review" => Shared!ReviewIsBound
  /\ focus = "moving review" => Moving!ReviewIsBound
\* The artifact let through is reviewed, a declared risk stays declared: PredeployGate; source
\* is let through on green that was earned: CompletionGate.
HookIsRight ==
  /\ focus = "checks" => Checking!HookIsRight
  /\ focus = "deploy" => Deploying!HookIsRight
  /\ focus = "crowded" => Crowded!CompletionIsEarned
  /\ focus = "recorded" => Recorded!CompletionIsEarned
  /\ focus = "strict" => Strict!CompletionIsEarned
\* All that changed is reviewed, once, in divisions told truly: HierarchicalReview.
ReviewIsWhole == focus = "division" => Division!ReviewIsWhole
=============================================================================
