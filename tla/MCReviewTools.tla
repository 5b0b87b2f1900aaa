--------------------------- MODULE MCReviewTools ---------------------------
(* Bounded instances of the tools that produce, keep and judge review evidence: *)
(* the verification loop, the keyless review route, the durable files under     *)
(* them, the stop rule and its reading of diffs, one per value of focus.        *)
EXTENDS VerificationLoop, Integers, TLC
CONSTANTS t1, t2, i1, i2, p1, p2, p3,
          w1, w2, w3, w4, w5, w6, w7, Old, Absent,
          c, d, Nothing, k1, k2, Unknown, Null
VARIABLES
  focus,
  stage, data, synced, leaf, disk, renames, child, store, taken, log, kept,
  faults, deaths,
  checkpoint, archive, legacy, history, prompts, receipts, step, me, before, overlap,
  losses, killed,
  kind, binding, rounds, groups, full, keep, heads

loop == vars
durable == <<stage, data, synced, leaf, disk, renames, child, store, taken, log, kept,
             faults, deaths>>
route == <<checkpoint, archive, legacy, history, prompts, receipts, step, me, before,
           overlap, losses, killed>>
series == <<kind, binding, rounds, groups>>
surface == <<full, keep, heads>>

\* Two staged trees proved with the first input only, three adjudicators.
MCProven == {<<t1, i1>>, <<t2, i1>>}
Busy == Cardinality({p \in Procs : pc[p] # "idle"})
LoopBounds ==
  /\ Cardinality(machines) <= 2 /\ Cardinality(checkers) <= 2
  /\ Cardinality(machines) + Cardinality(checkers) <= 3
  /\ edits + day > 0 => Busy <= 1 /\ crashes = 0 /\ edits + day <= 2
  /\ crashes > 0 \/ Busy > 1 =>
       Cardinality(machines) = 1 /\ oracle = NoMachine /\ \A m \in machines : m.tree = t1
  /\ Busy - crashes > 1 => Cardinality(checkers) = 1

\* Two writers of each kind, and of the immutable file a third whose bytes are those of
\* the first.
Writers == {w1, w2, w3, w4, w5, w6, w7}
Op == [w \in Writers |-> IF w \in {w1, w2} THEN "replace"
                         ELSE IF w \in {w3, w4, w7} THEN "create" ELSE "append"]
Value == [w \in Writers |-> IF w \in {w3, w7} THEN "x" ELSE IF w = w4 THEN "y" ELSE "z"]
Durable == INSTANCE SafeAtomic WITH MaxFaults <- 1, MaxDeaths <- 1
ASSUME FilesFit == Durable!FileAssumption
FilesBounds ==
  LET begun == {w \in Writers : stage[w] # "idle"} IN
  Cardinality(begun) <= 2 \/ begun = {w3, w4, w7}

\* A candidate of two units and one reviewed directly; invocations are alike.
Cands == {c, d}
UnitsOf == [x \in Cands |-> IF x = c THEN 2 ELSE 0]
Invocations == Procs
Route == INSTANCE FreeReview WITH MaxLosses <- 2, MaxKills <- 1
ASSUME RouteFits == Route!RouteAssumption
RouteBounds ==
  LET started == Cardinality({r \in Invocations : step[r] # "idle"}) IN
    /\ overlap => started <= 2 /\ killed = 0 /\ losses <= 1
    /\ overlap /\ losses > 0 => \A k \in archive \cup {checkpoint} : k = Nothing \/ k.fresh
    /\ losses + killed <= 2

\* Series of three rounds, one of which may not block; reports on one key or the other.
F(k, p) == [key |-> k, place |-> p, fate |-> "live"]
Entry(verdicts, findings, recorded, identities, proofs, surfaces) ==
  [terminal : {"verdict"}, verdict : verdicts, recorded : recorded, findings : findings,
   surface : surfaces, declared : identities, proved : proofs]
AnyCand == Cands \cup {Unknown}
Blocking == {{F(k1, "added")}, {F(k2, "elsewhere"), F(Unknown, "added")}}
Entries ==
  Entry({"BLOCKED"}, Blocking, {TRUE}, AnyCand, AnyCand, BOOLEAN)
  \cup Entry({"BLOCKED", "PASSED"}, {{}}, {FALSE}, AnyCand, {Unknown}, {FALSE})
  \cup Entry({"PASSED"}, {{}}, {TRUE}, AnyCand, AnyCand, {FALSE})
  \cup Entry({"PASSED_WITH_WARNINGS"}, {{}}, {TRUE}, {Unknown}, {Unknown}, BOOLEAN)
  \cup {[r EXCEPT !.terminal = "transport", !.verdict = "UNAVAILABLE"] :
           r \in Entry({"PASSED"}, {{}}, {TRUE}, {Unknown}, {Unknown}, BOOLEAN)}
Stop == INSTANCE StopRule WITH Keys <- {k1, k2}, Window <- 2, MaxRounds <- 3
ASSUME EntriesFit == Stop!StopAssumption
StopBounds ==
  LET disposed == {n \in 1..Len(rounds) : \E f \in rounds[n].findings : f.fate # "live"} IN
    /\ binding = "foreign" => Len(rounds) <= 1
    /\ kind = "tree" => Len(rounds) <= 2
    /\ Cardinality({n \in 1..Len(rounds) : rounds[n].verdict # "BLOCKED"}) <= 1
    /\ Cardinality(disposed) <= 1 /\ (disposed # {} => groups = {})
    /\ \A n \in 1..Len(rounds) :
         /\ kind = "ledger" => ~rounds[n].surface
         /\ rounds[n].declared = d => \E m \in 1..n : rounds[m].declared = c

\* Two files, five hunks that follow each other or overlap.
At(o, n, p, m) == [old |-> <<o, n>>, new |-> <<p, m>>]
Diff == INSTANCE DiffSurface WITH
          Files <- Cands,
          Hunks <- {At(1, 1, 1, 2), At(0, 0, 1, 1), At(2, 1, 1, 0), At(3, 0, 4, 1), At(3, 2, 3, 1)}
ASSUME HunksFit == Diff!HunkAssumption
DiffBounds == full.newLeft >= -1 /\ full.oldLeft >= -1

Symmetry == Permutations(Procs)
Bounds == LoopBounds /\ FilesBounds /\ RouteBounds /\ StopBounds /\ DiffBounds

MCInit == /\ focus \in {"loop", "files", "route", "series", "surface"}
          /\ Init /\ Durable!Init /\ Route!Init /\ Stop!Init /\ Diff!Init
          /\ focus # "loop" => index = t1 /\ input = i1
          /\ focus # "series" => kind = "ledger" /\ binding = "own"
MCNext == \/ focus = "loop" /\ Next /\ UNCHANGED <<focus, durable, route, series, surface>>
          \/ focus = "files" /\ Durable!Next /\ UNCHANGED <<focus, loop, route, series, surface>>
          \/ focus = "route" /\ Route!Next /\ UNCHANGED <<focus, loop, durable, series, surface>>
          \/ focus = "series" /\ Stop!Next /\ UNCHANGED <<focus, loop, durable, route, surface>>
          \/ focus = "surface" /\ Diff!Next /\ UNCHANGED <<focus, loop, durable, route, series>>
MCSpec == MCInit /\ [][MCNext]_<<focus, loop, durable, route, series, surface>>

\* Files stay whole, acknowledged writes stay, logs are complete: SafeAtomic.
FilesAreDurable == focus = "files" => Durable!FilesAreDurable
\* A negative outcome is preserved and refuses its context a receipt: FreeReview.
NegativesBind == focus = "route" => Route!NegativesBind
\* A receipt's ledger holds exactly the prompts its invocation sent: FreeReview.
LedgerIsExact == focus = "route" => Route!LedgerIsExact
\* A finding in a checkpoint is not lost while invocations do not overlap: FreeReview.
FindingsSurvive == Route!FindingsSurvive
\* A series is stopped exactly for a proven recurrence, and stays so: StopRule.
DecisionIsSound == focus = "series" => Stop!DecisionIsSound
\* A diff and its projection to headers add the same lines: DiffSurface.
SurfaceIsExact == focus = "surface" => Diff!SurfaceIsExact
============================================================================
