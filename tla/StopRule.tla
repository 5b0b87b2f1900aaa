------------------------------ MODULE StopRule ------------------------------
(***************************************************************************)
(* The rule that stops a series of independent reviews.  The history of a  *)
(* series grows by rounds; findings are refuted or declared regressions    *)
(* later, and mechanism keys are merged.  decide reads the whole history   *)
(* each time, in order, and names one terminal.                            *)
(*                                                                         *)
(* A round's identity is declared by the history and, where the host still *)
(* has the prompt ledger, proved by it.  A finding is its key, its place   *)
(* relative to the added surface (DiffSurface says how that is read) and   *)
(* its fate.  A group of merged keys is a set, a mechanism is such a set.  *)
(***************************************************************************)
EXTENDS Integers, Sequences, FiniteSets, ListWalks

CONSTANTS
  Keys,       \* (file, category) in canonical form
  Cands,      \* identities of candidates
  Unknown,    \* no key, no declared identity, no ledger
  Entries,    \* bound: the rounds that may be entered, admissible or not
  Window,     \* verdict rounds the treadmill looks at
  MaxRounds   \* bound

VARIABLES
  kind,       \* candidateSource: identities proved by "ledger" or by reviewed "tree"
  binding,    \* policyBinding: the unit's "own" contract (or none is declared), or a "foreign" one
  rounds, groups

svars == <<kind, binding, rounds, groups>>

\* What a report says of a finding, and what a history says of a round.
Finding ==
  [key : Keys \cup {Unknown}, place : {"added", "elsewhere"},
   fate : {"live", "refuted", "regression"}]
Round ==
  [terminal : {"verdict", "precondition", "transport"},
   verdict : {"PASSED", "PASSED_WITH_WARNINGS", "BLOCKED", "UNVERIFIED", "UNAVAILABLE"},
   recorded : BOOLEAN, findings : SUBSET Finding, surface : BOOLEAN,
   declared : Cands \cup {Unknown}, proved : Cands \cup {Unknown}]
StopAssumption == Entries \subseteq Round /\ Window \in Nat

Outcomes(terminal) ==
  CASE terminal = "verdict" -> {"PASSED", "PASSED_WITH_WARNINGS", "BLOCKED"}
    [] terminal = "precondition" -> {"UNVERIFIED"}
    [] terminal = "transport" -> {"UNAVAILABLE"}

\* What a round says of its candidate: only a verdict judges content, content that
\* was not kept has no findings, and a block names what it blocks.
Consistent(r) ==
  /\ r.verdict \in Outcomes(r.terminal)
  /\ r.terminal # "verdict" => r.findings = {} /\ ~r.surface /\ r.recorded
  /\ ~r.recorded => r.findings = {}
  /\ r.recorded /\ r.verdict = "BLOCKED" => r.findings # {}

\* candidate_identity_from_ledger: what the host's prompt ledger proves, if it is there.
FromLedger(r) == r.proved

\* Mutant: a verdict may leave out the identity its ledger proves.
LedgerAgreesIfDeclared(r) == FromLedger(r) # Unknown => r.declared \in {FromLedger(r), Unknown}

\* The ledger's identity is declared, and must be when the round is a verdict.
LedgerAgrees(r) ==
  FromLedger(r) # Unknown =>
    r.declared = FromLedger(r) \/ (r.declared = Unknown /\ r.terminal # "verdict")

\* Identities from reviewed trees are those of the surface evidence.
TreeAgrees(r) == (r.declared # Unknown) = r.surface /\ r.proved \in {Unknown, r.declared}

Admissible(r, k) == Consistent(r) /\ (IF k = "ledger" THEN LedgerAgrees(r) ELSE TreeAgrees(r))

Rounds == [k \in {"ledger", "tree"} |-> {r \in Entries : Admissible(r, k)}]

-----------------------------------------------------------------------------
(* What counts *)

Counted(r) == r.terminal = "verdict" /\ r.verdict = "BLOCKED" /\ r.recorded
Live(r) == {f \in r.findings : f.fate = "live"}

\* mechanism_of: the merged group of a key; a finding without a key has none.
Mechanism(k, gs) == IF \E g \in gs : k \in g THEN CHOOSE g \in gs : k \in g ELSE {k}
Mechanisms(r, gs) ==
  IF Counted(r) THEN {Mechanism(f.key, gs) : f \in {x \in Live(r) : x.key # Unknown}} ELSE {}

\* Mutant: an identity that is not declared counts as one of its own.
IdentitiesOrUnknown(bucket) == {bucket[n] : n \in 1..Len(bucket)}

Identities(bucket) == {bucket[n] : n \in 1..Len(bucket)} \ {Unknown}

\* The scan of decide keeps per mechanism the identities of the rounds that named it,
\* the first round that showed one again after a change, and whether one recurred without.
Start(gs) ==
  [bucket |-> [m \in {Mechanism(k, gs) : k \in Keys} |-> << >>], armed |-> 0, doubt |-> FALSE]
Scanned(s, n, r, gs) ==
  LET here == Mechanisms(r, gs)
      b == [m \in DOMAIN s.bucket |-> IF m \in here THEN Append(s.bucket[m], r.declared)
                                                    ELSE s.bucket[m]]
      again == {m \in here : Len(b[m]) >= 2}
      changed == {m \in again : Cardinality(Identities(b[m])) >= 2}
  IN [bucket |-> b,
      armed |-> IF s.armed = 0 /\ changed # {} THEN n ELSE s.armed,
      doubt |-> s.doubt \/ (s.armed = 0 /\ again \ changed # {})]
Scan(rs, gs) ==
  LET step[n \in 0..Len(rs)] ==
        IF n = 0 THEN Start(gs) ELSE Scanned(step[n - 1], n, rs[n], gs)
  IN step[Len(rs)]

LastOf(v) == IF Len(v) < Window THEN << >> ELSE SubSeq(v, Len(v) - Window + 1, Len(v))

\* Mutant: rounds without kept content are passed over.
LastRecorded(rs) ==
  LastOf(Picked(rs, {n \in 1..Len(rs) : rs[n].terminal = "verdict" /\ rs[n].recorded}))

\* The last verdict rounds, those whose content was lost among them.
LastVerdicts(rs) == LastOf(Picked(rs, {n \in 1..Len(rs) : rs[n].terminal = "verdict"}))

\* The round has checked evidence of the surface, and content to judge against it.
Evidenced(r) == r.recorded /\ r.surface

\* evaluate_surface_treadmill: all blocked, and only by what the series added.
Treadmill(rs) ==
  LET w == LastVerdicts(rs) IN
    /\ w # << >>
    /\ \A n \in 1..Len(w) :
         /\ Evidenced(w[n]) /\ w[n].verdict = "BLOCKED"
         /\ Live(w[n]) # {} /\ \A f \in Live(w[n]) : f.place = "added"

\* check_policy_binding: the rounds were judged by another unit's contract.
RouteDefect == binding = "foreign"

\* decide, in the order of its precedence.
Decide(rs, gs) ==
  LET s == Scan(rs, gs)
      last == rs[Len(rs)]
      judged == \E n \in 1..Len(rs) : rs[n].terminal = "verdict"
      says(t, at) == [terminal |-> t, at |-> at]
  IN IF RouteDefect THEN says("ROUTE_DEFECT", 0)
     ELSE IF s.armed # 0 THEN says("REDESIGN_OR_DISCARD", s.armed)
     ELSE IF s.doubt THEN says("RECURRENCE_UNCONFIRMED", 0)
     ELSE IF Treadmill(rs) THEN says("SURFACE_TREADMILL", Len(rs))
     ELSE IF rs # << >> /\ (last.terminal # "verdict" \/ ~judged) THEN says("ROUTE_REPAIR", Len(rs))
     ELSE IF rs # << >> /\ last.verdict = "PASSED" THEN says("CLOSE", Len(rs))
     ELSE says("CONTINUE", 0)

-----------------------------------------------------------------------------
(* How a history changes *)

Init == /\ kind \in {"ledger", "tree"} /\ binding \in {"own", "foreign"}
        /\ rounds = << >> /\ groups = {}

AddRound(r) ==
  /\ Len(rounds) < MaxRounds
  /\ rounds' = Append(rounds, r)
  /\ UNCHANGED <<kind, binding, groups>>

\* apply_dispositions: a finding of a report is refuted or declared a regression.
Dispose(n, f, fate) ==
  /\ f \in rounds[n].findings /\ f.fate = "live"
  /\ rounds' = [rounds EXCEPT ![n].findings = (@ \ {f}) \cup {[f EXCEPT !.fate = fate]}]
  /\ UNCHANGED <<kind, binding, groups>>

\* build_merge_map: a group has two keys or more, and no key is in two groups.
Merged(gs, g) == {h \in gs : h \cap g = {}} \cup {(UNION {h \in gs : h \cap g # {}}) \cup g}
Merge(g) ==
  /\ Cardinality(g) >= 2 /\ ~\E h \in groups : g \subseteq h
  /\ groups' = Merged(groups, g)
  /\ UNCHANGED <<kind, binding, rounds>>

Next ==
  \/ \E r \in Rounds[kind] : AddRound(r)
  \/ \E n \in 1..Len(rounds) : \E f \in rounds[n].findings : \E fate \in {"refuted", "regression"} :
       Dispose(n, f, fate)
  \/ \E g \in SUBSET Keys : Merge(g)
Spec == Init /\ [][Next]_svars

-----------------------------------------------------------------------------
(* What the rule promises *)

\* Two rounds that blocked on the same mechanism, between which the candidate changed.
ProvenRecurrence(rs, gs, i, j) ==
  /\ Mechanisms(rs[i], gs) \cap Mechanisms(rs[j], gs) # {}
  /\ Unknown \notin {rs[i].declared, rs[j].declared} /\ rs[i].declared # rs[j].declared
Recurrence(rs, gs) ==
  \E i, j \in 1..Len(rs) : i < j /\ Mechanisms(rs[i], gs) \cap Mechanisms(rs[j], gs) # {}

\* The series is stopped exactly for a proven recurrence, at the round that proves it,
\* whatever stands between, and a closing green round never hides one.
StopsOnRecurrence ==
  ~RouteDefect =>
    LET taken == Decide(rounds, groups)
        proof == {j \in 1..Len(rounds) : \E i \in 1..(j - 1) : ProvenRecurrence(rounds, groups, i, j)}
    IN /\ (taken.terminal = "REDESIGN_OR_DISCARD") = (proof # {})
       /\ proof # {} => taken.at \in proof /\ \A j \in proof : taken.at <= j
       /\ (taken.terminal \in {"SURFACE_TREADMILL", "ROUTE_REPAIR", "CLOSE", "CONTINUE"}) =
            ~Recurrence(rounds, groups)
       /\ taken.terminal = "CLOSE" => rounds[Len(rounds)].verdict = "PASSED"

\* With every ledger at hand the rule never has to leave a recurrence open, unless
\* the candidate really was the same.
LedgersDecide ==
  LET taken == Decide(rounds, groups) IN
    /\ kind = "ledger" /\ \A n \in 1..Len(rounds) : rounds[n].proved # Unknown
    /\ taken.terminal = "RECURRENCE_UNCONFIRMED"
    => \E i, j \in 1..Len(rounds) : i < j /\ rounds[i].proved = rounds[j].proved

\* Another round, another order of the rounds or a further merge never takes a
\* recurrence back: only a disposition, which names its ground, does.
Swapped(n) == [rounds EXCEPT ![n] = rounds[n + 1], ![n + 1] = rounds[n]]
Strength(rs, gs) ==
  LET taken == Decide(rs, gs).terminal IN
    IF taken = "REDESIGN_OR_DISCARD" THEN 2 ELSE IF taken = "RECURRENCE_UNCONFIRMED" THEN 1 ELSE 0
NothingIsTakenBack ==
  LET now == Strength(rounds, groups) IN
    /\ \A n \in 1..(Len(rounds) - 1) :
         /\ Strength(SubSeq(rounds, 1, n), groups) <= now
         /\ Strength(Swapped(n), groups) = now
    /\ \A g \in SUBSET Keys : Cardinality(g) >= 2 => Strength(rounds, Merged(groups, g)) >= now

\* The treadmill stops a series only after Window blocks in a row, none of them
\* passed over, and none of them on code the series found there.
TreadmillIsRecent ==
  Decide(rounds, groups).terminal = "SURFACE_TREADMILL" =>
    \A n \in 1..Len(rounds) :
      Cardinality({k \in n..Len(rounds) : rounds[k].terminal = "verdict"}) \in 1..Window
        /\ rounds[n].terminal = "verdict"
      => rounds[n].verdict = "BLOCKED" /\ \A f \in Live(rounds[n]) : f.place = "added"

DecisionIsSound ==
  StopsOnRecurrence /\ LedgersDecide /\ NothingIsTakenBack /\ TreadmillIsRecent
=============================================================================
