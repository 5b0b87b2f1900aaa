----------------------------- MODULE DiffSurface -----------------------------
(***************************************************************************)
(* How the stop rule reads the surface a series has added from the output  *)
(* of git diff -U0: line by line, from the full text or from a projection  *)
(* to its headers.  An added line "++ x" is printed as "+++ x" and a       *)
(* deleted "-- x" as "--- x", so only the counters of the open hunk tell   *)
(* content from headers.                                                   *)
(*                                                                         *)
(* Here one text arrives a line at a time.  full reads it as it is, heads  *)
(* what project_hunk_headers keeps of it.  A line is its class and its     *)
(* operands; a set of intervals is the set of their lines.                 *)
(***************************************************************************)
EXTENDS Integers

CONSTANTS Files, Null, Hunks   \* Hunks: [old, new |-> <<start, count>>]
VARIABLES full, keep, heads
\* Ranges as @@ -start,count +start,count @@ prints them.
HunkAssumption == Hunks \subseteq [old : Nat \X Nat, new : Nat \X Nat]

Lines == [is : {"diff"}, old : Files, new : Files]
   \cup [is : {"minus", "plus"}, file : Files \cup {Null}]
   \cup [is : {"hunk"}, at : Hunks]
   \cup [is : {"add", "del", "index", "mode", "noeol", "context"}]

Adds == {"add", "plus"}        \* lines that begin with +
Dels == {"del", "minus"}       \* lines that begin with -
Headers == {"diff", "minus", "plus", "hunk", "index", "mode"}
None == <<0, 0>>

-----------------------------------------------------------------------------
(* parse_diff_surface *)

\* A section begins with nothing read; paths and added are those of the whole text.
Section(ok, paths, added, ops) ==
  [ok |-> ok, paths |-> paths, added |-> added, ops |-> ops, minus |-> {},
   seenPlus |-> FALSE, meta |-> FALSE, current |-> Null, inHunk |-> FALSE,
   oldLeft |-> 0, newLeft |-> 0, newLine |-> 0, prevOld |-> None, prevNew |-> None]
Empty == Section(TRUE, {}, {}, {})

Refused(s) == [s EXCEPT !.ok = FALSE]
Owes(s) == s.inHunk /\ (s.oldLeft > 0 \/ s.newLeft > 0)

\* close_hunk: the content gave exactly the lines the header announced.
HunkClosed(s, isFull) == isFull /\ s.inHunk => s.oldLeft = 0 /\ s.newLeft = 0

\* close_section: both headers, or neither and a line that makes that legal.
SectionClosed(s) ==
  s.ops # {} => IF s.minus # {} THEN s.seenPlus ELSE s.seenPlus \/ s.meta

\* An added line of the file that is being read; a deleted file has none.
Take(s) ==
  IF s.current = Null \/ s.newLine = 0 THEN Refused(s)
  ELSE [s EXCEPT !.added = @ \cup {<<s.current, s.newLine>>},
                 !.newLine = @ + 1, !.newLeft = @ - 1]
Drop(s) == [s EXCEPT !.oldLeft = @ - 1]

Open(s, line) == Section(s.ok, s.paths, s.added, {<<line.old, line.new>>})
Minus(s, line) == [s EXCEPT !.minus = {line.file}, !.inHunk = FALSE]

Meta(s, line) == [s EXCEPT !.inHunk = FALSE, !.meta = @ \/ line.is = "mode"]

\* The new side's header: each side's path once in the text, and the operands of
\* the section are those of its two headers.
Sides(old, new) == {old, new} \ {Null}
Paired(s, new) ==
  LET old == CHOOSE f \in s.minus : TRUE IN
    /\ Sides(old, new) # {} /\ Sides(old, new) \cap s.paths = {}
    /\ s.ops = {<<IF old = Null THEN new ELSE old, IF new = Null THEN old ELSE new>>}
Plus(s, line) ==
  [s EXCEPT !.seenPlus = TRUE, !.paths = @ \cup Sides(CHOOSE f \in s.minus : TRUE, line.file),
            !.current = line.file, !.inHunk = FALSE, !.newLine = 0]

\* Ranges begin at 1 unless they are empty, and rise strictly on both sides.
After(prev, range) ==
  prev # None => range[1] >= prev[1] + (IF prev[2] > 1 THEN prev[2] ELSE 1)
HunkFits(s, at) ==
  /\ \A r \in {at.old, at.new} : r[2] > 0 => r[1] >= 1
  /\ After(s.prevOld, at.old) /\ After(s.prevNew, at.new)
  /\ s.minus = {Null} => at.old[2] = 0
  /\ s.current = Null => at.new[2] = 0
Hunk(s, at, isFull) ==
  [s EXCEPT !.oldLeft = at.old[2], !.newLeft = at.new[2],
            !.prevOld = at.old, !.prevNew = at.new, !.inHunk = TRUE,
            !.newLine = IF isFull /\ s.current # Null THEN at.new[1] ELSE 0,
            !.added = IF isFull THEN @
                      ELSE @ \cup {<<s.current, n>> : n \in at.new[1]..(at.new[1] + at.new[2] - 1)}]

\* While the hunk owes lines, what begins with + or - is content.
Content(s, line) == Owes(s) /\ line.is \in Adds \cup Dels

Read(s, line, isFull) ==
  IF isFull /\ Content(s, line) THEN IF line.is \in Adds THEN Take(s) ELSE Drop(s)
  ELSE CASE
    line.is = "diff" ->
      IF HunkClosed(s, isFull) /\ SectionClosed(s) THEN Open(s, line) ELSE Refused(s)
  [] line.is = "minus" ->
      IF HunkClosed(s, isFull) /\ s.ops # {} /\ s.minus = {} THEN Minus(s, line) ELSE Refused(s)
  [] line.is = "plus" ->
      IF HunkClosed(s, isFull) /\ s.minus # {} /\ ~s.seenPlus /\ Paired(s, line.file)
      THEN Plus(s, line) ELSE Refused(s)
  [] line.is = "hunk" ->
      IF HunkClosed(s, isFull) /\ s.seenPlus /\ HunkFits(s, line.at)
      THEN Hunk(s, line.at, isFull) ELSE Refused(s)
  [] line.is \in {"index", "mode"} ->
      IF HunkClosed(s, isFull) /\ s.ops # {}
      THEN Meta(s, line) ELSE Refused(s)
  [] OTHER ->
      IF ~isFull \/ ~s.inHunk THEN Refused(s)
      ELSE CASE line.is = "add" -> Take(s) [] line.is = "del" -> Drop(s)
             [] line.is = "noeol" -> s [] line.is = "context" -> Refused(s)

Accepted(s, isFull) == s.ok /\ HunkClosed(s, isFull) /\ SectionClosed(s)

-----------------------------------------------------------------------------
(* project_hunk_headers *)

\* Mutant: the projection keeps whatever looks like a header.
CountsNothing(k, line) == line.is \in {"add", "del"}

Counts(k, line) == Owes(k) /\ line.is \in Adds \cup Dels
Kept(k, line) == ~Counts(k, line) /\ line.is \in Headers

Project(k, line) ==
  IF Counts(k, line) THEN
    IF line.is \in Adds THEN [k EXCEPT !.newLeft = @ - 1] ELSE [k EXCEPT !.oldLeft = @ - 1]
  ELSE IF line.is = "hunk" THEN
    [k EXCEPT !.oldLeft = line.at.old[2], !.newLeft = line.at.new[2], !.inHunk = TRUE]
  ELSE IF line.is \in Headers THEN [k EXCEPT !.inHunk = FALSE]
  ELSE IF line.is = "noeol" THEN k ELSE [k EXCEPT !.ok = FALSE]

Init == /\ full = Empty /\ heads = Empty
        /\ keep = [ok |-> TRUE, inHunk |-> FALSE, oldLeft |-> 0, newLeft |-> 0]

Feed(line) ==
  /\ full' = Read(full, line, TRUE) /\ full'.ok
  /\ keep' = Project(keep, line)
  /\ heads' = IF Kept(keep, line) /\ heads.ok THEN Read(heads, line, FALSE) ELSE heads

Next == \E line \in Lines : Feed(line)
vars == <<full, keep, heads>>
Spec == Init /\ [][Next]_vars

-----------------------------------------------------------------------------
\* Whatever text the full reading accepts, a self-signed archive included, its
\* projection is accepted too and says that the same lines were added: a criterion
\* on the added surface cannot depend on which of the two was archived, nor be
\* moved by content that looks like a header.
SurfaceIsExact ==
  Accepted(full, TRUE) =>
    keep.ok /\ Accepted(heads, FALSE) /\ heads.added = full.added
==============================================================================
