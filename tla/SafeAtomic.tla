----------------------------- MODULE SafeAtomic -----------------------------
(***************************************************************************)
(* The durable file primitives every ledger, receipt and state file of the *)
(* local tools goes through: replacing a file, creating an immutable one   *)
(* and appending to an event log, on a POSIX file system that may lose at  *)
(* a power failure whatever was not synchronised.                          *)
(*                                                                         *)
(* Every writer uses one exclusively created temporary file of its own, so *)
(* a file's identity is the writer that made it.  A name's entry in the    *)
(* directory is kept twice, as programs see it and as it is on the disk.   *)
(***************************************************************************)
EXTENDS Naturals, Sequences

CONSTANTS
  Writers,
  Op,           \* Op[w]: "replace", "create" or "append"
  Value,        \* Value[w]: the bytes w writes
  Old,          \* the file that was there before
  Absent,       \* no file
  MaxFaults,    \* bound: failing calls
  MaxDeaths     \* bound: processes or machines that die

VARIABLES
  stage,
  data, synced, \* temporary file of w: "none", "part" or "whole"; fsync has returned
  leaf, disk,   \* the replaced name: as seen, and as it is on the disk
  renames,      \* history: the files the replaced name has named
  child, store, \* the immutable name: as seen, and as it is on the disk
  taken,        \* history: the immutable files a power failure took back
  log, kept,    \* fragments appended, and how many of them are on the disk
  faults, deaths

tmp == <<data, synced>>
reg == <<leaf, disk, renames>>
imm == <<child, store, taken>>
book == <<log, kept>>
vars == <<stage, data, synced, leaf, disk, renames, child, store, taken, log, kept, faults, deaths>>

\* Writers are processes, and each calls one of the three primitives.
FileAssumption ==
  /\ Absent \notin Writers /\ Old \notin Writers
  /\ Op \in [Writers -> {"replace", "create", "append"}]

Init ==
  /\ stage = [w \in Writers |-> "idle"]
  /\ data = [w \in Writers |-> "none"] /\ synced = [w \in Writers |-> FALSE]
  /\ leaf = Old /\ disk = Old /\ renames = <<Old>>
  /\ child = Absent /\ store = Absent /\ taken = {}
  /\ log = << >> /\ kept = 0
  /\ faults = 0 /\ deaths = 0

Goto(w, p) == stage' = [stage EXCEPT ![w] = p]
Done == {"replaced", "created", "same", "collision", "appended"}
Over == Done \cup {"idle", "failed", "dead"}

-----------------------------------------------------------------------------
(* The temporary file: exclusive creation, writes until all is out, fsync *)

\* write_immutable_bytes looks at the name first.
Existing(w) == IF Value[child] = Value[w] THEN "same" ELSE "collision"

Start(w) ==
  /\ stage[w] = "idle"
  /\ IF Op[w] = "create" /\ child # Absent
     THEN Goto(w, Existing(w))
     ELSE Goto(w, IF Op[w] = "append" THEN "append" ELSE "write")
  /\ UNCHANGED <<tmp, reg, imm, book, faults, deaths>>

Write(w) ==
  /\ stage[w] = "write"
  /\ \/ data[w] = "none" /\ data' = [data EXCEPT ![w] = "part"] /\ Goto(w, "write")
     \/ data' = [data EXCEPT ![w] = "whole"] /\ Goto(w, "fsync")
  /\ UNCHANGED <<synced, reg, imm, book, faults, deaths>>

\* Mutant: the temporary file is not synchronised.
FsyncSkipped(w) ==
  /\ stage[w] = "fsync"
  /\ Goto(w, IF Op[w] = "replace" THEN "rename" ELSE "link")
  /\ UNCHANGED <<tmp, reg, imm, book, faults, deaths>>

Fsync(w) ==
  /\ stage[w] = "fsync"
  /\ synced' = [synced EXCEPT ![w] = TRUE]
  /\ Goto(w, IF Op[w] = "replace" THEN "rename" ELSE "link")
  /\ UNCHANGED <<data, reg, imm, book, faults, deaths>>

-----------------------------------------------------------------------------
(* atomic_replace_bytes *)

\* Mutant: the rename is acknowledged before the directory is synchronised.
RenameReturns(w) ==
  /\ stage[w] = "rename"
  /\ leaf' = w /\ renames' = Append(renames, w)
  /\ Goto(w, "replaced")
  /\ UNCHANGED <<tmp, disk, imm, book, faults, deaths>>

Rename(w) ==
  /\ stage[w] = "rename"
  /\ leaf' = w /\ renames' = Append(renames, w)
  /\ Goto(w, "dirsync")
  /\ UNCHANGED <<tmp, disk, imm, book, faults, deaths>>

\* fsync of the directory puts both names on the disk.
DirSync(w) ==
  /\ stage[w] = "dirsync"
  /\ disk' = leaf /\ store' = child
  /\ Goto(w, CASE Op[w] = "replace" -> "replaced"
               [] Op[w] = "create" -> "created"
               [] Op[w] = "append" -> "appended")
  /\ UNCHANGED <<tmp, leaf, renames, child, taken, book, faults, deaths>>

-----------------------------------------------------------------------------
(* write_immutable_bytes *)

\* Mutant: the temporary file is renamed over the name.
LinkReplaces(w) ==
  /\ stage[w] = "link"
  /\ child' = w /\ Goto(w, "dirsync")
  /\ UNCHANGED <<tmp, reg, store, taken, book, faults, deaths>>

\* The name is linked only if it is free; a name taken meanwhile is compared.
Link(w) ==
  /\ stage[w] = "link"
  /\ IF child = Absent
     THEN child' = w /\ Goto(w, "dirsync")
     ELSE Goto(w, Existing(w)) /\ UNCHANGED child
  /\ UNCHANGED <<tmp, reg, store, taken, book, faults, deaths>>

-----------------------------------------------------------------------------
(* durable_append_bytes: the line may go out in two writes *)

First(w) == [by |-> w, end |-> FALSE]
Last(w) == [by |-> w, end |-> TRUE]

AppendWrite(w) ==
  /\ \/ stage[w] = "append" /\ log' = Append(log, First(w)) /\ Goto(w, "rest")
     \/ stage[w] = "append" /\ log' = log \o <<First(w), Last(w)>> /\ Goto(w, "logsync")
     \/ stage[w] = "rest" /\ log' = Append(log, Last(w)) /\ Goto(w, "logsync")
  /\ UNCHANGED <<tmp, reg, imm, kept, faults, deaths>>

\* Mutant: the line is not synchronised before the directory is.
LogSyncSkipped(w) ==
  /\ stage[w] = "logsync" /\ Goto(w, "dirsync")
  /\ UNCHANGED <<tmp, reg, imm, book, faults, deaths>>

LogSync(w) ==
  /\ stage[w] = "logsync" /\ kept' = Len(log) /\ Goto(w, "dirsync")
  /\ UNCHANGED <<tmp, reg, imm, log, faults, deaths>>

-----------------------------------------------------------------------------
(* Failures *)

\* A call fails: the temporary file is unlinked and the caller is told, though
\* the rename, the link or the line may be in place.
Fail(w) ==
  /\ stage[w] \notin Over /\ faults < MaxFaults /\ faults' = faults + 1
  /\ Goto(w, "failed")
  /\ UNCHANGED <<tmp, reg, imm, book, deaths>>

Die(w) ==
  /\ stage[w] \notin Over /\ deaths < MaxDeaths /\ deaths' = deaths + 1
  /\ Goto(w, "dead")
  /\ UNCHANGED <<tmp, reg, imm, book, faults>>

\* The power fails: every running process is gone, each name is as on the disk
\* or as it was seen, bytes that were not synchronised are there or not.
PowerFails ==
  /\ deaths < MaxDeaths /\ deaths' = deaths + 1
  /\ stage' = [w \in Writers |-> IF stage[w] \in Over THEN stage[w] ELSE "dead"]
  /\ \E f \in [Writers -> {"none", "part", "whole"}] :
       /\ \A w \in Writers : synced[w] \/ data[w] = "none" => f[w] = data[w]
       /\ \A w \in Writers : data[w] = "part" => f[w] # "whole"
       /\ data' = f
  /\ leaf' \in {leaf, disk} /\ disk' = leaf'
  /\ child' \in {child, store} /\ store' = child'
  /\ taken' = taken \cup ({child} \ {child', Absent})
  /\ \E n \in kept..Len(log) : log' = SubSeq(log, 1, n) /\ kept' = n
  /\ UNCHANGED <<synced, renames, faults>>

Next ==
  \/ PowerFails
  \/ \E w \in Writers : \/ Start(w) \/ Write(w) \/ Fsync(w) \/ Rename(w) \/ DirSync(w)
                        \/ Link(w) \/ AppendWrite(w) \/ LogSync(w) \/ Fail(w) \/ Die(w)

Spec == Init /\ [][Next]_vars

-----------------------------------------------------------------------------
(* Readers: read_regular_snapshot, and ledger_events, which refuses the whole *)
(* file when its last line has no end or a line is not one record *)

Whole(f) == f \in {Old, Absent} \/ data[f] = "whole"
Lines == {n \in 1..Len(log) : log[n].end}
\* A line is one record: its beginning stands right before its end, alone.
OneRecord(n) ==
  /\ n > 1 /\ log[n - 1] = First(log[n].by)
  /\ n > 2 => log[n - 2].end
\* Mutant: an unfinished last line is passed over.
ReadableButTail == \A n \in Lines : OneRecord(n)

Readable ==
  /\ log # << >> => log[Len(log)].end
  /\ \A n \in Lines : OneRecord(n)

-----------------------------------------------------------------------------
(* What the callers rely on *)

\* At every moment, a power failure's aftermath included, the replaced file and
\* the immutable file are whole: a reader never sees part of a write.
FilesAreWhole == Whole(leaf) /\ Whole(child)

\* Once a replacement has returned, no later failure brings back anything older.
ReplacedSurvives ==
  \A w \in Writers : stage[w] = "replaced" =>
    \E i, j \in 1..Len(renames) : renames[i] = w /\ renames[j] = leaf /\ i <= j

\* The immutable file is created once, and for the caller that was told so it is
\* there for good; for a caller told that it exists already its bytes are there, unless
\* a power failure took back what it met, which nobody had synchronised.
CreatedOnce ==
  \A w \in Writers :
    /\ stage[w] = "created" => child = w
    /\ stage[w] = "same" => \E v \in taken \cup {child} : v # Absent /\ Value[v] = Value[w]

\* A reader that is not refused gets every line whose append has returned, and
\* no line torn by a crash, a failed write or a second appender.
ReadIsComplete ==
  Readable =>
    /\ \A w \in Writers : stage[w] = "appended" => \E n \in Lines : log[n].by = w
    /\ \A n \in 1..Len(log) : ~log[n].end => n < Len(log) /\ log[n + 1] = Last(log[n].by)

\* Whatever fails, the files stay whole, what was acknowledged stays, and a log that
\* can be read is complete.
FilesAreDurable == FilesAreWhole /\ ReplacedSurvives /\ CreatedOnce /\ ReadIsComplete
=============================================================================
