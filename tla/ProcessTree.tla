---------------------------- MODULE ProcessTree ----------------------------
(***************************************************************************)
(* run_bounded_process: a child is run in its own session (POSIX) or Job   *)
(* Object (Windows) and its whole tree is ended before the call returns.   *)
(*                                                                         *)
(* The tree lives on while it is being ended: processes fork, leave the    *)
(* group, exit and are adopted, between the listing of /proc, the reading  *)
(* of each entry and each signal.  /proc may be missing, and an entry      *)
(* unreadable.  A process number is not used twice, and a signal reaches   *)
(* whoever is alive.                                                       *)
(***************************************************************************)
EXTENDS Naturals, FiniteSets

CONSTANTS
  Child,       \* the process that is started
  Others,      \* numbers of the processes it may bring about
  Reaper,      \* adopts what has lost its parent
  Limit        \* _descendant_pids: the walk ends with so many found

\* The caller starts one process, and the reaper is none of its descendants.
TreeAssumption ==
  /\ IsFiniteSet(Others) /\ Child \notin Others /\ Reaper \notin Others \cup {Child}
  /\ Limit \in Nat

VARIABLES
  platform,    \* "posix" or "windows"
  proc,        \* proc[p]: unborn, live or gone; its parent; still in the group or job
  released,    \* Windows: the wrapper may start its target
  ctl,         \* where the caller stands
  todo,        \* what its loop still has before it: entries of /proc to read, processes
               \* to look for children of, processes to signal
  parents,     \* the parents read
  found,       \* the snapshot of descendants
  reachable    \* history: the child's descendants when /proc was listed, but those
               \* that a process's own end, or an entry that could not be read, cut off
               \* before all was read

vars == <<platform, proc, released, ctl, todo, parents, found, reachable>>
caller == <<todo, parents, found, reachable>>
Processes == Others \cup {Child}

Live(p) == proc[p].state = "live"
Lineage(parent) ==    \* the descendants of the child in a parent relation
  LET Down[n \in 0..Cardinality(Others)] ==
        IF n = 0 THEN {Child}
        ELSE Down[n - 1] \cup {p \in Others : parent[p] \in Down[n - 1]}
  IN Down[Cardinality(Others)] \ {Child}
Parents == [p \in Processes |-> IF Live(p) THEN proc[p].parent ELSE Reaper]
Descendants == Lineage(Parents)
Unread == [p \in Processes |-> Reaper]

Init ==
  /\ platform \in {"posix", "windows"}
  /\ proc = [p \in Processes |->
               [state |-> IF p = Child THEN "live" ELSE "unborn", parent |-> Reaper,
                member |-> platform = "posix"]]
  /\ released = (platform = "posix")
  /\ ctl = IF platform = "posix" THEN "wait" ELSE "assign"
  /\ todo = {} /\ parents = Unread /\ found = {} /\ reachable = {}

-----------------------------------------------------------------------------
(* The tree *)

\* What ends leaves its children to the reaper.
After(dead) == [p \in Processes |->
  IF p \in dead THEN [proc[p] EXCEPT !.state = "gone"]
  ELSE IF proc[p].parent \in dead THEN [proc[p] EXCEPT !.parent = Reaper] ELSE proc[p]]
End(dead) == proc' = After({p \in dead : Live(p)})

\* The Windows child is a wrapper that waits for its release.
Fork(p) ==
  /\ Live(p) /\ (p = Child => released)
  /\ \E q \in Others :
       /\ proc[q].state = "unborn" /\ \A o \in Others : o < q => proc[o].state # "unborn"
       /\ proc' = [proc EXCEPT ![q] = [state |-> "live", parent |-> p, member |-> proc[p].member]]
  /\ UNCHANGED <<platform, released, ctl, caller>>
\* setsid; a Job Object is not left.
Leave(p) ==
  /\ platform = "posix" /\ p # Child /\ Live(p) /\ proc[p].member
  /\ proc' = [proc EXCEPT ![p].member = FALSE]
  /\ UNCHANGED <<platform, released, ctl, caller>>
Finish(p) ==
  /\ Live(p) /\ (p = Child => released) /\ End({p})
  /\ reachable' = IF ctl = "read" THEN reachable \cap Descendants' ELSE reachable
  /\ UNCHANGED <<platform, released, ctl, todo, parents, found>>

-----------------------------------------------------------------------------
(* The caller *)

\* _windows_kill_on_close_job, then the release; a failure kills the wrapper.
Assign ==
  /\ ctl = "assign"
  /\ \/ proc' = [proc EXCEPT ![Child].member = TRUE] /\ ctl' = "release"
     \/ End({Child}) /\ ctl' = "closed"
  /\ UNCHANGED <<platform, released, caller>>
Release ==
  /\ ctl = "release"
  /\ \/ released' = TRUE /\ ctl' = "wait"
     \/ ctl' = "close" /\ UNCHANGED released
  /\ UNCHANGED <<platform, proc, caller>>

\* The wait ends with the child, at the deadline or at the output bound.
Wait ==
  /\ ctl = "wait"
  /\ ctl' = IF platform = "posix" THEN "list" ELSE "close"
  /\ UNCHANGED <<platform, proc, released, caller>>
\* Closing the job ends every member.
CloseJob ==
  /\ ctl = "close" /\ End({p \in Processes : proc[p].member}) /\ ctl' = "closed"
  /\ UNCHANGED <<platform, released, caller>>

\* Mutant: the group is killed before the descendants are looked for.
KillFirst ==
  /\ ctl = "list" /\ End({p \in Processes : proc[p].member})
  /\ todo' = {p \in Processes : Live(p)} /\ reachable' = Descendants
  /\ ctl' = "read"
  /\ UNCHANGED <<platform, released, parents, found>>

\* _descendant_pids: the entries of /proc, none on a host without it; then each one's
\* parent, or none if the entry cannot be read.
List ==
  /\ ctl = "list"
  /\ \/ todo' = {p \in Processes : Live(p)} /\ reachable' = Descendants
     \/ todo' = {} /\ reachable' = {}
  /\ ctl' = "read"
  /\ UNCHANGED <<platform, proc, released, parents, found>>
ReadEntry(p) ==
  /\ ctl = "read" /\ p \in todo
  /\ todo' = todo \ {p}
  /\ \/ parents' = [parents EXCEPT ![p] = Parents[p]] /\ UNCHANGED reachable
     \/ /\ reachable' = reachable \cap Lineage([Parents EXCEPT ![p] = Reaper])
        /\ UNCHANGED parents
  /\ UNCHANGED <<platform, proc, released, ctl, found>>
\* The walk takes the children of one process after another, in the order of the entries,
\* which is any; it asks for its limit between two of them only.
StartWalk ==
  /\ ctl = "read" /\ todo = {}
  /\ ctl' = "walk" /\ todo' = {Child}
  /\ UNCHANGED <<platform, proc, released, parents, found, reachable>>
WalkFrom(q) ==
  /\ ctl = "walk" /\ q \in todo /\ Cardinality(found) < Limit
  /\ LET children == {p \in Others : parents[p] = q} \ found IN
     found' = found \cup children /\ todo' = (todo \ {q}) \cup children
  /\ UNCHANGED <<platform, proc, released, ctl, parents, reachable>>
EndWalk ==
  /\ ctl = "walk" /\ (todo = {} \/ Cardinality(found) >= Limit)
  /\ ctl' = "group" /\ todo' = found /\ parents' = Unread
  /\ UNCHANGED <<platform, proc, released, found, reachable>>
\* _close_process_tree: the group, then every process of the snapshot.
KillGroup ==
  /\ ctl = "group" /\ End({p \in Processes : proc[p].member}) /\ ctl' = "each"
  /\ UNCHANGED <<platform, released, caller>>
KillEach ==
  /\ ctl = "each"
  /\ \/ \E p \in todo : todo' = todo \ {p} /\ End({p}) /\ UNCHANGED ctl
     \/ todo = {} /\ ctl' = "reap" /\ UNCHANGED <<proc, todo>>
  /\ UNCHANGED <<platform, released, parents, found, reachable>>
\* A child that outlived it all is killed by number.
Reap ==
  /\ ctl = "reap" /\ End({Child}) /\ ctl' = "closed"
  /\ UNCHANGED <<platform, released, caller>>

Next == \/ \E p \in Processes : Fork(p) \/ Leave(p) \/ Finish(p) \/ ReadEntry(p) \/ WalkFrom(p)
        \/ Assign \/ Release \/ Wait \/ CloseJob
        \/ List \/ StartWalk \/ EndWalk \/ KillGroup \/ KillEach \/ Reap
Spec == Init /\ [][Next]_vars

-----------------------------------------------------------------------------
\* What still lives when the call returns had left the group and could not be
\* found: it lost a parent on the way to the child before it was read, or was born
\* of an escaped process later, or there was no /proc to read (the docstring of
\* _descendant_pids: containment is then that of killpg), or its entry or one on its way
\* could not be read, or the walk had as many as its limit before it.  The group, the
\* child and all that was found are dead whatever happened; so is whatever stayed a
\* readable descendant throughout, unless the walk ended at its limit; and under a Job
\* Object everything is.
NothingReachableSurvives ==
  ctl = "closed" =>
    /\ \A p \in Processes : Live(p) =>
         /\ ~proc[p].member /\ p # Child /\ p \notin found
         /\ p \in reachable => Cardinality(found) >= Limit
    /\ platform = "windows" => \A p \in Processes : ~Live(p)
=============================================================================
