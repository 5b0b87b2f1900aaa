---------------------------- MODULE FreshSession ----------------------------
(***************************************************************************)
(* Worktrees for fresh sessions.  A packet binds a unit of work, the paths  *)
(* it may change and the parent's state; prepare makes a worktree of it and *)
(* leaves a session there; finalize records the tree the maker staged.      *)
(*                                                                         *)
(* Preparations race for one target, fail half way, clean up or are killed; *)
(* the parent's state moves under them, and the maker stages while two      *)
(* finalizations read the index.                                           *)
(***************************************************************************)
EXTENDS Naturals, FiniteSets

CONSTANTS
  Units, Paths, Targets,
  Offers,                  \* what packets may ask for: a unit and paths
  Preparers, Finalizers,
  MaxPackets, MaxChanges, MaxEdits,   \* bounds: packets, changes of state, edits of worktrees
  Nothing

\* What packets ask for is in the project; no session is sealed with nothing.
State == [unit : Units \cup {Nothing}, n : Nat]
SessionAssumption ==
  /\ Offers \subseteq [unit : Units, allowed : SUBSET Paths]
  /\ Nothing \notin [packet : [unit : Units, allowed : SUBSET Paths, state : State], state : State]

VARIABLES
  state,     \* the parent's STATE.json: its active unit, and a number for all else
  packets,   \* packet files; each carries the state it was made of, as a digest
  tree,      \* tree[t]: what is at the target path
  prep,      \* prep[p]: a preparation's step, packet and target
  fin,       \* fin[f]: a finalization's step and what it has read
  edits,
  bound,     \* history: the packet and state each session was sealed with
  raced      \* history: the index moved between a finalization's two readings

vars == <<state, packets, tree, prep, fin, edits, bound, raced>>

Clean == [p \in Paths |-> 0]
Changed(index) == {p \in Paths : index[p] # 0}
\* A file is written, then made read-only: "open", "sealed".
File(content, seal) == [content |-> content, seal |-> seal]
IsSealed(file) == file.seal = "sealed"
NoFile == File(Nothing, "absent")
Absent == [here |-> FALSE, spaces |-> FALSE, packet |-> NoFile, snapshot |-> NoFile, session |-> NoFile,
           index |-> Clean, files |-> Paths]
Waiting == [step |-> "idle", packet |-> Nothing, target |-> Nothing, created |-> FALSE]
Resting == [step |-> "idle", target |-> Nothing, session |-> Nothing, packet |-> Nothing,
            moved |-> FALSE, tree |-> Nothing]

Init ==
  /\ state \in [unit : Units, n : {0}] /\ packets = {}
  /\ tree = [t \in Targets |-> Absent]
  /\ prep = [p \in Preparers |-> Waiting] /\ fin = [f \in Finalizers |-> Resting]
  /\ edits = 0 /\ bound = [t \in Targets |-> Nothing] /\ raced = {}

-----------------------------------------------------------------------------
(* packet *)

\* Each path is a file of the base, and a file on the disk.
PathsExist(packet, files) == packet.allowed \subseteq (Paths \cap files)
\* validate_packet: the state is the one the packet was made of, and the unit is active
\* in it.
Holds(packet, live, files) ==
  live = packet.state /\ live.unit = packet.unit /\ PathsExist(packet, files)

MakePacket ==
  \E offer \in Offers :
    LET packet == [unit |-> offer.unit, allowed |-> offer.allowed, state |-> state]
    IN /\ Holds(packet, state, Paths) /\ packet \notin packets /\ Cardinality(packets) < MaxPackets
       /\ packets' = packets \cup {packet}
       /\ UNCHANGED <<state, tree, prep, fin, edits, bound, raced>>

-----------------------------------------------------------------------------
(* prepare *)

Rest(p) == UNCHANGED <<state, packets, fin, edits, raced>>
Goto(p, step) == prep' = [prep EXCEPT ![p].step = step]

\* The packet is loaded and validated, and the target must not exist.
Load(p) ==
  /\ prep[p].step = "idle"
  /\ \E packet \in packets, t \in Targets :
       /\ Holds(packet, state, Paths) /\ ~tree[t].here
       /\ prep' = [prep EXCEPT ![p] = [step |-> "add", packet |-> packet, target |-> t, created |-> FALSE]]
  /\ UNCHANGED <<tree, bound>> /\ Rest(p)
\* git worktree add makes the target, or refuses one that has come to exist.
Add(p) ==
  LET t == prep[p].target IN
  /\ prep[p].step = "add"
  /\ \/ /\ ~tree[t].here /\ tree' = [tree EXCEPT ![t] = [Absent EXCEPT !.here = TRUE]]
        /\ prep' = [prep EXCEPT ![p].step = "spaces", ![p].created = TRUE]
     \/ Goto(p, "fail") /\ UNCHANGED tree
  /\ UNCHANGED bound /\ Rest(p)
\* create_namespaces: a directory for each mutable resource.
MakeSpaces(p) ==
  /\ prep[p].step = "spaces"
  /\ \/ tree' = [tree EXCEPT ![prep[p].target].spaces = TRUE] /\ Goto(p, "packet")
     \/ Goto(p, "fail") /\ UNCHANGED tree
  /\ UNCHANGED bound /\ Rest(p)
\* write_new_read_only, for the packet, the snapshot and the session in turn: content,
\* then the mode; a failure takes the file away.
Create(p, step, name, content, after) ==
  LET t == prep[p].target IN
  /\ prep[p].step = step
  /\ \/ /\ tree[t][name].seal = "absent"
        /\ tree' = [tree EXCEPT ![t][name] = File(content, "open")] /\ UNCHANGED <<prep, bound>>
     \/ /\ tree[t][name].seal = "open"
        /\ tree' = [tree EXCEPT ![t][name].seal = "sealed"] /\ Goto(p, after)
        /\ bound' = IF name = "session"
                    THEN [bound EXCEPT ![t] = [packet |-> content.packet, state |-> content.state]]
                    ELSE bound
     \/ /\ tree' = [tree EXCEPT ![t][name] = NoFile] /\ Goto(p, "fail") /\ UNCHANGED bound
  /\ Rest(p)
Session(packet) == [packet |-> packet, state |-> packet.state, tree |-> Clean, done |-> FALSE]
WritePacket(p) == Create(p, "packet", "packet", prep[p].packet, "snapshot")
WriteSnapshot(p) == Create(p, "snapshot", "snapshot", prep[p].packet.state, "recheck")
\* The parent's state is read again.
Recheck(p) ==
  /\ prep[p].step = "recheck"
  /\ Goto(p, IF state = prep[p].packet.state THEN "session" ELSE "fail")
  /\ UNCHANGED <<tree, bound>> /\ Rest(p)
WriteSession(p) == Create(p, "session", "session", Session(prep[p].packet), "done")
\* Mutant: a failed preparation removes its target whoever made it.
CleanUpAny(p) ==
  /\ prep[p].step = "fail" /\ Goto(p, "done")
  /\ tree' = [tree EXCEPT ![prep[p].target] = Absent] /\ UNCHANGED bound /\ Rest(p)

\* cleanup_created_worktree: only what this preparation made, and not always all of it.
CleanUp(p) ==
  /\ prep[p].step = "fail" /\ Goto(p, "done")
  /\ \/ prep[p].created /\ tree' = [tree EXCEPT ![prep[p].target] = Absent]
     \/ UNCHANGED tree
  /\ UNCHANGED bound /\ Rest(p)
Die(p) ==
  /\ prep[p].step \notin {"idle", "done"} /\ Goto(p, "done")
  /\ UNCHANGED <<tree, bound>> /\ Rest(p)

-----------------------------------------------------------------------------
(* finalize *)

Keep == UNCHANGED <<state, packets, prep, edits, bound>>
Give(f) == fin' = [fin EXCEPT ![f] = Resting]

\* The session of this worktree, whole and read-only.
LoadSession(f) ==
  /\ fin[f].step = "idle"
  /\ \E t \in Targets :
       /\ IsSealed(tree[t].session)
       /\ fin' = [fin EXCEPT ![f] = [Resting EXCEPT !.step = "artifacts", !.target = t,
                                                    !.session = tree[t].session.content]]
  /\ UNCHANGED <<tree, raced>> /\ Keep
\* validate_namespaces: each mutable resource still has its directory.
SpacesHold(t) == tree[t].spaces
\* Mutant: the artifacts are taken as they are found.
LoadAnyArtifacts(f) ==
  LET t == fin[f].target IN
  /\ fin[f].step = "artifacts"
  /\ fin' = [fin EXCEPT ![f].step = "diff", ![f].packet = tree[t].packet.content]
  /\ UNCHANGED <<tree, raced>> /\ Keep

\* The packet and the snapshot, with the digests the session holds; the packet is
\* validated against the snapshot, and the worktree's files.
LoadArtifacts(f) ==
  LET t == fin[f].target
      packet == tree[t].packet.content
      snapshot == tree[t].snapshot.content
  IN /\ fin[f].step = "artifacts"
     /\ IF /\ IsSealed(tree[t].packet) /\ IsSealed(tree[t].snapshot) /\ SpacesHold(t)
           /\ Holds(packet, snapshot, tree[t].files)
           /\ packet = fin[f].session.packet /\ snapshot = fin[f].session.state
        THEN fin' = [fin EXCEPT ![f].step = "diff", ![f].packet = packet]
        ELSE Give(f)
     /\ UNCHANGED <<tree, raced>> /\ Keep

\* git diff --cached: what is staged must be within the packet's paths.
ReadDiff(f) ==
  /\ fin[f].step = "diff"
  /\ IF Changed(tree[fin[f].target].index) \subseteq fin[f].packet.allowed
     THEN fin' = [fin EXCEPT ![f].step = "tree"] ELSE Give(f)
  /\ UNCHANGED <<tree, raced>> /\ Keep
\* git write-tree
WriteTree(f) ==
  /\ fin[f].step = "tree"
  /\ fin' = [fin EXCEPT ![f].step = "replace", ![f].tree = tree[fin[f].target].index]
  /\ UNCHANGED <<tree, raced>> /\ Keep
\* replace_read_only
Replace(f) ==
  LET t == fin[f].target IN
  /\ fin[f].step = "replace"
  /\ tree' = [tree EXCEPT ![t].session =
       File([fin[f].session EXCEPT !.tree = fin[f].tree, !.done = TRUE], "sealed")]
  /\ raced' = IF fin[f].moved THEN raced \cup {t} ELSE raced \ {t}
  /\ Give(f) /\ Keep

-----------------------------------------------------------------------------
(* The parent goes on; the maker works. *)

Advance ==
  /\ state.n < MaxChanges
  /\ \E u \in Units \cup {Nothing} : state' = [unit |-> u, n |-> state.n + 1]
  /\ UNCHANGED <<packets, tree, prep, fin, edits, bound, raced>>
\* The index of one worktree moves, or a file or the namespaces of it go, or another packet
\* is put in the place of its own.
Touch(t, next) == tree' = [tree EXCEPT ![t] = next]
Edit ==
  /\ edits < MaxEdits /\ edits' = edits + 1
  /\ \E t \in Targets :
       /\ bound[t] # Nothing
       /\ \/ \E p \in Paths : Touch(t, [tree[t] EXCEPT !.index[p] = 1 - @])
          \/ \E p \in tree[t].files : Touch(t, [tree[t] EXCEPT !.files = @ \ {p}])
          \/ tree[t].spaces /\ Touch(t, [tree[t] EXCEPT !.spaces = FALSE])
          \/ \E packet \in packets \ {tree[t].packet.content} :
               Touch(t, [tree[t] EXCEPT !.packet = File(packet, "sealed")])
       /\ fin' = [f \in Finalizers |->
            IF fin[f].step = "tree" /\ fin[f].target = t /\ tree'[t].index # tree[t].index
            THEN [fin[f] EXCEPT !.moved = TRUE] ELSE fin[f]]
  /\ UNCHANGED <<state, packets, prep, bound, raced>>

Next ==
  \/ MakePacket \/ Advance \/ Edit
  \/ \E p \in Preparers : \/ Load(p) \/ Add(p) \/ MakeSpaces(p) \/ WritePacket(p)
                          \/ WriteSnapshot(p) \/ Recheck(p) \/ WriteSession(p) \/ CleanUp(p) \/ Die(p)
  \/ \E f \in Finalizers : \/ LoadSession(f) \/ LoadArtifacts(f) \/ ReadDiff(f)
                           \/ WriteTree(f) \/ Replace(f)
Spec == Init /\ [][Next]_vars

-----------------------------------------------------------------------------
\* A session that can be finalized was prepared to the end.  It stays where it is, bound
\* to the packet and the state it was made of, with its unit the active one in it; and the
\* tree it is finalized with changes only paths of that packet, unless the index moved
\* between the two readings.
SessionIsBound ==
  \A t \in Targets :
    LET session == tree[t].session.content IN
      /\ IsSealed(tree[t].session) => bound[t] # Nothing
      /\ bound[t] # Nothing =>
           /\ tree[t].here /\ IsSealed(tree[t].session)
           /\ session.packet = bound[t].packet /\ session.state = bound[t].state
           /\ session.state.unit = session.packet.unit
           /\ session.done => Changed(session.tree) \subseteq bound[t].packet.allowed \/ t \in raced
=============================================================================
