-------------------------------- MODULE Goal --------------------------------
(***************************************************************************)
(* The goal verifier and the files it keeps.                               *)
(*                                                                         *)
(* A transition of a unit has to reach GOAL.json, events.jsonl and         *)
(* STATE.json.  commit_goal_transition writes them in that order under the *)
(* lock of STATE's writers, behind a recovery record from which a later    *)
(* --reconcile rolls GOAL back or finishes the projection.  A command dies *)
(* between any two writes, an append may tear, task units share the log    *)
(* and STATE, and deadline stops and failed checkers write GOAL and the    *)
(* log without lock or record.                                             *)
(*                                                                         *)
(* GOAL is the statuses of its units.  STATE is its current unit and the   *)
(* position in the log of the event it was last written for.  Attempts,    *)
(* budgets, checkpoints, handoffs and receipts are choices: they decide    *)
(* which command goes ahead.  Events that are no transition are left out,  *)
(* and so is the activation that verifying a hand-edited goal backfills.   *)
(***************************************************************************)
EXTENDS Integers, Sequences, FiniteSets

CONSTANTS
  Sessions,   \* processes that run the verifier, one command after another
  Units,      \* units of the goal
  Task,       \* the process that runs the task unit log
  TaskUnit,   \* its unit
  NoUnit, NoLock, NoState, NoEvent, NoRecord,
  MaxEvents,  \* bound: no command starts after that many events
  MaxFaults,  \* bound: appends that fail
  MaxCrashes  \* bound: commands killed

ASSUME GoalAssumption ==
  /\ Task \notin Sessions /\ TaskUnit \notin Units /\ NoUnit \notin Units \cup {TaskUnit}
  /\ NoLock \notin Sessions \cup {Task}
  /\ {MaxEvents, MaxFaults, MaxCrashes} \subseteq Nat

VARIABLES
  goal,      \* GOAL.json: the status of each unit
  events,    \* the complete lines of events.jsonl
  tail,      \* the event of its last line, when that has no newline
  state,     \* STATE.json's currentUnit, or NoState
  mirrored,  \* whether the project had a STATE.json when the goal began
  record,    \* .goal-transition-recovery.json
  lock,      \* who holds .STATE.write.lock
  pc, me,    \* each process's next step, each session's locals
  faults, crashes

vars == <<goal, events, tail, state, mirrored, record, lock, pc, me, faults, crashes>>

Open == {"in_progress", "recovery_required"}

\* Events of one transition carry its transaction; tx tells them from others.
Event(u, d, tx) == [unit |-> u, decision |-> d, tx |-> tx]

Target(d) ==
  CASE d \in {"activated", "regressed", "unverified"} -> "in_progress"
    [] d = "verified" -> "verified"
    [] d \in {"blocked", "budget_exhausted"} -> "blocked"

NoMirror == [unit |-> NoUnit, status |-> "none", at |-> 0]
Fresh == [unit |-> NoUnit, cmd |-> "none", snap |-> <<>>, seen |-> NoState,
          to |-> "none", rec |-> NoRecord]

Init ==
  /\ goal = [u \in Units |-> "pending"]
  /\ events = <<>> /\ tail = NoEvent
  /\ mirrored \in BOOLEAN
  /\ state = IF mirrored THEN NoMirror ELSE NoState
  /\ record = NoRecord /\ lock = NoLock
  /\ pc = [p \in Sessions \cup {Task} |-> "idle"]
  /\ me = [s \in Sessions |-> Fresh]
  /\ faults = 0 /\ crashes = 0

Goto(p, step) == pc' = [pc EXCEPT ![p] = step]
\* A command ends: its locals go, and so does the lock it holds.
Leave(s) ==
  /\ Goto(s, "idle")
  /\ me' = [me EXCEPT ![s] = Fresh]
  /\ lock' = IF lock = s THEN NoLock ELSE lock

\* Mutant: only an activation looks at STATE.
RefusedForActivation(u, d) ==
  d = "activated" /\ state # NoState /\ state.unit \notin {NoUnit, u}
  /\ state.status = "in_progress"

\* state_projection dies on another unit that is current in STATE, except that
\* an activation may take over from one that is no longer active.
Refused(u, d) ==
  /\ state # NoState /\ state.unit \notin {NoUnit, u}
  /\ d # "activated" \/ state.status = "in_progress"

\* current_canonical_event: the latest transition of a unit, once it has been
\* activated.
Positions(u) == {i \in DOMAIN events : events[i].unit = u}
Latest(u) == CHOOSE i \in Positions(u) : \A j \in Positions(u) : j <= i
Canonical(u, d) ==
  /\ \E i \in Positions(u) : events[i].decision = "activated"
  /\ events[Latest(u)].decision = d

\* Mutant: the decision is taken for a status.
ProjectedRaw(u, d, n) == [unit |-> u, status |-> d, at |-> n]

\* write_state_projection: STATE's currentUnit after event number n.
Projected(u, d, n) == [unit |-> u, status |-> Target(d), at |-> n]

-----------------------------------------------------------------------------
(* main *)

Commands == {"activate", "block", "exhaust", "verify", "recheck", "deadline", "reconcile"}

\* Mutant: a pending record is not looked for.
BeginAnyway(s) ==
  /\ pc[s] = "idle" /\ Len(events) < MaxEvents
  /\ \E u \in Units, c \in Commands : me' = [me EXCEPT ![s].unit = u, ![s].cmd = c]
  /\ Goto(s, "load")
  /\ UNCHANGED <<goal, events, tail, state, mirrored, record, lock, faults, crashes>>

\* While a recovery record exists every command but --reconcile is refused.
Begin(s) ==
  /\ pc[s] = "idle" /\ Len(events) < MaxEvents
  /\ \E u \in Units, c \in Commands :
       /\ record = NoRecord \/ c = "reconcile"
       /\ me' = [me EXCEPT ![s].unit = u, ![s].cmd = c]
  /\ Goto(s, "load")
  /\ UNCHANGED <<goal, events, tail, state, mirrored, record, lock, faults, crashes>>

Load(s) ==
  /\ pc[s] = "load"
  /\ me' = [me EXCEPT ![s].snap = goal]
  /\ Goto(s, CASE me[s].cmd # "reconcile" -> "preflight"
               [] record # NoRecord -> "recover"
               [] OTHER -> "repair")
  /\ UNCHANGED <<goal, events, tail, state, mirrored, record, lock, faults, crashes>>

-----------------------------------------------------------------------------
(* cmd_activate, cmd_block, cmd_budget_exhausted, cmd_verify and the working   *)
(* deadline                                                                    *)

Allowed(c) ==
  CASE c = "activate" -> {"pending", "blocked", "recovery_required"}
    [] c = "block" -> {"pending", "in_progress", "recovery_required"}
    [] c \in {"verify", "exhaust"} -> {"in_progress"}
    [] c = "deadline" -> Open
    [] c = "recheck" -> {"verified"}

\* The decision a command makes if nothing comes between.
Intends(c) ==
  CASE c = "activate" -> "activated" [] c = "block" -> "blocked"
    [] c = "exhaust" -> "budget_exhausted" [] c = "recheck" -> "regressed"
    [] OTHER -> "verified"

\* Mutant: a paused unit does not count.
OthersIdle(doc, u) == \A v \in Units \ {u} : doc[v] # "in_progress"

OthersClosed(doc, u) == \A v \in Units \ {u} : doc[v] \notin Open

\* The guards on the GOAL that was read, and state_projection.  --deadline-check
\* has no projection; for verification the working deadline is observed first.
\* Activating a unit in progress repairs STATE instead.
Preflight(s) ==
  LET m == me[s]
      d == Intends(m.cmd)
      status == m.snap[m.unit] IN
  /\ pc[s] = "preflight"
  /\ \/ /\ status \in Allowed(m.cmd)
        /\ m.cmd = "activate" => OthersClosed(m.snap, m.unit)
        /\ m.cmd \notin {"exhaust", "deadline"} => ~Refused(m.unit, d)
        /\ me' = [me EXCEPT ![s].seen = state, ![s].to = d]
        /\ \/ m.cmd \in {"activate", "block", "exhaust"} /\ Goto(s, "decide")
           \/ m.cmd \in {"verify", "recheck"} /\ Goto(s, "run")
           \/ m.cmd \in {"verify", "deadline"} /\ Goto(s, "observe")
           \/ /\ m.cmd \in {"verify", "deadline"} /\ status = "in_progress"
              /\ Goto(s, "pause")
        /\ UNCHANGED lock
     \/ /\ m.cmd = "activate" /\ status = "in_progress" /\ ~Refused(m.unit, d)
        /\ Goto(s, "repair") /\ UNCHANGED <<me, lock>>
     \/ Leave(s)
  /\ UNCHANGED <<goal, events, tail, state, mirrored, record, faults, crashes>>

\* An observation of the deadline, or a failed attempt of a bounded unit, is saved
\* without lock or record.  After an attempt the command ends, stops the unit, or
\* first logs that its receipt was not accepted.
SaveGoal(s) ==
  LET m == me[s] IN
  /\ pc[s] \in {"observe", "attempt"}
  /\ goal' = m.snap
  /\ \/ /\ IF pc[s] = "attempt" THEN \E p \in {"decide", "unverified"} : Goto(s, p)
                                 ELSE m.cmd = "verify" /\ Goto(s, "run")
        /\ UNCHANGED <<me, lock>>
     \/ ~(pc[s] = "observe" /\ m.cmd = "verify") /\ Leave(s)
  /\ UNCHANGED <<events, tail, state, mirrored, record, faults, crashes>>

\* observe_working_deadline past the hard limit: saved likewise, then logged.
SavePause(s) ==
  LET m == me[s] IN
  /\ pc[s] = "pause"
  /\ goal' = [m.snap EXCEPT ![m.unit] = "recovery_required"]
  /\ Goto(s, "paused")
  /\ UNCHANGED <<events, tail, state, mirrored, record, lock, me, faults, crashes>>

\* The outcome of the verification command: verified (has_activation_event needs
\* a log that parses), a recheck that regressed or whose receipt was not accepted,
\* a failed attempt, or a bounded stop.
Run(s) ==
  LET m == me[s] IN
  /\ pc[s] = "run"
  /\ \/ /\ tail = NoEvent /\ Goto(s, "commit")
        /\ me' = [me EXCEPT ![s].to = "verified"] /\ UNCHANGED lock
     \/ /\ m.cmd = "recheck" /\ Goto(s, "commit") /\ UNCHANGED lock
        /\ \E d \in {"regressed", "unverified"} : me' = [me EXCEPT ![s].to = d]
     \/ m.cmd = "verify" /\ Goto(s, "attempt") /\ UNCHANGED <<me, lock>>
     \/ Goto(s, "decide") /\ UNCHANGED <<me, lock>>
     \/ Leave(s)
  /\ UNCHANGED <<goal, events, tail, state, mirrored, record, faults, crashes>>

\* Go ahead with the command, or stop the unit (bounded_stop, with a preflight
\* of its own): its policy or its oracle changed, or its budget is used up.
Decide(s) ==
  LET m == me[s] IN
  /\ pc[s] = "decide"
  /\ \/ m.cmd \in {"activate", "block"} /\ Goto(s, "commit") /\ UNCHANGED <<me, lock>>
     \/ /\ m.cmd # "block" /\ ~Refused(m.unit, "blocked")
        /\ Goto(s, "commit") /\ UNCHANGED lock
        /\ \E d \in {"blocked", "budget_exhausted"} :
             /\ m.cmd = "activate" => d = "blocked"
             /\ m.cmd = "exhaust" => d = "budget_exhausted"
             /\ me' = [me EXCEPT ![s].seen = state, ![s].to = d]
     \/ Leave(s)
  /\ UNCHANGED <<goal, events, tail, state, mirrored, record, faults, crashes>>

\* append_event refuses a partial tail.  When it fails, nothing, part of the
\* line or all of it may be in the file.
AppendFails(e) ==
  \/ tail # NoEvent /\ UNCHANGED <<events, tail, faults>>
  \/ /\ tail = NoEvent /\ faults < MaxFaults /\ faults' = faults + 1
     /\ \/ UNCHANGED <<events, tail>>
        \/ tail' = e /\ UNCHANGED events
        \/ events' = Append(events, e) /\ UNCHANGED tail
Appends(e) == tail = NoEvent /\ events' = Append(events, e) /\ UNCHANGED <<tail, faults>>

AppendPlain(s) ==
  LET d == IF pc[s] = "paused" THEN "budget_exhausted" ELSE "unverified"
      e == Event(me[s].unit, d, FALSE) IN
  /\ pc[s] \in {"paused", "unverified"}
  /\ \/ Appends(e) /\ pc[s] = "unverified" /\ Goto(s, "decide") /\ UNCHANGED <<me, lock>>
     \/ Appends(e) /\ pc[s] = "paused" /\ Leave(s)
     \/ AppendFails(e) /\ Leave(s)
  /\ UNCHANGED <<goal, state, mirrored, record, crashes>>

-----------------------------------------------------------------------------
(* commit_goal_transition *)

\* Under the lock: STATE must be as the preflight saw it and no record pending;
\* then the record is written.
Prepare(s) ==
  LET m == me[s]
      r == [event |-> Event(m.unit, m.to, TRUE), before |-> goal,
            after |-> [m.snap EXCEPT ![m.unit] = Target(m.to)],
            length |-> Len(events), tail |-> tail] IN
  /\ pc[s] = "commit"
  /\ \/ /\ lock = NoLock /\ state = m.seen /\ record = NoRecord
        /\ lock' = s /\ record' = r
        /\ me' = [me EXCEPT ![s].rec = r]
        /\ Goto(s, "write_goal")
     \/ /\ lock # NoLock \/ state # m.seen \/ record # NoRecord
        /\ Leave(s) /\ UNCHANGED record
  /\ UNCHANGED <<goal, events, tail, state, mirrored, faults, crashes>>

WriteGoal(s) ==
  /\ pc[s] = "write_goal"
  /\ goal' = me[s].rec.after
  /\ Goto(s, "append")
  /\ UNCHANGED <<events, tail, state, mirrored, record, lock, me, faults, crashes>>

AppendEvent(s) ==
  LET e == me[s].rec.event IN
  /\ pc[s] = "append"
  /\ \/ Appends(e) /\ Goto(s, "write_state")
     \/ AppendFails(e) /\ Goto(s, "recover")
  /\ UNCHANGED <<goal, state, mirrored, record, lock, me, crashes>>

\* write_state_projection takes the lock unless it is held, and compares STATE
\* with what the projection was made from.
WriteState(s) ==
  LET m == me[s]
      e == m.rec.event IN
  /\ pc[s] = "write_state"
  /\ \/ /\ m.seen = NoState
        /\ Goto(s, "clear") /\ UNCHANGED <<state, me, lock>>
     \/ /\ m.seen # NoState /\ state = m.seen /\ lock \in {NoLock, s}
        /\ state' = Projected(e.unit, e.decision, m.rec.length + 1)
        /\ Goto(s, "clear") /\ UNCHANGED <<me, lock>>
     \/ /\ m.seen # NoState
        /\ state # m.seen \/ lock \notin {NoLock, s}
        /\ Leave(s) /\ UNCHANGED state
  /\ UNCHANGED <<goal, events, tail, mirrored, record, faults, crashes>>

\* The transition is complete.  A recheck without an accepted receipt may go on to
\* stop the unit it has reopened.
Clear(s) ==
  LET m == me[s] IN
  /\ pc[s] = "clear"
  /\ record' = NoRecord
  /\ \/ Leave(s)
     \/ /\ m.cmd = "recheck" /\ m.to = "unverified" /\ goal = m.rec.after
        /\ me' = [me EXCEPT ![s].snap = m.rec.after, ![s].rec = NoRecord]
        /\ lock' = NoLock /\ Goto(s, "decide")
  /\ UNCHANGED <<goal, events, tail, state, mirrored, faults, crashes>>

-----------------------------------------------------------------------------
(* recover_goal_transition and cmd_reconcile *)

\* Mutant: recovery rolls back without reading the log.
NotLandedUnread(r) == tail = NoEvent

NotLanded(r) == Len(events) = r.length
Landed(r) == Len(events) = r.length + 1 /\ events[Len(events)] = r.event

\* What recovery asks of the files: a log that parses and is, byte for byte, what
\* the record says, with or without its event; that event then the canonical one;
\* a GOAL that is one of the record's two; a STATE that is not another unit's.
Recoverable(r) ==
  /\ tail = NoEvent /\ r.tail = NoEvent
  /\ NotLanded(r) \/ Landed(r)
  /\ goal \in {r.before, r.after}
  /\ Landed(r) => Canonical(r.event.unit, r.event.decision)
  /\ ~Refused(r.event.unit, r.event.decision)

\* Inline after a failed append, under the lock; or as --reconcile, without it.
\* A verified transition is finished only with a receipt.
Recover(s) ==
  LET m == me[s]
      r == record IN
  /\ pc[s] = "recover"
  /\ \/ /\ r # NoRecord /\ r.event.unit = m.unit /\ Recoverable(r) /\ NotLanded(r)
        /\ me' = [me EXCEPT ![s].rec = r]
        /\ Goto(s, IF goal = r.after THEN "roll_back" ELSE "clear")
        /\ UNCHANGED <<goal, lock>>
     \/ /\ r # NoRecord /\ r.event.unit = m.unit /\ Recoverable(r) /\ Landed(r)
        /\ goal' = r.after
        /\ me' = [me EXCEPT ![s].rec = r, ![s].seen = state]
        /\ Goto(s, "write_state") /\ UNCHANGED lock
     \/ Leave(s) /\ UNCHANGED goal
  /\ UNCHANGED <<events, tail, state, mirrored, record, faults, crashes>>

RollBack(s) ==
  /\ pc[s] = "roll_back"
  /\ goal' = me[s].rec.before
  /\ Goto(s, "clear")
  /\ UNCHANGED <<events, tail, state, mirrored, record, lock, me, faults, crashes>>

\* Without a record, STATE is repaired from the canonical event: of the unit in
\* progress by --activate, of a verified one (with a receipt) by --reconcile.
Repair(s) ==
  LET m == me[s]
      d == IF m.cmd = "activate" THEN "activated" ELSE "verified"
      fits == state.unit = m.unit /\ state.status = Target(d) IN
  /\ pc[s] = "repair"
  /\ \/ /\ lock = NoLock /\ m.snap[m.unit] = Target(d)
        /\ tail = NoEvent /\ Canonical(m.unit, d)
        /\ state # NoState /\ ~Refused(m.unit, d) /\ ~fits
        /\ state' = Projected(m.unit, d, Latest(m.unit))
     \/ UNCHANGED state
  /\ Leave(s)
  /\ UNCHANGED <<goal, events, tail, mirrored, record, faults, crashes>>

-----------------------------------------------------------------------------
(* The task unit log, the operator, and crashes *)

\* Under the lock a task appends its event and then writes STATE.  activate
\* refuses while STATE has another unit in progress; the terminal event needs an
\* open cycle, or has landed already and left STATE behind.
TaskAppend ==
  LET open == Canonical(TaskUnit, "activated")
      foreign == state # NoState /\ state.unit \notin {NoUnit, TaskUnit} IN
  /\ pc[Task] = "idle" /\ lock = NoLock /\ Len(events) < MaxEvents
  /\ \/ \E d \in {"activated", "verified"} :
          LET e == Event(TaskUnit, d, FALSE) IN
          /\ d = "activated" => ~(foreign /\ state.status = "in_progress")
          /\ d = "verified" => open /\ tail = NoEvent
          /\ \/ Appends(e) /\ lock' = Task /\ Goto(Task, "task_state")
             \/ AppendFails(e) /\ UNCHANGED <<lock, pc>>
     \/ /\ Canonical(TaskUnit, "verified") /\ tail = NoEvent
        /\ state # NoState /\ state.unit = TaskUnit /\ state.status = "in_progress"
        /\ \A i \in Positions(TaskUnit) : events[i].decision = "activated" => i <= state.at
        /\ lock' = Task /\ Goto(Task, "task_state")
        /\ UNCHANGED <<events, tail, faults>>
  /\ UNCHANGED <<goal, state, mirrored, record, me, crashes>>

TaskState ==
  LET n == Latest(TaskUnit)
      d == events[n].decision IN
  /\ pc[Task] = "task_state"
  /\ state' =
       IF d = "activated" \/ (state # NoState /\ state.unit = TaskUnit)
       THEN Projected(TaskUnit, d, n) ELSE state
  /\ Goto(Task, "idle") /\ lock' = NoLock
  /\ UNCHANGED <<goal, events, tail, mirrored, record, me, faults, crashes>>

\* The operator repairs a partial last line, by cutting or completing it.
RepairTail ==
  /\ tail # NoEvent /\ \A p \in DOMAIN pc : pc[p] = "idle"
  /\ tail' = NoEvent
  /\ \/ UNCHANGED events
     \/ events' = Append(events, tail)
  /\ UNCHANGED <<goal, state, mirrored, record, lock, pc, me, faults, crashes>>

\* A process is killed; the system drops its lock.  A write that raises ends its
\* command the same way.
Crash(p) ==
  /\ pc[p] # "idle" /\ crashes < MaxCrashes
  /\ crashes' = crashes + 1
  /\ Goto(p, "idle")
  /\ me' = [s \in Sessions |-> IF s = p THEN Fresh ELSE me[s]]
  /\ lock' = IF lock = p THEN NoLock ELSE lock
  /\ UNCHANGED <<goal, events, tail, state, mirrored, record, faults>>

Next ==
  \/ \E s \in Sessions :
       \/ Begin(s) \/ Load(s) \/ Preflight(s) \/ SaveGoal(s) \/ SavePause(s)
       \/ Run(s) \/ Decide(s) \/ AppendPlain(s)
       \/ Prepare(s) \/ WriteGoal(s) \/ AppendEvent(s) \/ WriteState(s) \/ Clear(s)
       \/ Recover(s) \/ RollBack(s) \/ Repair(s)
  \/ TaskAppend \/ TaskState \/ RepairTail
  \/ \E p \in Sessions \cup {Task} : Crash(p)

Spec == Init /\ [][Next]_vars

-----------------------------------------------------------------------------
(* Properties *)

Statuses == {"pending", "in_progress", "recovery_required", "verified", "blocked"}
Documents == [Units -> Statuses]
Decisions == {"activated", "verified", "regressed", "unverified", "blocked", "budget_exhausted"}
Events == [unit : Units \cup {TaskUnit}, decision : Decisions, tx : BOOLEAN]
Mirrors == [unit : Units \cup {TaskUnit, NoUnit},
            status : {"none", "in_progress", "verified", "blocked"}, at : Nat]
Records == [event : Events, before : Documents, after : Documents,
            length : Nat, tail : Events \cup {NoEvent}]
Steps == {"idle", "load", "preflight", "observe", "pause", "paused", "run", "attempt",
          "unverified", "decide", "commit", "write_goal", "append", "write_state",
          "clear", "recover", "roll_back", "repair"}

\* What stands for a missing file is none of its contents.
ASSUME SentinelAssumption ==
  NoState \notin Mirrors /\ NoEvent \notin Events /\ NoRecord \notin Records

\* What the files and the processes hold.
TypeOK ==
  /\ goal \in Documents
  /\ events \in Seq(Events) /\ tail \in Events \cup {NoEvent}
  /\ state \in Mirrors \cup {NoState} /\ mirrored \in BOOLEAN
  /\ record \in Records \cup {NoRecord}
  /\ lock \in Sessions \cup {Task, NoLock}
  /\ pc \in [Sessions \cup {Task} -> Steps \cup {"task_state"}]
  /\ me \in [Sessions -> [unit : Units \cup {NoUnit}, cmd : Commands \cup {"none"},
                          snap : Documents \cup {<<>>}, seen : Mirrors \cup {NoState},
                          to : Decisions \cup {"none"}, rec : Records \cup {NoRecord}]]
  /\ faults \in 0..MaxFaults /\ crashes \in 0..MaxCrashes

Idle(p) == pc[p] = "idle"

\* With no recovery record, GOAL says of each unit what the last of its transitions
\* in the log says, or that the deadline has paused it since: whatever write a
\* command died at, recovery has taken both back or both forward.
TransitionIsWhole ==
  record = NoRecord =>
    \A u \in Units :
      LET mine == {i \in Positions(u) : events[i].tx}
          last == CHOOSE i \in mine : \A j \in mine : j <= i IN
      IF mine = {} THEN goal[u] = "pending"
      ELSE \/ goal[u] = Target(events[last].decision)
           \/ goal[u] = "recovery_required" /\ Target(events[last].decision) = "in_progress"

\* Where the project mirrors its work in STATE.json, STATE and GOAL agree whenever
\* no command and no recovery is under way: an open unit is STATE's, so there is
\* one, and no task is in progress beside it; what STATE says of a unit is so.
MirrorFollows ==
  mirrored /\ record = NoRecord /\ (\A p \in DOMAIN pc : Idle(p)) =>
    /\ \A u \in Units : goal[u] \in Open => state.unit = u
    /\ \A u \in Units : state.unit = u =>
         IF goal[u] \in Open THEN state.status = "in_progress" ELSE state.status = goal[u]

\* While a transition is unfinished, GOAL is what its record says it was or will be:
\* no other command changes it, so the record can always decide.
InterruptedIsFrozen == [][record # NoRecord => goal' \in {record.before, record.after}]_vars

\* An interrupted transition can be finished or rolled back: recovery accepts the
\* files as the command left them, unless the log was torn or has grown since, or
\* STATE has gone to another unit ("Finish or roll back one interrupted
\* Goal/event/STATE transaction", recover_goal_transition).
InterruptedIsRecoverable ==
  /\ record # NoRecord /\ \A p \in DOMAIN pc : Idle(p)
  /\ tail = NoEvent /\ record.tail = NoEvent
  /\ NotLanded(record) \/ Landed(record)
  /\ ~Refused(record.event.unit, record.event.decision)
  => Recoverable(record)

\* A unit has the status its transition gives it from the moment its event is in
\* the log, wherever GOAL.json is by then.
LandedAt(r) == Len(events) > r.length /\ events[r.length + 1] = r.event
Effective == IF record = NoRecord THEN goal
             ELSE IF LandedAt(record) THEN record.after ELSE record.before
Ledger == INSTANCE GoalLedger WITH log <- events, status <- Effective

\* Files, record and recovery together implement transitions that are atomic over
\* GOAL.json and events.jsonl.
LedgerSpec == Ledger!Spec
=============================================================================
