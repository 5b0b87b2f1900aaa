----------------------------- MODULE GoalProofs -----------------------------
(***************************************************************************)
(* The goal verifier for any units, sessions, events, failed appends and   *)
(* crashes, while commands do not overlap.  Commands that do overlap are   *)
(* not serialized by the program (a deadline stop saves the GOAL it has    *)
(* read without a lock), and none of this holds of them.                   *)
(*                                                                         *)
(* The inductive invariant says what a command may rely on at each of its  *)
(* steps (SessionInv), what a recovery record and a partial line of the    *)
(* log say of the documents (RecordInv, TailInv), and what STATE.json says *)
(* of GOAL.json as recovery would leave it (MirrorInv, TaskInv).           *)
(*                                                                         *)
(* The last two sections are about the calls of a reviewer: the processes  *)
(* of one (ProcessTree) and the output of its client (ReviewTransport),    *)
(* each an instance of its own.                                            *)
(***************************************************************************)
EXTENDS Goal, Integers, SequenceTheorems, FiniteSetTheorems, WellFoundedInduction, TLAPS

\* Sessions run their commands one after another.
OneAtATime == \A s, t \in Sessions : ~Idle(s) /\ ~Idle(t) => s = t

\* A command that has read GOAL and not yet written anything.
Reading == {"preflight", "observe", "pause", "run", "attempt", "unverified", "decide",
            "commit", "repair"}
\* A command in the middle of its transition.
Writing == {"write_goal", "append", "write_state", "roll_back", "clear"}

\* STATE as the preflight saw it lets the command project its decision d.
Fits(m, d) ==
  mirrored =>
    /\ m.seen # NoState
    /\ \/ m.seen.unit \in {NoUnit, m.unit}
       \/ d = "activated" /\ m.seen.status # "in_progress"

\* The transition a command has decided on may start from the GOAL it has read.
Ready(m) ==
  /\ m.to \in Decisions
  /\ m.snap[m.unit] \in Ledger!Source(m.to)
  /\ m.to = "activated" => OthersClosed(m.snap, m.unit)
  /\ Fits(m, m.to)

\* The tail of the log is not the line of a transition.
PlainTail == tail # NoEvent => ~tail.tx

\* What a command has read, while it has written nothing.
ReadInv(s) ==
  LET m == me[s] IN
  /\ pc[s] = "load" => m.cmd = "reconcile" \/ record = NoRecord
  /\ pc[s] \in Reading => record = NoRecord /\ m.snap = goal
  /\ pc[s] = "preflight" => m.cmd # "reconcile"
  /\ pc[s] \in {"observe", "pause", "run", "attempt", "unverified"} =>
       m.cmd \in {"verify", "recheck", "deadline"} /\ goal[m.unit] \in Allowed(m.cmd)
  /\ pc[s] = "pause" => goal[m.unit] = "in_progress"
  /\ pc[s] \in {"attempt", "unverified"} => m.cmd = "verify"
  /\ pc[s] = "run" => m.cmd \in {"verify", "recheck"}
  /\ pc[s] \in {"observe", "run"} /\ m.cmd # "deadline" => Fits(m, "verified")
  /\ pc[s] = "decide" /\ m.cmd \in {"activate", "block"} => Ready(m)
  /\ pc[s] = "commit" => Ready(m)
  /\ pc[s] = "paused" => record = NoRecord /\ goal[m.unit] = "recovery_required"

\* How far the documents have got, while a command is in its transition.
WriteInv(s) ==
  LET m == me[s] IN
  /\ pc[s] \in Writing => record # NoRecord /\ m.rec = record /\ PlainTail
  /\ pc[s] \in {"write_goal", "append"} => lock = s /\ Len(events) = record.length
  /\ pc[s] \in Writing \cup {"recover"} /\ m.cmd # "reconcile" => lock = s
  /\ pc[s] \in {"write_goal", "append", "write_state"} /\ mirrored => m.seen # NoState
  /\ pc[s] = "append" => goal = record.after
  /\ pc[s] = "write_state" => LandedAt(record) /\ goal = record.after
  /\ pc[s] = "roll_back" => ~LandedAt(record)
  /\ pc[s] = "clear" => goal = Effective

SessionInv(s) ==
  ~Idle(s) => /\ me[s].unit \in Units /\ me[s].cmd \in Commands
              /\ ReadInv(s) /\ WriteInv(s)

\* A record's two documents differ by its transition, which may start from the
\* first; GOAL is one of them.
RecordInv ==
  record # NoRecord =>
    LET e == record.event IN
    /\ e.tx /\ e.unit \in Units /\ record.length <= Len(events)
    /\ record.after = [record.before EXCEPT ![e.unit] = Target(e.decision)]
    /\ record.before[e.unit] \in Ledger!Source(e.decision)
    /\ mirrored \/ e.decision = "activated" => OthersClosed(record.before, e.unit)
    /\ goal \in {record.before, record.after}

\* A partial line of a transition is the line its record waits for; any other of a
\* unit is about a unit that is still open.
TailInv ==
  tail # NoEvent =>
    IF tail.tx THEN record # NoRecord /\ tail = record.event /\ Len(events) = record.length
               ELSE tail.unit \in Units => Effective[tail.unit] \in Open

\* STATE agrees with a document.
Follows(doc) ==
  \A u \in Units :
    /\ doc[u] \in Open => state.unit = u
    /\ state.unit = u => IF doc[u] \in Open THEN state.status = "in_progress"
                                             ELSE state.status = doc[u]

\* STATE lags behind only between the event and the end of its command.
InSync == record = NoRecord \/ ~LandedAt(record) \/ \E s \in Sessions : pc[s] = "clear"
MirrorInv == mirrored => state # NoState /\ (InSync => Follows(Effective))

\* A task about to write STATE for its activation has no open unit beside it.
TaskInv ==
  pc[Task] = "task_state" =>
    /\ lock = Task
    /\ Positions(TaskUnit) # {}
    /\ mirrored /\ InSync /\ events[Latest(TaskUnit)].decision = "activated" =>
         \A u \in Units : Effective[u] \notin Open

\* Events of a unit have a last one.
LastInv ==
  \A u \in Units \cup {TaskUnit} :
    Positions(u) # {} => \E i \in Positions(u) : \A j \in Positions(u) : j <= i

GoalInv ==
  /\ TypeOK /\ (\A s \in Sessions : pc[s] # "task_state")
  /\ \A s \in Sessions : SessionInv(s)
  /\ RecordInv /\ TailInv /\ MirrorInv /\ TaskInv /\ LastInv

-----------------------------------------------------------------------------
(* Operators of the model *)

LEMMA Targets ==
  ASSUME NEW d \in Decisions
  PROVE  /\ Target(d) \in {"in_progress", "verified", "blocked"}
         /\ Ledger!Target(d) = Target(d)
         /\ d \in Ledger!Transitions
BY DEF Decisions, Target, Ledger!Target, Ledger!Transitions

LEMMA Sentinels ==
  /\ NoState \notin Mirrors /\ NoEvent \notin Events /\ NoRecord \notin Records
  /\ Task \notin Sessions /\ TaskUnit \notin Units /\ NoUnit \notin Units /\ NoUnit # TaskUnit
  /\ NoLock \notin Sessions /\ NoLock # Task
  /\ MaxEvents \in Nat /\ MaxFaults \in Nat /\ MaxCrashes \in Nat
BY GoalAssumption, SentinelAssumption

\* The documents of a well-typed record, and what recovery would make of them.
LEMMA Documented ==
  ASSUME TypeOK
  PROVE  /\ Effective \in Documents
         /\ record # NoRecord => /\ record \in Records
                                 /\ record.event \in Events
                                 /\ record.before \in Documents
                                 /\ record.after \in Documents
                                 /\ record.length \in Nat
BY DEF TypeOK, Effective, Records

\* A local record, and an update of one of its fields.
Local == [unit : Units \cup {NoUnit}, cmd : Commands \cup {"none"},
          snap : Documents \cup {<<>>}, seen : Mirrors \cup {NoState},
          to : Decisions \cup {"none"}, rec : Records \cup {NoRecord}]

LEMMA FreshIsLocal == Fresh \in Local
BY DEF Fresh, Local

\* An event that is appended is its unit's last, and another unit's stays what it was.
LEMMA AppendLast ==
  ASSUME TypeOK, LastInv, NEW e \in Events, events' = Append(events, e)
  PROVE  /\ events' \in Seq(Events) /\ LastInv'
         /\ Len(events') = Len(events) + 1
         /\ events'[Len(events) + 1] = e
         /\ \A i \in DOMAIN events : i \in DOMAIN events' /\ events'[i] = events[i]
         /\ Positions(e.unit)' = Positions(e.unit) \cup {Len(events) + 1}
         /\ Latest(e.unit)' = Len(events) + 1
         /\ \A u : u # e.unit => Positions(u)' = Positions(u) /\ Latest(u)' = Latest(u)
<1>1. events \in Seq(Events) /\ DOMAIN events = 1..Len(events) /\ Len(events) \in Nat
  BY DEF TypeOK
<1>2. /\ events' \in Seq(Events) /\ Len(events') = Len(events) + 1
      /\ DOMAIN events' = 1..(Len(events) + 1)
      /\ events'[Len(events) + 1] = e
      /\ \A i \in DOMAIN events : i \in DOMAIN events' /\ events'[i] = events[i]
  BY <1>1
<1>3. /\ Positions(e.unit)' = Positions(e.unit) \cup {Len(events) + 1}
      /\ \A u : u # e.unit => Positions(u)' = Positions(u)
  BY <1>1, <1>2 DEF Positions
<1>4. \A u : u # e.unit => Latest(u)' = Latest(u)
  BY <1>3 DEF Latest
<1>5. \A j \in Positions(e.unit)' : j <= Len(events) + 1
  BY <1>1, <1>3 DEF Positions
<1>6. Latest(e.unit)' = Len(events) + 1
  <2> DEFINE P == Positions(e.unit)'
             n == Len(events) + 1
  <2>1. n \in P /\ (\A j \in P : j <= n) /\ P \subseteq Nat
    BY <1>1, <1>3, <1>5 DEF Positions
  <2>2. \A i \in P : (\A j \in P : j <= i) => i = n
    <3> HIDE DEF P
    <3> QED BY <1>1, <2>1
  <2> HIDE DEF P
  <2>3. (CHOOSE i \in P : \A j \in P : j <= i) = n
    BY <2>1, <2>2
  <2> QED BY <2>3 DEF P, Latest
<1>7. LastInv'
  <2> SUFFICES ASSUME NEW u \in Units \cup {TaskUnit}, Positions(u)' # {}
               PROVE  \E i \in Positions(u)' : \A j \in Positions(u)' : j <= i
    BY DEF LastInv
  <2>1. CASE u = e.unit
    BY <2>1, <1>3, <1>5
  <2>2. CASE u # e.unit
    BY <2>2, <1>3 DEF LastInv
  <2> QED BY <2>1, <2>2
<1> QED BY <1>2, <1>3, <1>4, <1>6, <1>7

\* The last event of a unit that has one is in the log.
LEMMA LatestIsLogged ==
  ASSUME TypeOK, LastInv, NEW u \in Units \cup {TaskUnit}, Positions(u) # {}
  PROVE  /\ Latest(u) \in Positions(u) /\ Latest(u) \in Nat
         /\ events[Latest(u)] \in Events
<1>1. Latest(u) \in Positions(u)
  BY DEF LastInv, Latest
<1> QED BY <1>1 DEF Positions, TypeOK

-----------------------------------------------------------------------------
(* What a step of one session leaves to be shown *)

\* The other sessions are idle before and after.
Alone(s) == \A t \in Sessions \ {s} : Idle(t) /\ Idle(t)'

LEMMA Solitude ==
  ASSUME TypeOK, NEW s \in Sessions, NEW x, OneAtATime, OneAtATime', Goto(s, x),
         ~Idle(s) \/ x # "idle"
  PROVE  /\ Alone(s) /\ pc'[s] = x /\ pc'[Task] = pc[Task]
         /\ \A p \in Sessions \cup {Task} : p # s => pc'[p] = pc[p]
BY Sentinels DEF TypeOK, OneAtATime, Alone, Goto, Idle

\* Types of the processes after a step of s that goes on.
LEMMA GoOn ==
  ASSUME TypeOK, NEW s \in Sessions, NEW x \in Steps, Goto(s, x),
         NEW m \in Local, me' = [me EXCEPT ![s] = m]
  PROVE  /\ pc' \in [Sessions \cup {Task} -> Steps \cup {"task_state"}]
         /\ me' \in [Sessions -> Local]
         /\ me'[s] = m
BY DEF TypeOK, Goto, Local

LEMMA Leaves ==
  ASSUME TypeOK, NEW s \in Sessions, Leave(s)
  PROVE  /\ pc' \in [Sessions \cup {Task} -> Steps \cup {"task_state"}]
         /\ me' \in [Sessions -> Local]
         /\ lock' \in Sessions \cup {Task, NoLock}
         /\ lock' = lock \/ (lock = s /\ lock' = NoLock)
         /\ Idle(s)' /\ SessionInv(s)'
<1>1. "idle" \in Steps /\ Fresh \in Local
  BY FreshIsLocal DEF Steps
<1> QED BY <1>1 DEF Leave, Goto, TypeOK, Idle, SessionInv, Local

\* The files of a step that leaves them alone, or only changes locals and the lock.
LEMMA LocalFrame ==
  ASSUME GoalInv, NEW s \in Sessions, Alone(s),
         UNCHANGED <<goal, events, tail, state, mirrored, record>>,
         lock' = lock \/ (lock = s /\ lock' = NoLock),
         pc'[Task] \in {pc[Task], "idle"},
         pc'[s] = "clear" => ~LandedAt(record) \/ ~mirrored
  PROVE  RecordInv' /\ TailInv' /\ MirrorInv' /\ TaskInv' /\ LastInv'
         /\ Effective' = Effective
<1>1. Effective' = Effective
  BY DEF Effective, LandedAt
<1>2. mirrored /\ InSync' => InSync
  BY DEF InSync, Alone, Idle, LandedAt
<1>3. RecordInv' /\ LastInv'
  BY DEF GoalInv, RecordInv, LastInv, Positions
<1>4. TailInv'
  BY <1>1 DEF GoalInv, TailInv
<1>5. MirrorInv'
  BY <1>1, <1>2 DEF GoalInv, MirrorInv, Follows
<1>6. TaskInv'
  <2>1. Positions(TaskUnit)' = Positions(TaskUnit) /\ Latest(TaskUnit)' = Latest(TaskUnit)
    BY DEF Positions, Latest
  <2> QED BY <1>1, <1>2, <2>1, Sentinels DEF GoalInv, TaskInv
<1> QED BY <1>1, <1>3, <1>4, <1>5, <1>6

\* What is left of the invariant after a step of s alone.
LEMMA Gather ==
  ASSUME NEW s \in Sessions, Alone(s), TypeOK', SessionInv(s)', pc'[s] # "task_state",
         RecordInv', TailInv', MirrorInv', TaskInv', LastInv'
  PROVE  GoalInv'
BY DEF Alone, GoalInv, SessionInv, Idle

LEMMA LeaveStep ==
  ASSUME GoalInv, NEW s \in Sessions, Alone(s), Leave(s),
         UNCHANGED <<goal, events, tail, state, mirrored, record, faults, crashes>>
  PROVE  GoalInv' /\ Effective' = Effective
<1>1. TypeOK /\ pc'[s] = "idle" /\ pc'[Task] = pc[Task]
  BY Sentinels DEF GoalInv, Leave, Goto, TypeOK
<1>2. TypeOK'
  BY <1>1, Leaves DEF TypeOK, Local
<1>3. RecordInv' /\ TailInv' /\ MirrorInv' /\ TaskInv' /\ LastInv' /\ Effective' = Effective
  BY <1>1, Leaves, LocalFrame
<1> QED BY <1>1, <1>2, <1>3, Leaves, Gather

\* A step that goes on without touching a file.
LEMMA LocalStep ==
  ASSUME GoalInv, NEW s \in Sessions, NEW x \in Steps, Goto(s, x), Alone(s),
         NEW m \in Local, me' = [me EXCEPT ![s] = m],
         x = "clear" => ~LandedAt(record) \/ ~mirrored,
         UNCHANGED <<goal, events, tail, state, mirrored, record, lock, faults, crashes>>,
         SessionInv(s)'
  PROVE  GoalInv' /\ Effective' = Effective
<1>1. TypeOK /\ pc'[s] = x /\ pc'[Task] = pc[Task] /\ x # "task_state"
  BY Sentinels DEF GoalInv, Goto, TypeOK, Steps
<1>2. TypeOK'
  BY <1>1, GoOn DEF TypeOK, Local
<1>3. RecordInv' /\ TailInv' /\ MirrorInv' /\ TaskInv' /\ LastInv' /\ Effective' = Effective
  BY <1>1, LocalFrame
<1> QED BY <1>1, <1>2, <1>3, Gather

-----------------------------------------------------------------------------
(* Steps before anything is written *)

\* A step of a command keeps the invariant, and is one of the ledger or none.
Kept == GoalInv' /\ [Ledger!Next]_<<Effective, events>>

LEMMA Stutters ==
  ASSUME GoalInv', Effective' = Effective, UNCHANGED events
  PROVE  Kept
BY DEF Kept

LEMMA BeginStep ==
  ASSUME GoalInv, OneAtATime, OneAtATime', NEW s \in Sessions, Begin(s)
  PROVE  Kept
<1>1. PICK u \in Units, c \in Commands :
        /\ record = NoRecord \/ c = "reconcile"
        /\ me' = [me EXCEPT ![s].unit = u, ![s].cmd = c]
  BY DEF Begin
<1> DEFINE m == [me[s] EXCEPT !.unit = u, !.cmd = c]
<1>2. m \in Local /\ me' = [me EXCEPT ![s] = m] /\ "load" \in Steps
  <2>1. me \in [Sessions -> Local]
    BY DEF GoalInv, TypeOK, Local
  <2>2. m \in Local
    BY <2>1 DEF Local
  <2> QED BY <1>1, <2>1, <2>2 DEF Steps, Local
<1>3. Alone(s) /\ pc'[s] = "load"
  BY Solitude DEF Begin, GoalInv
<1>4. SessionInv(s)'
  <2>1. me'[s].unit = u /\ me'[s].cmd = c
    BY <1>2 DEF GoalInv, TypeOK, Local
  <2> QED BY <1>1, <1>3, <2>1 DEF Begin, SessionInv, ReadInv, WriteInv, Reading, Writing
<1> HIDE DEF m
<1> QED BY <1>2, <1>3, <1>4, LocalStep, Stutters DEF Begin

LEMMA LoadStep ==
  ASSUME GoalInv, OneAtATime, OneAtATime', NEW s \in Sessions, Load(s)
  PROVE  Kept
<1> DEFINE m == [me[s] EXCEPT !.snap = goal]
           x == CASE me[s].cmd # "reconcile" -> "preflight"
                  [] record # NoRecord -> "recover"
                  [] OTHER -> "repair"
<1>1. m \in Local /\ me' = [me EXCEPT ![s] = m]
  BY DEF GoalInv, TypeOK, Local, Load
<1>2. x \in {"preflight", "recover", "repair"} /\ x \in Steps
  BY DEF Steps
<1>3. Alone(s) /\ pc'[s] = x
  BY <1>2, Solitude DEF Load, GoalInv
<1>4. SessionInv(s)'
  <2>1. /\ me'[s].unit = me[s].unit /\ me'[s].cmd = me[s].cmd /\ me'[s].snap = goal
        /\ me[s].unit \in Units /\ me[s].cmd \in Commands
        /\ me[s].cmd = "reconcile" \/ record = NoRecord
    BY <1>1 DEF GoalInv, TypeOK, Local, Load, SessionInv, ReadInv, Idle
  <2>2. x = "preflight" => me[s].cmd # "reconcile"
    OBVIOUS
  <2>3. x # "recover" => record = NoRecord
    BY <2>1
  <2>4. me[s].cmd # "reconcile" => x = "preflight"
    BY <2>1
  <2> HIDE DEF x
  <2> QED BY <1>2, <1>3, <2>1, <2>2, <2>3, <2>4
       DEF Load, SessionInv, ReadInv, WriteInv, Reading, Writing
<1>5. pc[s] = "load" /\ Goto(s, x)
  BY DEF Load
<1> HIDE DEF m, x
<1> QED BY <1>1, <1>2, <1>3, <1>4, <1>5, LocalStep, Stutters DEF Load

\* What the preflight has compared with STATE.
LEMMA NotRefused ==
  ASSUME GoalInv, NEW u \in Units, NEW d, ~Refused(u, d),
         NEW m, m.unit = u, m.seen = state
  PROVE  Fits(m, d)
BY DEF GoalInv, MirrorInv, Refused, Fits

LEMMA PreflightStep ==
  ASSUME GoalInv, OneAtATime, OneAtATime', NEW s \in Sessions, Preflight(s)
  PROVE  Kept
<1>0. /\ pc[s] = "preflight" /\ me[s] \in Local /\ me[s].unit \in Units
      /\ me[s].cmd \in Commands \ {"reconcile"} /\ me[s].snap = goal /\ record = NoRecord
      /\ goal \in Documents
  BY DEF Preflight, GoalInv, SessionInv, ReadInv, Reading, Idle, TypeOK, Local
<1> DEFINE m == me[s]
           d == Intends(m.cmd)
           n == [m EXCEPT !.seen = state, !.to = d]
<1>1. CASE Leave(s)
  BY <1>0, <1>1, Solitude, LeaveStep, Stutters DEF Preflight, Leave, GoalInv, Idle
<1>2. CASE /\ m.cmd = "activate" /\ ~Refused(m.unit, d)
           /\ Goto(s, "repair") /\ UNCHANGED <<me, lock>>
  <2>1. m \in Local /\ me' = [me EXCEPT ![s] = m] /\ "repair" \in Steps
    BY <1>0, <1>2 DEF Steps, GoalInv, TypeOK
  <2>2. Alone(s) /\ pc'[s] = "repair"
    BY <1>0, <1>2, Solitude DEF GoalInv, Idle
  <2>3. SessionInv(s)'
    BY <1>0, <1>2, <2>2 DEF Preflight, SessionInv, ReadInv, WriteInv, Reading, Writing
  <2> HIDE DEF m, d
  <2> QED BY <1>2, <2>1, <2>2, <2>3, LocalStep, Stutters DEF Preflight
<1>3. ASSUME NEW x \in {"decide", "run", "observe", "pause"}, Goto(s, x),
             m.snap[m.unit] \in Allowed(m.cmd),
             m.cmd = "activate" => OthersClosed(m.snap, m.unit),
             m.cmd \notin {"exhaust", "deadline"} => ~Refused(m.unit, d),
             me' = [me EXCEPT ![s].seen = state, ![s].to = d], UNCHANGED lock,
             x = "decide" => m.cmd \in {"activate", "block", "exhaust"},
             x = "run" => m.cmd \in {"verify", "recheck"},
             x \in {"observe", "pause"} => m.cmd \in {"verify", "deadline"},
             x = "pause" => m.snap[m.unit] = "in_progress"
      PROVE  Kept
  <2>1. d \in Decisions
    BY <1>0 DEF Intends, Commands, Decisions
  <2>2. n \in Local /\ me' = [me EXCEPT ![s] = n] /\ x \in Steps
    BY <1>0, <1>3, <2>1 DEF Local, Steps, GoalInv, TypeOK
  <2>3. Alone(s) /\ pc'[s] = x
    BY <1>0, <1>3, Solitude DEF GoalInv, Idle
  <2>4. /\ me'[s] = n /\ n.unit = m.unit /\ n.cmd = m.cmd /\ n.snap = goal /\ n.seen = state
        /\ n.to = d
    BY <1>0, <2>2 DEF GoalInv, TypeOK, Local
  <2>5. m.cmd \in {"verify", "recheck"} => Fits(n, "verified")
    BY <1>0, <1>3, <2>4, NotRefused DEF Intends, Refused
  <2>6. m.cmd \in {"activate", "block"} => Ready(n)
    <3>1. ASSUME m.cmd \in {"activate", "block"} PROVE Fits(n, d)
      BY <1>0, <1>3, <2>4, <3>1, NotRefused
    <3>2. m.cmd = "activate" => d = "activated"
      BY DEF Intends
    <3>3. m.cmd = "block" => d = "blocked"
      BY DEF Intends
    <3>4. goal[m.unit] \in Statuses
      BY <1>0 DEF Documents
    <3>5. m.cmd = "activate" => n.snap[n.unit] \in Ledger!Source(d)
      BY <1>3, <2>4, <3>2, <1>0 DEF Allowed, Ledger!Source
    <3>6. m.cmd = "block" => n.snap[n.unit] \in Ledger!Source(d)
      BY <1>3, <2>4, <3>3, <3>4, <1>0 DEF Allowed, Ledger!Source, Ledger!AnyStatus, Statuses
    <3> QED BY <1>0, <1>3, <2>1, <2>4, <3>1, <3>2, <3>3, <3>5, <3>6 DEF Ready
  <2>7. SessionInv(s)'
    <3> HIDE DEF n, d
    <3>1. UNCHANGED <<goal, record, mirrored>>
      BY DEF Preflight
    <3>2. ReadInv(s)'
      BY <1>0, <1>3, <2>3, <2>4, <2>5, <2>6, <3>1 DEF ReadInv, Reading, Ready, Fits
    <3> QED BY <1>0, <1>3, <2>3, <2>4, <3>2 DEF SessionInv, WriteInv, Writing
  <2> HIDE DEF n
  <2> QED BY <1>3, <2>2, <2>3, <2>7, LocalStep, Stutters DEF Preflight
<1> QED BY <1>0, <1>1, <1>2, <1>3 DEF Preflight

LEMMA SaveGoalStep ==
  ASSUME GoalInv, OneAtATime, OneAtATime', NEW s \in Sessions, SaveGoal(s)
  PROVE  Kept
<1> DEFINE m == me[s]
<1>1. /\ pc[s] \in {"observe", "attempt"} /\ me[s] \in Local /\ m.unit \in Units
      /\ m.cmd \in {"verify", "recheck", "deadline"} /\ goal[m.unit] \in Allowed(m.cmd)
      /\ m.snap = goal /\ record = NoRecord
      /\ pc[s] = "attempt" => m.cmd = "verify"
      /\ m.cmd = "verify" => Fits(m, "verified") \/ pc[s] = "attempt"
  BY DEF SaveGoal, GoalInv, SessionInv, ReadInv, Reading, Idle, TypeOK, Local
<1>2. UNCHANGED goal
  BY <1>1 DEF SaveGoal
<1>3. CASE Leave(s)
  BY <1>1, <1>2, <1>3, Solitude, LeaveStep, Stutters DEF SaveGoal, Leave, GoalInv, Idle
<1>4. ASSUME NEW x \in {"decide", "unverified", "run"}, Goto(s, x), UNCHANGED <<me, lock>>,
             m.cmd = "verify", x = "run" => pc[s] = "observe"
      PROVE  Kept
  <2>1. m \in Local /\ me' = [me EXCEPT ![s] = m] /\ x \in Steps
    BY <1>1, <1>4 DEF Steps, GoalInv, TypeOK
  <2>2. Alone(s) /\ pc'[s] = x
    BY <1>1, <1>4, Solitude DEF GoalInv, Idle
  <2>3. SessionInv(s)'
    BY <1>1, <1>2, <1>4, <2>2
       DEF SaveGoal, SessionInv, ReadInv, WriteInv, Reading, Writing, Commands, Fits
  <2> HIDE DEF m
  <2> QED BY <1>2, <1>4, <2>1, <2>2, <2>3, LocalStep, Stutters DEF SaveGoal
<1> QED BY <1>1, <1>3, <1>4 DEF SaveGoal

LEMMA RunStep ==
  ASSUME GoalInv, OneAtATime, OneAtATime', NEW s \in Sessions, Run(s)
  PROVE  Kept
<1> DEFINE m == me[s]
<1>1. /\ pc[s] = "run" /\ me[s] \in Local /\ m.unit \in Units
      /\ m.cmd \in {"verify", "recheck"} /\ goal[m.unit] \in Allowed(m.cmd)
      /\ m.snap = goal /\ record = NoRecord /\ Fits(m, "verified")
  BY DEF Run, GoalInv, SessionInv, ReadInv, Reading, Idle, TypeOK, Local
<1>2. UNCHANGED <<goal, events, tail, state, mirrored, record, faults, crashes>>
  BY DEF Run
<1>3. CASE Leave(s)
  BY <1>1, <1>2, <1>3, Solitude, LeaveStep, Stutters DEF Leave, GoalInv, Idle
<1>4. ASSUME NEW d \in {"verified", "regressed", "unverified"}, Goto(s, "commit"),
             me' = [me EXCEPT ![s].to = d], UNCHANGED lock,
             d # "verified" => m.cmd = "recheck"
      PROVE  Kept
  <2> DEFINE n == [m EXCEPT !.to = d]
  <2>1. n \in Local /\ me' = [me EXCEPT ![s] = n] /\ "commit" \in Steps
    BY <1>1, <1>4 DEF Local, Steps, Decisions, GoalInv, TypeOK
  <2>2. Alone(s) /\ pc'[s] = "commit"
    BY <1>1, <1>4, Solitude DEF GoalInv, Idle
  <2>3. Ready(n)
    <3>1. goal[m.unit] \in Ledger!Source(d)
      BY <1>1, <1>4 DEF Allowed, Ledger!Source
    <3> QED BY <1>1, <3>1 DEF Ready, Fits, Decisions, Local
  <2>4. me'[s] = n /\ n.unit = m.unit /\ n.cmd = m.cmd /\ n.snap = goal
    BY <1>1, <2>1 DEF GoalInv, TypeOK, Local
  <2>5. SessionInv(s)'
    <3> HIDE DEF n
    <3> QED BY <1>1, <1>2, <2>2, <2>3, <2>4
         DEF SessionInv, ReadInv, WriteInv, Reading, Writing, Commands, Ready, Fits
  <2> HIDE DEF n
  <2> QED BY <1>2, <1>4, <2>1, <2>2, <2>5, LocalStep, Stutters
<1>5. ASSUME NEW x \in {"attempt", "decide"}, Goto(s, x), UNCHANGED <<me, lock>>,
             x = "attempt" => m.cmd = "verify"
      PROVE  Kept
  <2>1. m \in Local /\ me' = [me EXCEPT ![s] = m] /\ x \in Steps
    BY <1>1, <1>5 DEF Steps, GoalInv, TypeOK
  <2>2. Alone(s) /\ pc'[s] = x
    BY <1>1, <1>5, Solitude DEF GoalInv, Idle
  <2>3. SessionInv(s)'
    BY <1>1, <1>2, <1>5, <2>2
       DEF SessionInv, ReadInv, WriteInv, Reading, Writing, Commands
  <2> HIDE DEF m
  <2> QED BY <1>2, <1>5, <2>1, <2>2, <2>3, LocalStep, Stutters
<1> QED BY <1>3, <1>4, <1>5 DEF Run

LEMMA DecideStep ==
  ASSUME GoalInv, OneAtATime, OneAtATime', NEW s \in Sessions, Decide(s)
  PROVE  Kept
<1> DEFINE m == me[s]
<1>1. /\ pc[s] = "decide" /\ me[s] \in Local /\ m.unit \in Units /\ m.cmd \in Commands
      /\ m.snap = goal /\ record = NoRecord /\ goal \in Documents
      /\ m.cmd \in {"activate", "block"} => Ready(m)
  BY DEF Decide, GoalInv, SessionInv, ReadInv, Reading, Idle, TypeOK, Local
<1>2. UNCHANGED <<goal, events, tail, state, mirrored, record, faults, crashes>>
  BY DEF Decide
<1>3. CASE Leave(s)
  BY <1>1, <1>2, <1>3, Solitude, LeaveStep, Stutters DEF Leave, GoalInv, Idle
<1>4. ASSUME NEW n \in Local, Goto(s, "commit"), UNCHANGED lock,
             me' = [me EXCEPT ![s] = n], Ready(n),
             n.unit = m.unit, n.cmd = m.cmd, n.snap = m.snap
      PROVE  Kept
  <2>1. "commit" \in Steps /\ me'[s] = n
    BY <1>4 DEF Steps, GoalInv, TypeOK
  <2>2. Alone(s) /\ pc'[s] = "commit"
    BY <1>1, <1>4, Solitude DEF GoalInv, Idle
  <2>3. SessionInv(s)'
    BY <1>1, <1>2, <1>4, <2>1, <2>2
       DEF SessionInv, ReadInv, WriteInv, Reading, Writing, Ready, Fits
  <2> QED BY <1>2, <1>4, <2>1, <2>2, <2>3, LocalStep, Stutters
<1>5. CASE /\ m.cmd \in {"activate", "block"} /\ Goto(s, "commit") /\ UNCHANGED <<me, lock>>
  <2>1. me' = [me EXCEPT ![s] = m]
    BY <1>5 DEF GoalInv, TypeOK
  <2> QED BY <1>1, <1>4, <1>5, <2>1
<1>6. ASSUME NEW d \in {"blocked", "budget_exhausted"}, ~Refused(m.unit, "blocked"),
             Goto(s, "commit"), UNCHANGED lock,
             me' = [me EXCEPT ![s].seen = state, ![s].to = d]
      PROVE  Kept
  <2> DEFINE n == [m EXCEPT !.seen = state, !.to = d]
  <2>1. me \in [Sessions -> Local]
    BY DEF GoalInv, TypeOK, Local
  <2>2. n \in Local
    BY <1>1 DEF Local, Decisions, GoalInv, TypeOK
  <2>3. me' = [me EXCEPT ![s] = n]
    BY <1>6, <2>1 DEF Local
  <2>4. /\ n.unit = m.unit /\ n.cmd = m.cmd /\ n.snap = m.snap
        /\ n.seen = state /\ n.to = d
    BY <1>1 DEF Local
  <2>5. Fits(n, d)
    BY <1>1, <1>6, <2>4, NotRefused DEF Refused
  <2>6. goal[m.unit] \in Statuses
    BY <1>1 DEF Documents
  <2>7. Ready(n)
    BY <1>1, <1>6, <2>4, <2>5, <2>6
       DEF Ready, Decisions, Ledger!Source, Ledger!AnyStatus, Statuses
  <2> HIDE DEF n
  <2> QED BY <1>4, <1>6, <2>2, <2>3, <2>4, <2>7
<1> QED BY <1>3, <1>5, <1>6 DEF Decide

\* A deadline that has passed pauses the unit, in GOAL before the log.
LEMMA SavePauseStep ==
  ASSUME GoalInv, OneAtATime, OneAtATime', NEW s \in Sessions, SavePause(s)
  PROVE  Kept
<1> DEFINE m == me[s]
           u == m.unit
<1>1. /\ pc[s] = "pause" /\ me[s] \in Local /\ u \in Units /\ m.cmd \in Commands
      /\ m.snap = goal /\ record = NoRecord /\ goal[u] = "in_progress" /\ goal \in Documents
  BY DEF SavePause, GoalInv, SessionInv, ReadInv, Reading, Idle, TypeOK, Local
<1>2. /\ goal' = [goal EXCEPT ![u] = "recovery_required"]
      /\ goal' \in Documents /\ goal'[u] = "recovery_required"
      /\ \A v \in Units : goal'[v] \in Open <=> goal[v] \in Open
      /\ \A v \in Units : goal'[v] \notin Open => goal'[v] = goal[v]
  BY <1>1 DEF SavePause, Documents, Statuses, Open
<1>3. Effective = goal /\ Effective' = goal'
  BY <1>1 DEF Effective, SavePause
<1>4. Alone(s) /\ pc'[s] = "paused" /\ pc'[Task] = pc[Task]
  BY <1>1, Solitude DEF SavePause, GoalInv, Idle
<1>5. TypeOK'
  <2>1. m \in Local /\ me' = [me EXCEPT ![s] = m] /\ "paused" \in Steps
    BY <1>1 DEF Steps, GoalInv, TypeOK, SavePause
  <2>2. Goto(s, "paused") /\ TypeOK
    BY DEF SavePause, GoalInv
  <2> HIDE DEF m
  <2>3. /\ pc' \in [Sessions \cup {Task} -> Steps \cup {"task_state"}]
        /\ me' \in [Sessions -> Local]
    BY <2>1, <2>2, GoOn
  <2> QED BY <1>2, <2>2, <2>3 DEF SavePause, TypeOK, Local
<1>6. SessionInv(s)'
  BY <1>1, <1>2, <1>4 DEF SavePause, SessionInv, ReadInv, WriteInv, Reading, Writing
<1>7. RecordInv' /\ LastInv'
  BY <1>1 DEF SavePause, GoalInv, RecordInv, LastInv, Positions
<1>8. TailInv'
  BY <1>1, <1>2, <1>3 DEF SavePause, GoalInv, TailInv
<1>9. MirrorInv'
  <2>1. mirrored => state # NoState /\ Follows(goal)
    BY <1>1, <1>3 DEF GoalInv, MirrorInv, InSync
  <2>2. mirrored => Follows(goal)'
    BY <1>2, <2>1 DEF Follows, SavePause
  <2> QED BY <1>3, <2>1, <2>2 DEF MirrorInv, SavePause, Follows
<1>10. TaskInv'
  <2>1. /\ Positions(TaskUnit)' = Positions(TaskUnit) /\ Latest(TaskUnit)' = Latest(TaskUnit)
        /\ UNCHANGED <<events, lock, mirrored>>
    BY DEF Positions, Latest, SavePause
  <2>2. "in_progress" \in Open /\ InSync
    BY <1>1 DEF Open, InSync
  <2> QED BY <1>1, <1>3, <1>4, <2>1, <2>2 DEF GoalInv, TaskInv
<1>11. Ledger!Pause(u)
  BY <1>1, <1>2, <1>3 DEF Ledger!Pause, SavePause
<1> QED BY <1>1, <1>4, <1>5, <1>6, <1>7, <1>8, <1>9, <1>10, <1>11, Gather, Sentinels
     DEF Kept, Ledger!Next

\* A line that is no transition is logged, in whole or in part, about an open unit.
LEMMA LoggedBeside ==
  ASSUME GoalInv, record = NoRecord, NEW u \in Units, NEW d \in Decisions, goal[u] \in Open,
         \/ events' = Append(events, Event(u, d, FALSE)) /\ tail' = tail
         \/ events' = events /\ tail' \in {tail, Event(u, d, FALSE)},
         UNCHANGED <<goal, state, mirrored, record>>, pc'[Task] = pc[Task],
         lock' = lock \/ (lock \in Sessions /\ lock' = NoLock)
  PROVE  /\ events' \in Seq(Events) /\ tail' \in Events \cup {NoEvent}
         /\ RecordInv' /\ TailInv' /\ MirrorInv' /\ TaskInv' /\ LastInv'
         /\ [Ledger!Next]_<<Effective, events>>
<1> DEFINE e == Event(u, d, FALSE)
<1>1. e \in Events /\ e.unit = u /\ e.tx = FALSE
  BY DEF Event, Events
<1>2. Effective = goal /\ Effective' = goal /\ InSync
  BY DEF Effective, InSync
<1>3. TypeOK /\ LastInv
  BY DEF GoalInv
<1>4. /\ events' \in Seq(Events) /\ tail' \in Events \cup {NoEvent} /\ LastInv'
      /\ Positions(TaskUnit)' = Positions(TaskUnit) /\ Latest(TaskUnit)' = Latest(TaskUnit)
      /\ \A i \in Positions(TaskUnit) : events'[i] = events[i]
  <2>1. CASE events' = events
    <3>1. \A v : Positions(v)' = Positions(v) /\ Latest(v)' = Latest(v)
      BY <2>1 DEF Positions, Latest
    <3>2. LastInv'
      BY <1>3, <3>1 DEF LastInv
    <3>3. events' \in Seq(Events) /\ tail' \in Events \cup {NoEvent}
      BY <1>1, <1>3, <2>1 DEF TypeOK
    <3> QED BY <2>1, <3>1, <3>2, <3>3
  <2>2. CASE events' = Append(events, e) /\ tail' = tail
    <3>1. TaskUnit # e.unit
      BY <1>1, Sentinels
    <3> HIDE DEF e
    <3> QED BY <1>1, <1>3, <2>2, <3>1, AppendLast DEF TypeOK, Positions
  <2> QED BY <2>1, <2>2
<1>5. RecordInv' /\ TailInv'
  BY <1>1, <1>2, <1>3 DEF RecordInv, TailInv, GoalInv
<1>6. MirrorInv'
  BY <1>2 DEF GoalInv, MirrorInv, Follows
<1>7. TaskInv'
  <2>1. Positions(TaskUnit) # {} => events'[Latest(TaskUnit)] = events[Latest(TaskUnit)]
    BY <1>3, <1>4, LatestIsLogged
  <2> QED BY <1>2, <1>4, <2>1, Sentinels DEF GoalInv, TaskInv
<1>8. [Ledger!Next]_<<Effective, events>>
  <2>1. CASE events' = events
    BY <1>2, <2>1
  <2>2. CASE events' = Append(events, e)
    <3>1. Ledger!OtherEvent(u)
      BY <1>2, <2>2, Targets DEF Ledger!OtherEvent, Event, Ledger!Event, Open, Ledger!Open
    <3> QED BY <3>1 DEF Ledger!Next
  <2> QED BY <2>1, <2>2
<1> QED BY <1>4, <1>5, <1>6, <1>7, <1>8

LEMMA AppendPlainStep ==
  ASSUME GoalInv, OneAtATime, OneAtATime', NEW s \in Sessions, AppendPlain(s)
  PROVE  Kept
<1> DEFINE u == me[s].unit
           d == IF pc[s] = "paused" THEN "budget_exhausted" ELSE "unverified"
           e == Event(u, d, FALSE)
<1>1. /\ pc[s] \in {"paused", "unverified"} /\ me[s] \in Local /\ u \in Units
      /\ record = NoRecord /\ goal[u] \in Open /\ me[s].cmd \in Commands
      /\ pc[s] = "unverified" => me[s].cmd = "verify" /\ me[s].snap = goal
  BY DEF AppendPlain, GoalInv, SessionInv, ReadInv, Reading, Idle, TypeOK, Local, Open, Allowed
<1>2. d \in Decisions
  BY DEF Decisions
<1>3. /\ \/ events' = Append(events, e) /\ tail' = tail
         \/ events' = events /\ tail' \in {tail, e}
      /\ UNCHANGED <<goal, state, mirrored, record, crashes>>
      /\ faults' \in 0..MaxFaults
  <2>1. faults \in 0..MaxFaults /\ MaxFaults \in Nat
    BY Sentinels DEF GoalInv, TypeOK
  <2>2. Appends(e) \/ AppendFails(e)
    BY DEF AppendPlain
  <2> HIDE DEF e
  <2>3. /\ \/ events' = Append(events, e) /\ tail' = tail
           \/ events' = events /\ tail' \in {tail, e}
        /\ faults' = faults \/ (faults < MaxFaults /\ faults' = faults + 1)
    BY <2>2 DEF Appends, AppendFails
  <2> QED BY <2>1, <2>3 DEF AppendPlain
<1>4. /\ Alone(s) /\ pc'[s] \in {"decide", "idle"} /\ pc'[Task] = pc[Task]
      /\ lock' = lock \/ (lock = s /\ lock' = NoLock)
      /\ lock' \in Sessions \cup {Task, NoLock}
      /\ pc' \in [Sessions \cup {Task} -> Steps \cup {"task_state"}]
      /\ me' \in [Sessions -> Local]
      /\ SessionInv(s)'
  <2>1. CASE Leave(s)
    <3>1. Goto(s, "idle")
      BY <2>1 DEF Leave
    <3> QED BY <1>1, <2>1, <3>1, Solitude, Leaves DEF GoalInv, Idle
  <2>2. CASE pc[s] = "unverified" /\ Goto(s, "decide") /\ UNCHANGED <<me, lock>>
    <3>1. Alone(s) /\ pc'[s] = "decide" /\ pc'[Task] = pc[Task]
      BY <1>1, <2>2, Solitude DEF GoalInv, Idle
    <3>2. SessionInv(s)'
      BY <1>1, <1>3, <2>2, <3>1 DEF SessionInv, ReadInv, WriteInv, Reading, Writing
    <3>3. me[s] \in Local /\ me' = [me EXCEPT ![s] = me[s]] /\ "decide" \in Steps
      BY <1>1, <2>2 DEF Steps, GoalInv, TypeOK
    <3> QED BY <2>2, <3>1, <3>2, <3>3, GoOn DEF GoalInv, TypeOK
  <2> QED BY <2>1, <2>2 DEF AppendPlain
<1> HIDE DEF d, e
<1>5. /\ events' \in Seq(Events) /\ tail' \in Events \cup {NoEvent}
      /\ RecordInv' /\ TailInv' /\ MirrorInv' /\ TaskInv' /\ LastInv'
      /\ [Ledger!Next]_<<Effective, events>>
  BY <1>1, <1>2, <1>3, <1>4, LoggedBeside DEF e
<1>6. TypeOK'
  BY <1>3, <1>4, <1>5 DEF GoalInv, TypeOK, Local
<1> QED BY <1>4, <1>5, <1>6, Gather DEF Kept

-----------------------------------------------------------------------------
(* The transition *)

\* Where no recovery is pending and the preflight still holds, the unit that is
\* moved is the only one that may be open.
LEMMA OthersAreClosed ==
  ASSUME GoalInv, record = NoRecord, mirrored, NEW m \in Local, m.unit \in Units,
         NEW d, Fits(m, d), state = m.seen
  PROVE  OthersClosed(goal, m.unit)
<1>1. Follows(goal)
  BY DEF GoalInv, MirrorInv, InSync, Effective
<1> QED BY <1>1, Sentinels DEF Follows, Fits, OthersClosed

LEMMA PrepareStep ==
  ASSUME GoalInv, OneAtATime, OneAtATime', NEW s \in Sessions, Prepare(s)
  PROVE  Kept
<1> DEFINE m == me[s]
           r == [event |-> Event(m.unit, m.to, TRUE), before |-> goal,
                 after |-> [m.snap EXCEPT ![m.unit] = Target(m.to)],
                 length |-> Len(events), tail |-> tail]
           n == [m EXCEPT !.rec = r]
<1>1. /\ pc[s] = "commit" /\ m \in Local /\ m.unit \in Units /\ m.cmd \in Commands
      /\ m.snap = goal /\ record = NoRecord /\ Ready(m) /\ TypeOK /\ goal \in Documents
  BY DEF Prepare, GoalInv, SessionInv, ReadInv, Reading, Idle, TypeOK, Local
<1>2. UNCHANGED <<goal, events, tail, state, mirrored, faults, crashes>>
  BY DEF Prepare
<1>3. CASE Leave(s) /\ UNCHANGED record
  BY <1>1, <1>2, <1>3, Solitude, LeaveStep, Stutters DEF Leave, Idle
<1>4. CASE /\ lock = NoLock /\ state = m.seen
           /\ lock' = s /\ record' = r
           /\ me' = [me EXCEPT ![s].rec = r]
           /\ Goto(s, "write_goal")
  <2>1. /\ Event(m.unit, m.to, TRUE) \in Events
        /\ Event(m.unit, m.to, TRUE).unit = m.unit
        /\ Event(m.unit, m.to, TRUE).decision = m.to
        /\ Event(m.unit, m.to, TRUE).tx = TRUE
    BY <1>1 DEF Ready, Event, Events
  <2>2. [m.snap EXCEPT ![m.unit] = Target(m.to)] \in Documents
    BY <1>1, Targets DEF Ready, Documents, Statuses
  <2>3. /\ r \in Records /\ r # NoRecord /\ r.before = goal /\ r.length = Len(events)
        /\ r.after = [goal EXCEPT ![m.unit] = Target(m.to)]
        /\ r.event = Event(m.unit, m.to, TRUE)
    <3>1. /\ r.before = goal /\ r.length = Len(events) /\ r.event = Event(m.unit, m.to, TRUE)
          /\ r.after = [goal EXCEPT ![m.unit] = Target(m.to)]
      BY <1>1
    <3>2. goal \in Documents /\ Len(events) \in Nat /\ tail \in Events \cup {NoEvent}
      BY <1>1 DEF TypeOK
    <3>3. r \in Records
      BY <2>1, <2>2, <3>2 DEF Records
    <3> QED BY <3>1, <3>3, Sentinels
  <2> HIDE DEF r
  <2>4. n \in Local /\ me' = [me EXCEPT ![s] = n] /\ "write_goal" \in Steps
    BY <1>1, <1>4, <2>3 DEF Local, Steps, TypeOK
  <2>5. n.unit = m.unit /\ n.cmd = m.cmd /\ n.seen = m.seen /\ n.rec = r
    BY <1>1, <2>3 DEF Local
  <2> HIDE DEF n
  <2>6. /\ Alone(s) /\ pc'[s] = "write_goal" /\ pc'[Task] = pc[Task]
        /\ pc' \in [Sessions \cup {Task} -> Steps \cup {"task_state"}]
        /\ me' \in [Sessions -> Local] /\ me'[s] = n
    BY <1>1, <1>4, <2>4, GoOn, Solitude DEF Idle
  <2>7. TypeOK'
    BY <1>1, <1>2, <1>4, <2>3, <2>6 DEF TypeOK, Local
  <2>8. ~LandedAt(record)' /\ Effective' = Effective /\ Effective = goal
    <3>1. Len(events) \in Nat /\ ~(Len(events') > record'.length)
      BY <1>1, <1>2, <1>4, <2>3 DEF TypeOK
    <3> QED BY <1>1, <1>4, <2>3, <3>1 DEF Effective, LandedAt
  <2>9. RecordInv'
    <3>1. mirrored \/ m.to = "activated" => OthersClosed(goal, m.unit)
      BY <1>1, <1>4, OthersAreClosed DEF Ready
    <3>2. Len(events) <= Len(events')
      BY <1>1, <1>2 DEF TypeOK
    <3>3. record' = r /\ UNCHANGED <<mirrored, goal>> /\ goal[m.unit] \in Ledger!Source(m.to)
      BY <1>1, <1>2, <1>4 DEF Ready
    <3>4. /\ record'.event.tx /\ record'.event.unit = m.unit
          /\ record'.event.decision = m.to
      BY <2>1, <2>3, <3>3
    <3>5. /\ record'.length <= Len(events') /\ goal' = record'.before
          /\ record'.after = [record'.before EXCEPT ![m.unit] = Target(m.to)]
      BY <2>3, <3>2, <3>3
    <3>6. mirrored' \/ m.to = "activated" => OthersClosed(record'.before, m.unit)
      BY <2>3, <3>1, <3>3
    <3> QED BY <1>1, <2>3, <3>3, <3>4, <3>5, <3>6 DEF RecordInv, OthersClosed
  <2>10. TailInv' /\ PlainTail
    BY <1>1, <1>2, <2>8 DEF GoalInv, TailInv, PlainTail
  <2>11. MirrorInv'
    BY <1>1, <1>2, <2>8 DEF GoalInv, MirrorInv, InSync, Follows
  <2>12. TaskInv'
    BY <1>4, <2>6, Sentinels DEF GoalInv, TaskInv
  <2>13. LastInv'
    BY <1>2 DEF GoalInv, LastInv, Positions
  <2>14. SessionInv(s)'
    BY <1>1, <1>2, <1>4, <2>3, <2>5, <2>6, <2>10
       DEF SessionInv, ReadInv, WriteInv, Reading, Writing, PlainTail, Ready, Fits
  <2>15. GoalInv'
    BY <2>6, <2>7, <2>9, <2>10, <2>11, <2>12, <2>13, <2>14, Gather
  <2> QED BY <1>2, <2>8, <2>15, Stutters
<1> QED BY <1>1, <1>3, <1>4 DEF Prepare

\* A step inside the transition that changes only GOAL, to one of the record's two.
LEMMA GoalStep ==
  ASSUME GoalInv, OneAtATime, OneAtATime', NEW s \in Sessions, ~Idle(s),
         record # NoRecord, goal' \in {record.before, record.after},
         NEW x \in Steps, Goto(s, x), x # "task_state", x = "clear" => ~LandedAt(record),
         NEW m \in Local, me' = [me EXCEPT ![s] = m],
         UNCHANGED <<events, tail, state, mirrored, record, lock, faults, crashes>>,
         SessionInv(s)'
  PROVE  Kept
<1>1. TypeOK
  BY DEF GoalInv
<1>2. /\ Alone(s) /\ pc'[s] = x /\ pc'[Task] = pc[Task]
      /\ pc' \in [Sessions \cup {Task} -> Steps \cup {"task_state"}]
      /\ me' \in [Sessions -> Local]
  BY <1>1, Solitude, GoOn
<1>3. TypeOK'
  BY <1>1, <1>2, Documented DEF TypeOK, Local
<1>4. Effective' = Effective
  BY DEF Effective, LandedAt
<1>5. RecordInv' /\ LastInv'
  BY DEF GoalInv, RecordInv, LastInv, Positions
<1>6. TailInv'
  BY <1>4 DEF GoalInv, TailInv
<1>7. InSync' => InSync
  BY <1>2 DEF InSync, Alone, Idle, LandedAt
<1>8. MirrorInv'
  BY <1>4, <1>7 DEF GoalInv, MirrorInv, Follows
<1>9. TaskInv'
  <2>1. Positions(TaskUnit)' = Positions(TaskUnit) /\ Latest(TaskUnit)' = Latest(TaskUnit)
    BY DEF Positions, Latest
  <2> QED BY <1>2, <1>4, <1>7, <2>1 DEF GoalInv, TaskInv
<1> QED BY <1>2, <1>3, <1>4, <1>5, <1>6, <1>8, <1>9, Gather, Stutters

LEMMA WriteGoalStep ==
  ASSUME GoalInv, OneAtATime, OneAtATime', NEW s \in Sessions, WriteGoal(s)
  PROVE  Kept
<1>1. /\ pc[s] = "write_goal" /\ me[s] \in Local /\ me[s].unit \in Units
      /\ me[s].cmd \in Commands /\ record # NoRecord /\ me[s].rec = record
      /\ WriteInv(s) /\ TypeOK
  BY DEF WriteGoal, GoalInv, SessionInv, WriteInv, Writing, Idle, TypeOK, Local
<1>2. /\ goal' = record.after /\ UNCHANGED <<events, tail, state, mirrored, record, lock>>
      /\ UNCHANGED <<faults, crashes, me>> /\ Goto(s, "append")
      /\ me' = [me EXCEPT ![s] = me[s]] /\ "append" \in Steps
  BY <1>1 DEF WriteGoal, Steps, TypeOK
<1>3. pc'[s] = "append"
  BY <1>2 DEF Goto, TypeOK, GoalInv
<1>4. SessionInv(s)'
  BY <1>1, <1>2, <1>3 DEF SessionInv, ReadInv, WriteInv, Reading, Writing, PlainTail
<1> QED BY <1>1, <1>2, <1>4, GoalStep DEF Idle

LEMMA RollBackStep ==
  ASSUME GoalInv, OneAtATime, OneAtATime', NEW s \in Sessions, RollBack(s)
  PROVE  Kept
<1>1. /\ pc[s] = "roll_back" /\ me[s] \in Local /\ me[s].unit \in Units
      /\ me[s].cmd \in Commands /\ record # NoRecord /\ me[s].rec = record
      /\ PlainTail /\ ~LandedAt(record) /\ TypeOK
      /\ me[s].cmd # "reconcile" => lock = s
  BY DEF RollBack, GoalInv, SessionInv, WriteInv, Writing, Idle, TypeOK, Local
<1>2. /\ goal' = record.before /\ UNCHANGED <<events, tail, state, mirrored, record, lock>>
      /\ UNCHANGED <<faults, crashes, me>> /\ Goto(s, "clear")
      /\ me' = [me EXCEPT ![s] = me[s]] /\ "clear" \in Steps
  BY <1>1 DEF RollBack, Steps, TypeOK
<1>3. pc'[s] = "clear" /\ goal' = Effective'
  BY <1>1, <1>2 DEF Goto, TypeOK, Effective, LandedAt
<1>4. SessionInv(s)'
  BY <1>1, <1>2, <1>3 DEF SessionInv, ReadInv, WriteInv, Reading, Writing, PlainTail
<1> QED BY <1>1, <1>2, <1>4, GoalStep DEF Idle

\* The event of a record lands where the record waits for it: a transition.
LEMMA Lands ==
  ASSUME TypeOK, RecordInv, record # NoRecord, Len(events) = record.length,
         events' = Append(events, record.event), UNCHANGED <<goal, mirrored, record>>
  PROVE  /\ LandedAt(record)' /\ Effective' = record.after /\ RecordInv'
         /\ Ledger!Transition(record.event.unit, record.event.decision)
         /\ record.event.decision \in Ledger!Transitions
<1> DEFINE e == record.event
<1>1. /\ e \in Events /\ e.tx = TRUE /\ e.unit \in Units /\ e.decision \in Decisions
      /\ record.length \in Nat /\ record.before \in Documents
  BY Documented DEF RecordInv, Events
<1>2. events \in Seq(Events)
  BY DEF TypeOK
<1>3. Len(events') = record.length + 1 /\ events'[record.length + 1] = e
  BY <1>1, <1>2
<1>4. LandedAt(record)' /\ Effective' = record.after
  BY <1>1, <1>3 DEF LandedAt, Effective
<1>5. Effective = record.before
  BY <1>1 DEF LandedAt, Effective
<1>6. RecordInv'
  BY <1>1, <1>3 DEF RecordInv, OthersClosed
<1>7. Ledger!Event(e.unit, e.decision, TRUE) = e
  BY <1>1 DEF Ledger!Event, Events
<1>8. Ledger!Transition(e.unit, e.decision)
  <2>1. record.before[e.unit] \in Ledger!Source(e.decision)
    BY DEF RecordInv
  <2>2. e.decision = "activated" =>
          \A v \in Units \ {e.unit} : record.before[v] \notin Ledger!Open
    BY DEF RecordInv, OthersClosed, Open, Ledger!Open
  <2>3. record.after = [record.before EXCEPT ![e.unit] = Ledger!Target(e.decision)]
    BY <1>1, Targets DEF RecordInv
  <2> QED BY <1>4, <1>5, <1>7, <2>1, <2>2, <2>3 DEF Ledger!Transition
<1> QED BY <1>1, <1>4, <1>6, <1>8, Targets

\* An event that is no transition lands nowhere.
LEMMA Beside ==
  ASSUME TypeOK, RecordInv, NEW e \in Events, e.tx = FALSE, events' = Append(events, e),
         UNCHANGED <<goal, mirrored, record>>
  PROVE  /\ Effective' = Effective /\ RecordInv'
         /\ record # NoRecord => LandedAt(record)' = LandedAt(record)
<1>1. events \in Seq(Events)
  BY DEF TypeOK
<1>2. /\ Len(events) \in Nat /\ Len(events') = Len(events) + 1
      /\ events'[Len(events) + 1] = e
      /\ \A i \in 1..Len(events) : events'[i] = events[i]
  BY <1>1
<1>3. record # NoRecord => LandedAt(record)' = LandedAt(record)
  <2> SUFFICES ASSUME record # NoRecord
               PROVE  LandedAt(record)' = LandedAt(record)
    OBVIOUS
  <2>1. record.length \in Nat /\ record.length <= Len(events) /\ record.event # e
    BY Documented DEF RecordInv
  <2>2. CASE record.length = Len(events)
    BY <1>2, <2>1, <2>2 DEF LandedAt
  <2>3. CASE record.length < Len(events)
    <3>1. record.length + 1 \in 1..Len(events)
      BY <1>2, <2>1, <2>3
    <3> QED BY <1>2, <2>1, <2>3, <3>1 DEF LandedAt
  <2> QED BY <1>2, <2>1, <2>2, <2>3
<1>4. RecordInv'
  <2>1. record # NoRecord => record.length \in Nat
    BY Documented
  <2> QED BY <1>2, <2>1 DEF RecordInv, OthersClosed
<1> QED BY <1>3, <1>4 DEF Effective

LEMMA AppendEventStep ==
  ASSUME GoalInv, OneAtATime, OneAtATime', NEW s \in Sessions, AppendEvent(s)
  PROVE  Kept
<1> DEFINE e == record.event
<1>1. /\ pc[s] = "append" /\ me[s] \in Local /\ me[s].unit \in Units
      /\ me[s].cmd \in Commands /\ record # NoRecord /\ me[s].rec = record
      /\ WriteInv(s) /\ TypeOK /\ RecordInv /\ LastInv /\ lock = s /\ goal = record.after
      /\ Len(events) = record.length
  BY DEF AppendEvent, GoalInv, SessionInv, WriteInv, Writing, Idle, TypeOK, Local
<1>2. e \in Events /\ e.tx = TRUE /\ record.length \in Nat
  BY <1>1, Documented DEF RecordInv
<1>3. UNCHANGED <<goal, state, mirrored, record, lock, me, crashes>>
  BY DEF AppendEvent
<1>4. PICK x \in {"write_state", "recover"} :
        /\ Goto(s, x)
        /\ \/ events' = Append(events, e) /\ tail' = tail /\ tail = NoEvent
           \/ x = "recover" /\ events' = events /\ (tail' = tail \/ tail' = e)
        /\ faults' = faults \/ (faults < MaxFaults /\ faults' = faults + 1)
  BY <1>1 DEF AppendEvent, Appends, AppendFails
<1>5. /\ Alone(s) /\ pc'[s] = x /\ pc'[Task] = pc[Task]
      /\ pc' \in [Sessions \cup {Task} -> Steps \cup {"task_state"}]
  <2>1. x \in Steps /\ me' = [me EXCEPT ![s] = me[s]]
    BY <1>1, <1>3 DEF Steps, TypeOK
  <2> QED BY <1>1, <1>4, <2>1, GoOn, Solitude DEF Idle
<1>6. TypeOK'
  <2>1. faults' \in 0..MaxFaults
    BY <1>1, <1>4, Sentinels DEF TypeOK
  <2>2. events' \in Seq(Events) /\ tail' \in Events \cup {NoEvent}
    <3> HIDE DEF e
    <3> QED BY <1>1, <1>2, <1>4 DEF TypeOK
  <2> QED BY <1>1, <1>3, <1>5, <2>1, <2>2 DEF TypeOK
<1>7. TaskInv'
  BY <1>1, <1>3, <1>5, Sentinels DEF GoalInv, TaskInv
<1>8. CASE events' = Append(events, e) /\ tail' = tail /\ tail = NoEvent
  <2>1. /\ LandedAt(record)' /\ Effective' = record.after /\ RecordInv'
        /\ Ledger!Transition(e.unit, e.decision) /\ e.decision \in Ledger!Transitions
        /\ e.unit \in Units
    BY <1>1, <1>3, <1>8, Lands DEF RecordInv
  <2>2. LastInv'
    <3> HIDE DEF e
    <3> QED BY <1>1, <1>2, <1>8, AppendLast
  <2>3. TailInv'
    BY <1>8 DEF TailInv
  <2>4. MirrorInv'
    <3>1. ~InSync'
      BY <1>1, <1>3, <1>4, <1>5, <2>1 DEF InSync, Alone, Idle
    <3> QED BY <1>3, <3>1 DEF MirrorInv, GoalInv
  <2>5. SessionInv(s)'
    BY <1>1, <1>3, <1>5, <1>8, <2>1 DEF SessionInv, ReadInv, WriteInv, Reading, Writing, PlainTail
  <2>6. GoalInv'
    BY <1>4, <1>5, <1>6, <1>7, <2>1, <2>2, <2>3, <2>4, <2>5, Gather
  <2> QED BY <2>1, <2>6 DEF Kept, Ledger!Next
<1>9. CASE x = "recover" /\ events' = events /\ (tail' = tail \/ tail' = e)
  <2>1. Effective' = Effective
    BY <1>3, <1>9 DEF Effective, LandedAt
  <2>2. RecordInv' /\ LastInv'
    BY <1>1, <1>3, <1>9 DEF RecordInv, LastInv, Positions, OthersClosed
  <2>3. TailInv'
    BY <1>1, <1>2, <1>3, <1>9, <2>1 DEF GoalInv, TailInv
  <2>4. MirrorInv'
    <3>1. InSync' => InSync
      BY <1>1, <1>3, <1>5, <1>9 DEF InSync, Alone, Idle, LandedAt
    <3> QED BY <1>3, <2>1, <3>1 DEF MirrorInv, GoalInv, Follows
  <2>5. SessionInv(s)'
    BY <1>1, <1>3, <1>5, <1>9 DEF SessionInv, ReadInv, WriteInv, Reading, Writing, PlainTail
  <2>6. GoalInv'
    BY <1>5, <1>6, <1>7, <1>9, <2>2, <2>3, <2>4, <2>5, Gather
  <2> QED BY <1>9, <2>1, <2>6, Stutters
<1> QED BY <1>4, <1>8, <1>9

LEMMA WriteStateStep ==
  ASSUME GoalInv, OneAtATime, OneAtATime', NEW s \in Sessions, WriteState(s)
  PROVE  Kept
<1> DEFINE m == me[s]
           e == record.event
<1>1. /\ pc[s] = "write_state" /\ m \in Local /\ m.unit \in Units
      /\ m.cmd \in Commands /\ record # NoRecord /\ m.rec = record
      /\ PlainTail /\ LandedAt(record) /\ goal = record.after /\ TypeOK /\ RecordInv
      /\ (mirrored => m.seen # NoState) /\ (m.cmd # "reconcile" => lock = s)
  BY DEF WriteState, GoalInv, SessionInv, WriteInv, Writing, Idle, TypeOK, Local
<1>2. /\ UNCHANGED <<goal, events, tail, mirrored, record, faults, crashes>>
      /\ "clear" \in Steps /\ goal = Effective
  BY <1>1 DEF WriteState, Steps, Effective
<1>3. CASE Leave(s) /\ UNCHANGED state
  BY <1>1, <1>2, <1>3, Solitude, LeaveStep, Stutters DEF Leave, Idle
<1>4. ASSUME Goto(s, "clear"), UNCHANGED <<me, lock>>
      PROVE  /\ Alone(s) /\ pc'[s] = "clear" /\ pc'[Task] = pc[Task] /\ SessionInv(s)'
             /\ me' = [me EXCEPT ![s] = m] /\ Effective' = Effective
             /\ pc' \in [Sessions \cup {Task} -> Steps \cup {"task_state"}]
  <2>1. Alone(s) /\ pc'[s] = "clear" /\ pc'[Task] = pc[Task]
    BY <1>1, <1>4, Solitude DEF Idle
  <2>2. Effective' = Effective
    BY <1>2 DEF Effective, LandedAt
  <2>3. SessionInv(s)'
    BY <1>1, <1>2, <1>4, <2>1, <2>2
       DEF SessionInv, ReadInv, WriteInv, Reading, Writing, PlainTail
  <2>4. me' = [me EXCEPT ![s] = m]
    BY <1>4, <1>1 DEF TypeOK
  <2> HIDE DEF m
  <2> QED BY <1>1, <1>2, <1>4, <2>1, <2>2, <2>3, <2>4, GoOn
<1>5. CASE m.seen = NoState /\ Goto(s, "clear") /\ UNCHANGED <<state, me, lock>>
  <2> HIDE DEF m
  <2> QED BY <1>1, <1>2, <1>4, <1>5, LocalStep, Stutters
<1>6. CASE /\ lock \in {NoLock, s} /\ state' = Projected(e.unit, e.decision, record.length + 1)
           /\ Goto(s, "clear") /\ UNCHANGED <<me, lock>>
  <2>1. /\ e.unit \in Units /\ e.decision \in Decisions /\ record.length \in Nat
        /\ record.before \in Documents
        /\ record.after = [record.before EXCEPT ![e.unit] = Target(e.decision)]
        /\ mirrored => OthersClosed(record.before, e.unit)
    BY <1>1, Documented DEF RecordInv, Events
  <2>2. /\ state' \in Mirrors /\ state' # NoState
        /\ state'.unit = e.unit /\ state'.status = Target(e.decision)
    BY <1>6, <2>1, Targets, Sentinels DEF Projected, Mirrors
  <2>3. mirrored => Follows(Effective)'
    <3> SUFFICES ASSUME mirrored, NEW u \in Units
                 PROVE  /\ goal[u] \in Open => state'.unit = u
                        /\ state'.unit = u => IF goal[u] \in Open THEN state'.status = "in_progress"
                                                               ELSE state'.status = goal[u]
      BY <1>2, <1>4, <1>6 DEF Follows
    <3>1. CASE u = e.unit
      <4>1. goal[u] = Target(e.decision)
        BY <1>1, <2>1, <3>1 DEF Documents
      <4> QED BY <2>1, <2>2, <3>1, <4>1, Targets DEF Open
    <3>2. CASE u # e.unit
      BY <1>1, <2>1, <2>2, <3>2 DEF Documents, OthersClosed
    <3> QED BY <3>1, <3>2
  <2>4. MirrorInv'
    BY <1>2, <2>2, <2>3 DEF MirrorInv
  <2>5. TypeOK'
    BY <1>1, <1>2, <1>4, <1>6, <2>2 DEF TypeOK
  <2>6. RecordInv' /\ LastInv'
    <3>1. LastInv'
      BY <1>2 DEF GoalInv, LastInv, Positions
    <3> HIDE DEF e
    <3>2. RecordInv'
      BY <1>1, <1>2 DEF RecordInv, OthersClosed
    <3> QED BY <3>1, <3>2
  <2>7. TailInv'
    BY <1>2, <1>4, <1>6 DEF GoalInv, TailInv
  <2>8. TaskInv'
    BY <1>4, <1>6, Sentinels DEF GoalInv, TaskInv
  <2> QED BY <1>2, <1>4, <1>6, <2>4, <2>5, <2>6, <2>7, <2>8, Gather, Stutters
<1> QED BY <1>1, <1>3, <1>5, <1>6 DEF WriteState

LEMMA ClearStep ==
  ASSUME GoalInv, OneAtATime, OneAtATime', NEW s \in Sessions, Clear(s)
  PROVE  Kept
<1> DEFINE m == me[s]
<1>1. /\ pc[s] = "clear" /\ m \in Local /\ m.unit \in Units
      /\ m.cmd \in Commands /\ record # NoRecord /\ m.rec = record
      /\ PlainTail /\ goal = Effective /\ TypeOK /\ RecordInv
      /\ (m.cmd # "reconcile" => lock = s)
  BY DEF Clear, GoalInv, SessionInv, WriteInv, Writing, Idle, TypeOK, Local
<1>2. /\ UNCHANGED <<goal, events, tail, state, mirrored, faults, crashes>>
      /\ record' = NoRecord
  BY DEF Clear
<1>3. Effective' = Effective
  BY <1>1, <1>2 DEF Effective
<1>4. /\ Alone(s) /\ pc'[s] \in {"idle", "decide"} /\ pc'[Task] = pc[Task]
      /\ lock' = lock \/ (lock = s /\ lock' = NoLock)
      /\ lock' \in Sessions \cup {Task, NoLock}
      /\ pc' \in [Sessions \cup {Task} -> Steps \cup {"task_state"}]
      /\ me' \in [Sessions -> Local]
      /\ SessionInv(s)'
  <2>1. CASE Leave(s)
    <3>1. Goto(s, "idle")
      BY <2>1 DEF Leave
    <3> QED BY <1>1, <2>1, <3>1, Solitude, Leaves DEF Idle
  <2>2. CASE /\ m.cmd = "recheck" /\ goal = m.rec.after
             /\ me' = [me EXCEPT ![s].snap = m.rec.after, ![s].rec = NoRecord]
             /\ lock' = NoLock /\ Goto(s, "decide")
    <3> DEFINE n == [m EXCEPT !.snap = goal, !.rec = NoRecord]
    <3>1. me \in [Sessions -> Local] /\ goal \in Documents
      BY <1>1 DEF TypeOK, Local
    <3>2. n \in Local
      BY <1>1, <3>1 DEF Local
    <3>3. me' = [me EXCEPT ![s] = n] /\ "decide" \in Steps
      BY <2>2, <3>1 DEF Local, Steps
    <3>4. n.unit = m.unit /\ n.cmd = m.cmd /\ n.snap = goal
      BY <1>1 DEF Local
    <3> HIDE DEF n
    <3>5. /\ Alone(s) /\ pc'[s] = "decide" /\ pc'[Task] = pc[Task] /\ me'[s] = n
          /\ pc' \in [Sessions \cup {Task} -> Steps \cup {"task_state"}]
          /\ me' \in [Sessions -> Local]
      BY <1>1, <2>2, <3>2, <3>3, GoOn, Solitude DEF Idle
    <3>6. SessionInv(s)'
      BY <1>1, <1>2, <2>2, <3>4, <3>5
         DEF SessionInv, ReadInv, WriteInv, Reading, Writing
    <3> QED BY <1>1, <2>2, <3>5, <3>6
  <2> QED BY <2>1, <2>2 DEF Clear
<1>5. TypeOK'
  BY <1>1, <1>2, <1>4 DEF TypeOK, Local
<1>6. RecordInv' /\ LastInv'
  BY <1>2 DEF GoalInv, RecordInv, LastInv, Positions
<1>7. TailInv'
  BY <1>1, <1>2, <1>3 DEF GoalInv, TailInv, PlainTail
<1>8. InSync
  BY <1>1 DEF InSync
<1>9. MirrorInv'
  BY <1>2, <1>3, <1>8 DEF GoalInv, MirrorInv, Follows
<1>10. TaskInv'
  <2>1. Positions(TaskUnit)' = Positions(TaskUnit) /\ Latest(TaskUnit)' = Latest(TaskUnit)
    BY <1>2 DEF Positions, Latest
  <2> QED BY <1>2, <1>3, <1>4, <1>8, <2>1, Sentinels DEF GoalInv, TaskInv
<1>11. GoalInv'
  BY <1>4, <1>5, <1>6, <1>7, <1>9, <1>10, Gather
<1> QED BY <1>2, <1>3, <1>11, Stutters

-----------------------------------------------------------------------------
(* Recovery and repair *)

LEMMA RecoverStep ==
  ASSUME GoalInv, OneAtATime, OneAtATime', NEW s \in Sessions, Recover(s)
  PROVE  Kept
<1> DEFINE m == me[s]
           r == record
<1>1. /\ pc[s] = "recover" /\ m \in Local /\ m.unit \in Units
      /\ m.cmd \in Commands /\ TypeOK /\ RecordInv
      /\ (m.cmd # "reconcile" => lock = s)
  BY DEF Recover, GoalInv, SessionInv, WriteInv, Writing, Idle, TypeOK, Local
<1>2. UNCHANGED <<events, tail, state, mirrored, record, faults, crashes>>
  BY DEF Recover
<1>3. CASE Leave(s) /\ UNCHANGED goal
  BY <1>1, <1>2, <1>3, Solitude, LeaveStep, Stutters DEF Leave, Idle
<1>4. CASE /\ r # NoRecord /\ Recoverable(r) /\ NotLanded(r)
           /\ me' = [me EXCEPT ![s].rec = r]
           /\ Goto(s, IF goal = r.after THEN "roll_back" ELSE "clear")
           /\ UNCHANGED <<goal, lock>>
  <2> DEFINE n == [m EXCEPT !.rec = r]
             x == IF goal = r.after THEN "roll_back" ELSE "clear"
  <2>1. r \in Records /\ r.length \in Nat
    BY <1>1, <1>4, Documented
  <2>2. n \in Local /\ me' = [me EXCEPT ![s] = n] /\ x \in Steps
    BY <1>1, <1>4, <2>1 DEF Local, Steps, TypeOK
  <2>3. Alone(s) /\ pc'[s] = x /\ me'[s] = n
    BY <1>1, <1>4, <2>2, Solitude, GoOn DEF Idle
  <2>4. ~LandedAt(r) /\ Effective = r.before
    BY <1>4, <2>1 DEF NotLanded, LandedAt, Effective
  <2>5. x = "clear" => goal = Effective
    BY <1>1, <1>4, <2>4 DEF RecordInv
  <2>6. UNCHANGED Effective /\ LandedAt(record)' = LandedAt(record)
    BY <1>2, <1>4 DEF Effective, LandedAt
  <2>7. n.unit = m.unit /\ n.cmd = m.cmd /\ n.rec = r
    BY <1>1 DEF Local
  <2>8. PlainTail'
    BY <1>2, <1>4 DEF Recoverable, PlainTail
  <2>9. SessionInv(s)'
    <3>1. x \in {"roll_back", "clear"}
      OBVIOUS
    <3> HIDE DEF n, x
    <3> QED BY <1>1, <1>2, <1>4, <2>3, <2>4, <2>5, <2>6, <2>7, <2>8, <3>1
         DEF SessionInv, ReadInv, WriteInv, Reading, Writing
  <2>10. Goto(s, x)
    BY <1>4
  <2> HIDE DEF n, x
  <2> QED BY <1>2, <1>4, <2>2, <2>3, <2>4, <2>9, <2>10, LocalStep, Stutters
<1>5. CASE /\ r # NoRecord /\ Recoverable(r) /\ Landed(r)
           /\ goal' = r.after
           /\ me' = [me EXCEPT ![s].rec = r, ![s].seen = state]
           /\ Goto(s, "write_state") /\ UNCHANGED lock
  <2> DEFINE n == [m EXCEPT !.rec = r, !.seen = state]
  <2>1. r \in Records /\ r.length \in Nat /\ me \in [Sessions -> Local]
    BY <1>1, <1>5, Documented DEF TypeOK, Local
  <2>2. n \in Local
    BY <1>1, <2>1 DEF Local, TypeOK
  <2>3. me' = [me EXCEPT ![s] = n] /\ "write_state" \in Steps
    BY <1>5, <2>1 DEF Local, Steps
  <2>4. Alone(s) /\ pc'[s] = "write_state" /\ me'[s] = n
    BY <1>1, <1>5, <2>2, <2>3, Solitude, GoOn DEF Idle
  <2>5. LandedAt(record)'
    BY <1>2, <1>5, <2>1 DEF Landed, LandedAt
  <2>6. n.unit = m.unit /\ n.cmd = m.cmd /\ n.rec = r /\ n.seen = state
    BY <1>1 DEF Local
  <2>7. PlainTail' /\ (mirrored => state # NoState)
    BY <1>2, <1>5 DEF Recoverable, PlainTail, GoalInv, MirrorInv
  <2>8. SessionInv(s)'
    <3> HIDE DEF n
    <3> QED BY <1>1, <1>2, <1>5, <2>4, <2>5, <2>6, <2>7
         DEF SessionInv, ReadInv, WriteInv, Reading, Writing
  <2> HIDE DEF n
  <2> QED BY <1>1, <1>2, <1>5, <2>2, <2>3, <2>8, GoalStep DEF Idle
<1> QED BY <1>3, <1>4, <1>5 DEF Recover

LEMMA RepairStep ==
  ASSUME GoalInv, OneAtATime, OneAtATime', NEW s \in Sessions, Repair(s)
  PROVE  Kept
<1> DEFINE u == me[s].unit
           d == IF me[s].cmd = "activate" THEN "activated" ELSE "verified"
<1>1. /\ pc[s] = "repair" /\ me[s] \in Local /\ u \in Units /\ me[s].snap = goal
      /\ record = NoRecord /\ TypeOK /\ LastInv
  BY DEF Repair, GoalInv, SessionInv, ReadInv, Reading, Idle, TypeOK, Local
<1>2. /\ UNCHANGED <<goal, events, tail, mirrored, record, faults, crashes>>
      /\ Leave(s) /\ Goto(s, "idle")
  BY DEF Repair, Leave
<1>3. CASE UNCHANGED state
  BY <1>1, <1>2, <1>3, Solitude, LeaveStep, Stutters DEF Idle
<1>4. CASE /\ lock = NoLock /\ goal[u] = Target(d) /\ Canonical(u, d)
           /\ state # NoState /\ ~Refused(u, d)
           /\ state' = Projected(u, d, Latest(u))
  <2>1. d \in Decisions /\ Latest(u) \in Nat
    <3>1. Positions(u) # {}
      BY <1>4 DEF Canonical
    <3> QED BY <1>1, <3>1, LatestIsLogged DEF Decisions
  <2>2. d = "activated" => Target(d) = "in_progress"
    BY DEF Target
  <2> HIDE DEF d
  <2>3. /\ state' \in Mirrors /\ state' # NoState
        /\ state'.unit = u /\ state'.status = Target(d)
    BY <1>1, <1>4, <2>1, Targets, Sentinels DEF Projected, Mirrors
  <2>4. Effective = goal /\ Effective' = goal
    BY <1>1, <1>2 DEF Effective
  <2>5. mirrored => Follows(goal)'
    <3> SUFFICES ASSUME mirrored, NEW v \in Units
                 PROVE  /\ goal[v] \in Open => state'.unit = v
                        /\ state'.unit = v => IF goal[v] \in Open THEN state'.status = "in_progress"
                                                               ELSE state'.status = goal[v]
      BY <1>2 DEF Follows
    <3>1. Follows(goal)
      BY <1>1, <2>4 DEF GoalInv, MirrorInv, InSync
    <3>2. CASE v = u
      BY <1>4, <2>1, <2>3, <3>2, Targets DEF Open
    <3>3. CASE v # u
      BY <1>1, <1>4, <2>3, <3>1, <3>3, Sentinels DEF Follows, Refused
    <3> QED BY <3>2, <3>3
  <2>6. MirrorInv'
    BY <1>2, <2>3, <2>4, <2>5 DEF MirrorInv, Follows
  <2>7. Alone(s) /\ pc'[Task] = pc[Task] /\ pc'[s] = "idle"
    BY <1>1, <1>2, Solitude DEF Idle
  <2>8. TypeOK'
    BY <1>1, <1>2, <2>3, Leaves DEF TypeOK, Local
  <2>9. RecordInv' /\ LastInv'
    BY <1>1, <1>2 DEF GoalInv, RecordInv, LastInv, Positions
  <2>10. TailInv'
    BY <1>1, <1>2, <2>4 DEF GoalInv, TailInv
  <2>11. TaskInv'
    BY <1>4, <2>7, Sentinels DEF GoalInv, TaskInv
  <2> QED BY <1>1, <1>2, <2>4, <2>6, <2>7, <2>8, <2>9, <2>10, <2>11, Gather, Leaves, Stutters
<1> QED BY <1>1, <1>2, <1>3, <1>4 DEF Repair

-----------------------------------------------------------------------------
(* The task unit, the operator and crashes *)

\* A line of the task unit, in whole or in part, under a lock no session holds.
LEMMA TaskLogs ==
  ASSUME GoalInv, lock = NoLock, lock' \in {NoLock, Task}, NEW d \in Decisions,
         \/ events' = Append(events, Event(TaskUnit, d, FALSE)) /\ tail = NoEvent /\ tail' = tail
         \/ events' = events /\ tail' \in {tail, Event(TaskUnit, d, FALSE)},
         UNCHANGED <<goal, state, mirrored, record, me>>,
         \A s \in Sessions : pc'[s] = pc[s]
  PROVE  /\ events' \in Seq(Events) /\ tail' \in Events \cup {NoEvent}
         /\ RecordInv' /\ TailInv' /\ MirrorInv' /\ LastInv'
         /\ \A s \in Sessions : SessionInv(s)'
         /\ Effective' = Effective /\ (InSync' => InSync)
         /\ [Ledger!Next]_<<Effective, events>>
<1> DEFINE e == Event(TaskUnit, d, FALSE)
<1>1. e \in Events /\ e.unit = TaskUnit /\ e.tx = FALSE /\ TypeOK /\ RecordInv /\ LastInv
  BY DEF Event, Events, GoalInv
<1>2. /\ Effective' = Effective /\ RecordInv'
      /\ record # NoRecord => LandedAt(record)' = LandedAt(record)
  <2>1. CASE events' = events
    <3> HIDE DEF e
    <3>1. Effective' = Effective /\ LandedAt(record)' = LandedAt(record)
      BY <2>1 DEF Effective, LandedAt
    <3>2. RecordInv'
      BY <1>1, <2>1 DEF RecordInv, OthersClosed
    <3> QED BY <3>1, <3>2
  <2>2. CASE events' = Append(events, e)
    <3> HIDE DEF e
    <3> QED BY <1>1, <2>2, Beside
  <2> QED BY <2>1, <2>2
<1>3. /\ events' \in Seq(Events) /\ tail' \in Events \cup {NoEvent} /\ LastInv'
  <2>1. CASE events' = events
    <3>1. LastInv'
      BY <1>1, <2>1 DEF LastInv, Positions
    <3> QED BY <1>1, <2>1, <3>1 DEF TypeOK
  <2>2. CASE events' = Append(events, e) /\ tail' = tail
    <3> HIDE DEF e
    <3> QED BY <1>1, <2>2, AppendLast DEF TypeOK
  <2> QED BY <2>1, <2>2
<1>4. TailInv'
  <2>1. CASE tail' = e
    BY <1>1, <2>1, Sentinels DEF TailInv
  <2>2. CASE tail' = NoEvent
    BY <2>2 DEF TailInv
  <2>3. CASE tail' = tail /\ events' = events
    BY <1>2, <2>3 DEF TailInv, GoalInv
  <2> QED BY <2>1, <2>2, <2>3
<1>5. InSync' => InSync
  BY <1>2 DEF InSync
<1>6. MirrorInv'
  BY <1>2, <1>5 DEF GoalInv, MirrorInv, Follows
<1>7. ASSUME NEW s \in Sessions PROVE SessionInv(s)'
  <2>1. lock # s
    BY Sentinels
  <2>2. PlainTail => PlainTail'
    BY <1>1 DEF PlainTail
  <2>3. ~Idle(s) => ReadInv(s)'
    BY DEF GoalInv, SessionInv, Idle, ReadInv, Ready, Fits, OthersClosed
  <2>4. ~Idle(s) => WriteInv(s)'
    BY <1>2, <2>1, <2>2 DEF GoalInv, SessionInv, Idle, WriteInv, Writing
  <2> QED BY <2>3, <2>4 DEF GoalInv, SessionInv, Idle
<1>8. [Ledger!Next]_<<Effective, events>>
  <2>1. CASE events' = events
    BY <1>2, <2>1
  <2>2. CASE events' = Append(events, e)
    <3>1. Ledger!OtherEvent(TaskUnit)
      BY <1>2, <2>2, Targets DEF Ledger!OtherEvent, Event, Ledger!Event
    <3> QED BY <3>1 DEF Ledger!Next
  <2> QED BY <2>1, <2>2
<1> QED BY <1>2, <1>3, <1>4, <1>5, <1>6, <1>7, <1>8

LEMMA TaskAppendStep ==
  ASSUME GoalInv, TaskAppend
  PROVE  Kept
<1>1. /\ TypeOK /\ LastInv /\ pc[Task] = "idle" /\ lock = NoLock
      /\ UNCHANGED <<goal, state, mirrored, record, me, crashes>>
      /\ faults \in 0..MaxFaults /\ MaxFaults \in Nat
      /\ \A s \in Sessions : pc[s] # "task_state"
  BY Sentinels DEF TaskAppend, GoalInv, TypeOK
<1>2. ASSUME NEW d \in {"activated", "verified"},
             d = "activated" => ~(/\ state # NoState /\ state.unit \notin {NoUnit, TaskUnit}
                                  /\ state.status = "in_progress"),
             \/ Appends(Event(TaskUnit, d, FALSE)) /\ lock' = Task /\ Goto(Task, "task_state")
             \/ AppendFails(Event(TaskUnit, d, FALSE)) /\ UNCHANGED <<lock, pc>>
      PROVE  Kept
  <2> DEFINE e == Event(TaskUnit, d, FALSE)
  <2>1. e \in Events /\ e.unit = TaskUnit /\ e.decision = d /\ d \in Decisions
    BY DEF Event, Events, Decisions
  <2> HIDE DEF e
  <2>2. /\ \/ events' = Append(events, e) /\ tail = NoEvent /\ tail' = tail
           \/ events' = events /\ tail' \in {tail, e}
        /\ faults' = faults \/ (faults < MaxFaults /\ faults' = faults + 1)
        /\ lock' \in {NoLock, Task}
    BY <1>1, <1>2 DEF Appends, AppendFails, e
  <2>3. /\ pc' \in [Sessions \cup {Task} -> Steps \cup {"task_state"}]
        /\ \A s \in Sessions : pc'[s] = pc[s]
        /\ pc'[Task] = "task_state" => events' = Append(events, e) /\ lock' = Task
    BY <1>1, <1>2, Sentinels DEF TypeOK, Goto, Appends, e
  <2>4. /\ events' \in Seq(Events) /\ tail' \in Events \cup {NoEvent}
        /\ RecordInv' /\ TailInv' /\ MirrorInv' /\ LastInv'
        /\ \A s \in Sessions : SessionInv(s)'
        /\ Effective' = Effective /\ (InSync' => InSync)
        /\ [Ledger!Next]_<<Effective, events>>
    BY <1>1, <2>1, <2>2, <2>3, TaskLogs DEF e
  <2>5. TypeOK'
    <3>1. faults' \in 0..MaxFaults
      BY <1>1, <2>2
    <3> QED BY <1>1, <2>2, <2>3, <2>4, <3>1 DEF TypeOK
  <2>6. TaskInv'
    <3> SUFFICES ASSUME pc'[Task] = "task_state" PROVE TaskInv'
      BY DEF TaskInv
    <3>1. events' = Append(events, e) /\ lock' = Task
      BY <2>3
    <3>2. Positions(TaskUnit)' # {} /\ events'[Latest(TaskUnit)'] = e
      BY <1>1, <2>1, <3>1, AppendLast
    <3>3. ASSUME mirrored, InSync, d = "activated", NEW u \in Units
          PROVE  Effective[u] \notin Open
      BY <1>2, <3>3, Sentinels DEF GoalInv, MirrorInv, Follows
    <3> QED BY <1>1, <2>1, <2>4, <3>1, <3>2, <3>3 DEF TaskInv
  <2> QED BY <1>1, <2>3, <2>4, <2>5, <2>6 DEF GoalInv, Kept
<1>3. CASE /\ Canonical(TaskUnit, "verified") /\ lock' = Task /\ Goto(Task, "task_state")
           /\ UNCHANGED <<events, tail, faults>>
  <2>1. /\ pc' \in [Sessions \cup {Task} -> Steps \cup {"task_state"}]
        /\ \A s \in Sessions : pc'[s] = pc[s]
    BY <1>1, <1>3, Sentinels DEF TypeOK, Goto
  <2>2. "verified" \in Decisions
    BY DEF Decisions
  <2>3. /\ RecordInv' /\ TailInv' /\ MirrorInv' /\ LastInv'
        /\ \A s \in Sessions : SessionInv(s)'
        /\ [Ledger!Next]_<<Effective, events>>
    BY <1>1, <1>3, <2>1, <2>2, TaskLogs
  <2>4. TypeOK'
    BY <1>1, <1>3, <2>1 DEF TypeOK
  <2>5. TaskInv'
    <3>1. Positions(TaskUnit)' = Positions(TaskUnit) /\ Latest(TaskUnit)' = Latest(TaskUnit)
      BY <1>3 DEF Positions, Latest
    <3> QED BY <1>3, <3>1 DEF Canonical, TaskInv
  <2> QED BY <1>1, <2>1, <2>3, <2>4, <2>5 DEF GoalInv, Kept
<1> QED BY <1>2, <1>3 DEF TaskAppend

LEMMA TaskStateStep ==
  ASSUME GoalInv, TaskState
  PROVE  Kept
<1> DEFINE n == Latest(TaskUnit)
           d == events[n].decision
<1>1. /\ TypeOK /\ RecordInv /\ TailInv /\ LastInv /\ pc[Task] = "task_state" /\ lock = Task
      /\ UNCHANGED <<goal, events, tail, mirrored, record, me, faults, crashes>>
      /\ Goto(Task, "idle") /\ lock' = NoLock
      /\ \A s \in Sessions : pc[s] # "task_state"
  BY DEF TaskState, GoalInv, TaskInv
<1>2. n \in Nat /\ d \in Decisions
  <2>1. Positions(TaskUnit) # {}
    BY <1>1 DEF GoalInv, TaskInv
  <2> QED BY <1>1, <2>1, LatestIsLogged DEF Events
<1>3. mirrored /\ InSync /\ d = "activated" => \A u \in Units : Effective[u] \notin Open
  BY <1>1 DEF GoalInv, TaskInv
<1>4. state' = IF d = "activated" \/ (state # NoState /\ state.unit = TaskUnit)
               THEN Projected(TaskUnit, d, n) ELSE state
  BY DEF TaskState
<1> HIDE DEF n, d
<1>5. Projected(TaskUnit, d, n) \in Mirrors /\ Projected(TaskUnit, d, n).unit = TaskUnit
  BY <1>2, Targets DEF Projected, Mirrors
<1>6. /\ pc' \in [Sessions \cup {Task} -> Steps \cup {"task_state"}]
      /\ pc'[Task] = "idle" /\ \A s \in Sessions : pc'[s] = pc[s]
  BY <1>1, Sentinels DEF TypeOK, Goto, Steps
<1>7. TypeOK'
  BY <1>1, <1>4, <1>5, <1>6 DEF TypeOK
<1>8. Effective' = Effective /\ InSync' = InSync
  BY <1>1, <1>6 DEF Effective, InSync, LandedAt
<1>9. RecordInv' /\ LastInv'
  <2>1. RecordInv'
    BY <1>1 DEF RecordInv, OthersClosed
  <2>2. LastInv'
    BY <1>1 DEF LastInv, Positions
  <2> QED BY <2>1, <2>2
<1>10. TailInv'
  BY <1>1, <1>8 DEF TailInv
<1>11. MirrorInv'
  <2>1. CASE state' = state
    BY <1>1, <1>8, <2>1 DEF GoalInv, MirrorInv, Follows
  <2>2. CASE state' = Projected(TaskUnit, d, n) /\ d = "activated"
    BY <1>1, <1>3, <1>5, <1>8, <2>2, Sentinels DEF GoalInv, MirrorInv, Follows
  <2>3. CASE state' = Projected(TaskUnit, d, n) /\ state # NoState /\ state.unit = TaskUnit
    BY <1>1, <1>5, <1>8, <2>3, Sentinels DEF GoalInv, MirrorInv, Follows
  <2> QED BY <1>4, <2>1, <2>2, <2>3
<1>12. TaskInv'
  BY <1>6 DEF TaskInv
<1>13. ASSUME NEW s \in Sessions PROVE SessionInv(s)'
  <2>1. lock # s
    BY <1>1, Sentinels
  <2>2. ~Idle(s) => ReadInv(s)'
    BY <1>1, <1>6 DEF GoalInv, SessionInv, Idle, ReadInv, Ready, Fits, OthersClosed
  <2>3. ~Idle(s) => WriteInv(s)'
    BY <1>1, <1>6, <1>8, <2>1
       DEF GoalInv, SessionInv, Idle, WriteInv, Writing, LandedAt, PlainTail
  <2> QED BY <1>1, <1>6, <2>2, <2>3 DEF GoalInv, SessionInv, Idle
<1> QED BY <1>1, <1>6, <1>7, <1>8, <1>9, <1>10, <1>11, <1>12, <1>13, Stutters DEF GoalInv

LEMMA RepairTailStep ==
  ASSUME GoalInv, RepairTail
  PROVE  Kept
<1>1. /\ TypeOK /\ RecordInv /\ TailInv /\ LastInv /\ tail # NoEvent /\ tail' = NoEvent
      /\ UNCHANGED <<goal, state, mirrored, record, lock, pc, me, faults, crashes>>
      /\ \A s \in Sessions : Idle(s)
      /\ pc[Task] = "idle"
  BY DEF RepairTail, GoalInv, TypeOK, Idle
<1>2. /\ tail \in Events /\ tail.tx \in BOOLEAN /\ tail.unit \in Units \cup {TaskUnit}
      /\ tail.decision \in Decisions
      /\ tail = Event(tail.unit, tail.decision, tail.tx)
  BY <1>1 DEF TypeOK, Events, Event
<1>3. TailInv' /\ TaskInv' /\ (\A s \in Sessions : SessionInv(s)' /\ pc'[s] # "task_state")
  BY <1>1 DEF TailInv, TaskInv, SessionInv, Idle
<1>4. CASE events' = events
  <2>1. Effective' = Effective /\ InSync' = InSync
    BY <1>1, <1>4 DEF Effective, LandedAt, InSync
  <2>2. MirrorInv'
    BY <1>1, <2>1 DEF MirrorInv, Follows, GoalInv
  <2>3. RecordInv'
    BY <1>1, <1>4 DEF RecordInv, OthersClosed
  <2>4. LastInv'
    BY <1>1, <1>4 DEF LastInv, Positions
  <2>5. TypeOK'
    BY <1>1, <1>4 DEF TypeOK
  <2> QED BY <1>3, <1>4, <2>1, <2>2, <2>3, <2>4, <2>5, Stutters DEF GoalInv
<1>5. CASE events' = Append(events, tail)
  <2>1. LastInv' /\ events' \in Seq(Events)
    BY <1>1, <1>2, <1>5, AppendLast
  <2>2. TypeOK'
    BY <1>1, <2>1 DEF TypeOK
  <2>3. CASE tail.tx
    <3>1. /\ LandedAt(record)' /\ RecordInv' /\ record # NoRecord
          /\ Ledger!Transition(tail.unit, tail.decision)
          /\ tail.decision \in Ledger!Transitions /\ tail.unit \in Units
      BY <1>1, <1>5, <2>3, Lands DEF TailInv, RecordInv
    <3>2. ~InSync'
      BY <1>1, <3>1 DEF InSync, Idle
    <3>3. MirrorInv'
      BY <1>1, <3>2 DEF MirrorInv, GoalInv
    <3> QED BY <1>3, <2>1, <2>2, <3>1, <3>3 DEF GoalInv, Kept, Ledger!Next
  <2>4. CASE tail.tx = FALSE
    <3>1. /\ Effective' = Effective /\ RecordInv'
          /\ record # NoRecord => LandedAt(record)' = LandedAt(record)
      BY <1>1, <1>2, <1>5, <2>4, Beside
    <3>2. InSync' => InSync
      BY <1>1, <3>1 DEF InSync
    <3>3. MirrorInv'
      BY <1>1, <3>1, <3>2 DEF MirrorInv, GoalInv, Follows
    <3>4. Ledger!OtherEvent(tail.unit)
      BY <1>1, <1>2, <1>5, <2>4, <3>1, Targets
         DEF TailInv, Ledger!OtherEvent, Event, Ledger!Event, Open, Ledger!Open
    <3> QED BY <1>2, <1>3, <2>1, <2>2, <3>1, <3>3, <3>4 DEF GoalInv, Kept, Ledger!Next
  <2> QED BY <1>2, <2>3, <2>4
<1> QED BY <1>4, <1>5 DEF RepairTail

LEMMA CrashStep ==
  ASSUME GoalInv, OneAtATime, OneAtATime', NEW p \in Sessions \cup {Task}, Crash(p)
  PROVE  Kept
<1>1. /\ TypeOK /\ RecordInv /\ TailInv /\ LastInv /\ pc[p] # "idle" /\ Goto(p, "idle")
      /\ UNCHANGED <<goal, events, tail, state, mirrored, record, faults>>
      /\ me' = [s \in Sessions |-> IF s = p THEN Fresh ELSE me[s]]
      /\ lock' = IF lock = p THEN NoLock ELSE lock
  BY DEF Crash, GoalInv
<1>2. crashes' \in 0..MaxCrashes
  BY Sentinels DEF Crash, GoalInv, TypeOK
<1>3. /\ pc' \in [Sessions \cup {Task} -> Steps \cup {"task_state"}]
      /\ pc'[p] = "idle" /\ \A q \in Sessions \cup {Task} : q # p => pc'[q] = pc[q]
  BY <1>1 DEF TypeOK, Goto, Steps
<1>4. TypeOK'
  <2>1. me' \in [Sessions -> Local]
    BY <1>1, FreshIsLocal DEF TypeOK, Local
  <2>2. lock' \in Sessions \cup {Task, NoLock}
    BY <1>1 DEF TypeOK
  <2> QED BY <1>1, <1>2, <1>3, <2>1, <2>2 DEF TypeOK, Local
<1>5. CASE p \in Sessions
  <2>1. Alone(p) /\ pc'[Task] = pc[Task]
    BY <1>1, <1>5, Solitude DEF Idle
  <2>2. /\ RecordInv' /\ TailInv' /\ MirrorInv' /\ TaskInv' /\ LastInv'
        /\ Effective' = Effective
    BY <1>1, <1>3, <1>5, <2>1, LocalFrame
  <2>3. SessionInv(p)'
    BY <1>3 DEF SessionInv, Idle
  <2> QED BY <1>1, <1>3, <1>4, <1>5, <2>1, <2>2, <2>3, Gather, Stutters
<1>6. CASE p = Task
  <2>1. /\ me' = me /\ \A s \in Sessions : pc'[s] = pc[s]
    BY <1>1, <1>3, <1>6, Sentinels DEF TypeOK
  <2>2. Effective' = Effective /\ InSync' = InSync
    BY <1>1, <2>1 DEF Effective, LandedAt, InSync
  <2>3. RecordInv' /\ LastInv'
    <3>1. RecordInv'
      BY <1>1 DEF RecordInv, OthersClosed
    <3>2. LastInv'
      BY <1>1 DEF LastInv, Positions
    <3> QED BY <3>1, <3>2
  <2>4. TailInv' /\ MirrorInv'
    BY <1>1, <2>2 DEF GoalInv, TailInv, MirrorInv, Follows
  <2>5. TaskInv'
    BY <1>3, <1>6 DEF TaskInv
  <2>6. ASSUME NEW s \in Sessions PROVE SessionInv(s)'
    <3>1. s # Task
      BY Sentinels
    <3>2. ~Idle(s) => ReadInv(s)'
      BY <1>1, <2>1 DEF GoalInv, SessionInv, Idle, ReadInv, Ready, Fits, OthersClosed
    <3>3. ~Idle(s) => WriteInv(s)'
      BY <1>1, <1>6, <2>1, <2>2, <3>1
         DEF GoalInv, SessionInv, Idle, WriteInv, Writing, LandedAt, PlainTail
    <3> QED BY <2>1, <3>2, <3>3 DEF GoalInv, SessionInv, Idle
  <2> QED BY <1>1, <1>4, <2>1, <2>2, <2>3, <2>4, <2>5, <2>6, Stutters DEF GoalInv
<1> QED BY <1>5, <1>6

-----------------------------------------------------------------------------
(* The invariant and what follows *)

LEMMA GoalInit == Init => GoalInv /\ Ledger!Init
<1> SUFFICES ASSUME Init PROVE GoalInv /\ Ledger!Init
  OBVIOUS
<1>1. /\ goal \in Documents /\ events \in Seq(Events) /\ NoMirror \in Mirrors
      /\ Effective = goal /\ "idle" \in Steps
  BY DEF Init, Documents, Statuses, NoMirror, Mirrors, Effective, Steps
<1>2. TypeOK
  <2>1. me \in [Sessions -> Local]
    BY FreshIsLocal DEF Init
  <2>2. faults \in 0..MaxFaults /\ crashes \in 0..MaxCrashes
    BY Sentinels DEF Init
  <2> QED BY <1>1, <2>1, <2>2 DEF Init, TypeOK, Local
<1>3. \A p \in Sessions \cup {Task} : pc[p] = "idle"
  BY DEF Init
<1>4. RecordInv /\ TailInv /\ TaskInv /\ \A s \in Sessions : SessionInv(s)
  BY <1>3 DEF Init, RecordInv, TailInv, TaskInv, SessionInv, Idle
<1>5. LastInv
  BY DEF Init, LastInv, Positions
<1>6. MirrorInv
  BY <1>1, Sentinels DEF Init, MirrorInv, Follows, NoMirror, Open
<1>7. Ledger!Init
  BY <1>1 DEF Init, Ledger!Init
<1> QED BY <1>2, <1>3, <1>4, <1>5, <1>6, <1>7 DEF GoalInv

LEMMA GoalNext == GoalInv /\ OneAtATime /\ OneAtATime' /\ [Next]_vars => Kept
<1> SUFFICES ASSUME GoalInv, OneAtATime, OneAtATime', [Next]_vars PROVE Kept
  OBVIOUS
<1>1. CASE UNCHANGED vars
  <2>1. /\ Effective' = Effective /\ InSync' = InSync /\ UNCHANGED events
        /\ Positions(TaskUnit)' = Positions(TaskUnit) /\ Latest(TaskUnit)' = Latest(TaskUnit)
    BY <1>1 DEF vars, Effective, LandedAt, InSync, Positions, Latest
  <2>2. TypeOK'
    BY <1>1 DEF vars, GoalInv, TypeOK
  <2>3. RecordInv' /\ TailInv'
    BY <1>1, <2>1 DEF vars, GoalInv, RecordInv, TailInv, OthersClosed
  <2>4. MirrorInv' /\ TaskInv'
    BY <1>1, <2>1 DEF vars, GoalInv, MirrorInv, TaskInv, Follows
  <2>5. LastInv'
    BY <1>1 DEF vars, GoalInv, LastInv, Positions
  <2>6. ASSUME NEW s \in Sessions PROVE SessionInv(s)' /\ pc'[s] # "task_state"
    <3>1. ReadInv(s)' = ReadInv(s)
      BY <1>1 DEF vars, ReadInv, Ready, Fits, OthersClosed
    <3>2. WriteInv(s)' = WriteInv(s)
      BY <1>1, <2>1 DEF vars, WriteInv, PlainTail, LandedAt
    <3> QED BY <1>1, <3>1, <3>2 DEF vars, GoalInv, SessionInv, Idle
  <2> QED BY <2>1, <2>2, <2>3, <2>4, <2>5, <2>6, Stutters DEF GoalInv
<1>2. ASSUME NEW s \in Sessions,
             \/ Begin(s) \/ Load(s) \/ Preflight(s) \/ SaveGoal(s) \/ SavePause(s)
             \/ Run(s) \/ Decide(s) \/ AppendPlain(s)
             \/ Prepare(s) \/ WriteGoal(s) \/ AppendEvent(s) \/ WriteState(s) \/ Clear(s)
             \/ Recover(s) \/ RollBack(s) \/ Repair(s)
      PROVE  Kept
  BY <1>2, BeginStep, LoadStep, PreflightStep, SaveGoalStep, SavePauseStep, RunStep,
     DecideStep, AppendPlainStep, PrepareStep, WriteGoalStep, AppendEventStep,
     WriteStateStep, ClearStep, RecoverStep, RollBackStep, RepairStep
<1> QED BY <1>1, <1>2, TaskAppendStep, TaskStateStep, RepairTailStep, CrashStep DEF Next

\* While commands do not overlap, each may rely at each step on what SessionInv
\* says, and files, record and STATE say of each other what the invariant says.
THEOREM GoalInvariant == Spec /\ []OneAtATime => []GoalInv
<1>1. GoalInv /\ OneAtATime /\ OneAtATime' /\ [Next]_vars => GoalInv'
  BY GoalNext DEF Kept
<1> QED BY <1>1, GoalInit, PTL DEF Spec

\* Where commands do not overlap, files, record and recovery together implement
\* transitions that are atomic over GOAL.json and events.jsonl, whatever write a
\* command died at (commit_goal_transition, recover_goal_transition).
THEOREM TransitionsAreAtomic == Spec /\ []OneAtATime => LedgerSpec
<1>1. GoalInv /\ OneAtATime /\ OneAtATime' /\ [Next]_vars => [Ledger!Next]_<<Effective, events>>
  BY GoalNext DEF Kept
<1> QED BY <1>1, GoalInit, GoalInvariant, PTL DEF Spec, LedgerSpec, Ledger!Spec

\* While a transition is unfinished, no other command changes GOAL to anything but
\* what the record can decide between.
THEOREM UnfinishedIsFrozen == Spec /\ []OneAtATime => InterruptedIsFrozen
<1>1. ASSUME GoalInv, GoalInv', [Next]_vars, record # NoRecord
      PROVE  goal' \in {record.before, record.after}
  <2>1. record' = record \/ UNCHANGED goal
    <3>1. ASSUME NEW s \in Sessions,
                 \/ Begin(s) \/ Load(s) \/ Preflight(s) \/ SaveGoal(s) \/ SavePause(s)
                 \/ Run(s) \/ Decide(s) \/ AppendPlain(s)
                 \/ Prepare(s) \/ WriteGoal(s) \/ AppendEvent(s) \/ WriteState(s) \/ Clear(s)
                 \/ Recover(s) \/ RollBack(s) \/ Repair(s)
          PROVE  record' = record \/ UNCHANGED goal
      BY <3>1 DEF Begin, Load, Preflight, SaveGoal, SavePause, Run, Decide, AppendPlain,
         Prepare, WriteGoal, AppendEvent, WriteState, Clear, Recover, RollBack, Repair
    <3> QED BY <1>1, <3>1
         DEF Next, TaskAppend, TaskState, RepairTail, Crash, vars
  <2> QED BY <1>1, <2>1 DEF GoalInv, RecordInv
<1> QED BY <1>1, GoalInvariant, PTL DEF Spec, InterruptedIsFrozen

\* Whenever no command and no recovery is under way, STATE.json and GOAL.json agree:
\* an open unit is STATE's, and what STATE says of a unit is so.
THEOREM StateFollowsGoal == Spec /\ []OneAtATime => []MirrorFollows
<1>1. GoalInv => MirrorFollows
  BY DEF GoalInv, MirrorInv, InSync, Follows, Effective, MirrorFollows
<1> QED BY <1>1, GoalInvariant, PTL

-----------------------------------------------------------------------------
(* What the atomic ledger promises carries over *)

\* The transitions of a unit in the log.
Own(u) == {i \in Positions(u) : events[i].tx}

\* Status st of a unit is what transition number i of the log gave it.
Given(st, i) ==
  \/ st = Target(events[i].decision)
  \/ st = "recovery_required" /\ Target(events[i].decision) = "in_progress"

WholeInv ==
  \A u \in Units :
    IF Own(u) = {} THEN Effective[u] = "pending"
    ELSE \E i \in Own(u) : (\A j \in Own(u) : j <= i) /\ Given(Effective[u], i)

\* A line that is no transition, or of another unit, adds none to a unit's own.
LEMMA OwnAppends ==
  ASSUME events \in Seq(Events), NEW e \in Events, events' = Append(events, e)
  PROVE  /\ \A u : e.unit # u \/ ~e.tx => Own(u)' = Own(u)
         /\ e.tx => Own(e.unit)' = Own(e.unit) \cup {Len(events) + 1}
         /\ events'[Len(events) + 1] = e
         /\ \A u : Own(u) \subseteq 1..Len(events)
         /\ \A i \in 1..Len(events) : events'[i] = events[i]
<1>1. /\ DOMAIN events' = 1..(Len(events) + 1) /\ DOMAIN events = 1..Len(events)
      /\ Len(events) \in Nat /\ events'[Len(events) + 1] = e
      /\ \A i \in 1..Len(events) : events'[i] = events[i]
  OBVIOUS
<1> QED BY <1>1 DEF Own, Positions

LEMMA WholeStep ==
  ASSUME TypeOK, WholeInv, [Ledger!Next]_<<Effective, events>>
  PROVE  WholeInv'
<1>1. Effective \in Documents /\ events \in Seq(Events) /\ Len(events) \in Nat
  BY Documented DEF TypeOK
<1> DEFINE Whole(u) == IF Own(u) = {} THEN Effective[u] = "pending"
                       ELSE \E i \in Own(u) : (\A j \in Own(u) : j <= i) /\ Given(Effective[u], i)
<1>2. ASSUME NEW u \in Units, Own(u)' = Own(u), \A i \in Own(u) : events'[i] = events[i],
             Effective'[u] = Effective[u]
      PROVE  Whole(u)'
  BY <1>2 DEF WholeInv, Given
<1>3. CASE UNCHANGED <<Effective, events>>
  BY <1>2, <1>3 DEF WholeInv, Own, Positions
<1>4. ASSUME NEW u \in Units, Ledger!Pause(u) PROVE WholeInv'
  <2>1. /\ events' = events /\ Effective[u] = "in_progress"
        /\ Effective' = [Effective EXCEPT ![u] = "recovery_required"]
        /\ \A v : Own(v)' = Own(v)
    BY <1>4 DEF Ledger!Pause, Own, Positions
  <2>2. ASSUME NEW v \in Units, v # u PROVE Whole(v)'
    BY <1>1, <1>2, <2>1, <2>2 DEF Documents
  <2>3. Whole(u)'
    <3>1. PICK i \in Own(u) : (\A j \in Own(u) : j <= i) /\ Given("in_progress", i)
      BY <2>1 DEF WholeInv
    <3>2. Given("recovery_required", i)'
      BY <2>1, <3>1 DEF Given
    <3> QED BY <1>1, <2>1, <3>1, <3>2 DEF Documents
  <2> QED BY <2>2, <2>3 DEF WholeInv
<1>5. ASSUME NEW u \in Units, NEW d \in Ledger!Transitions, Ledger!Transition(u, d)
      PROVE  WholeInv'
  <2> DEFINE e == Event(u, d, TRUE)
             n == Len(events) + 1
  <2>1. d \in Decisions
    BY DEF Ledger!Transitions, Decisions
  <2>2. e \in Events /\ e.unit = u /\ e.tx = TRUE /\ e.decision = d
    BY <2>1 DEF Event, Events
  <2>3. /\ events' = Append(events, e)
        /\ Effective' = [Effective EXCEPT ![u] = Target(d)]
    BY <1>5, <2>1, Targets DEF Ledger!Transition, Ledger!Event, Event
  <2> HIDE DEF e
  <2>4. /\ \A v : v # u => Own(v)' = Own(v)
        /\ Own(u)' = Own(u) \cup {n} /\ events'[n] = e
        /\ \A v : Own(v) \subseteq 1..Len(events)
        /\ \A i \in 1..Len(events) : events'[i] = events[i]
    BY <1>1, <2>2, <2>3, OwnAppends
  <2>5. ASSUME NEW v \in Units, v # u PROVE Whole(v)'
    BY <1>1, <1>2, <2>3, <2>4, <2>5 DEF Documents
  <2>6. Whole(u)'
    <3>1. n \in Own(u)' /\ \A j \in Own(u)' : j <= n
      BY <1>1, <2>4
    <3>2. Effective'[u] = Target(events'[n].decision)
      BY <1>1, <2>2, <2>3, <2>4 DEF Documents
    <3> HIDE DEF n
    <3> QED BY <3>1, <3>2 DEF Given
  <2> QED BY <2>5, <2>6 DEF WholeInv
<1>6. ASSUME NEW u \in Units \cup {TaskUnit}, Ledger!OtherEvent(u) PROVE WholeInv'
  <2>1. PICK d \in Decisions :
          events' = Append(events, Event(u, d, FALSE)) /\ Effective' = Effective
    BY <1>6 DEF Ledger!OtherEvent, Ledger!Event, Event, Ledger!Transitions, Decisions
  <2>2. Event(u, d, FALSE) \in Events /\ Event(u, d, FALSE).tx = FALSE
    BY DEF Event, Events
  <2>3. /\ \A v : Own(v)' = Own(v) /\ Own(v) \subseteq 1..Len(events)
        /\ \A i \in 1..Len(events) : events'[i] = events[i]
    BY <1>1, <2>1, <2>2, OwnAppends
  <2> QED BY <1>2, <2>1, <2>3 DEF WholeInv
<1> QED BY <1>3, <1>4, <1>5, <1>6 DEF Ledger!Next

\* With no recovery record pending, GOAL says of each unit what the last of its
\* transitions in the log says: it follows from the atomic ledger alone.
THEOREM GoalSaysTheLog == Spec /\ []OneAtATime => []TransitionIsWhole
<1>1. Init => WholeInv
  BY GoalInit DEF Init, WholeInv, Own, Positions, Effective
<1>2. TypeOK /\ WholeInv /\ [Ledger!Next]_<<Effective, events>> => WholeInv'
  BY WholeStep
<1>3. GoalInv => TypeOK
  BY DEF GoalInv
<1>4. GoalInv /\ OneAtATime /\ OneAtATime' /\ [Next]_vars
        => [Ledger!Next]_<<Effective, events>>
  BY GoalNext DEF Kept
<1>5. GoalInv /\ WholeInv => TransitionIsWhole
  <2> SUFFICES ASSUME GoalInv, WholeInv, record = NoRecord, NEW u \in Units
               PROVE  LET mine == {i \in Positions(u) : events[i].tx}
                          last == CHOOSE i \in mine : \A j \in mine : j <= i IN
                      IF mine = {} THEN goal[u] = "pending" ELSE Given(goal[u], last)
    BY DEF TransitionIsWhole, Given
  <2> DEFINE last == CHOOSE i \in Own(u) : \A j \in Own(u) : j <= i
  <2>1. goal = Effective /\ Own(u) \subseteq Nat
    BY DEF Effective, Own, Positions, GoalInv, TypeOK
  <2>2. CASE Own(u) = {}
    BY <2>1, <2>2 DEF WholeInv, Own
  <2>3. CASE Own(u) # {}
    <3>1. PICK i \in Own(u) : (\A j \in Own(u) : j <= i) /\ Given(goal[u], i)
      BY <2>1, <2>3 DEF WholeInv
    <3>2. last \in Own(u) /\ \A j \in Own(u) : j <= last
      BY <3>1
    <3> HIDE DEF last
    <3>3. last = i
      BY <2>1, <3>1, <3>2
    <3>4. Given(goal[u], last)
      BY <3>1, <3>3
    <3> QED BY <2>3, <3>4 DEF Own, last
  <2> QED BY <2>2, <2>3
<1> QED BY <1>1, <1>2, <1>3, <1>4, <1>5, GoalInvariant, PTL DEF Spec

\* One session never overlaps itself: what the checked instance has.
THEOREM OneSession ==
  ASSUME NEW s, Sessions = {s}
  PROVE  Spec => []OneAtATime
<1>1. OneAtATime
  BY DEF OneAtATime
<1> QED BY <1>1, PTL
-----------------------------------------------------------------------------
(* The processes of a bounded call *)

CONSTANTS Child, Others, Reaper, Limit
VARIABLES platform, proc, released, ctl, todo, parents, found, reachable
Trees == INSTANCE ProcessTree

Depth == Trees!Cardinality(Others)

ProcInv ==
  /\ proc = [p \in Trees!Processes |-> proc[p]]
  /\ \A p \in Trees!Processes :
       /\ proc[p] = [state |-> proc[p].state, parent |-> proc[p].parent, member |-> proc[p].member]
       /\ proc[p].state \in {"unborn", "live", "gone"} /\ proc[p].member \in BOOLEAN

\* Before the group is killed, in the job or in the group; afterwards, out of it.
MemberInv ==
  /\ platform \in {"posix", "windows"}
  /\ platform = "posix" => ctl \in {"wait", "list", "read", "walk", "group", "each", "reap", "closed"}
  /\ platform = "windows" =>
       /\ ctl \in {"assign", "release", "wait", "close", "closed"}
       /\ ctl \in {"assign", "release"} => ~released
       /\ ~released => \A p \in Trees!Processes : Trees!Live(p) => p = Child
       /\ ctl \in {"release", "wait", "close"} =>
            \A p \in Trees!Processes : Trees!Live(p) => proc[p].member
       /\ ctl = "closed" => \A p \in Trees!Processes : ~Trees!Live(p)
  /\ ctl \in {"each", "reap", "closed"} =>
       \A p \in Trees!Processes : Trees!Live(p) => ~proc[p].member
  /\ ctl = "closed" => ~Trees!Live(Child)

\* While /proc is read, the parent of what has stayed a descendant has stayed one, and was
\* read as it is.  The walk has the children of whoever it has looked at, so at its end it
\* has found what stayed a descendant, unless it ended at its limit; and what it found, its
\* loop still has before it or is dead.
ReachInv ==
  /\ parents = [p \in Trees!Processes |-> parents[p]]
  /\ \A p \in Others : parents[p] # Reaper => proc[p].state # "unborn"
  /\ reachable \subseteq Others /\ \A p \in reachable : proc[p].state # "unborn"
  /\ found \subseteq Others /\ \A p \in found : proc[p].state # "unborn"
  /\ ctl \in {"assign", "release", "wait", "list", "read"} => found = {}
  /\ ctl = "read" =>
       /\ reachable \subseteq Trees!Lineage(Trees!Parents)
       /\ \A p \in reachable :
            /\ Trees!Parents[p] = Child \/ Trees!Parents[p] \in reachable
            /\ p \notin todo => parents[p] = Trees!Parents[p]
  /\ ctl = "walk" =>
       /\ todo \subseteq found \cup {Child}
       /\ reachable \subseteq Trees!Lineage(parents)
       /\ \A p \in Others : parents[p] \in (found \cup {Child}) \ todo => p \in found
  /\ ctl \in {"group", "each", "reap", "closed"} /\ platform = "posix" =>
       \/ reachable \subseteq found
       \/ Trees!Cardinality(found) >= Limit
  /\ ctl = "group" => todo = found
  /\ ctl = "each" => \A p \in found : Trees!Live(p) => p \in todo
  /\ ctl \in {"reap", "closed"} => \A p \in found : ~Trees!Live(p)

TreeInv == ProcInv /\ MemberInv /\ ReachInv

LEMMA DepthIsFinite == ASSUME Trees!TreeAssumption PROVE Depth \in Nat
<1>1. IsFiniteSet(Others)
  BY DEF Trees!TreeAssumption, Trees!IsFiniteSet, IsFiniteSet
<1>2. Depth = Cardinality(Others)
  BY DEF Depth, Trees!Cardinality, Cardinality
<1> QED
  BY <1>1, <1>2, FS_CardinalityType

\* Induction over an initial part of the numbers.
LEMMA UpTo ==
  ASSUME NEW n \in Nat, NEW K, 0 \in K, \A k \in 0..(n - 1) : k \in K => k + 1 \in K
  PROVE  \A k \in 0..n : k \in K
<1> SUFFICES ASSUME NEW k \in 0..n, k \notin K PROVE FALSE
  OBVIOUS
<1> DEFINE Rest == {m \in 0..n : m \notin K}
<1>1. PICK m \in Rest : \A j \in Rest : ~(j < m)
  <2>1. Rest \subseteq Nat /\ k \in Rest
    OBVIOUS
  <2>2. PICK m \in Rest : \A j \in Rest : ~(<<j, m>> \in OpToRel(<, Nat))
    BY <2>1, NatLessThanWellFounded, WFMin
  <2> QED
    BY <2>1, <2>2 DEF OpToRel
<1>2. m \in 0..n /\ m # 0 /\ m - 1 \in 0..(n - 1) /\ m - 1 \notin Rest
  BY <1>1
<1> QED
  BY <1>1, <1>2

\* The recursive function in Lineage exists, so that Lineage is its last value.
Further(S, parent) == S \cup {p \in Others : parent[p] \in S}
LEMMA LineageSteps ==
  ASSUME Trees!TreeAssumption, NEW parent
  PROVE  \E down :
           /\ Trees!Lineage(parent) = down[Depth] \ {Child} /\ down[0] = {Child}
           /\ \A n \in 1..Depth : down[n] = Further(down[n - 1], parent)
<1> DEFINE Filled(f, k) ==
             f = [n \in 0..k |-> IF n = 0 THEN {Child} ELSE Further(f[n - 1], parent)]
           Defined == {k \in Nat : \E f : Filled(f, k)}
<1>1. 0 \in Defined
  <2> DEFINE f == [n \in 0..0 |-> {Child}]
  <2>1. Filled(f, 0)
    OBVIOUS
  <2> QED
    BY <2>1
<1>2. ASSUME NEW k \in Nat, k \in Defined PROVE k + 1 \in Defined
  <2>1. PICK f : Filled(f, k)
    BY <1>2
  <2> DEFINE g == [n \in 0..(k + 1) |-> IF n = k + 1 THEN Further(f[k], parent) ELSE f[n]]
  <2>2. \A n \in 0..k : f[n] = IF n = 0 THEN {Child} ELSE Further(f[n - 1], parent)
    BY <2>1
  <2>3. \A n \in 0..k : g[n] = f[n]
    OBVIOUS
  <2>4. \A n \in 0..(k + 1) : g[n] = IF n = 0 THEN {Child} ELSE Further(g[n - 1], parent)
    <3> SUFFICES ASSUME NEW n \in 0..(k + 1)
                 PROVE  g[n] = IF n = 0 THEN {Child} ELSE Further(g[n - 1], parent)
      OBVIOUS
    <3>1. CASE n = k + 1
      <4>1. g[n] = Further(f[k], parent) /\ n - 1 = k /\ n # 0 /\ g[k] = f[k]
        BY <2>3, <3>1
      <4> QED
        BY <4>1
    <3>2. CASE n = 0
      BY <2>2, <2>3, <3>2
    <3>3. CASE n \in 1..k
      <4>1. g[n] = f[n] /\ g[n - 1] = f[n - 1] /\ n # 0 /\ n \in 0..k
        BY <2>3, <3>3
      <4> QED
        BY <2>2, <4>1
    <3> QED
      BY <3>1, <3>2, <3>3
  <2>5. Filled(g, k + 1)
    BY <2>4
  <2> HIDE DEF g
  <2>6. \E e : Filled(e, k + 1)
    BY <2>5
  <2> QED
    BY <2>6
<1>3. Depth \in Defined
  <2> HIDE DEF Defined
  <2>1. \A k \in 0..(Depth - 1) : k \in Defined => k + 1 \in Defined
    BY <1>2, DepthIsFinite
  <2>2. \A k \in 0..Depth : k \in Defined
    BY <1>1, <2>1, DepthIsFinite, UpTo
  <2> QED
    BY <2>2, DepthIsFinite
<1> DEFINE down == CHOOSE down : Filled(down, Depth)
<1>4. Filled(down, Depth)
  BY <1>3
<1>5. Trees!Lineage(parent) = down[Depth] \ {Child}
  BY DEF Trees!Lineage, Further, Depth
<1> HIDE DEF down
<1>6. \A n \in 0..Depth : down[n] = IF n = 0 THEN {Child} ELSE Further(down[n - 1], parent)
  BY <1>4
<1>7. down[0] = {Child} /\ \A n \in 1..Depth : down[n] = Further(down[n - 1], parent)
  BY <1>6, DepthIsFinite
<1> QED
  BY <1>5, <1>7

\* The parent of a descendant is the child or a descendant.
LEMMA LineageUp ==
  ASSUME Trees!TreeAssumption, NEW parent, NEW p \in Trees!Lineage(parent)
  PROVE  p \in Others /\ (parent[p] = Child \/ parent[p] \in Trees!Lineage(parent))
<1>1. PICK down :
        /\ Trees!Lineage(parent) = down[Depth] \ {Child} /\ down[0] = {Child}
        /\ \A n \in 1..Depth : down[n] = Further(down[n - 1], parent)
  BY LineageSteps
<1> DEFINE K == {n \in Nat : /\ down[n] \subseteq Others \cup {Child}
                             /\ \A q \in down[n] \ {Child} : parent[q] \in down[n]}
<1>2. 0 \in K
  BY <1>1
<1>3. ASSUME NEW k \in 0..(Depth - 1), k \in K PROVE k + 1 \in K
  <2>1. k + 1 \in 1..Depth /\ (k + 1) - 1 = k
    BY DepthIsFinite
  <2>2. down[k + 1] = Further(down[k], parent)
    BY <1>1, <2>1
  <2> QED
    BY <1>3, <2>2 DEF Further
<1>4. Depth \in K
  <2> HIDE DEF K
  <2>1. \A k \in 0..Depth : k \in K
    BY <1>2, <1>3, DepthIsFinite, UpTo
  <2> QED
    BY <2>1, DepthIsFinite
<1> QED
  BY <1>1, <1>4

\* Descendants by way of each other stay so while their parents do.
LEMMA LineageKept ==
  ASSUME Trees!TreeAssumption, NEW a, NEW b, NEW R, R \subseteq Trees!Lineage(a),
         \A p \in R : b[p] = a[p] /\ (a[p] = Child \/ a[p] \in R)
  PROVE  R \subseteq Trees!Lineage(b)
<1>1. PICK down :
        /\ Trees!Lineage(a) = down[Depth] \ {Child} /\ down[0] = {Child}
        /\ \A n \in 1..Depth : down[n] = Further(down[n - 1], a)
  BY LineageSteps
<1>2. PICK other :
        /\ Trees!Lineage(b) = other[Depth] \ {Child} /\ other[0] = {Child}
        /\ \A n \in 1..Depth : other[n] = Further(other[n - 1], b)
  BY LineageSteps
<1>3. \A p \in R : p \in Others /\ p # Child
  BY <1>1, LineageUp
<1> DEFINE K == {n \in Nat : \A q \in R \cup {Child} : q \in down[n] => q \in other[n]}
<1>4. 0 \in K
  BY <1>1, <1>2
<1>5. ASSUME NEW k \in 0..(Depth - 1), k \in K PROVE k + 1 \in K
  <2>1. k + 1 \in 1..Depth /\ (k + 1) - 1 = k
    BY DepthIsFinite
  <2>2. down[k + 1] = Further(down[k], a) /\ other[k + 1] = Further(other[k], b)
    BY <1>1, <1>2, <2>1
  <2>3. ASSUME NEW q \in R \cup {Child}, q \in down[k + 1] PROVE q \in other[k + 1]
    <3>1. CASE q \in down[k]
      BY <1>5, <2>2, <3>1 DEF Further
    <3>2. CASE q \notin down[k]
      <4>1. q \in Others /\ a[q] \in down[k]
        BY <2>2, <2>3, <3>2 DEF Further
      <4>2. q \in R
        BY <4>1 DEF Trees!TreeAssumption
      <4>3. b[q] \in other[k]
        BY <1>5, <4>1, <4>2
      <4> QED
        BY <2>2, <4>1, <4>3 DEF Further
    <3> QED
      BY <3>1, <3>2
  <2> QED
    BY <2>3
<1>6. Depth \in K
  <2> HIDE DEF K
  <2>1. \A k \in 0..Depth : k \in K
    BY <1>4, <1>5, DepthIsFinite, UpTo
  <2> QED
    BY <2>1, DepthIsFinite
<1> QED
  BY <1>1, <1>2, <1>3, <1>6

\* What ends a set of processes ends those alive in it, and orphans their children.
LEMMA EndFacts ==
  ASSUME ProcInv, NEW D, Trees!End(D)
  PROVE  /\ ProcInv'
         /\ \A p \in Trees!Processes :
              /\ Trees!Live(p)' <=> Trees!Live(p) /\ p \notin D
              /\ proc'[p].member = proc[p].member
              /\ proc'[p].state = "unborn" <=> proc[p].state = "unborn"
              /\ Trees!Parents'[p] \in {Trees!Parents[p], Reaper}
<1> DEFINE dead == {p \in D : Trees!Live(p)}
<1>1. proc' = [p \in Trees!Processes |->
                IF p \in dead THEN [proc[p] EXCEPT !.state = "gone"]
                ELSE IF proc[p].parent \in dead THEN [proc[p] EXCEPT !.parent = Reaper] ELSE proc[p]]
  BY DEF Trees!End, Trees!After
<1>2. ASSUME NEW p \in Trees!Processes
      PROVE  /\ proc'[p] = [state |-> proc'[p].state, parent |-> proc'[p].parent,
                             member |-> proc'[p].member]
             /\ proc'[p].member = proc[p].member
             /\ proc'[p].state = IF p \in dead THEN "gone" ELSE proc[p].state
             /\ p \notin dead => proc'[p].parent \in {proc[p].parent, Reaper}
  <2> DEFINE x == [proc[p] EXCEPT !.state = "gone"]
             y == [proc[p] EXCEPT !.parent = Reaper]
  <2>1. x = [state |-> "gone", parent |-> proc[p].parent, member |-> proc[p].member]
    BY DEF ProcInv
  <2>2. y = [state |-> proc[p].state, parent |-> Reaper, member |-> proc[p].member]
    BY DEF ProcInv
  <2>3. proc'[p] = IF p \in dead THEN x ELSE IF proc[p].parent \in dead THEN y ELSE proc[p]
    BY <1>1
  <2>4. proc[p] = [state |-> proc[p].state, parent |-> proc[p].parent, member |-> proc[p].member]
    BY DEF ProcInv
  <2> HIDE DEF x, y
  <2>5. CASE p \in dead
    BY <2>1, <2>3, <2>5
  <2>6. CASE p \notin dead /\ proc[p].parent \in dead
    BY <2>2, <2>3, <2>6
  <2>7. CASE p \notin dead /\ proc[p].parent \notin dead
    BY <2>3, <2>4, <2>7
  <2> QED
    BY <2>5, <2>6, <2>7
<1>3. proc' = [p \in Trees!Processes |-> proc'[p]]
  BY <1>1
<1>4. ProcInv'
  BY <1>2, <1>3 DEF ProcInv
<1>5. ASSUME NEW p \in Trees!Processes
      PROVE  /\ Trees!Live(p)' <=> Trees!Live(p) /\ p \notin D
             /\ proc'[p].member = proc[p].member
             /\ proc'[p].state = "unborn" <=> proc[p].state = "unborn"
             /\ Trees!Parents'[p] \in {Trees!Parents[p], Reaper}
  <2>1. proc'[p].member = proc[p].member
    BY <1>2
  <2>2. Trees!Live(p)' <=> Trees!Live(p) /\ p \notin D
    BY <1>2 DEF Trees!Live
  <2>3. proc'[p].state = "unborn" <=> proc[p].state = "unborn"
    BY <1>2 DEF Trees!Live
  <2>4. Trees!Parents'[p] = IF Trees!Live(p)' THEN proc'[p].parent ELSE Reaper
    BY DEF Trees!Parents, Trees!Processes, Trees!Live
  <2>5. Trees!Parents[p] = IF Trees!Live(p) THEN proc[p].parent ELSE Reaper
    BY DEF Trees!Parents
  <2> QED
    BY <1>2, <2>1, <2>2, <2>3, <2>4, <2>5
<1> QED
  BY <1>4, <1>5

\* A step that moves no parent, no life and no membership.
LEMMA SameTree ==
  ASSUME UNCHANGED proc PROVE Trees!Parents' = Trees!Parents /\ \A p : Trees!Live(p)' <=> Trees!Live(p)
  BY DEF Trees!Parents, Trees!Live, Trees!Processes

LEMMA InitTree == Trees!Init => TreeInv
<1> SUFFICES ASSUME Trees!Init PROVE TreeInv
  OBVIOUS
<1>1. ProcInv
  BY DEF Trees!Init, ProcInv
<1>2. MemberInv
  BY DEF Trees!Init, MemberInv, Trees!Live
<1>3. ReachInv
  BY DEF Trees!Init, Trees!Unread, Trees!Processes, ReachInv
<1> QED
  BY <1>1, <1>2, <1>3 DEF TreeInv

\* A fork adds one process, which was none before.
LEMMA ForkStep ==
  ASSUME Trees!TreeAssumption, TreeInv, NEW p \in Trees!Processes, Trees!Fork(p) PROVE TreeInv'
<1>1. PICK q \in Others :
        /\ proc[q].state = "unborn"
        /\ proc' = [proc EXCEPT ![q] = [state |-> "live", parent |-> p, member |-> proc[p].member]]
  BY DEF Trees!Fork
<1>2. /\ Trees!Live(p) /\ (p = Child => released) /\ q \in Trees!Processes /\ q # Child
      /\ UNCHANGED <<platform, released, ctl, todo, parents, found, reachable>>
  BY DEF Trees!Fork, Trees!caller, Trees!Processes, Trees!TreeAssumption
<1> DEFINE new == [state |-> "live", parent |-> p, member |-> proc[p].member]
<1>3. /\ proc' = [r \in Trees!Processes |-> proc'[r]] /\ proc'[q] = new
      /\ \A r \in Trees!Processes : r # q => proc'[r] = proc[r]
  BY <1>1, <1>2 DEF TreeInv, ProcInv
<1>4. ProcInv'
  BY <1>3 DEF TreeInv, ProcInv
<1>5. \A r \in Trees!Processes : Trees!Live(r)' <=> Trees!Live(r) \/ r = q
  BY <1>1, <1>3 DEF Trees!Live
<1>6. proc'[q].member = proc[p].member
  BY <1>3
<1>7. MemberInv'
  <2>1. platform = "windows" => released /\ ctl # "closed"
    BY <1>2 DEF TreeInv, MemberInv
  <2>2. ctl \in {"release", "wait", "close"} /\ platform = "windows" =>
          \A r \in Trees!Processes : Trees!Live(r)' => proc'[r].member
    BY <1>2, <1>3, <1>5, <1>6 DEF TreeInv, MemberInv
  <2>3. ctl \in {"each", "reap", "closed"} =>
          \A r \in Trees!Processes : Trees!Live(r)' => ~proc'[r].member
    BY <1>2, <1>3, <1>5, <1>6 DEF TreeInv, MemberInv
  <2>4. ctl = "closed" => ~Trees!Live(Child)'
    BY <1>2, <1>5 DEF TreeInv, MemberInv, Trees!Processes
  <2> QED
    BY <1>2, <2>1, <2>2, <2>3, <2>4 DEF TreeInv, MemberInv
<1>8. ASSUME NEW r \in reachable
      PROVE  r # q /\ r \in Trees!Processes /\ proc'[r] = proc[r] /\ Trees!Parents'[r] = Trees!Parents[r]
  <2>1. r # q /\ r \in Trees!Processes
    BY <1>1 DEF TreeInv, ReachInv, Trees!Processes
  <2> QED
    BY <1>3, <1>5, <2>1 DEF Trees!Parents, Trees!Live, Trees!Processes
<1>9. ctl = "read" => reachable \subseteq Trees!Lineage(Trees!Parents')
  BY <1>8, LineageKept DEF TreeInv, ReachInv
<1>10. ReachInv'
  <2>1. parents' = [r \in Trees!Processes |-> parents'[r]] /\ reachable' \subseteq Others
    BY <1>2 DEF TreeInv, ReachInv, Trees!Processes
  <2>2. \A r \in reachable' : proc'[r].state # "unborn"
    BY <1>2, <1>8 DEF TreeInv, ReachInv
  <2>3. ASSUME NEW r \in found
        PROVE  r \in Others /\ proc'[r].state # "unborn" /\ (Trees!Live(r)' <=> Trees!Live(r))
    <3>1. r \in Others /\ r \in Trees!Processes /\ r # q
      BY <1>1 DEF TreeInv, ReachInv, Trees!Processes
    <3> QED
      BY <1>3, <1>5, <3>1 DEF TreeInv, ReachInv
  <2>4. ASSUME NEW r \in Others, parents[r] # Reaper PROVE proc'[r].state # "unborn"
    BY <1>3, <2>4 DEF TreeInv, ReachInv, Trees!Processes
  <2> QED
    BY <1>2, <1>8, <1>9, <2>1, <2>2, <2>3, <2>4 DEF TreeInv, ReachInv
<1> QED
  BY <1>4, <1>7, <1>10 DEF TreeInv

LEMMA GroupLeft ==
  ASSUME TreeInv, NEW p \in Trees!Processes, Trees!Leave(p) PROVE TreeInv'
<1> DEFINE x == [proc[p] EXCEPT !.member = FALSE]
<1>1. /\ x = [state |-> x.state, parent |-> x.parent, member |-> x.member]
      /\ x.state = proc[p].state /\ x.parent = proc[p].parent /\ x.member = FALSE
  <2>1. proc[p] = [state |-> proc[p].state, parent |-> proc[p].parent, member |-> proc[p].member]
    BY DEF TreeInv, ProcInv
  <2>2. /\ DOMAIN x = DOMAIN proc[p] /\ DOMAIN proc[p] = {"state", "parent", "member"}
        /\ x.state = proc[p].state /\ x.parent = proc[p].parent
    BY <2>1
  <2>3. x.member = FALSE
    BY <2>2
  <2>4. x = [k \in DOMAIN x |-> x[k]]
    OBVIOUS
  <2> HIDE DEF x
  <2> QED
    BY <2>2, <2>3, <2>4
<1> HIDE DEF x
<1>2. /\ platform = "posix" /\ proc' = [proc EXCEPT ![p] = x]
      /\ UNCHANGED <<platform, released, ctl, todo, parents, found, reachable>>
  BY DEF Trees!Leave, Trees!caller, x
<1>3. /\ proc' = [r \in Trees!Processes |-> proc'[r]] /\ proc'[p] = x
      /\ \A r \in Trees!Processes : r # p => proc'[r] = proc[r]
  BY <1>2 DEF TreeInv, ProcInv
<1>4. \A r \in Trees!Processes :
        proc'[r].state = proc[r].state /\ proc'[r].parent = proc[r].parent
        /\ (proc'[r].member => proc[r].member)
  BY <1>1, <1>3
<1>5. ProcInv'
  <2>1. ASSUME NEW r \in Trees!Processes
        PROVE  /\ proc'[r] = [state |-> proc'[r].state, parent |-> proc'[r].parent,
                              member |-> proc'[r].member]
               /\ proc'[r].state \in {"unborn", "live", "gone"} /\ proc'[r].member \in BOOLEAN
    <3>1. CASE r = p
      <4>1. proc'[r] = x /\ x = [state |-> x.state, parent |-> x.parent, member |-> x.member]
            /\ x.state = proc[p].state /\ x.member \in BOOLEAN
        BY <1>1, <1>3, <3>1
      <4>2. proc[p].state \in {"unborn", "live", "gone"}
        BY DEF TreeInv, ProcInv
      <4> QED
        BY <4>1, <4>2
    <3>2. CASE r # p
      BY <1>3, <3>2 DEF TreeInv, ProcInv
    <3> QED
      BY <3>1, <3>2
  <2> QED
    BY <1>3, <2>1 DEF ProcInv
<1>6. Trees!Parents' = Trees!Parents /\ \A r \in Trees!Processes : Trees!Live(r)' <=> Trees!Live(r)
  BY <1>4 DEF Trees!Parents, Trees!Live, Trees!Processes
<1>7. Child \in Trees!Processes /\ Others \subseteq Trees!Processes
  BY DEF Trees!Processes
<1>8. MemberInv'
  BY <1>2, <1>4, <1>6, <1>7 DEF TreeInv, MemberInv
<1>9. ReachInv'
  BY <1>2, <1>4, <1>6, <1>7 DEF TreeInv, ReachInv
<1> QED
  BY <1>5, <1>8, <1>9 DEF TreeInv

LEMMA FinishStep ==
  ASSUME Trees!TreeAssumption, TreeInv, NEW p \in Trees!Processes, Trees!Finish(p) PROVE TreeInv'
<1>1. /\ Trees!End({p}) /\ UNCHANGED <<platform, released, ctl, todo, parents, found>>
      /\ reachable' = IF ctl = "read" THEN reachable \cap Trees!Descendants' ELSE reachable
  BY DEF Trees!Finish
<1>2. /\ ProcInv'
      /\ \A r \in Trees!Processes :
           /\ Trees!Live(r)' => Trees!Live(r)
           /\ proc'[r].member = proc[r].member
           /\ proc'[r].state = "unborn" <=> proc[r].state = "unborn"
           /\ Trees!Parents'[r] \in {Trees!Parents[r], Reaper}
  BY <1>1, EndFacts DEF TreeInv
<1>3. Child \in Trees!Processes /\ Others \subseteq Trees!Processes
  BY DEF Trees!Processes
<1>4. MemberInv'
  BY <1>1, <1>2, <1>3 DEF TreeInv, MemberInv
<1>5. Trees!Descendants' = Trees!Lineage(Trees!Parents')
  BY DEF Trees!Descendants
<1>6. ASSUME ctl = "read", NEW r \in reachable'
      PROVE  Trees!Parents'[r] = Trees!Parents[r] /\ (Trees!Parents'[r] = Child \/ Trees!Parents'[r] \in reachable')
  <2>1. r \in reachable /\ r \in Trees!Lineage(Trees!Parents')
    BY <1>1, <1>5, <1>6
  <2>2. Trees!Parents'[r] = Child \/ Trees!Parents'[r] \in Trees!Lineage(Trees!Parents')
    BY <2>1, LineageUp
  <2>3. Trees!Parents'[r] # Reaper
    BY <2>2, LineageUp DEF Trees!TreeAssumption
  <2>4. Trees!Parents'[r] = Trees!Parents[r]
    BY <1>2, <1>3, <2>1, <2>3 DEF TreeInv, ReachInv
  <2> QED
    BY <1>1, <1>5, <1>6, <2>1, <2>2, <2>4 DEF TreeInv, ReachInv
<1>7. ReachInv'
  <2>1. parents' = [r \in Trees!Processes |-> parents'[r]] /\ reachable' \subseteq Others
    BY <1>1 DEF TreeInv, ReachInv, Trees!Processes
  <2>2. /\ \A r \in reachable' : proc'[r].state # "unborn"
        /\ \A r \in found : proc'[r].state # "unborn" /\ (Trees!Live(r)' => Trees!Live(r))
        /\ \A r \in Others : parents[r] # Reaper => proc'[r].state # "unborn"
    BY <1>1, <1>2, <1>3 DEF TreeInv, ReachInv
  <2>3. ctl' = "read" =>
          /\ reachable' \subseteq Trees!Lineage(Trees!Parents')
          /\ \A r \in reachable' : r \notin todo' => parents'[r] = Trees!Parents'[r]
    BY <1>1, <1>5, <1>6 DEF TreeInv, ReachInv
  <2> QED
    BY <1>1, <1>6, <2>1, <2>2, <2>3 DEF TreeInv, ReachInv
<1> QED
  BY <1>2, <1>4, <1>7 DEF TreeInv

LEMMA WindowsStep ==
  ASSUME TreeInv, Trees!Assign \/ Trees!Release \/ Trees!Wait \/ Trees!CloseJob PROVE TreeInv'
<1>1. Child \in Trees!Processes /\ Others \subseteq Trees!Processes
  BY DEF Trees!Processes
<1>2. ASSUME ctl \in {"assign", "release", "wait", "close"},
             ctl' \in {"release", "wait", "list", "close", "closed"},
             UNCHANGED <<todo, parents, found, reachable>>, ctl' = "list" => ctl = "wait",
             ctl' \in {"release", "wait"} => ctl \in {"assign", "release"},
             \A r \in Trees!Processes : proc'[r].state = "unborn" <=> proc[r].state = "unborn",
             ctl' = "closed" =>
               platform' = "windows" /\ \A r \in Trees!Processes : ~Trees!Live(r)'
      PROVE  ReachInv'
  BY <1>1, <1>2 DEF TreeInv, ReachInv, Trees!Processes
<1>3. CASE Trees!Assign /\ ctl' = "release"
  <2> DEFINE x == [proc[Child] EXCEPT !.member = TRUE]
  <2>1. /\ x = [state |-> x.state, parent |-> x.parent, member |-> x.member]
        /\ x.state = proc[Child].state /\ x.member = TRUE
    <3>1. proc[Child] = [state |-> proc[Child].state, parent |-> proc[Child].parent,
                         member |-> proc[Child].member]
      BY <1>1 DEF TreeInv, ProcInv
    <3>2. /\ DOMAIN x = DOMAIN proc[Child] /\ DOMAIN proc[Child] = {"state", "parent", "member"}
          /\ x.state = proc[Child].state
      BY <3>1
    <3>3. x.member = TRUE
      BY <3>2
    <3>4. x = [k \in DOMAIN x |-> x[k]]
      OBVIOUS
    <3> HIDE DEF x
    <3> QED
      BY <3>2, <3>3, <3>4
  <2> HIDE DEF x
  <2>2. /\ ctl = "assign" /\ proc' = [proc EXCEPT ![Child] = x]
        /\ UNCHANGED <<platform, released, todo, parents, found, reachable>>
    BY <1>3 DEF Trees!Assign, Trees!caller, x
  <2>3. /\ proc' = [r \in Trees!Processes |-> proc'[r]] /\ proc'[Child] = x
        /\ \A r \in Trees!Processes : r # Child => proc'[r] = proc[r]
    BY <1>1, <2>2 DEF TreeInv, ProcInv
  <2>4. \A r \in Trees!Processes : proc'[r].state = proc[r].state
    BY <2>1, <2>3
  <2>5. ProcInv'
    <3>1. ASSUME NEW r \in Trees!Processes
          PROVE  /\ proc'[r] = [state |-> proc'[r].state, parent |-> proc'[r].parent,
                                member |-> proc'[r].member]
                 /\ proc'[r].state \in {"unborn", "live", "gone"} /\ proc'[r].member \in BOOLEAN
      <4>1. CASE r = Child
        <5>1. proc'[r] = x /\ x.member \in BOOLEAN
          BY <2>1, <2>3, <4>1
        <5>2. proc[r].state \in {"unborn", "live", "gone"}
          BY DEF TreeInv, ProcInv
        <5> QED
          BY <2>1, <4>1, <5>1, <5>2
      <4>2. CASE r # Child
        BY <2>3, <4>2 DEF TreeInv, ProcInv
      <4> QED
        BY <4>1, <4>2
    <3> QED
      BY <2>3, <3>1 DEF ProcInv
  <2>6. platform = "windows" /\ ~released
    BY <2>2 DEF TreeInv, MemberInv
  <2>7. \A r \in Trees!Processes : Trees!Live(r)' => r = Child
    BY <2>2, <2>4, <2>6 DEF TreeInv, MemberInv, Trees!Live
  <2>8. proc'[Child].member
    BY <2>1, <2>3
  <2>9. MemberInv'
    BY <1>3, <2>2, <2>6, <2>7, <2>8 DEF TreeInv, MemberInv
  <2>10. ReachInv'
    BY <1>2, <1>3, <2>2, <2>4
  <2> QED
    BY <2>5, <2>9, <2>10 DEF TreeInv
<1>4. CASE Trees!Assign /\ ctl' # "release"
  <2>1. /\ ctl = "assign" /\ ctl' = "closed" /\ Trees!End({Child})
        /\ UNCHANGED <<platform, released, todo, parents, found, reachable>>
    BY <1>4 DEF Trees!Assign, Trees!caller
  <2>2. platform = "windows" /\ ~released
    BY <2>1 DEF TreeInv, MemberInv
  <2>3. /\ ProcInv'
        /\ \A r \in Trees!Processes :
             /\ Trees!Live(r)' <=> Trees!Live(r) /\ r # Child
             /\ proc'[r].state = "unborn" <=> proc[r].state = "unborn"
    BY <2>1, EndFacts DEF TreeInv
  <2>4. \A r \in Trees!Processes : ~Trees!Live(r)'
    BY <2>2, <2>3 DEF TreeInv, MemberInv
  <2>5. MemberInv'
    BY <1>1, <2>1, <2>2, <2>4 DEF MemberInv
  <2> QED
    BY <1>2, <2>1, <2>2, <2>3, <2>4, <2>5 DEF TreeInv
<1>5. CASE Trees!Release
  <2>1. /\ ctl = "release" /\ UNCHANGED <<platform, proc, todo, parents, found, reachable>>
        /\ \/ ctl' = "wait" /\ released' = TRUE
           \/ ctl' = "close" /\ released' = released
    BY <1>5 DEF Trees!Release, Trees!caller
  <2>2. ProcInv' /\ MemberInv'
    BY <2>1 DEF TreeInv, ProcInv, MemberInv, Trees!Live
  <2> QED
    BY <1>2, <2>1, <2>2 DEF TreeInv
<1>6. CASE Trees!Wait
  <2>1. /\ ctl = "wait" /\ UNCHANGED <<platform, proc, released, todo, parents, found, reachable>>
        /\ ctl' = IF platform = "posix" THEN "list" ELSE "close"
    BY <1>6 DEF Trees!Wait, Trees!caller
  <2>2. ProcInv' /\ MemberInv'
    BY <2>1 DEF TreeInv, ProcInv, MemberInv, Trees!Live
  <2> QED
    BY <1>2, <2>1, <2>2 DEF TreeInv
<1>7. CASE Trees!CloseJob
  <2>1. /\ ctl = "close" /\ ctl' = "closed" /\ Trees!End({p \in Trees!Processes : proc[p].member})
        /\ UNCHANGED <<platform, released, todo, parents, found, reachable>>
    BY <1>7 DEF Trees!CloseJob, Trees!caller
  <2>2. platform = "windows"
    BY <2>1 DEF TreeInv, MemberInv
  <2>3. /\ ProcInv'
        /\ \A r \in Trees!Processes :
             /\ Trees!Live(r)' <=> Trees!Live(r) /\ r \notin {p \in Trees!Processes : proc[p].member}
             /\ proc'[r].state = "unborn" <=> proc[r].state = "unborn"
    BY <2>1, EndFacts DEF TreeInv
  <2>4. \A r \in Trees!Processes : ~Trees!Live(r)'
    BY <2>1, <2>2, <2>3 DEF TreeInv, MemberInv
  <2>5. MemberInv'
    BY <1>1, <2>1, <2>2, <2>4 DEF MemberInv
  <2> QED
    BY <1>2, <2>1, <2>2, <2>3, <2>4, <2>5 DEF TreeInv
<1> QED
  BY <1>3, <1>4, <1>5, <1>6, <1>7

\* The listing begins: every descendant is alive, so its entry is there; or there is none.
LEMMA ListStep == ASSUME Trees!TreeAssumption, TreeInv, Trees!List PROVE TreeInv'
<1>1. /\ ctl = "list" /\ ctl' = "read" /\ UNCHANGED <<platform, proc, released, parents, found>>
      /\ \/ /\ todo' = {p \in Trees!Processes : Trees!Live(p)}
            /\ reachable' = Trees!Lineage(Trees!Parents)
         \/ todo' = {} /\ reachable' = {}
  BY DEF Trees!List, Trees!Descendants
<1>2. Trees!Parents' = Trees!Parents
  BY <1>1, SameTree
<1>3. ASSUME NEW p \in reachable'
      PROVE  /\ p \in Others /\ Trees!Live(p) /\ p \in todo'
             /\ Trees!Parents[p] = Child \/ Trees!Parents[p] \in reachable'
  <2>1. p \in Others /\ (Trees!Parents[p] = Child \/ Trees!Parents[p] \in reachable')
    BY <1>1, LineageUp
  <2>2. Trees!Parents[p] # Reaper
    BY <1>1, <2>1, LineageUp DEF Trees!TreeAssumption
  <2>3. p \in Trees!Processes
    BY <2>1 DEF Trees!Processes
  <2>4. Trees!Live(p)
    BY <2>2, <2>3 DEF Trees!Parents
  <2> QED
    BY <1>1, <2>1, <2>3, <2>4
<1>4. ProcInv' /\ MemberInv'
  BY <1>1 DEF TreeInv, ProcInv, MemberInv, Trees!Live
<1>5. \A p \in reachable' : proc'[p].state # "unborn"
  BY <1>1, <1>3 DEF Trees!Live
<1>6. reachable' \subseteq Trees!Lineage(Trees!Parents)
  BY <1>1
<1>7. found' = {} /\ parents' = parents
  BY <1>1 DEF TreeInv, ReachInv
<1>8. ReachInv'
  BY <1>1, <1>2, <1>3, <1>5, <1>6, <1>7 DEF TreeInv, ReachInv
<1> QED
  BY <1>4, <1>8 DEF TreeInv

\* An entry read tells the parent as it is; one that is not cuts off what is below it.
LEMMA EntryStep ==
  ASSUME Trees!TreeAssumption, TreeInv, NEW p \in Trees!Processes, Trees!ReadEntry(p)
  PROVE  TreeInv'
<1> DEFINE Without == [Trees!Parents EXCEPT ![p] = Reaper]
<1>1. /\ ctl = "read" /\ UNCHANGED <<platform, proc, released, ctl, found>>
      /\ todo' = todo \ {p}
      /\ \/ parents' = [parents EXCEPT ![p] = Trees!Parents[p]] /\ reachable' = reachable
         \/ parents' = parents /\ reachable' = reachable \cap Trees!Lineage(Without)
  BY DEF Trees!ReadEntry
<1>2. Trees!Parents' = Trees!Parents
  BY <1>1, SameTree
<1>3. ProcInv' /\ MemberInv'
  BY <1>1 DEF TreeInv, ProcInv, MemberInv, Trees!Live
<1>4. /\ \A r \in Trees!Processes : Trees!Parents[r] # Reaper => proc[r].state # "unborn"
      /\ Others \subseteq Trees!Processes
  BY DEF Trees!Parents, Trees!Live, Trees!Processes
<1>5. CASE parents' = [parents EXCEPT ![p] = Trees!Parents[p]] /\ reachable' = reachable
  <2>1. /\ parents' = [r \in Trees!Processes |-> parents'[r]] /\ parents'[p] = Trees!Parents[p]
        /\ \A r \in Trees!Processes : r # p => parents'[r] = parents[r]
    BY <1>5 DEF TreeInv, ReachInv
  <2>2. \A r \in reachable' : r \notin todo' => parents'[r] = Trees!Parents[r]
    BY <1>1, <1>4, <1>5, <2>1 DEF TreeInv, ReachInv
  <2>3. \A r \in Others : parents'[r] # Reaper => proc'[r].state # "unborn"
    BY <1>1, <1>4, <2>1 DEF TreeInv, ReachInv
  <2>4. ReachInv'
    BY <1>1, <1>2, <1>5, <2>1, <2>2, <2>3 DEF TreeInv, ReachInv
  <2> QED
    BY <1>3, <2>4 DEF TreeInv
<1>6. CASE parents' = parents /\ reachable' = reachable \cap Trees!Lineage(Without)
  <2>1. ASSUME NEW r \in reachable'
        PROVE  /\ r # p
               /\ Trees!Parents[r] = Child \/ Trees!Parents[r] \in reachable'
    <3>1. r \in Others /\ (Without[r] = Child \/ Without[r] \in Trees!Lineage(Without))
      BY <1>6, LineageUp
    <3>2. Without[r] # Reaper
      BY <3>1, LineageUp DEF Trees!TreeAssumption
    <3>3. Trees!Parents = [x \in Trees!Processes |-> Trees!Parents[x]]
      BY DEF Trees!Parents
    <3>4. r # p /\ Without[r] = Trees!Parents[r]
      BY <1>4, <3>1, <3>2, <3>3
    <3>5. Trees!Parents[r] = Child \/ Trees!Parents[r] \in reachable
      BY <1>1, <1>6 DEF TreeInv, ReachInv
    <3> QED
      BY <1>6, <3>1, <3>4, <3>5
  <2>2. reachable' \subseteq reachable
    BY <1>6
  <2>3. \A r \in reachable' : r \notin todo' => parents'[r] = Trees!Parents[r]
    BY <1>1, <1>6, <2>1, <2>2 DEF TreeInv, ReachInv
  <2> HIDE DEF Without
  <2>4. ReachInv'
    BY <1>1, <1>2, <1>6, <2>1, <2>2, <2>3 DEF TreeInv, ReachInv
  <2> QED
    BY <1>3, <2>4 DEF TreeInv
<1> QED
  BY <1>1, <1>5, <1>6

\* When everything is read, what has stayed a descendant is one by the parents read.
LEMMA StartStep == ASSUME Trees!TreeAssumption, TreeInv, Trees!StartWalk PROVE TreeInv'
<1>1. /\ ctl = "read" /\ ctl' = "walk" /\ todo = {} /\ todo' = {Child}
      /\ UNCHANGED <<platform, proc, released, parents, found, reachable>>
  BY DEF Trees!StartWalk
<1>2. reachable \subseteq Trees!Lineage(parents)
  BY <1>1, LineageKept DEF TreeInv, ReachInv
<1>3. ProcInv' /\ MemberInv'
  BY <1>1 DEF TreeInv, ProcInv, MemberInv, Trees!Live
<1>4. ReachInv'
  BY <1>1, <1>2 DEF TreeInv, ReachInv
<1> QED
  BY <1>3, <1>4 DEF TreeInv

\* Each step of the walk completes the children of one process.
LEMMA WalkStep ==
  ASSUME Trees!TreeAssumption, TreeInv, NEW q, Trees!WalkFrom(q) PROVE TreeInv'
<1> DEFINE children == {p \in Others : parents[p] = q} \ found
<1>1. /\ ctl = "walk" /\ q \in todo
      /\ UNCHANGED <<platform, proc, released, ctl, parents, reachable>>
      /\ found' = found \cup children /\ todo' = (todo \ {q}) \cup children
  BY DEF Trees!WalkFrom
<1>2. ProcInv' /\ MemberInv'
  BY <1>1 DEF TreeInv, ProcInv, MemberInv, Trees!Live
<1>3. q \in found \cup {Child} /\ q # Reaper
  BY <1>1 DEF TreeInv, ReachInv, Trees!TreeAssumption
<1>4. \A p \in children : p \in Others /\ proc[p].state # "unborn"
  BY <1>3 DEF TreeInv, ReachInv
<1>5. ASSUME NEW p \in Others, parents[p] \in (found' \cup {Child}) \ todo' PROVE p \in found'
  <2>1. CASE parents[p] = q
    BY <1>1, <2>1
  <2>2. CASE parents[p] # q
    <3>1. parents[p] \in (found \cup {Child}) \ todo
      BY <1>1, <1>5, <2>2
    <3> QED
      BY <1>1, <3>1 DEF TreeInv, ReachInv
  <2> QED
    BY <2>1, <2>2
<1>6. todo' \subseteq found' \cup {Child}
  BY <1>1 DEF TreeInv, ReachInv
<1> HIDE DEF children
<1>7. ReachInv'
  BY <1>1, <1>4, <1>5, <1>6 DEF TreeInv, ReachInv
<1> QED
  BY <1>2, <1>7 DEF TreeInv

\* What has the children of the child and of all its own has every descendant.
LEMMA ClosedHasAll ==
  ASSUME Trees!TreeAssumption, NEW parent, NEW S,
         \A p \in Others : parent[p] \in S \cup {Child} => p \in S
  PROVE  Trees!Lineage(parent) \subseteq S
<1>1. PICK down :
        /\ Trees!Lineage(parent) = down[Depth] \ {Child} /\ down[0] = {Child}
        /\ \A n \in 1..Depth : down[n] = Further(down[n - 1], parent)
  BY LineageSteps
<1> DEFINE K == {n \in Nat : down[n] \subseteq S \cup {Child}}
<1>2. 0 \in K
  BY <1>1
<1>3. ASSUME NEW k \in 0..(Depth - 1), k \in K PROVE k + 1 \in K
  <2>1. k + 1 \in 1..Depth /\ (k + 1) - 1 = k
    BY DepthIsFinite
  <2>2. down[k + 1] = Further(down[k], parent)
    BY <1>1, <2>1
  <2> QED
    BY <1>3, <2>2 DEF Further
<1>4. Depth \in K
  <2> HIDE DEF K
  <2>1. \A k \in 0..Depth : k \in K
    BY <1>2, <1>3, DepthIsFinite, UpTo
  <2> QED
    BY <2>1, DepthIsFinite
<1> QED
  BY <1>1, <1>4

\* The walk ends with everything it could reach, or with its limit.
LEMMA EndStep == ASSUME Trees!TreeAssumption, TreeInv, Trees!EndWalk PROVE TreeInv'
<1>1. /\ ctl = "walk" /\ ctl' = "group" /\ todo' = found /\ parents' = Trees!Unread
      /\ UNCHANGED <<platform, proc, released, found, reachable>>
      /\ todo = {} \/ Trees!Cardinality(found) >= Limit
  BY DEF Trees!EndWalk
<1>2. ASSUME todo = {} PROVE reachable \subseteq found
  <2>1. \A p \in Others : parents[p] \in found \cup {Child} => p \in found
    BY <1>1, <1>2 DEF TreeInv, ReachInv
  <2>2. Trees!Lineage(parents) \subseteq found
    BY <2>1, ClosedHasAll
  <2> QED
    BY <1>1, <2>2 DEF TreeInv, ReachInv
<1>3. ProcInv' /\ MemberInv'
  BY <1>1 DEF TreeInv, ProcInv, MemberInv, Trees!Live
<1>4. /\ parents' = [p \in Trees!Processes |-> parents'[p]]
      /\ \A p \in Others : parents'[p] = Reaper
  BY <1>1 DEF Trees!Unread, Trees!Processes
<1>5. ReachInv'
  BY <1>1, <1>2, <1>4 DEF TreeInv, ReachInv
<1> QED
  BY <1>3, <1>5 DEF TreeInv

\* A kill of the caller's takes the group, a process of the snapshot, or the child.
LEMMA KillStep ==
  ASSUME TreeInv, Trees!KillGroup \/ Trees!KillEach \/ Trees!Reap PROVE TreeInv'
<1>1. Child \in Trees!Processes /\ Others \subseteq Trees!Processes
  BY DEF Trees!Processes
<1>2. platform = "posix"
  BY DEF TreeInv, MemberInv, Trees!KillGroup, Trees!KillEach, Trees!Reap
<1>3. ASSUME NEW D, Trees!End(D), platform' = platform, parents' = parents, reachable' = reachable,
             ctl \in {"group", "each", "reap"}, ctl' \in {"each", "reap", "closed"},
             ctl = "group" => D = {p \in Trees!Processes : proc[p].member},
             found' = found,
             ctl = "group" => todo' = todo,
             ctl' = "each" => \A p \in todo : p \notin D => p \in todo',
             ctl' # "each" => ctl = "reap",
             ctl' = "closed" => D = {Child}
      PROVE  TreeInv'
  <2>1. /\ ProcInv'
        /\ \A r \in Trees!Processes :
             /\ Trees!Live(r)' <=> Trees!Live(r) /\ r \notin D
             /\ proc'[r].member = proc[r].member
             /\ proc'[r].state = "unborn" <=> proc[r].state = "unborn"
    BY <1>3, EndFacts DEF TreeInv
  <2>2. ctl # "group" => \A r \in Trees!Processes : Trees!Live(r) => ~proc[r].member
    BY <1>3 DEF TreeInv, MemberInv
  <2>3. \A r \in Trees!Processes : Trees!Live(r)' => ~proc'[r].member
    BY <1>3, <2>1, <2>2
  <2>4. ctl' = "closed" => ~Trees!Live(Child)'
    BY <1>1, <1>3, <2>1
  <2>5. MemberInv'
    BY <1>2, <1>3, <2>3, <2>4 DEF MemberInv
  <2>6. ctl' = "each" => \A r \in found : Trees!Live(r)' => r \in todo'
    BY <1>1, <1>3, <2>1 DEF TreeInv, ReachInv
  <2>7. ctl' # "each" => \A r \in found : ~Trees!Live(r)'
    BY <1>1, <1>3, <2>1 DEF TreeInv, ReachInv
  <2>8. /\ parents' = [r \in Trees!Processes |-> parents'[r]]
        /\ reachable' \subseteq Others /\ found' \subseteq Others
        /\ \A r \in reachable' \cup found' : proc'[r].state # "unborn"
        /\ \A r \in Others : parents'[r] # Reaper => proc'[r].state # "unborn"
    BY <1>1, <1>3, <2>1 DEF TreeInv, ReachInv, Trees!Processes
  <2>9. reachable' \subseteq found' \/ Trees!Cardinality(found') >= Limit
    BY <1>2, <1>3 DEF TreeInv, ReachInv
  <2>10. ReachInv'
    BY <1>3, <2>6, <2>7, <2>8, <2>9 DEF ReachInv
  <2> QED
    BY <2>1, <2>5, <2>10 DEF TreeInv
<1>4. CASE Trees!KillGroup
  BY <1>3, <1>4 DEF Trees!KillGroup, Trees!caller
<1>5. ASSUME NEW p \in todo, ctl = "each", ctl' = ctl, todo' = todo \ {p}, Trees!End({p}),
             UNCHANGED <<platform, parents, found, reachable>>
      PROVE  TreeInv'
  BY <1>3, <1>5
<1>6. CASE ctl = "each" /\ todo = {} /\ ctl' = "reap"
           /\ UNCHANGED <<platform, proc, released, todo, parents, found, reachable>>
  BY <1>6 DEF TreeInv, ProcInv, MemberInv, ReachInv, Trees!Live
<1>7. CASE Trees!KillEach
  BY <1>5, <1>6, <1>7 DEF Trees!KillEach
<1>8. CASE Trees!Reap
  BY <1>3, <1>8 DEF Trees!Reap, Trees!caller
<1> QED
  BY <1>4, <1>7, <1>8

\* NothingReachableSurvives of a bounded call, for any number of processes that fork,
\* leave the group and end as they will, any limit of the walk, and a /proc that may be
\* missing or unreadable in part: when the call has returned, the group or the job is dead,
\* and so is all that the walk found; that is whatever stayed a readable descendant of the
\* child while /proc was read, or at least as many as the limit.
THEOREM TreesAreClosed ==
  ASSUME Trees!TreeAssumption PROVE Trees!Spec => []Trees!NothingReachableSurvives
<1>1. TreeInv /\ [Trees!Next]_Trees!vars => TreeInv'
  <2> SUFFICES ASSUME TreeInv, [Trees!Next]_Trees!vars PROVE TreeInv'
    OBVIOUS
  <2>1. CASE UNCHANGED Trees!vars
    BY <2>1, SameTree DEF Trees!vars, Trees!caller, TreeInv, ProcInv, MemberInv, ReachInv, Trees!Live
  <2>2. ASSUME NEW p \in Trees!Processes,
               Trees!Fork(p) \/ Trees!Leave(p) \/ Trees!Finish(p) \/ Trees!ReadEntry(p)
                 \/ Trees!WalkFrom(p)
        PROVE  TreeInv'
    BY <2>2, ForkStep, GroupLeft, FinishStep, EntryStep, WalkStep
  <2> QED
    BY <2>1, <2>2, WindowsStep, ListStep, StartStep, EndStep, KillStep DEF Trees!Next
<1>2. TreeInv => Trees!NothingReachableSurvives
  BY DEF TreeInv, MemberInv, ReachInv, Trees!NothingReachableSurvives
<1> QED
  BY <1>1, <1>2, InitTree, PTL DEF Trees!Spec

-----------------------------------------------------------------------------
(* A reviewer's command line client *)

CONSTANTS Vendors, MaxOutput
VARIABLES vendor, binary, auth, private, output, drained, overflow, child, step, answer
Clients == INSTANCE ReviewTransport

Pinned == {"home", "start", "run", "join"}
Prepared == {"start", "run", "join"}
\* What runs has been checked, and once the wait is over the client writes no more.
CallInv ==
  /\ vendor \in {"codex", "claude", "gemini", "antigravity", "copilot"}
  /\ binary \in {"pinned", "other", "absent"} /\ auth \in {"closed", "open", "absent"}
  /\ private = [binary |-> private.binary, auth |-> private.auth]
  /\ step \in Pinned => private.binary = "pinned"
  /\ step \in Prepared /\ Clients!HasFile(vendor) => private.auth = "closed"
  /\ output \in Seq(Clients!Kinds) /\ drained \in 0..Len(output)
  /\ step = "join" => child # "running"
  /\ answer = "report" => step = "over"
  /\ Clients!ReportIsClean

LEMMA LastOne ==
  ASSUME NEW n \in Nat, NEW M, M \subseteq 1..n, M # {}
  PROVE  \E i \in M : \A j \in M : j <= i
<1> DEFINE Rest == {m \in Nat : \E i \in M : m = n - i}
<1>1. Rest \subseteq Nat /\ Rest # {}
  <2>1. PICK i \in M : TRUE
    OBVIOUS
  <2>2. n - i \in Rest
    BY <2>1
  <2> QED
    BY <2>2
<1>2. PICK m \in Rest : \A k \in Rest : ~(<<k, m>> \in OpToRel(<, Nat))
  <2> HIDE DEF Rest
  <2> QED
    BY <1>1, NatLessThanWellFounded, WFMin
<1>3. PICK i \in M : m = n - i
  BY <1>2
<1>4. ASSUME NEW j \in M PROVE j <= i
  <2>1. n - j \in Rest
    OBVIOUS
  <2>2. ~(n - j < n - i)
    BY <1>1, <1>2, <1>3, <2>1 DEF OpToRel
  <2> QED
    BY <2>2
<1> QED
  BY <1>4

LEMMA ClientsCount == ASSUME NEW S PROVE Clients!Cardinality(S) = Cardinality(S)
  BY DEF Clients!Cardinality, Cardinality

LEMMA OnceIsThere ==
  ASSUME NEW s, Len(s) \in Nat, DOMAIN s = 1..Len(s), NEW k, Clients!Once(k, s)
  PROVE  Clients!Contains(s, k)
<1> DEFINE M == {i \in DOMAIN s : s[i] = k}
<1>1. M # {}
  <2>1. Clients!Cardinality(M) = 1
    BY DEF Clients!Once
  <2> HIDE DEF M
  <2> QED
    BY <2>1, ClientsCount, FS_EmptySet
<1> QED
  BY <1>1 DEF Clients!Contains

\* What any client's stream must show.
LEMMA ShownIsClean ==
  ASSUME CallInv, NEW s \in Seq(Clients!Kinds), Clients!Shows(s)
  PROVE  Clients!NoTool(s) /\ ~Clients!Contains(s, "failure") /\ Clients!Contains(s, "session")
<1>1. Len(s) \in Nat /\ DOMAIN s = 1..Len(s)
  OBVIOUS
<1>2. ASSUME Clients!LastSession(s) = "session" PROVE Clients!Contains(s, "session")
  <2> DEFINE marks == {i \in DOMAIN s : s[i] \in {"session", "foreign"}}
  <2>1. marks # {}
    BY <1>2 DEF Clients!LastSession
  <2>2. PICK i \in marks : \A j \in marks : j <= i
    BY <1>1, <2>1, LastOne
  <2> DEFINE last == CHOOSE j \in marks : \A k \in marks : k <= j
  <2>3. last \in marks
    BY <2>2
  <2>4. Clients!LastSession(s) = s[last]
    BY <2>1 DEF Clients!LastSession
  <2> QED
    BY <1>1, <1>2, <2>3, <2>4 DEF Clients!Contains
<1>3. CASE vendor = "codex"
  BY <1>2, <1>3 DEF Clients!Shows, Clients!CodexShows
<1>4. CASE vendor = "claude"
  BY <1>4 DEF Clients!Shows, Clients!ClaudeShows
<1>5. CASE vendor = "gemini"
  BY <1>1, <1>5, OnceIsThere DEF Clients!Shows, Clients!GeminiShows
<1>6. CASE vendor = "antigravity"
  BY <1>6 DEF Clients!Shows, Clients!AntigravityShows
<1>7. CASE vendor = "copilot"
  BY <1>1, <1>7, OnceIsThere DEF Clients!Shows, Clients!CopilotShows
<1> QED
  BY <1>3, <1>4, <1>5, <1>6, <1>7 DEF CallInv

LEMMA JudgeStep == ASSUME CallInv, Clients!Judge PROVE CallInv'
<1>1. /\ UNCHANGED <<vendor, binary, auth, private, output, drained, overflow, child>>
      /\ step = "join" /\ step' = "over"
      /\ overflow \/ drained = Len(output)
  BY DEF Clients!Judge, Clients!End, Clients!Process
<1>2. ASSUME answer' = "report" PROVE Clients!ReportIsClean'
  <2>1. Clients!Succeeded /\ "report" \in Clients!Verdicts(Clients!Seen)
    BY <1>2 DEF Clients!Judge, Clients!End, Clients!Classify
  <2>2. child = "done" /\ Clients!Seen = output
    BY <1>1, <2>1, SubSeqFull DEF CallInv, Clients!Succeeded, Clients!Seen
  <2>3. Clients!Shows(output)
    BY <2>1, <2>2 DEF Clients!Verdicts
  <2>4. Clients!NoTool(output) /\ ~Clients!Contains(output, "failure")
        /\ Clients!Contains(output, "session")
    BY <2>3, ShownIsClean DEF CallInv
  <2>5. private.binary = "pinned" /\ (Clients!HasFile(vendor) => private.auth = "closed")
    BY <1>1 DEF CallInv, Pinned, Prepared
  <2> QED
    BY <1>1, <2>2, <2>4, <2>5 DEF Clients!ReportIsClean, Clients!HasFile, Clients!NoTool, Clients!Contains
<1>3. Clients!ReportIsClean'
  BY <1>2 DEF Clients!ReportIsClean
<1> QED
  BY <1>1, <1>3 DEF CallInv, Pinned, Prepared, Clients!HasFile

LEMMA CallStep == ASSUME CallInv, [Clients!Next]_Clients!vars PROVE CallInv'
<1>1. ASSUME binary' \in {binary, "other"}, auth' \in {auth, "open"},
             UNCHANGED <<vendor, private, output, drained, overflow, child, step, answer>>
      PROVE  CallInv'
  BY <1>1 DEF CallInv, Pinned, Prepared, Clients!HasFile, Clients!ReportIsClean, Clients!NoTool,
              Clients!Contains
<1>2. ASSUME step # "over", step' \in Pinned \cup {"over"}, answer' # "report",
             UNCHANGED <<vendor, binary, auth, output, drained, overflow>>,
             private' = [binary |-> private'.binary, auth |-> private'.auth],
             step' \in Pinned => private'.binary = "pinned",
             step' \in Prepared /\ Clients!HasFile(vendor) => private'.auth = "closed",
             step' = "join" => child' # "running"
      PROVE  CallInv'
  BY <1>2 DEF CallInv, Pinned, Prepared, Clients!HasFile, Clients!ReportIsClean
<1>3. CASE Clients!Replace
  BY <1>1, <1>3 DEF Clients!Replace, Clients!Process
<1>4. CASE Clients!Pin
  <2>1. CASE binary = "pinned"
    <3> DEFINE z == [private EXCEPT !.binary = binary]
    <3>1. private' = z /\ step' = "home" /\ answer' = answer /\ step = "pin"
      BY <1>4, <2>1 DEF Clients!Pin
    <3>2. z = [binary |-> "pinned", auth |-> private.auth]
      BY <2>1 DEF CallInv
    <3> QED
      BY <1>2, <1>4, <3>1, <3>2 DEF Clients!Pin, Clients!Process, CallInv, Pinned, Prepared
  <2>2. CASE binary # "pinned"
    <3>1. private' = private /\ step' = "over" /\ answer' # "report" /\ step = "pin"
      BY <1>4, <2>2 DEF Clients!Pin, Clients!End, CallInv
    <3> QED
      BY <1>2, <1>4, <3>1 DEF Clients!Pin, Clients!Process, CallInv, Pinned, Prepared
  <2> QED
    BY <2>1, <2>2
<1>5. CASE Clients!Home
  <2>1. CASE ~Clients!HasFile(vendor)
    BY <1>2, <1>5, <2>1 DEF Clients!Home, Clients!Process, CallInv, Pinned, Prepared
  <2>2. CASE Clients!HasFile(vendor) /\ auth = "closed"
    <3> DEFINE z == [private EXCEPT !.auth = auth]
    <3>1. private' = z /\ step' = "start" /\ answer' = answer /\ step = "home"
      BY <1>5, <2>2 DEF Clients!Home
    <3>2. z = [binary |-> private.binary, auth |-> "closed"]
      BY <2>2 DEF CallInv
    <3> QED
      BY <1>2, <1>5, <3>1, <3>2 DEF Clients!Home, Clients!Process, CallInv, Pinned, Prepared
  <2>3. CASE Clients!HasFile(vendor) /\ auth # "closed"
    <3>1. private' = private /\ step' = "over" /\ answer' # "report" /\ step = "home"
      BY <1>5, <2>3 DEF Clients!Home, Clients!End, CallInv
    <3> QED
      BY <1>2, <1>5, <3>1 DEF Clients!Home, Clients!Process, CallInv, Pinned, Prepared
  <2> QED
    BY <2>1, <2>2, <2>3
<1>6. CASE Clients!Start
  BY <1>2, <1>6 DEF Clients!Start, Clients!End, CallInv, Pinned, Prepared
<1>7. CASE Clients!Write
  <2>1. child = "running" /\ Len(output') = Len(output) + 1 /\ output' \in Seq(Clients!Kinds)
    BY <1>7 DEF Clients!Write, CallInv
  <2>2. answer # "report"
    BY <2>1 DEF CallInv, Clients!ReportIsClean
  <2> QED
    BY <1>7, <2>1, <2>2 DEF Clients!Write, CallInv, Clients!ReportIsClean, Clients!HasFile
<1>8. CASE Clients!Exit
  <2>1. answer # "report"
    BY <1>8 DEF Clients!Exit, CallInv, Clients!ReportIsClean
  <2> QED
    BY <1>8, <2>1 DEF Clients!Exit, CallInv, Clients!ReportIsClean, Clients!HasFile
<1>9. CASE Clients!Drain
  BY <1>9 DEF Clients!Drain, CallInv, Clients!ReportIsClean, Clients!HasFile
<1>10. CASE Clients!Poll
  <2>1. step = "run" /\ answer' # "report" /\ step' \in {"join", "over"} /\ UNCHANGED private
    BY <1>10 DEF Clients!Poll, Clients!End, CallInv
  <2>2. child' # "running"
    BY <1>10 DEF Clients!Poll, Clients!Kill
  <2> QED
    BY <1>2, <1>10, <2>1, <2>2 DEF Clients!Poll, CallInv, Pinned, Prepared
<1>11. CASE Clients!Judge
  BY <1>11, JudgeStep
<1>12. CASE UNCHANGED Clients!vars
  BY <1>1, <1>12 DEF Clients!vars
<1> QED
  BY <1>3, <1>4, <1>5, <1>6, <1>7, <1>8, <1>9, <1>10, <1>11, <1>12 DEF Clients!Next

\* ReportIsClean of a client's call, for any bounds and any output: a report is the whole
\* output of the pinned client that ended by itself, and shows the call's own session, no
\* failure and no tool.
THEOREM ReportsAreClean ==
  ASSUME Clients!VendorAssumption PROVE Clients!Spec => []Clients!ReportIsClean
<1>1. Clients!Init => CallInv
  BY DEF Clients!Init, Clients!VendorAssumption, CallInv, Pinned, Prepared, Clients!ReportIsClean
<1>2. CallInv /\ [Clients!Next]_Clients!vars => CallInv'
  BY CallStep
<1>3. CallInv => Clients!ReportIsClean
  BY DEF CallInv
<1> QED
  BY <1>1, <1>2, <1>3, PTL DEF Clients!Spec
=============================================================================
