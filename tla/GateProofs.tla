---------------------------- MODULE GateProofs ----------------------------
(***************************************************************************)
(* What the threads of the broker's process and the gates around it        *)
(* promise, for any number of connections, commits, rows, probes, moves    *)
(* and faults: the service keeps its permits, its notifications and its    *)
(* store; guarded delivery pushes what was reviewed and reports what       *)
(* passed; a passed oracle names what it ran; the doctor's claim is        *)
(* earned; a deployment is of reviewed commits and a declared risk stays   *)
(* declared; source is let through on green that was earned.  The six      *)
(* share no variable; each has a section.                                  *)
(***************************************************************************)
EXTENDS Naturals, Sequences, FiniteSets, FiniteSetTheorems, TLAPS

CONSTANTS Conns, MaxHandlers, MaxFaults
VARIABLES slots, handlers, conn, accepting, queued, told, wake, stop, worker, blind,
          server, open, faults
Service == INSTANCE BrokerService

-----------------------------------------------------------------------------
(* The service *)

Conditions == {"new", "refused", "dropped", "leaving", "done"} \cup Service!Busy

\* The connection being accepted is still new, so that it is counted once.
PermitInv ==
  /\ slots \in Nat /\ handlers \in Nat /\ conn \in [Conns -> Conditions]
  /\ accepting = Service!NoConn \/ (accepting \in Conns /\ conn[accepting] = "new")
  /\ IsFiniteSet(Service!Held) /\ IsFiniteSet(Service!Leaving)
  /\ slots + Cardinality(Service!Held) + Cardinality(Service!Leaving) = MaxHandlers
  /\ handlers = Cardinality(Service!Held)

\* From its last look at the store to its sleep the worker has missed nothing told.
WorkerInv ==
  /\ worker \in {"idle", "wait"} /\ ~wake /\ ~blind => queued \cap told = {}
  /\ ~open => worker = "gone"

ServiceInv == PermitInv /\ WorkerInv

\* The instance counts as the library does.
LEMMA ServiceCounts == ASSUME NEW S PROVE Service!Cardinality(S) = Cardinality(S)
  BY DEF Service!Cardinality, Cardinality

LEMMA PermitStep ==
  ASSUME Service!ServiceAssumption, PermitInv, Service!Next
  PROVE  PermitInv'
<1> USE DEF Service!ServiceAssumption
<1>a. /\ IsFiniteSet(Service!Held) /\ IsFiniteSet(Service!Leaving)
      /\ Cardinality(Service!Held) \in Nat /\ Cardinality(Service!Leaving) \in Nat
  BY FS_CardinalityType DEF PermitInv
<1>1. CASE UNCHANGED <<slots, handlers, conn, accepting>>
  BY <1>1 DEF PermitInv, Service!Held, Service!Leaving
<1>2. ASSUME NEW c \in Conns, Service!Turn(c) PROVE PermitInv'
  <2>1. Service!Held' = Service!Held /\ Service!Leaving' = Service!Leaving
    BY <1>2
       DEF Service!Turn, Service!Become, Service!pool, PermitInv, Service!Held, Service!Leaving,
           Service!Busy
  <2> QED
    BY <1>2, <2>1
       DEF Service!Turn, Service!Become, Service!pool, PermitInv, Conditions, Service!Busy
<1>3. ASSUME NEW c \in Conns, Service!Acquire(c) PROVE PermitInv'
  <2>1. /\ Service!Held' = Service!Held \cup {c} /\ c \notin Service!Held
        /\ Service!Leaving' = Service!Leaving
    BY <1>3 DEF Service!Acquire, PermitInv, Service!Held, Service!Leaving, Service!Busy
  <2>2. IsFiniteSet(Service!Held') /\ Cardinality(Service!Held') = Cardinality(Service!Held) + 1
    BY <1>a, <2>1, FS_AddElement
  <2> QED
    BY <1>3, <1>a, <2>1, <2>2 DEF Service!Acquire, PermitInv
<1>4. ASSUME NEW c \in Conns, Service!Spawn(c) PROVE PermitInv'
  <2>1. Service!Held' = Service!Held /\ Service!Leaving' = Service!Leaving
    BY <1>4
       DEF Service!Spawn, Service!Become, PermitInv, Service!Held, Service!Leaving, Service!Busy
  <2> QED
    BY <1>4, <2>1 DEF Service!Spawn, Service!Become, PermitInv, Conditions, Service!Busy
<1>5. ASSUME NEW c \in Conns, Service!SpawnFails(c) PROVE PermitInv'
  <2>1. /\ Service!Held' = Service!Held \ {c} /\ c \in Service!Held
        /\ Service!Leaving' = Service!Leaving
    BY <1>5
       DEF Service!SpawnFails, Service!Become, PermitInv, Service!Held, Service!Leaving,
           Service!Busy
  <2>2. IsFiniteSet(Service!Held') /\ Cardinality(Service!Held') = Cardinality(Service!Held) - 1
    BY <1>a, <2>1, FS_RemoveElement
  <2>3. Cardinality(Service!Held') \in Nat
    BY <2>2, FS_CardinalityType
  <2> QED
    BY <1>5, <1>a, <2>1, <2>2, <2>3
       DEF Service!SpawnFails, Service!Become, PermitInv, Conditions, Service!Busy
<1>6. ASSUME NEW c \in Conns, Service!Commit(c) \/ Service!Notify(c) PROVE PermitInv'
  <2>1. Service!Held' = Service!Held /\ Service!Leaving' = Service!Leaving
    BY <1>6
       DEF Service!Commit, Service!Notify, Service!Become, Service!pool, PermitInv, Service!Held,
           Service!Leaving, Service!Busy
  <2> QED
    BY <1>6, <2>1
       DEF Service!Commit, Service!Notify, Service!Become, Service!pool, PermitInv, Conditions,
           Service!Busy
<1>7. ASSUME NEW c \in Conns, Service!Finish(c) PROVE PermitInv'
  <2>1. /\ Service!Held' = Service!Held \ {c} /\ c \in Service!Held
        /\ Service!Leaving' = Service!Leaving \cup {c} /\ c \notin Service!Leaving
    BY <1>7
       DEF Service!Finish, Service!Become, PermitInv, Service!Held, Service!Leaving, Service!Busy
  <2>2. IsFiniteSet(Service!Held') /\ Cardinality(Service!Held') = Cardinality(Service!Held) - 1
    BY <1>a, <2>1, FS_RemoveElement
  <2>3. /\ IsFiniteSet(Service!Leaving')
        /\ Cardinality(Service!Leaving') = Cardinality(Service!Leaving) + 1
    BY <1>a, <2>1, FS_AddElement
  <2>4. Cardinality(Service!Held') \in Nat
    BY <2>2, FS_CardinalityType
  <2> QED
    BY <1>7, <1>a, <2>2, <2>3, <2>4
       DEF Service!Finish, Service!Become, PermitInv, Conditions, Service!Busy
<1>8. ASSUME NEW c \in Conns, Service!Release(c) PROVE PermitInv'
  <2>1. /\ Service!Held' = Service!Held /\ Service!Leaving' = Service!Leaving \ {c}
        /\ c \in Service!Leaving
    BY <1>8
       DEF Service!Release, Service!Become, PermitInv, Service!Held, Service!Leaving, Service!Busy
  <2>2. /\ IsFiniteSet(Service!Leaving')
        /\ Cardinality(Service!Leaving') = Cardinality(Service!Leaving) - 1
    BY <1>a, <2>1, FS_RemoveElement
  <2> QED
    BY <1>8, <1>a, <2>1, <2>2
       DEF Service!Release, Service!Become, PermitInv, Conditions, Service!Busy
<1> QED
  BY <1>1, <1>2, <1>3, <1>4, <1>5, <1>6, <1>7, <1>8
     DEF Service!Next, Service!Scan, Service!Sleep, Service!Wait, Service!Clear, Service!Leave,
         Service!Shutdown, Service!StopWorker, Service!CloseStore, Service!pool

LEMMA WorkerStep ==
  ASSUME WorkerInv, Service!Next
  PROVE  WorkerInv'
<1>1. ASSUME NEW c \in Conns,
             \/ Service!Turn(c) \/ Service!Acquire(c) \/ Service!Spawn(c) \/ Service!SpawnFails(c)
             \/ Service!Finish(c) \/ Service!Release(c)
      PROVE  WorkerInv'
  BY <1>1 DEF WorkerInv, Service!Turn, Service!Acquire, Service!Spawn, Service!SpawnFails,
     Service!Finish, Service!Release, Service!work, Service!loop
<1>2. ASSUME NEW c \in Conns, Service!Commit(c) \/ Service!Notify(c) PROVE WorkerInv'
  BY <1>2 DEF WorkerInv, Service!Commit, Service!Notify, Service!loop
<1>3. CASE Service!Scan
  BY <1>3 DEF WorkerInv, Service!Scan
<1>4. CASE \/ Service!Sleep \/ Service!Wait \/ Service!Clear \/ Service!Leave
           \/ Service!Shutdown \/ Service!StopWorker \/ Service!CloseStore
  BY <1>4 DEF WorkerInv, Service!Sleep, Service!Wait, Service!Clear, Service!Leave,
     Service!Shutdown, Service!StopWorker, Service!CloseStore, Service!work, Service!loop
<1> QED
  BY <1>1, <1>2, <1>3, <1>4 DEF Service!Next

\* Permits balance on every path of every handler, started or not; no notification is
\* lost between the return of wait and clear; the worker never meets a closed store.
THEOREM ServiceKeepsServing ==
  ASSUME Service!ServiceAssumption PROVE Service!Spec => []Service!ServerKeepsServing
<1>1. Service!Init => ServiceInv
  <2>1. Service!Init => Service!Held = {} /\ Service!Leaving = {}
    BY DEF Service!Init, Service!ServiceAssumption, Service!Held, Service!Leaving, Service!Busy
  <2> QED
    BY <2>1, FS_EmptySet
       DEF Service!Init, ServiceInv, PermitInv, WorkerInv, Service!ServiceAssumption, Conditions
<1>2. ServiceInv /\ [Service!Next]_(Service!vars) => ServiceInv'
  <2>1. ServiceInv /\ UNCHANGED Service!vars => ServiceInv'
    BY DEF ServiceInv, PermitInv, WorkerInv, Service!Held, Service!Leaving, Service!vars
  <2> QED
    BY <2>1, PermitStep, WorkerStep DEF ServiceInv
<1>3. ServiceInv => Service!ServerKeepsServing
  BY ServiceCounts
     DEF ServiceInv, PermitInv, WorkerInv, Service!ServerKeepsServing, Service!SlotsBalance,
     Service!WakeIsNotLost, Service!StoreOutlivesWorker
<1> QED
  BY <1>1, <1>2, <1>3, PTL DEF Service!Spec

-----------------------------------------------------------------------------
(* Guarded delivery *)

CONSTANTS Commits, Foreign, Extends, Nothing, PushAttempts, MaxDisturbances, MaxInvocations,
          MaxChecks
VARIABLES head, remote, pull, computed, checks, nonces, reviewed, flight, profile, p,
          disturbed, invoked, lost, seen, delivered
Delivery == INSTANCE GuardedPr

LEMMA DeliveryCounts == ASSUME NEW S PROVE Delivery!Cardinality(S) = Cardinality(S)
  BY DEF Delivery!Cardinality, Cardinality

References == Commits \cup {Foreign, Nothing}
Steps == {"idle", "preflight", "look", "list", "push", "reconcile", "ensure", "candidate",
          "submit", "wait", "checks", "LOCAL_REVIEWED", "CHECKS_PASSED", "FAILED"}
Local == [pc : Steps, want : Commits \cup {Nothing}, steady : BOOLEAN, sent : References,
          lease : References, forced : BOOLEAN, attempt : Nat,
          exact : Delivery!Coordinates \cup {Nothing}, ignored : SUBSET (1..MaxChecks)]

DeliveryTypes ==
  /\ Delivery!TypeOK /\ IsFiniteSet(checks) /\ p \in Local
  /\ flight = Nothing \/ flight \in [from : References, to : Commits]
  /\ pull # Nothing => remote # Nothing

\* What the command may rely on at each step.
Judged == {"look", "list", "push", "reconcile", "ensure", "candidate", "submit", "wait",
           "checks", "LOCAL_REVIEWED", "CHECKS_PASSED"}
Opened == {"candidate", "submit", "wait", "checks", "CHECKS_PASSED"}
CommandInv ==
  /\ p.pc # "idle" => p.want \in Commits
  /\ p.pc \in Judged => /\ p.steady => p.want \in reviewed
                        /\ profile = "organization-workflow" => p.want \in reviewed
  /\ p.pc \in {"push", "reconcile"} => p.lease \in seen
  /\ p.pc \in Opened \cup {"LOCAL_REVIEWED"} =>
       p.exact \in Delivery!Coordinates /\ p.exact[1] = p.want
  /\ p.pc \in Opened => profile = "organization-workflow"
  /\ p.pc \in {"wait", "checks", "CHECKS_PASSED"} => p.exact \in nonces

\* A push in flight was accepted by the hook, and takes off the branch only what was seen.
FlightInv ==
  flight # Nothing =>
    /\ flight.to \in reviewed
    /\ flight.from \in seen \cup {Nothing} \/ <<flight.from, flight.to>> \in Extends

DeliveryInv ==
  DeliveryTypes /\ CommandInv /\ FlightInv /\ Delivery!NothingUnseenIsLost /\ Delivery!PassedIsExact

\* Steps of the environment change neither the command nor what it has seen and submitted.
LEMMA EnvironmentStep ==
  ASSUME Delivery!DeliveryAssumption, DeliveryInv, Delivery!Environment
  PROVE  DeliveryInv'
<1> USE DEF Delivery!DeliveryAssumption, Delivery!TypeOK, DeliveryTypes, Delivery!Coordinates,
            References, Delivery!Bases
<1>1. /\ UNCHANGED <<nonces, reviewed, flight, profile, p, lost, seen, delivered>>
      /\ head' \in Commits /\ remote' \in References /\ computed' \in BOOLEAN
      /\ pull' \in {Nothing} \cup [draft : BOOLEAN, base : Delivery!Bases]
      /\ pull' # Nothing => remote' # Nothing
  <2>1. CASE Delivery!MakerMovesHead \/ Delivery!RivalPushes
    BY <2>1 DEF DeliveryInv, Delivery!MakerMovesHead, Delivery!RivalPushes, Delivery!Disturb,
       Delivery!github
  <2>3. CASE Delivery!BaseMoves
    BY <2>3 DEF DeliveryInv, Delivery!BaseMoves, Delivery!Disturb
  <2>4. CASE Delivery!MarkedReady
    BY <2>4 DEF DeliveryInv, Delivery!MarkedReady, Delivery!Disturb
  <2>2. CASE \/ Delivery!TestMergeComputed \/ Delivery!WorkflowRuns \/ Delivery!BrokerPublishes
             \/ Delivery!ForeignAppPublishes
    BY <2>2 DEF DeliveryInv, Delivery!TestMergeComputed, Delivery!WorkflowRuns,
       Delivery!BrokerPublishes, Delivery!ForeignAppPublishes, Delivery!Published
  <2> QED
    BY <2>1, <2>2, <2>3, <2>4 DEF Delivery!Environment
<1> DEFINE ChecksGrow ==
             /\ checks \subseteq checks' /\ IsFiniteSet(checks')
             /\ \A r \in checks' : /\ r.id \in 1..MaxChecks /\ r.at \in Delivery!Coordinates
                                   /\ r.name \in {Delivery!Machine, Delivery!External}
<1>2. ChecksGrow
  <2>1. ASSUME NEW name \in {Delivery!Machine, Delivery!External},
               NEW at \in Delivery!Coordinates, NEW app \in BOOLEAN, NEW ok \in BOOLEAN,
               Delivery!Published(name, at, app, ok)
        PROVE  ChecksGrow
    <3> DEFINE new == [id |-> Cardinality(checks) + 1, name |-> name, at |-> at, app |-> app,
                       success |-> ok]
    <3>1. checks' = checks \cup {new} /\ Cardinality(checks) < MaxChecks
      BY <2>1, DeliveryCounts DEF Delivery!Published
    <3>2. Cardinality(checks) \in Nat
      BY FS_CardinalityType DEF DeliveryInv
    <3>3. /\ new.id \in 1..MaxChecks /\ new.at \in Delivery!Coordinates
          /\ new.name \in {Delivery!Machine, Delivery!External}
      BY <3>1, <3>2
    <3>4. IsFiniteSet(checks')
      BY <3>1, FS_AddElement DEF DeliveryInv
    <3> HIDE DEF new
    <3> QED
      BY <3>1, <3>3, <3>4 DEF DeliveryInv
  <2>2. CASE UNCHANGED checks
    BY <2>2 DEF DeliveryInv
  <2>3. CASE Delivery!WorkflowRuns
    <3>1. Delivery!Current \in Delivery!Coordinates
      BY <2>3 DEF Delivery!WorkflowRuns, Delivery!Current, DeliveryInv
    <3>2. PICK ok \in BOOLEAN : Delivery!Published(Delivery!Machine, Delivery!Current, TRUE, ok)
      BY <2>3 DEF Delivery!WorkflowRuns
    <3> QED
      BY <2>1, <3>1, <3>2
  <2>4. CASE Delivery!ForeignAppPublishes
    <3>1. Delivery!Current \in Delivery!Coordinates
      BY <2>4 DEF Delivery!ForeignAppPublishes, Delivery!Current, DeliveryInv
    <3>2. Delivery!Published(Delivery!External, Delivery!Current, FALSE, TRUE)
      BY <2>4 DEF Delivery!ForeignAppPublishes
    <3> QED
      BY <2>1, <3>1, <3>2
  <2>5. CASE Delivery!BrokerPublishes
    <3>1. PICK at \in nonces, ok \in BOOLEAN : Delivery!Published(Delivery!External, at, TRUE, ok)
      BY <2>5 DEF Delivery!BrokerPublishes
    <3>2. at \in Delivery!Coordinates
      BY DEF DeliveryInv
    <3> QED
      BY <2>1, <3>1, <3>2
  <2> QED
    BY <2>2, <2>3, <2>4, <2>5 DEF Delivery!Environment, Delivery!MakerMovesHead,
       Delivery!RivalPushes, Delivery!BaseMoves, Delivery!MarkedReady, Delivery!Disturb,
       Delivery!github, Delivery!TestMergeComputed
<1>3. DeliveryTypes'
  BY <1>1, <1>2 DEF DeliveryInv
<1>4. CommandInv' /\ FlightInv' /\ Delivery!NothingUnseenIsLost'
  BY <1>1 DEF DeliveryInv, CommandInv, FlightInv, Delivery!NothingUnseenIsLost
<1>5. Delivery!PassedIsExact'
  BY <1>1, <1>2 DEF DeliveryInv, Delivery!PassedIsExact
<1> QED
  BY <1>3, <1>4, <1>5 DEF DeliveryInv

\* A push that is applied is one the hook accepted, onto a reference that was seen or
\* that it extends.
LEMMA AppliedStep ==
  ASSUME NEW from \in References, NEW to \in Commits, to \in reviewed,
         from \in seen \cup {Nothing} \/ <<from, to>> \in Extends,
         Delivery!NothingUnseenIsLost, Delivery!Applied(from, to), UNCHANGED <<seen, reviewed>>
  PROVE  Delivery!NothingUnseenIsLost'
BY DEF Delivery!NothingUnseenIsLost, Delivery!Applied

LEMMA LatePushStep ==
  ASSUME Delivery!DeliveryAssumption, DeliveryInv, Delivery!LatePushLands
  PROVE  DeliveryInv'
<1> USE DEF Delivery!DeliveryAssumption, Delivery!TypeOK, DeliveryTypes, References
<1>1. /\ UNCHANGED <<head, nonces, reviewed, profile, p, seen, checks, pull>>
      /\ flight' = Nothing /\ flight.from \in References /\ flight.to \in Commits
      /\ \/ UNCHANGED <<remote, computed, delivered, lost>>
         \/ Delivery!Applied(flight.from, flight.to)
  BY DEF DeliveryInv, Delivery!LatePushLands, Delivery!github, Delivery!Applied
<1>2. DeliveryTypes'
  <2>1. remote' \in References /\ computed' \in BOOLEAN /\ (pull # Nothing => remote' # Nothing)
    BY <1>1 DEF DeliveryInv, Delivery!Applied
  <2> QED
    BY <1>1, <2>1 DEF DeliveryInv
<1>3. Delivery!NothingUnseenIsLost'
  <2>1. CASE UNCHANGED <<delivered, lost>>
    BY <1>1, <2>1 DEF DeliveryInv, Delivery!NothingUnseenIsLost
  <2>2. CASE Delivery!Applied(flight.from, flight.to)
    BY <1>1, <2>2, AppliedStep DEF DeliveryInv, FlightInv, Delivery!LatePushLands
  <2> QED
    BY <1>1, <2>1, <2>2
<1>4. CommandInv' /\ FlightInv' /\ Delivery!PassedIsExact'
  BY <1>1 DEF DeliveryInv, CommandInv, FlightInv, Delivery!PassedIsExact
<1> QED
  BY <1>2, <1>3, <1>4 DEF DeliveryInv

\* A step of the command that only looks leaves the rest as it was.
LEMMA QuietStep ==
  ASSUME DeliveryInv, p' \in Local, seen \subseteq seen',
         UNCHANGED <<head, remote, pull, computed, checks, nonces, reviewed, profile, flight, lost,
                     delivered>>
  PROVE  DeliveryTypes' /\ FlightInv' /\ Delivery!NothingUnseenIsLost'
BY DEF DeliveryInv, DeliveryTypes, Delivery!TypeOK, FlightInv, Delivery!NothingUnseenIsLost

\* Going to another step changes nothing else of the command.
LEMMA GotoStep ==
  ASSUME p \in Local, NEW pc \in Steps, p' = [p EXCEPT !.pc = pc]
  PROVE  /\ p' \in Local /\ p'.pc = pc
         /\ p'.want = p.want /\ p'.steady = p.steady /\ p'.lease = p.lease
         /\ p'.exact = p.exact /\ p'.ignored = p.ignored
BY DEF Local

LEMMA ReadingStep ==
  ASSUME Delivery!DeliveryAssumption, DeliveryInv,
         \/ Delivery!Begin \/ Delivery!Preflight \/ Delivery!LookUp \/ Delivery!ListRemote
         \/ Delivery!Reconcile \/ Delivery!UsePull
  PROVE  DeliveryInv'
<1> USE DEF Delivery!Only, Delivery!Quiet, Delivery!github, Delivery!Step, Delivery!Ended,
            Delivery!Goto
<1>1. /\ seen \subseteq seen'
      /\ UNCHANGED <<head, remote, pull, computed, checks, nonces, reviewed, profile, flight,
                     lost, delivered>>
  BY DEF Delivery!Begin, Delivery!Preflight, Delivery!LookUp, Delivery!ListRemote,
     Delivery!Reconcile, Delivery!UsePull
<1>2. /\ head \in Commits /\ remote \in References /\ p \in Local
      /\ pull \in {Nothing} \cup [draft : BOOLEAN, base : Delivery!Bases]
  BY DEF DeliveryInv, DeliveryTypes, Delivery!TypeOK, References
<1>3. CASE Delivery!Begin
  <2>1. p' = [Delivery!Idle EXCEPT !.pc = "preflight", !.want = head]
    BY <1>3 DEF Delivery!Begin
  <2>2. p' \in Local /\ p'.pc = "preflight" /\ p'.want \in Commits
    BY <1>2, <2>1 DEF Delivery!Idle, Local, Steps, References
  <2>3. CommandInv' /\ Delivery!PassedIsExact'
    BY <2>2 DEF CommandInv, Delivery!PassedIsExact, Judged, Opened
  <2> QED
    BY <1>1, <2>2, <2>3, QuietStep DEF DeliveryInv
<1>4. CASE Delivery!Preflight
  <2>1. \/ p' = [p EXCEPT !.pc = "FAILED"]
        \/ /\ p' = [p EXCEPT !.pc = "look", !.steady = (head = p.want)] /\ head \in reviewed
           /\ profile = "organization-workflow" => head = p.want
    BY <1>4 DEF Delivery!Preflight
  <2>a. "look" \in Steps /\ "FAILED" \in Steps
    BY DEF Steps
  <2>c. ASSUME p' = [p EXCEPT !.pc = "look", !.steady = (head = p.want)]
        PROVE  /\ p' \in Local /\ p'.pc = "look" /\ p'.want = p.want
               /\ p'.steady <=> (head = p.want)
    BY <1>2, <2>a, <2>c DEF Local
  <2>2. p' \in Local /\ p'.pc \in {"look", "FAILED"} /\ p'.want = p.want
    BY <1>2, <2>1, <2>a, <2>c, GotoStep
  <2>3. p.pc = "preflight"
    BY <1>4 DEF Delivery!Preflight
  <2>4. p'.pc = "look" => (p'.steady => p'.want \in reviewed')
                          /\ (profile' = "organization-workflow" => p'.want \in reviewed')
    BY <1>1, <1>2, <2>1, <2>a, <2>c, GotoStep
  <2>5. CommandInv' /\ Delivery!PassedIsExact'
    BY <1>1, <2>2, <2>3, <2>4 DEF DeliveryInv, CommandInv, Delivery!PassedIsExact, Judged, Opened
  <2> QED
    BY <1>1, <2>2, <2>5, QuietStep DEF DeliveryInv
<1>5. CASE Delivery!LookUp \/ Delivery!ListRemote
  <2>1. /\ p.pc \in {"look", "list"}
        /\ \/ p' \in {[p EXCEPT !.pc = "list"], [p EXCEPT !.pc = "FAILED"]}
           \/ /\ seen' = seen \cup {remote}
              /\ \E forced \in BOOLEAN :
                   p' = [p EXCEPT !.pc = IF head = remote THEN "ensure" ELSE "push", !.sent = head,
                                  !.lease = remote, !.forced = forced, !.attempt = 1]
    BY <1>5 DEF Delivery!LookUp, Delivery!ListRemote
  <2>2. /\ p' \in Local /\ p'.pc \in {"list", "ensure", "push", "FAILED"}
        /\ p'.want = p.want /\ p'.steady = p.steady
        /\ p'.pc = "push" => p'.lease \in seen'
    <3>1. {"list", "ensure", "push", "FAILED"} \subseteq Steps
      BY DEF Steps
    <3>2. CASE p' \in {[p EXCEPT !.pc = "list"], [p EXCEPT !.pc = "FAILED"]}
      BY <1>2, <3>1, <3>2, GotoStep
    <3>3. ASSUME NEW forced \in BOOLEAN, NEW pc \in {"ensure", "push"}, seen' = seen \cup {remote},
                 p' = [p EXCEPT !.pc = pc, !.sent = head, !.lease = remote, !.forced = forced,
                                !.attempt = 1]
          PROVE  /\ p' \in Local /\ p'.pc = pc /\ p'.want = p.want /\ p'.steady = p.steady
                 /\ p'.lease \in seen'
      <4>1. head \in References
        BY <1>2 DEF References
      <4> QED
        BY <1>2, <3>1, <3>3, <4>1 DEF Local
    <3> QED
      BY <2>1, <3>2, <3>3
  <2>3. CommandInv' /\ Delivery!PassedIsExact'
    BY <1>1, <2>1, <2>2 DEF DeliveryInv, CommandInv, Delivery!PassedIsExact, Judged, Opened
  <2> QED
    BY <1>1, <2>2, <2>3, QuietStep DEF DeliveryInv
<1>6. CASE Delivery!Reconcile
  <2>1. /\ p.pc = "reconcile"
        /\ \/ p' \in {[p EXCEPT !.pc = "ensure"], [p EXCEPT !.pc = "FAILED"]}
           \/ p' = [p EXCEPT !.pc = "push", !.attempt = @ + 1]
    BY <1>6 DEF Delivery!Reconcile
  <2>2. /\ p' \in Local /\ p'.pc \in {"ensure", "push", "FAILED"}
        /\ p'.want = p.want /\ p'.steady = p.steady /\ p'.lease = p.lease
    <3>1. {"ensure", "push", "FAILED"} \subseteq Steps
      BY DEF Steps
    <3>2. CASE p' \in {[p EXCEPT !.pc = "ensure"], [p EXCEPT !.pc = "FAILED"]}
      BY <1>2, <3>1, <3>2, GotoStep
    <3>3. CASE p' = [p EXCEPT !.pc = "push", !.attempt = @ + 1]
      <4>1. p.attempt + 1 \in Nat
        BY <1>2 DEF Local
      <4>2. ASSUME NEW n \in Nat, p' = [p EXCEPT !.pc = "push", !.attempt = n]
            PROVE  /\ p' \in Local /\ p'.pc = "push" /\ p'.want = p.want
                   /\ p'.steady = p.steady /\ p'.lease = p.lease
        BY <1>2, <3>1, <4>2 DEF Local
      <4> QED
        BY <3>3, <4>1, <4>2
    <3> QED
      BY <2>1, <3>2, <3>3
  <2>3. CommandInv' /\ Delivery!PassedIsExact'
    BY <1>1, <2>1, <2>2 DEF DeliveryInv, CommandInv, Delivery!PassedIsExact, Judged, Opened
  <2> QED
    BY <1>1, <2>2, <2>3, QuietStep DEF DeliveryInv
<1>7. CASE Delivery!UsePull
  <2>1. p.pc = "ensure" /\ pull # Nothing
    BY <1>7 DEF Delivery!UsePull
  <2>2. \/ p' = [p EXCEPT !.pc = "FAILED"]
        \/ /\ p' = [p EXCEPT !.pc = "LOCAL_REVIEWED", !.exact = Delivery!Current]
           /\ remote = p.want
        \/ /\ p' = [p EXCEPT !.pc = "candidate", !.exact = Delivery!Current]
           /\ remote = p.want /\ profile # "local-review"
    BY <1>7, <1>2 DEF Delivery!UsePull, Local
  <2>3. p.want \in Commits /\ (remote = p.want => Delivery!Current \in Delivery!Coordinates)
    BY <1>2, <2>1 DEF Delivery!Current, Delivery!Coordinates, DeliveryInv, CommandInv
  <2>4. /\ p' \in Local /\ p'.pc \in {"LOCAL_REVIEWED", "candidate", "FAILED"}
        /\ p'.want = p.want /\ p'.steady = p.steady
        /\ p'.pc # "FAILED" => /\ p'.exact = Delivery!Current /\ remote = p.want
                               /\ p'.exact \in Delivery!Coordinates
        /\ p'.pc = "candidate" => profile # "local-review"
    <3>1. {"LOCAL_REVIEWED", "candidate", "FAILED"} \subseteq Steps
      BY DEF Steps
    <3>2. CASE p' = [p EXCEPT !.pc = "FAILED"]
      BY <1>2, <3>1, <3>2, GotoStep
    <3>3. ASSUME NEW pc \in {"LOCAL_REVIEWED", "candidate"}, remote = p.want,
                 p' = [p EXCEPT !.pc = pc, !.exact = Delivery!Current],
                 pc = "candidate" => profile # "local-review"
          PROVE  /\ p' \in Local /\ p'.pc = pc /\ p'.want = p.want /\ p'.steady = p.steady
                 /\ p'.exact = Delivery!Current /\ p'.exact \in Delivery!Coordinates
      BY <1>2, <2>3, <3>1, <3>3 DEF Local
    <3> QED
      BY <2>2, <3>2, <3>3
  <2>5. p'.pc # "FAILED" => p'.exact[1] = p'.want
    BY <2>4 DEF Delivery!Current
  <2>6. profile \in {"local-review", "organization-workflow"}
    BY DEF DeliveryInv, DeliveryTypes, Delivery!TypeOK
  <2>7. CommandInv' /\ Delivery!PassedIsExact'
    BY <1>1, <2>1, <2>4, <2>5, <2>6 DEF DeliveryInv, CommandInv, Delivery!PassedIsExact, Judged,
       Opened
  <2> QED
    BY <1>1, <2>4, <2>7, QuietStep DEF DeliveryInv
<1> QED
  BY <1>3, <1>4, <1>5, <1>6, <1>7

LEMMA PushStep ==
  ASSUME Delivery!DeliveryAssumption, DeliveryInv, Delivery!Push
  PROVE  DeliveryInv'
<1> USE DEF Delivery!Goto, Delivery!Ended, Delivery!Step, Delivery!Quiet, Delivery!github
<1> DEFINE Lands == /\ Delivery!HookAccepts(head)
                    /\ Delivery!Admits(remote, head, p.forced, p.lease)
<1>1. /\ head \in Commits /\ remote \in References /\ p \in Local /\ p.pc = "push"
      /\ p.lease \in seen
  BY DEF DeliveryInv, DeliveryTypes, Delivery!TypeOK, References, Delivery!Push, CommandInv
<1>2. /\ UNCHANGED <<head, nonces, reviewed, profile, seen, pull, checks>>
      /\ \E pc \in {"ensure", "reconcile", "FAILED"} : p' = [p EXCEPT !.pc = pc]
      /\ \/ Lands /\ Delivery!Applied(remote, head) /\ UNCHANGED flight
         \/ /\ UNCHANGED <<remote, computed, lost, delivered>>
            /\ \/ UNCHANGED flight
               \/ Lands /\ flight' = [from |-> remote, to |-> head]
  BY DEF Delivery!Push, Delivery!Applied
<1>3. Lands => head \in reviewed
               /\ (remote \in seen \cup {Nothing} \/ <<remote, head>> \in Extends)
  BY <1>1 DEF Delivery!HookAccepts, Delivery!ReviewValid, Delivery!Reproduced, Delivery!Admits
<1> HIDE DEF Lands
<1>4. /\ p' \in Local /\ p'.pc \in {"ensure", "reconcile", "FAILED"}
      /\ p'.want = p.want /\ p'.steady = p.steady /\ p'.lease = p.lease
  <2>1. {"ensure", "reconcile", "FAILED"} \subseteq Steps
    BY DEF Steps
  <2> QED
    BY <1>1, <1>2, <2>1, GotoStep
<1>5. DeliveryTypes'
  <2>1. remote' \in References /\ computed' \in BOOLEAN /\ (pull' # Nothing => remote' # Nothing)
    BY <1>1, <1>2 DEF Delivery!Applied, DeliveryInv, DeliveryTypes, Delivery!TypeOK,
       Delivery!DeliveryAssumption, References
  <2>2. flight' = Nothing \/ flight' \in [from : References, to : Commits]
    BY <1>1, <1>2 DEF DeliveryInv, DeliveryTypes
  <2> QED
    BY <1>2, <1>4, <2>1, <2>2 DEF DeliveryInv, DeliveryTypes, Delivery!TypeOK, References
<1>6. CommandInv' /\ Delivery!PassedIsExact'
  BY <1>1, <1>2, <1>4 DEF DeliveryInv, CommandInv, Delivery!PassedIsExact, Judged, Opened
<1>7. FlightInv'
  BY <1>1, <1>2, <1>3 DEF DeliveryInv, FlightInv
<1>8. Delivery!NothingUnseenIsLost'
  <2>1. CASE UNCHANGED <<lost, delivered>>
    BY <1>2, <2>1 DEF DeliveryInv, Delivery!NothingUnseenIsLost
  <2>2. CASE Lands /\ Delivery!Applied(remote, head)
    BY <1>1, <1>2, <1>3, <2>2, AppliedStep DEF DeliveryInv
  <2> QED
    BY <1>2, <2>1, <2>2
<1> QED
  BY <1>5, <1>6, <1>7, <1>8 DEF DeliveryInv

\* A complete wait has found a successful run of each name, the broker's a new one.
LEMMA CompleteWait ==
  ASSUME Delivery!CheckComplete(p.ignored)
  PROVE  \E m, x \in checks :
           /\ m.name = Delivery!Machine /\ x.name = Delivery!External /\ x.id \notin p.ignored
           /\ \A r \in {m, x} : r.app /\ r.success /\ r.at = p.exact
<1> DEFINE Found == {c \in Delivery!Candidates(p.ignored) : c.success}
<1>1. {r.name : r \in Found} = {Delivery!Machine, Delivery!External}
  BY DEF Delivery!CheckComplete
<1>2. PICK m \in Found : m.name = Delivery!Machine
  BY <1>1
<1>3. PICK x \in Found : x.name = Delivery!External
  BY <1>1
<1>4. ASSUME NEW r \in Found
      PROVE  /\ r \in checks /\ r.app /\ r.success /\ r.at = p.exact
             /\ r.name = Delivery!External => r.id \notin p.ignored
  BY DEF Delivery!Candidates, Delivery!Newest, Delivery!Machine, Delivery!External
<1> QED
  BY <1>2, <1>3, <1>4

LEMMA WaitingStep ==
  ASSUME Delivery!DeliveryAssumption, DeliveryInv,
         \/ Delivery!Candidate \/ Delivery!WaitPull \/ Delivery!WaitChecks \/ Delivery!GivesUp
         \/ Delivery!RunAgain
  PROVE  DeliveryInv'
<1> USE DEF Delivery!Only, Delivery!Quiet, Delivery!github, Delivery!Step, Delivery!Ended,
            Delivery!Goto
<1>1. /\ UNCHANGED <<head, remote, pull, computed, checks, nonces, reviewed, profile, flight,
                     seen, lost, delivered>>
      /\ p \in Local
  BY DEF Delivery!Candidate, Delivery!WaitPull, Delivery!WaitChecks, Delivery!GivesUp,
     Delivery!RunAgain, DeliveryInv, DeliveryTypes
<1>2. CASE p' = [p EXCEPT !.pc = "FAILED"]
  <2>1. p.pc # "idle"
    BY <1>2, <1>1 DEF Delivery!Candidate, Delivery!WaitPull, Delivery!WaitChecks, Delivery!GivesUp,
       Delivery!RunAgain, Delivery!Running
  <2>2. p' \in Local /\ p'.pc = "FAILED" /\ p'.want = p.want
    BY <1>1, <1>2, GotoStep DEF Steps
  <2>3. CommandInv' /\ Delivery!PassedIsExact'
    BY <2>1, <2>2 DEF DeliveryInv, CommandInv, Delivery!PassedIsExact, Judged, Opened
  <2> QED
    BY <1>1, <2>2, <2>3, QuietStep DEF DeliveryInv
<1>3. CASE Delivery!RunAgain
  <2>1. p' \in Local /\ p'.pc = "idle"
    BY <1>3 DEF Delivery!RunAgain, Delivery!Idle, Local, Steps, References
  <2>2. CommandInv' /\ Delivery!PassedIsExact'
    BY <2>1 DEF CommandInv, Delivery!PassedIsExact, Judged, Opened
  <2> QED
    BY <1>1, <2>1, <2>2, QuietStep DEF DeliveryInv
<1>4. CASE Delivery!Candidate /\ p' # [p EXCEPT !.pc = "FAILED"]
  <2> DEFINE met == {r.id : r \in Delivery!Newest(Delivery!External, {})}
  <2>1. p.pc = "candidate" /\ p' = [p EXCEPT !.pc = "submit", !.ignored = met]
    BY <1>4 DEF Delivery!Candidate
  <2>2. met \in SUBSET (1..MaxChecks)
    BY DEF Delivery!Newest, DeliveryInv, DeliveryTypes, Delivery!TypeOK
  <2> HIDE DEF met
  <2>3. /\ p' \in Local /\ p'.pc = "submit" /\ p'.want = p.want /\ p'.steady = p.steady
        /\ p'.exact = p.exact
    BY <1>1, <2>1, <2>2 DEF Local, Steps
  <2>4. CommandInv' /\ Delivery!PassedIsExact'
    BY <1>1, <2>1, <2>3 DEF DeliveryInv, CommandInv, Delivery!PassedIsExact, Judged, Opened
  <2> QED
    BY <1>1, <2>3, <2>4, QuietStep DEF DeliveryInv
<1>5. CASE (Delivery!WaitPull \/ Delivery!WaitChecks) /\ p' # [p EXCEPT !.pc = "FAILED"]
  <2>1. /\ p.pc \in {"wait", "checks"}
        /\ \E pc \in {"checks", "wait", "CHECKS_PASSED"} : p' = [p EXCEPT !.pc = pc]
    BY <1>5 DEF Delivery!WaitPull, Delivery!WaitChecks
  <2>2. /\ p' \in Local /\ p'.pc \in {"checks", "wait", "CHECKS_PASSED"}
        /\ p'.want = p.want /\ p'.steady = p.steady /\ p'.exact = p.exact
        /\ p'.ignored = p.ignored
    BY <1>1, <2>1, GotoStep DEF Steps
  <2>3. p'.pc = "CHECKS_PASSED" => Delivery!CheckComplete(p.ignored)
    BY <1>1, <1>5, <2>2 DEF Delivery!WaitPull, Delivery!WaitChecks, Local
  <2>4. CommandInv'
    BY <1>1, <2>1, <2>2 DEF DeliveryInv, CommandInv, Judged, Opened
  <2>5. Delivery!PassedIsExact'
    BY <1>1, <2>1, <2>2, <2>3, CompleteWait
       DEF DeliveryInv, CommandInv, Delivery!PassedIsExact, Judged, Opened
  <2> QED
    BY <1>1, <2>2, <2>4, <2>5, QuietStep DEF DeliveryInv
<1> QED
  BY <1>2, <1>3, <1>4, <1>5 DEF Delivery!GivesUp

LEMMA WritingStep ==
  ASSUME DeliveryInv, Delivery!CreatePull \/ Delivery!Submit
  PROVE  DeliveryInv'
<1> USE DEF Delivery!Only, Delivery!Quiet, Delivery!github, Delivery!Step, Delivery!Ended,
            Delivery!Goto
<1>1. CASE Delivery!CreatePull
  <2>1. /\ UNCHANGED <<head, remote, checks, nonces, reviewed, profile, flight, p, seen, lost,
                       delivered>>
        /\ remote # Nothing /\ computed' \in BOOLEAN
        /\ pull' \in [draft : BOOLEAN, base : Delivery!Bases]
    BY <1>1 DEF Delivery!CreatePull, Delivery!Bases
  <2>2. DeliveryTypes'
    BY <2>1 DEF DeliveryInv, DeliveryTypes, Delivery!TypeOK
  <2> QED
    BY <2>1, <2>2 DEF DeliveryInv, CommandInv, FlightInv, Delivery!NothingUnseenIsLost,
       Delivery!PassedIsExact
<1>2. CASE Delivery!Submit
  <2>1. /\ UNCHANGED <<head, remote, pull, computed, checks, reviewed, profile, flight, seen, lost,
                       delivered>>
        /\ p.pc = "submit" /\ nonces' \in {nonces, nonces \cup {p.exact}}
        /\ \/ p' = [p EXCEPT !.pc = "FAILED"]
           \/ p' = [p EXCEPT !.pc = "wait"] /\ p.exact \in nonces'
    BY <1>2 DEF Delivery!Submit
  <2>2. p \in Local /\ p.exact \in Delivery!Coordinates
    BY <2>1 DEF DeliveryInv, DeliveryTypes, CommandInv, Opened
  <2>3. /\ p' \in Local /\ p'.pc \in {"wait", "FAILED"}
        /\ p'.want = p.want /\ p'.steady = p.steady /\ p'.exact = p.exact
    BY <2>1, <2>2, GotoStep DEF Steps
  <2>4. p'.pc = "wait" => p.exact \in nonces'
    BY <2>1, <2>2, GotoStep DEF Steps
  <2>5. DeliveryTypes'
    BY <2>1, <2>2, <2>3 DEF DeliveryInv, DeliveryTypes, Delivery!TypeOK
  <2>6. CommandInv' /\ Delivery!PassedIsExact'
    BY <2>1, <2>3, <2>4 DEF DeliveryInv, CommandInv, Delivery!PassedIsExact, Judged, Opened
  <2> QED
    BY <2>1, <2>5, <2>6 DEF DeliveryInv, FlightInv, Delivery!NothingUnseenIsLost
<1> QED
  BY <1>1, <1>2

LEMMA DeliveryInit == ASSUME Delivery!DeliveryAssumption, Delivery!Init PROVE DeliveryInv
<1>1. p = Delivery!Idle /\ p \in Local
  BY DEF Delivery!Init, Delivery!Idle, Local, Steps, References
<1>2. DeliveryTypes
  <2>1. checks = {} /\ IsFiniteSet(checks) /\ flight = Nothing
    BY FS_EmptySet DEF Delivery!Init
  <2> DEFINE new == [draft |-> TRUE, base |-> "b1"]
  <2>a. new \in [draft : BOOLEAN, base : Delivery!Bases]
    BY DEF Delivery!Bases
  <2>b. pull \in IF remote = Nothing THEN {Nothing} ELSE {Nothing, new}
    BY DEF Delivery!Init
  <2> HIDE DEF new
  <2>2. /\ pull # Nothing => remote # Nothing
        /\ pull \in {Nothing} \cup [draft : BOOLEAN, base : Delivery!Bases]
    BY <2>a, <2>b
  <2>3. Delivery!TypeOK
    BY <2>1, <2>2 DEF Delivery!Init, Delivery!TypeOK
  <2> QED
    BY <1>1, <2>1, <2>2, <2>3 DEF DeliveryTypes
<1>3. CommandInv /\ FlightInv
  BY <1>1 DEF Delivery!Init, Delivery!Idle, CommandInv, FlightInv, Judged, Opened
<1>4. Delivery!NothingUnseenIsLost /\ Delivery!PassedIsExact
  BY <1>1 DEF Delivery!Init, Delivery!Idle, Delivery!NothingUnseenIsLost, Delivery!PassedIsExact
<1> QED
  BY <1>2, <1>3, <1>4 DEF DeliveryInv

\* However the command is retried or killed while HEAD, the branch, the base and the pull
\* request move and lost pushes land later, every commit it put on the branch had been
\* reviewed, none was taken off that had not been seen, and what it reports as passed or
\* reviewed is so.
THEOREM DeliveryKeepsItsWord ==
  ASSUME Delivery!DeliveryAssumption PROVE Delivery!Spec => []Delivery!DeliveryIsExact
<1>1. Delivery!Init => DeliveryInv
  BY DeliveryInit
<1>2. DeliveryInv /\ [Delivery!Next]_(Delivery!vars) => DeliveryInv'
  <2>1. DeliveryInv /\ UNCHANGED Delivery!vars => DeliveryInv'
    BY DEF Delivery!vars, Delivery!github, DeliveryInv, DeliveryTypes, Delivery!TypeOK, CommandInv,
       FlightInv, Delivery!NothingUnseenIsLost, Delivery!PassedIsExact
  <2>2. DeliveryInv /\ Delivery!Command => DeliveryInv'
    BY ReadingStep, PushStep, WaitingStep, WritingStep DEF Delivery!Command
  <2> QED
    BY <2>1, <2>2, EnvironmentStep, LatePushStep DEF Delivery!Next
<1>3. DeliveryInv => Delivery!DeliveryIsExact
  BY DEF DeliveryInv, CommandInv, Judged, Delivery!DeliveryIsExact, Delivery!LocalIsReviewed
<1> QED
  BY <1>1, <1>2, <1>3, PTL DEF Delivery!Spec

-----------------------------------------------------------------------------
(* The machine oracle *)

CONSTANTS Candidates, Trusted, Verifier, Contract, NumCommands, MaxMoves
VARIABLES root, base, same, o, moves
Oracle == INSTANCE MachineOracle

OracleSteps == {"clean", "contract", "head", "tree", "from", "load", "bind", "dispatch", "isolate",
                "run", "recheck", "root", "base", "PASSED", "UNVERIFIED", "ERROR"}
Bound == OracleSteps \ {"clean", "contract", "head", "tree", "from", "load", "ERROR"}
AnyHead == Candidates \cup Trusted \cup {Nothing}
Execution == [pc : OracleSteps,
              contract : {Contract[c] : c \in Candidates \cup Trusted} \cup {Nothing},
              head : AnyHead, tree : AnyHead, from : AnyHead, trusted : BOOLEAN, ran : Nat,
              accepted : BOOLEAN, altered : BOOLEAN, returned : BOOLEAN]

\* What the repositories still say of what was read, unless something came back.
ReadInv ==
  ~o.returned =>
    /\ o.pc \notin {"clean", "contract", "ERROR"} /\ Oracle!ContractRoot.file = o.contract
         => o.contract = Contract[Oracle!ContractRoot.head]
    /\ o.pc \in Bound /\ Oracle!ContractRoot.head = o.from => o.contract = Contract[o.from]
    /\ /\ o.pc \in {"dispatch", "isolate", "run", "recheck", "root", "base"}
       /\ o.trusted /\ Oracle!ContractRoot.head = o.from
       /\ o.pc = "base" \/ root.head = o.head
       => Verifier[o.head] = Verifier[o.from]

\* What the run of the commands has shown.
RunInv ==
  /\ o.pc \in {"recheck", "root", "base"} /\ o.accepted => o.trusted /\ o.ran = NumCommands
  /\ o.pc \in {"root", "base"} => ~o.altered
  /\ o.pc = "base" => o.tree = o.head

OracleInv ==
  /\ root.head \in Candidates /\ base.head \in Trusted /\ o \in Execution
  /\ Oracle!ContractRoot.dirty \/ Oracle!ContractFile = Contract[Oracle!ContractRoot.head]
  /\ ReadInv /\ RunInv /\ Oracle!OraclePassIsExact

\* Going to another step changes nothing else of the execution.
LEMMA OracleGoto ==
  ASSUME o \in Execution, NEW pc \in OracleSteps, o' = [o EXCEPT !.pc = pc]
  PROVE  /\ o' \in Execution /\ o'.pc = pc
         /\ o'.contract = o.contract /\ o'.head = o.head /\ o'.tree = o.tree /\ o'.from = o.from
         /\ o'.trusted = o.trusted /\ o'.ran = o.ran /\ o'.accepted = o.accepted
         /\ o'.altered = o.altered /\ o'.returned = o.returned
BY DEF Execution

\* A failed check ends the execution.
LEMMA OracleFails ==
  ASSUME OracleInv, o' = [o EXCEPT !.pc = "ERROR"], UNCHANGED <<root, base, same>>
  PROVE  OracleInv'
<1>1. o' \in Execution /\ o'.pc = "ERROR"
  BY OracleGoto DEF OracleInv, OracleSteps
<1>2. ReadInv' /\ RunInv' /\ Oracle!OraclePassIsExact'
  BY <1>1 DEF ReadInv, RunInv, Bound, Oracle!OraclePassIsExact
<1> QED
  BY <1>1, <1>2 DEF OracleInv, Oracle!ContractRoot, Oracle!ContractFile

LEMMA OracleReads ==
  ASSUME OracleInv,
         \/ Oracle!CheckClean \/ Oracle!ReadContract \/ Oracle!ReadHead \/ Oracle!ReadTree
         \/ Oracle!ReadTrusted \/ Oracle!LoadContract \/ Oracle!BindVerifiers
  PROVE  OracleInv'
<1> USE DEF Oracle!Step, Oracle!Goto, Oracle!Require
<1>1. UNCHANGED <<root, base, same>> /\ o \in Execution
  BY DEF OracleInv, Oracle!CheckClean, Oracle!ReadContract, Oracle!ReadHead, Oracle!ReadTree,
     Oracle!ReadTrusted, Oracle!LoadContract, Oracle!BindVerifiers
<1>2. CASE o' = [o EXCEPT !.pc = "ERROR"]
  BY <1>1, <1>2, OracleFails
<1>3. /\ Oracle!ContractRoot \in {root, base}
      /\ root.head \in Candidates /\ base.head \in Trusted
      /\ Oracle!ContractRoot.head \in Candidates \cup Trusted
  BY DEF OracleInv, Oracle!ContractRoot
<1>4. ASSUME o' \in Execution, o'.pc \in OracleSteps \ {"PASSED", "recheck", "root", "base"},
             ReadInv'
      PROVE  OracleInv'
  BY <1>1, <1>4 DEF OracleInv, RunInv, Oracle!OraclePassIsExact, Oracle!ContractRoot,
     Oracle!ContractFile
<1>5. CASE Oracle!CheckClean /\ o' = [o EXCEPT !.pc = "contract"]
  <2>1. o' \in Execution /\ o'.pc = "contract"
    BY <1>1, <1>5, OracleGoto DEF OracleSteps
  <2>2. ReadInv'
    BY <2>1 DEF ReadInv, Bound
  <2> QED
    BY <1>4, <2>1, <2>2 DEF OracleSteps
<1>6. CASE Oracle!ReadContract /\ o' # [o EXCEPT !.pc = "ERROR"]
  <2> DEFINE text == Contract[Oracle!ContractRoot.head]
  <2>1. o' = [o EXCEPT !.pc = "head", !.contract = text]
    BY <1>6 DEF Oracle!ReadContract
  <2>2. text \in {Contract[c] : c \in Candidates \cup Trusted} \cup {Nothing}
    BY <1>3
  <2>3. Oracle!ContractRoot' = Oracle!ContractRoot
    BY <1>1 DEF Oracle!ContractRoot
  <2>4. o' \in Execution /\ o'.pc = "head" /\ o'.contract = Contract[Oracle!ContractRoot'.head]
    <3> HIDE DEF text
    <3>1. o' \in Execution /\ o'.pc = "head" /\ o'.contract = text
      BY <1>1, <2>1, <2>2 DEF Execution, OracleSteps
    <3> QED
      BY <2>3, <3>1 DEF text
  <2>5. ReadInv'
    BY <2>4 DEF ReadInv, Bound
  <2> QED
    BY <1>4, <2>4, <2>5 DEF OracleSteps
<1>7. CASE Oracle!ReadHead \/ Oracle!ReadTree \/ Oracle!ReadTrusted
  <2>1. /\ o.pc \in {"head", "tree", "from"}
        /\ o' \in Execution /\ o'.pc \in {"tree", "from", "load"}
        /\ o'.contract = o.contract /\ o'.returned = o.returned
    <3>1. CASE Oracle!ReadHead
      BY <1>1, <1>3, <3>1 DEF Oracle!ReadHead, Execution, OracleSteps, AnyHead
    <3>2. CASE Oracle!ReadTree
      BY <1>1, <1>3, <3>2 DEF Oracle!ReadTree, Execution, OracleSteps, AnyHead
    <3>3. CASE Oracle!ReadTrusted
      BY <1>1, <1>3, <3>3 DEF Oracle!ReadTrusted, Execution, OracleSteps, AnyHead
    <3> QED
      BY <1>7, <3>1, <3>2, <3>3
  <2>2. ReadInv'
    BY <1>1, <2>1 DEF OracleInv, ReadInv, Bound, Oracle!ContractRoot
  <2> QED
    BY <1>4, <2>1, <2>2 DEF OracleSteps
<1>8. CASE Oracle!LoadContract /\ o' # [o EXCEPT !.pc = "ERROR"]
  <2>1. /\ o.pc = "load" /\ Oracle!ContractRoot.file = o.contract
        /\ o' = [o EXCEPT !.pc = "bind"]
    BY <1>8 DEF Oracle!LoadContract, Oracle!ContractFile
  <2>2. /\ o' \in Execution /\ o'.pc = "bind" /\ o'.contract = o.contract /\ o'.from = o.from
        /\ o'.returned = o.returned
    BY <1>1, <2>1, OracleGoto DEF OracleSteps
  <2>3. ReadInv'
    BY <1>1, <2>1, <2>2 DEF OracleInv, ReadInv, Bound, Oracle!ContractRoot
  <2> QED
    BY <1>4, <2>2, <2>3 DEF OracleSteps
<1>9. CASE Oracle!BindVerifiers
  <2> DEFINE equal == (Verifier[root.head] = Verifier[Oracle!ContractRoot.head])
  <2>1. o.pc = "bind" /\ o' = [o EXCEPT !.pc = "dispatch", !.trusted = equal]
    BY <1>9 DEF Oracle!BindVerifiers
  <2>2. equal \in BOOLEAN
    OBVIOUS
  <2>3. /\ o' \in Execution /\ o'.pc = "dispatch" /\ (o'.trusted <=> equal)
        /\ o'.contract = o.contract /\ o'.from = o.from /\ o'.head = o.head
        /\ o'.returned = o.returned
    <3> HIDE DEF equal
    <3> QED
      BY <1>1, <2>1, <2>2 DEF Execution, OracleSteps
  <2>4. ReadInv'
    BY <1>1, <2>1, <2>3 DEF OracleInv, ReadInv, Bound, OracleSteps, Oracle!ContractRoot
  <2> QED
    BY <1>4, <2>3, <2>4 DEF OracleSteps
<1> QED
  BY <1>2, <1>5, <1>6, <1>7, <1>8, <1>9 DEF Oracle!CheckClean

LEMMA OracleRuns ==
  ASSUME OracleInv,
         \/ Oracle!CheckDispatch \/ Oracle!Isolate \/ Oracle!RunCommand \/ Oracle!RunsDone
  PROVE  OracleInv'
<1> USE DEF Oracle!Step, Oracle!Goto, Oracle!Require
<1>1. UNCHANGED <<root, base, same>> /\ o \in Execution
  BY DEF OracleInv, Oracle!CheckDispatch, Oracle!Isolate, Oracle!RunCommand, Oracle!RunsDone
<1>2. CASE o' = [o EXCEPT !.pc = "ERROR"]
  BY <1>1, <1>2, OracleFails
<1>3. ASSUME o.pc \in {"dispatch", "isolate", "run"}, o' \in Execution,
             o'.pc \in {"dispatch", "isolate", "run", "recheck"},
             o'.contract = o.contract, o'.head = o.head, o'.tree = o.tree, o'.from = o.from,
             o'.trusted = o.trusted, o'.returned = o.returned,
             o'.pc = "recheck" /\ o'.accepted => o'.trusted /\ o'.ran = NumCommands
      PROVE  OracleInv'
  <2>1. ReadInv' /\ RunInv' /\ Oracle!OraclePassIsExact'
    BY <1>1, <1>3 DEF OracleInv, ReadInv, RunInv, Bound, OracleSteps, Oracle!ContractRoot,
       Oracle!OraclePassIsExact
  <2> QED
    BY <1>1, <1>3, <2>1 DEF OracleInv, Oracle!ContractRoot, Oracle!ContractFile
<1>4. CASE (Oracle!CheckDispatch \/ Oracle!Isolate) /\ o' # [o EXCEPT !.pc = "ERROR"]
  <2>1. /\ o.pc \in {"dispatch", "isolate"}
        /\ \E pc \in {"isolate", "run"} : o' = [o EXCEPT !.pc = pc]
    BY <1>4 DEF Oracle!CheckDispatch, Oracle!Isolate
  <2> QED
    BY <1>1, <1>3, <2>1, OracleGoto DEF OracleSteps
<1>5. CASE Oracle!RunCommand
  <2>a. o.ran \in Nat
    BY <1>1 DEF Execution
  <2>b. o.pc = "run"
    BY <1>5 DEF Oracle!RunCommand
  <2>1. o.pc = "run" /\ o.ran + 1 \in Nat
    BY <2>a, <2>b
  <2>2. PICK result \in Oracle!Results, alters \in BOOLEAN :
          o' = [o EXCEPT !.ran = @ + 1, !.accepted = @ /\ Oracle!Accepted(result),
                         !.altered = @ \/ alters]
    BY <1>5 DEF Oracle!RunCommand
  <2>3. /\ (o.accepted /\ Oracle!Accepted(result)) \in BOOLEAN
        /\ (o.altered \/ alters) \in BOOLEAN
    OBVIOUS
  <2>4. ASSUME NEW ran \in Nat, NEW accepted \in BOOLEAN, NEW altered \in BOOLEAN,
               o' = [o EXCEPT !.ran = ran, !.accepted = accepted, !.altered = altered]
        PROVE  OracleInv'
    <3>1. /\ o' \in Execution /\ o'.pc = "run" /\ o'.contract = o.contract /\ o'.head = o.head
          /\ o'.tree = o.tree /\ o'.from = o.from /\ o'.trusted = o.trusted
          /\ o'.returned = o.returned
      BY <1>1, <2>1, <2>4 DEF Execution
    <3> QED
      BY <1>3, <2>1, <3>1
  <2> QED
    BY <2>1, <2>2, <2>3, <2>4
<1>6. CASE Oracle!RunsDone
  <2>1. o.pc = "run" /\ (o.ran = NumCommands \/ ~o.trusted)
    BY <1>6 DEF Oracle!RunsDone
  <2>2. PICK missing \in BOOLEAN :
          o' = [o EXCEPT !.pc = "recheck", !.accepted = @ /\ o.trusted /\ ~missing]
    BY <1>6 DEF Oracle!RunsDone
  <2>3. ASSUME NEW accepted \in BOOLEAN, accepted => o.trusted,
               o' = [o EXCEPT !.pc = "recheck", !.accepted = accepted]
        PROVE  OracleInv'
    <3>1. /\ o' \in Execution /\ o'.pc = "recheck" /\ o'.contract = o.contract /\ o'.head = o.head
          /\ o'.tree = o.tree /\ o'.from = o.from /\ o'.trusted = o.trusted /\ o'.ran = o.ran
          /\ o'.returned = o.returned /\ (o'.accepted <=> accepted)
      BY <1>1, <2>3 DEF Execution, OracleSteps
    <3> QED
      BY <1>3, <2>1, <2>3, <3>1
  <2> QED
    BY <2>2, <2>3
<1> QED
  BY <1>2, <1>4, <1>5, <1>6

LEMMA OracleRechecks ==
  ASSUME OracleInv, \/ Oracle!RecheckContract \/ Oracle!RecheckRoot \/ Oracle!RecheckBase
  PROVE  OracleInv'
<1> USE DEF Oracle!Step, Oracle!Goto, Oracle!Require
<1>1. UNCHANGED <<root, base, same>> /\ o \in Execution
  BY DEF OracleInv, Oracle!RecheckContract, Oracle!RecheckRoot, Oracle!RecheckBase
<1>2. CASE o' = [o EXCEPT !.pc = "ERROR"]
  BY <1>1, <1>2, OracleFails
<1>3. CASE o' # [o EXCEPT !.pc = "ERROR"]
  <2>1. PICK pc \in {"root", "base", "PASSED", "UNVERIFIED"} :
          /\ o' = [o EXCEPT !.pc = pc]
          /\ \/ o.pc = "recheck" /\ pc = "root" /\ ~o.altered
             \/ o.pc = "root" /\ pc = "base" /\ root.head = o.head /\ root.head = o.tree
             \/ /\ o.pc = "base" /\ pc = (IF o.accepted THEN "PASSED" ELSE "UNVERIFIED")
                /\ Oracle!ContractRoot.head = o.from
    BY <1>3 DEF Oracle!RecheckContract, Oracle!RecheckRoot, Oracle!RecheckBase
  <2>2. /\ o' \in Execution /\ o'.pc = pc
        /\ o'.contract = o.contract /\ o'.head = o.head /\ o'.tree = o.tree /\ o'.from = o.from
        /\ o'.trusted = o.trusted /\ o'.ran = o.ran /\ o'.accepted = o.accepted
        /\ o'.altered = o.altered /\ o'.returned = o.returned
    BY <1>1, <2>1, OracleGoto DEF OracleSteps
  <2>3. ReadInv'
    BY <1>1, <2>1, <2>2 DEF OracleInv, ReadInv, Bound, OracleSteps, Oracle!ContractRoot
  <2>4. RunInv'
    BY <2>1, <2>2 DEF OracleInv, RunInv
  <2>5. Oracle!OraclePassIsExact'
    BY <1>1, <2>1, <2>2 DEF OracleInv, ReadInv, RunInv, Bound, OracleSteps,
       Oracle!OraclePassIsExact
  <2> QED
    BY <1>1, <2>2, <2>3, <2>4, <2>5 DEF OracleInv, Oracle!ContractRoot, Oracle!ContractFile
<1> QED
  BY <1>2, <1>3

LEMMA OracleDisturbed ==
  ASSUME OracleInv,
         Oracle!RootMoves \/ Oracle!BaseMoves \/ Oracle!FileEdited \/ Oracle!CandidateEdited
  PROVE  OracleInv'
<1> USE DEF Oracle!Disturbed, Oracle!Clean, Oracle!Edited
<1>1. /\ UNCHANGED same /\ ~Oracle!Ended /\ o \in Execution
  BY DEF OracleInv, Oracle!RootMoves, Oracle!BaseMoves, Oracle!FileEdited, Oracle!CandidateEdited
\* What is remembered of a disturbance: the execution is as before but for returned.
<1>2. ASSUME NEW returned \in BOOLEAN, o' = [o EXCEPT !.returned = o.returned \/ returned]
      PROVE  /\ o' \in Execution /\ o'.pc = o.pc
             /\ o'.contract = o.contract /\ o'.head = o.head /\ o'.tree = o.tree
             /\ o'.from = o.from /\ o'.trusted = o.trusted /\ o'.ran = o.ran
             /\ o'.accepted = o.accepted /\ o'.altered = o.altered
             /\ o'.returned <=> (o.returned \/ returned)
  <2>1. (o.returned \/ returned) \in BOOLEAN
    OBVIOUS
  <2>2. ASSUME NEW b \in BOOLEAN, o' = [o EXCEPT !.returned = b]
        PROVE  /\ o' \in Execution /\ o'.pc = o.pc
               /\ o'.contract = o.contract /\ o'.head = o.head /\ o'.tree = o.tree
               /\ o'.from = o.from /\ o'.trusted = o.trusted /\ o'.ran = o.ran
               /\ o'.accepted = o.accepted /\ o'.altered = o.altered /\ o'.returned = b
    BY <1>1, <2>2 DEF Execution
  <2> QED
    BY <1>2, <2>1, <2>2
<1>3. CASE Oracle!RootMoves
  <2>1. PICK c \in Candidates \ {root.head} :
          /\ root' = Oracle!Clean(c) /\ UNCHANGED base
          /\ o' = [o EXCEPT !.returned = @ \/ c \in {o.head, o.tree, o.from}]
    BY <1>3 DEF Oracle!RootMoves
  <2> DEFINE back == c \in {o.head, o.tree, o.from}
  <2>2. back \in BOOLEAN /\ o' = [o EXCEPT !.returned = o.returned \/ back]
    BY <2>1
  <2> HIDE DEF back
  <2>3. /\ o' \in Execution /\ o'.pc = o.pc
        /\ o'.contract = o.contract /\ o'.head = o.head /\ o'.tree = o.tree
        /\ o'.from = o.from /\ o'.trusted = o.trusted /\ o'.ran = o.ran
        /\ o'.accepted = o.accepted /\ o'.altered = o.altered
        /\ o'.returned <=> (o.returned \/ back)
    BY <1>2, <2>2
  <2>4. ReadInv'
    BY <1>1, <2>1, <2>3 DEF back, OracleInv, ReadInv, Oracle!ContractRoot
  <2>5. RunInv' /\ Oracle!OraclePassIsExact'
    BY <1>1, <2>3 DEF OracleInv, RunInv, Oracle!OraclePassIsExact, Oracle!Ended
  <2> QED
    BY <1>1, <2>1, <2>3, <2>4, <2>5 DEF OracleInv, Oracle!ContractRoot, Oracle!ContractFile
<1>4. CASE Oracle!BaseMoves
  <2>1. PICK c \in Trusted \ {base.head} :
          /\ base' = Oracle!Clean(c) /\ UNCHANGED root /\ ~same
          /\ o' = [o EXCEPT !.returned = @ \/ c = o.from]
    BY <1>4 DEF Oracle!BaseMoves
  <2> DEFINE back == (c = o.from)
  <2>2. back \in BOOLEAN /\ o' = [o EXCEPT !.returned = o.returned \/ back]
    BY <2>1
  <2> HIDE DEF back
  <2>3. /\ o' \in Execution /\ o'.pc = o.pc
        /\ o'.contract = o.contract /\ o'.head = o.head /\ o'.tree = o.tree
        /\ o'.from = o.from /\ o'.trusted = o.trusted /\ o'.ran = o.ran
        /\ o'.accepted = o.accepted /\ o'.altered = o.altered
        /\ o'.returned <=> (o.returned \/ back)
    BY <1>2, <2>2
  <2>4. ReadInv'
    BY <1>1, <2>1, <2>3 DEF back, OracleInv, ReadInv, Oracle!ContractRoot
  <2>5. RunInv' /\ Oracle!OraclePassIsExact'
    BY <1>1, <2>3 DEF OracleInv, RunInv, Oracle!OraclePassIsExact, Oracle!Ended
  <2> QED
    BY <1>1, <2>1, <2>3, <2>4, <2>5 DEF OracleInv, Oracle!ContractRoot, Oracle!ContractFile
<1>5. CASE Oracle!FileEdited
  <2>1. PICK w \in Oracle!Edits(Oracle!ContractRoot) :
          /\ IF same THEN root' = w /\ UNCHANGED base ELSE base' = w /\ UNCHANGED root
          /\ o' = [o EXCEPT !.returned =
                              @ \/ (w.file = o.contract /\ o.contract # Contract[w.head])]
    BY <1>5 DEF Oracle!FileEdited
  <2>2. /\ w.head = Oracle!ContractRoot.head /\ Oracle!ContractRoot' = w
        /\ w.dirty \/ w.file = Contract[w.head]
        /\ root'.head = root.head /\ base'.head = base.head
    BY <1>1, <2>1 DEF Oracle!Edits, Oracle!ContractRoot
  <2> DEFINE back == (w.file = o.contract /\ o.contract # Contract[w.head])
  <2>3. back \in BOOLEAN /\ o' = [o EXCEPT !.returned = o.returned \/ back]
    BY <2>1
  <2> HIDE DEF back
  <2>4. /\ o' \in Execution /\ o'.pc = o.pc
        /\ o'.contract = o.contract /\ o'.head = o.head /\ o'.tree = o.tree
        /\ o'.from = o.from /\ o'.trusted = o.trusted /\ o'.ran = o.ran
        /\ o'.accepted = o.accepted /\ o'.altered = o.altered
        /\ o'.returned <=> (o.returned \/ back)
    BY <1>2, <2>3
  <2>5. ReadInv'
    BY <1>1, <2>2, <2>4 DEF back, OracleInv, ReadInv
  <2>6. RunInv' /\ Oracle!OraclePassIsExact'
    BY <1>1, <2>4 DEF OracleInv, RunInv, Oracle!OraclePassIsExact, Oracle!Ended
  <2> QED
    BY <1>1, <2>2, <2>4, <2>5, <2>6 DEF OracleInv, Oracle!ContractFile
<1>6. CASE Oracle!CandidateEdited
  <2>1. /\ UNCHANGED <<o, base>> /\ ~same /\ root'.head = root.head
        /\ Oracle!ContractRoot' = Oracle!ContractRoot
    BY <1>1, <1>6 DEF Oracle!CandidateEdited, Oracle!ContractRoot
  <2> QED
    BY <2>1 DEF OracleInv, ReadInv, RunInv, Oracle!OraclePassIsExact, Oracle!ContractFile
<1> QED
  BY <1>3, <1>4, <1>5, <1>6

\* A PASSED execution names the tree it ran on and the contract and verifiers of the
\* trusted HEAD it names, whatever moved between its reads, unless it moved back.
THEOREM OraclePassesAreExact == Oracle!Spec => []Oracle!OraclePassIsExact
<1>1. Oracle!Init => OracleInv
  <2>1. Oracle!Init => o \in Execution /\ o.pc = "clean"
    BY DEF Oracle!Init, Oracle!Start, Execution, OracleSteps, AnyHead
  <2>2. Oracle!Init => ReadInv /\ RunInv /\ Oracle!OraclePassIsExact
    BY <2>1 DEF ReadInv, RunInv, Bound, Oracle!OraclePassIsExact
  <2>3. Oracle!Init => /\ root.head \in Candidates /\ base.head \in Trusted
                       /\ Oracle!ContractRoot.dirty
                          \/ Oracle!ContractFile = Contract[Oracle!ContractRoot.head]
    BY DEF Oracle!Init, Oracle!Worktrees, Oracle!Clean, Oracle!Edited, Oracle!ContractRoot,
       Oracle!ContractFile
  <2> QED
    BY <2>1, <2>2, <2>3 DEF OracleInv
<1>2. OracleInv /\ [Oracle!Next]_(Oracle!vars) => OracleInv'
  <2>1. OracleInv /\ UNCHANGED Oracle!vars => OracleInv'
    BY DEF Oracle!vars, OracleInv, ReadInv, RunInv, Oracle!OraclePassIsExact, Oracle!ContractRoot,
       Oracle!ContractFile
  <2> QED
    BY <2>1, OracleReads, OracleRuns, OracleRechecks, OracleDisturbed DEF Oracle!Next
<1>3. OracleInv => Oracle!OraclePassIsExact
  BY DEF OracleInv
<1> QED
  BY <1>1, <1>2, <1>3, PTL DEF Oracle!Spec

-----------------------------------------------------------------------------
(* The registry and its doctor *)

CONSTANTS Repos, Requests, Commands, MaxChanges
VARIABLES registry, writer, broken, inventory, doctor, never, changes
Doctor == INSTANCE GateDoctor

Claims == {"UNVERIFIED", "LOCAL_REVIEWED", "APP_CHECK_ENFORCED", "PROTECTED"}
Change == [pc : {"write"}, version : {1, 2}, rows : SUBSET Requests]
Inspection == [pc : {"rows", "probe", "FAILED"} \cup Claims, all : BOOLEAN, version : {1, 2},
               rows : SUBSET Requests, todo : SUBSET Requests, selected : SUBSET Requests,
               row : Requests \cup {Nothing}, at : Nat, drift : BOOLEAN, status : SUBSET Claims]

RegistryInv ==
  /\ registry # Nothing => /\ registry.version \in {1, 2} /\ registry.rows \subseteq Requests
                           /\ Doctor!ValidRegistry(registry)
  /\ writer \in [Commands -> {Doctor!Idle} \cup Change]

\* The first n facts of a row have held, each at some moment of the inspection.
HeldUpTo(r, n) ==
  \A i \in 1..n : Doctor!Subject(r.repository, Doctor!ProbeOf(r)[i]) \notin never
Held(r) == HeldUpTo(r, Len(Doctor!ProbeOf(r)))

\* The statuses collected speak for the row.
Attested(r) ==
  "UNVERIFIED" \in doctor.status \/ (Doctor!ClaimOf[r.protection] \in doctor.status /\ Held(r))

InspectionInv ==
  /\ doctor \in Inspection
  /\ doctor.pc = "probe" =>
       /\ doctor.row \in Requests /\ doctor.at \in Nat \ {0}
       /\ ~doctor.drift => HeldUpTo(doctor.row, doctor.at - 1)
  /\ doctor.pc \in {"rows", "probe"} =>
       \A r \in doctor.selected \ doctor.todo :
         (doctor.pc = "probe" /\ r = doctor.row) \/ Attested(r)

DoctorInv ==
  /\ RegistryInv /\ never \subseteq broken
  /\ doctor = Doctor!Idle \/ InspectionInv
  /\ Doctor!ClaimIsEarned

LEMMA ProbeCount ==
  ASSUME Doctor!RequestAssumption, NEW r \in Requests
  PROVE  /\ Len(Doctor!ProbeOf(r)) \in Nat
         /\ Doctor!ClaimOf[r.protection] \in Claims \ {"UNVERIFIED"}
<1>1. r.protection \in {"local-review", "app-check", "organization-workflow"}
  BY DEF Doctor!RequestAssumption, Doctor!Protections
<1>2. CASE r.protection = "local-review"
  <2>1. /\ Doctor!ProbeOf(r) = <<"version", "review">>
        /\ Doctor!ClaimOf[r.protection] = "LOCAL_REVIEWED"
    BY <1>2 DEF Doctor!ProbeOf, Doctor!Probes, Doctor!ClaimOf, Doctor!Protections
  <2> QED
    BY <2>1 DEF Claims
<1>3. CASE r.protection = "app-check"
  <2>1. /\ Doctor!ProbeOf(r) = <<"contract", "version", "ruleset", "key", "broker">>
        /\ Doctor!ClaimOf[r.protection] = "APP_CHECK_ENFORCED"
    BY <1>3 DEF Doctor!ProbeOf, Doctor!Probes, Doctor!ClaimOf, Doctor!Protections
  <2> QED
    BY <2>1 DEF Claims
<1>4. CASE r.protection = "organization-workflow"
  <2>1. /\ Doctor!ProbeOf(r) = <<"contract", "base", "version", "ruleset", "key", "broker">>
        /\ Doctor!ClaimOf[r.protection] = "PROTECTED"
    BY <1>4 DEF Doctor!ProbeOf, Doctor!Probes, Doctor!ClaimOf, Doctor!Protections
  <2> QED
    BY <2>1 DEF Claims
<1> QED
  BY <1>1, <1>2, <1>3, <1>4

\* The order of the claims, as numbers.
LEMMA Order ==
  /\ DOMAIN Doctor!ClaimOrder = Claims
  /\ \A s \in Claims : Doctor!ClaimOrder[s] \in 0..3
  /\ Doctor!ClaimOrder["UNVERIFIED"] = 0 /\ Doctor!ClaimOrder["LOCAL_REVIEWED"] = 1
  /\ Doctor!ClaimOrder["APP_CHECK_ENFORCED"] = 2 /\ Doctor!ClaimOrder["PROTECTED"] = 3
BY DEF Doctor!ClaimOrder, Claims

\* Of the statuses collected one is the weakest.
LEMMA WeakestIsLeast ==
  ASSUME NEW S \in SUBSET Claims, S # {}
  PROVE  /\ Doctor!Weakest(S) \in S
         /\ \A s \in S : Doctor!ClaimOrder[Doctor!Weakest(S)] <= Doctor!ClaimOrder[s]
<1>1. \E s \in S : \A q \in S : Doctor!ClaimOrder[s] <= Doctor!ClaimOrder[q]
  <2>1. CASE "UNVERIFIED" \in S
    BY <2>1, Order DEF Claims
  <2>2. CASE "UNVERIFIED" \notin S /\ "LOCAL_REVIEWED" \in S
    BY <2>2, Order DEF Claims
  <2>3. CASE "UNVERIFIED" \notin S /\ "LOCAL_REVIEWED" \notin S /\ "APP_CHECK_ENFORCED" \in S
    BY <2>3, Order DEF Claims
  <2>4. CASE S = {"PROTECTED"}
    BY <2>4, Order
  <2> QED
    BY <2>1, <2>2, <2>3, <2>4 DEF Claims
<1> QED
  BY <1>1 DEF Doctor!Weakest

LEMMA RegistryStep ==
  ASSUME DoctorInv, doctor = Doctor!Idle,
         \/ \E c \in Commands, r \in Requests, version \in {1, 2} : Doctor!Register(c, version, r)
         \/ \E c \in Commands, s \in Repos : Doctor!Unregister(c, s)
         \/ \E c \in Commands : Doctor!Save(c) \/ Doctor!Killed(c)
  PROVE  DoctorInv'
<1>1. UNCHANGED <<broken, doctor, never>>
  BY DEF Doctor!Register, Doctor!Unregister, Doctor!Save, Doctor!Killed, Doctor!Untouched
<1>2. ASSUME NEW c \in Commands, NEW d \in {Doctor!Idle} \cup Change,
             writer' = [writer EXCEPT ![c] = d], UNCHANGED registry
      PROVE  RegistryInv'
  BY <1>2 DEF DoctorInv, RegistryInv, Doctor!ValidRegistry
<1>3. ASSUME NEW c \in Commands, NEW r \in Requests, NEW version \in {1, 2},
             Doctor!Register(c, version, r)
      PROVE  RegistryInv'
  <2> DEFINE rows == IF registry = Nothing THEN {} ELSE registry.rows
  <2> DEFINE d == [pc |-> "write", version |-> version, rows |-> Doctor!With(rows, r)]
  <2>1. rows \subseteq Requests
    BY DEF DoctorInv, RegistryInv
  <2>2. Doctor!With(rows, r) \subseteq Requests
    BY <2>1 DEF Doctor!With
  <2>3. d \in {Doctor!Idle} \cup Change
    BY <2>2 DEF Change
  <2>4. writer' = [writer EXCEPT ![c] = d] /\ UNCHANGED registry
    BY <1>3 DEF Doctor!Register
  <2> HIDE DEF d
  <2> QED
    BY <1>2, <2>3, <2>4
<1>4. ASSUME NEW c \in Commands, NEW s \in Repos, Doctor!Unregister(c, s)
      PROVE  RegistryInv'
  <2> DEFINE d == [pc |-> "write", version |-> registry.version,
                   rows |-> Doctor!Without(registry.rows, s)]
  <2>1. registry.rows \subseteq Requests /\ registry.version \in {1, 2}
    BY <1>4 DEF Doctor!Unregister, DoctorInv, RegistryInv
  <2>2. d \in {Doctor!Idle} \cup Change
    BY <2>1 DEF Change, Doctor!Without
  <2>3. writer' = [writer EXCEPT ![c] = d] /\ UNCHANGED registry
    BY <1>4 DEF Doctor!Unregister
  <2> HIDE DEF d
  <2> QED
    BY <1>2, <2>2, <2>3
<1>5. ASSUME NEW c \in Commands, Doctor!Killed(c)
      PROVE  RegistryInv'
  BY <1>2, <1>5 DEF Doctor!Killed
<1>6. ASSUME NEW c \in Commands, Doctor!Save(c)
      PROVE  RegistryInv'
  <2> DEFINE made == [version |-> writer[c].version, rows |-> writer[c].rows]
  <2>1. writer[c] \in Change
    BY <1>6 DEF Doctor!Save, Doctor!Idle, DoctorInv, RegistryInv
  <2>2. made.version \in {1, 2} /\ made.rows \subseteq Requests
    BY <2>1 DEF Change
  <2>3. /\ registry' = IF Doctor!ValidRegistry(made) THEN made ELSE registry
        /\ writer' = [writer EXCEPT ![c] = Doctor!Idle]
    BY <1>6 DEF Doctor!Save
  <2> HIDE DEF made
  <2> QED
    BY <2>2, <2>3 DEF DoctorInv, RegistryInv
<1>7. RegistryInv'
  BY <1>3, <1>4, <1>5, <1>6
<1>8. Doctor!ClaimIsEarned'
  BY <1>1, Order DEF Doctor!ClaimIsEarned, Doctor!Reported, Doctor!Idle, Claims
<1> QED
  BY <1>1, <1>7, <1>8 DEF DoctorInv

\* Facts that break or are repaired take nothing from what has held.
LEMMA WorldStep ==
  ASSUME DoctorInv, doctor.pc \in {"rows", "probe"},
         Doctor!Breaks \/ Doctor!Repaired \/ Doctor!RepositoryCreated
  PROVE  DoctorInv'
<1>1. /\ UNCHANGED <<registry, writer, doctor>>
      /\ never' \subseteq never /\ never' \subseteq broken'
  BY DEF Doctor!Breaks, Doctor!Repaired, Doctor!RepositoryCreated, Doctor!Change, DoctorInv
<1>2. RegistryInv'
  BY <1>1 DEF DoctorInv, RegistryInv, Doctor!ValidRegistry
<1>3. InspectionInv
  BY DEF DoctorInv, Doctor!Idle
<1>4. /\ \A r \in Requests : Held(r) => Held(r)'
      /\ \A r \in Requests, n \in Nat : HeldUpTo(r, n) => HeldUpTo(r, n)'
  BY <1>1 DEF Held, HeldUpTo
<1>5. /\ doctor \in Inspection
      /\ doctor.pc = "probe" => doctor.row \in Requests /\ doctor.at \in Nat \ {0}
  BY <1>3 DEF InspectionInv
<1>6. doctor.pc = "probe" /\ ~doctor.drift => HeldUpTo(doctor.row, doctor.at - 1)'
  <2>1. SUFFICES ASSUME doctor.pc = "probe", ~doctor.drift
                 PROVE  HeldUpTo(doctor.row, doctor.at - 1)'
    OBVIOUS
  <2>2. doctor.at - 1 \in Nat /\ HeldUpTo(doctor.row, doctor.at - 1)
    BY <2>1, <1>3, <1>5 DEF InspectionInv
  <2> QED
    BY <1>1, <2>2 DEF HeldUpTo
<1>7. \A r \in doctor.selected \ doctor.todo : Attested(r) => Attested(r)'
  <2>1. doctor.selected \subseteq Requests
    BY <1>5 DEF Inspection
  <2> QED
    BY <1>1, <1>4, <2>1 DEF Attested
<1>8. InspectionInv'
  BY <1>1, <1>3, <1>5, <1>6, <1>7 DEF InspectionInv
<1>9. Doctor!ClaimIsEarned'
  BY <1>1, Order DEF Doctor!ClaimIsEarned, Doctor!Reported, Claims
<1> QED
  BY <1>1, <1>2, <1>8, <1>9 DEF DoctorInv

LEMMA InspectionQuiet ==
  ASSUME DoctorInv, Doctor!Quiet, never' \subseteq broken', InspectionInv', Doctor!ClaimIsEarned'
  PROVE  DoctorInv'
BY DEF DoctorInv, Doctor!Quiet, RegistryInv, Doctor!ValidRegistry

LEMMA InspectionStarts ==
  ASSUME DoctorInv, NEW all \in BOOLEAN, NEW s \in Repos, Doctor!DoctorStarts(all, s)
  PROVE  DoctorInv'
<1> DEFINE rows == {r \in registry.rows : all \/ r.repository = s}
<1>1. /\ registry # Nothing /\ never' = broken /\ Doctor!Quiet
      /\ doctor' = [pc |-> "rows", all |-> all, version |-> registry.version,
                    rows |-> registry.rows, todo |-> rows, selected |-> rows, row |-> Nothing,
                    at |-> 1, drift |-> FALSE, status |-> {}]
  BY DEF Doctor!DoctorStarts
<1>2. registry.version \in {1, 2} /\ registry.rows \subseteq Requests /\ rows \subseteq Requests
  BY <1>1 DEF DoctorInv, RegistryInv
<1> HIDE DEF rows
<1>3. /\ doctor' \in Inspection /\ doctor'.pc = "rows"
      /\ doctor'.todo = rows /\ doctor'.selected = rows
  BY <1>1, <1>2 DEF Inspection
<1>4. InspectionInv'
  BY <1>3 DEF InspectionInv
<1>5. Doctor!ClaimIsEarned'
  BY <1>3, Order DEF Doctor!ClaimIsEarned, Doctor!Reported, Claims
<1>6. never' \subseteq broken'
  BY <1>1 DEF Doctor!Quiet
<1> QED
  BY <1>1, <1>4, <1>5, <1>6, InspectionQuiet

LEMMA InspectionStep ==
  ASSUME Doctor!RequestAssumption, DoctorInv,
         Doctor!NextRow \/ Doctor!Probe \/ Doctor!RowDone
  PROVE  DoctorInv'
<1>1. /\ UNCHANGED never /\ Doctor!Quiet /\ doctor.pc \in {"rows", "probe"}
      /\ doctor # Doctor!Idle
  <2>1. /\ UNCHANGED never /\ Doctor!Quiet /\ doctor.pc \in {"rows", "probe"}
    BY DEF Doctor!NextRow, Doctor!Probe, Doctor!RowDone
  <2>2. Doctor!Idle.pc = "idle"
    BY DEF Doctor!Idle
  <2> QED
    BY <2>1, <2>2
<1>a. InspectionInv /\ doctor \in Inspection
  BY <1>1 DEF DoctorInv, InspectionInv
<1>b. never' \subseteq broken'
  BY <1>1 DEF DoctorInv, Doctor!Quiet
<1>c. /\ \A q \in Requests, n \in Nat : HeldUpTo(q, n) => HeldUpTo(q, n)'
      /\ \A q \in Requests : Held(q) => Held(q)'
  BY <1>1 DEF Held, HeldUpTo
<1>d. doctor.selected \subseteq Requests
  BY <1>a DEF Inspection
<1>e. ASSUME doctor.status \subseteq doctor'.status
      PROVE  \A q \in Requests : Attested(q) => Attested(q)'
  BY <1>c, <1>e DEF Attested
<1>2. ASSUME doctor'.pc \in {"rows", "probe"}, InspectionInv'
      PROVE  DoctorInv'
  <2>1. Doctor!ClaimIsEarned'
    BY <1>2, Order DEF Doctor!ClaimIsEarned, Doctor!Reported, Claims
  <2> QED
    BY <1>1, <1>2, <1>b, <2>1, InspectionQuiet
<1>3. CASE Doctor!NextRow
  <2>1. doctor.pc = "rows"
    BY <1>3 DEF Doctor!NextRow
  <2>2. PICK r \in doctor.todo :
          doctor' = [doctor EXCEPT !.pc = "probe", !.todo = @ \ {r}, !.row = r, !.at = 1,
                                   !.drift = FALSE]
    BY <1>3 DEF Doctor!NextRow
  <2>3. r \in Requests /\ doctor.todo \ {r} \in SUBSET Requests
    BY <1>a DEF Inspection
  <2>4. /\ doctor' \in Inspection /\ doctor'.pc = "probe" /\ doctor'.todo = doctor.todo \ {r}
        /\ doctor'.selected = doctor.selected /\ doctor'.row = r /\ doctor'.at = 1
        /\ doctor'.status = doctor.status
    BY <1>a, <2>2, <2>3 DEF Inspection
  <2>5. HeldUpTo(doctor.row, doctor.at - 1)'
    BY <2>4 DEF HeldUpTo
  <2>6. \A q \in doctor.selected \ doctor.todo : Attested(q)
    BY <1>a, <2>1 DEF InspectionInv
  <2>7. \A q \in doctor'.selected \ doctor'.todo : q = doctor'.row \/ Attested(q)'
    BY <1>d, <1>e, <2>4, <2>6
  <2>8. InspectionInv'
    BY <2>3, <2>4, <2>5, <2>7 DEF InspectionInv
  <2> QED
    BY <1>2, <2>4, <2>8
<1>4. CASE Doctor!Probe
  <2> DEFINE fact == Doctor!Subject(doctor.row.repository, Doctor!ProbeOf(doctor.row)[doctor.at])
  <2>1. /\ doctor.pc = "probe" /\ doctor.row \in Requests /\ doctor.at \in Nat \ {0}
        /\ ~doctor.drift => HeldUpTo(doctor.row, doctor.at - 1)
    BY <1>4, <1>a DEF Doctor!Probe, InspectionInv
  <2>2. doctor' = [doctor EXCEPT !.at = @ + 1, !.drift = @ \/ fact \in broken]
    BY <1>4 DEF Doctor!Probe
  <2>3. ASSUME NEW n \in Nat, NEW drift \in BOOLEAN,
               doctor' = [doctor EXCEPT !.at = n, !.drift = drift]
        PROVE  /\ doctor' \in Inspection /\ doctor'.pc = "probe" /\ doctor'.row = doctor.row
               /\ doctor'.todo = doctor.todo /\ doctor'.selected = doctor.selected
               /\ doctor'.status = doctor.status /\ doctor'.at = n /\ doctor'.drift = drift
    BY <1>a, <2>1, <2>3 DEF Inspection
  <2>4. doctor.at + 1 \in Nat /\ (doctor.drift \/ fact \in broken) \in BOOLEAN
    BY <2>1
  <2>5. /\ doctor' \in Inspection /\ doctor'.pc = "probe" /\ doctor'.row = doctor.row
        /\ doctor'.todo = doctor.todo /\ doctor'.selected = doctor.selected
        /\ doctor'.status = doctor.status /\ doctor'.at = doctor.at + 1
        /\ doctor'.drift <=> (doctor.drift \/ fact \in broken)
    BY <2>2, <2>3, <2>4
  <2>6. ASSUME ~doctor'.drift
        PROVE  HeldUpTo(doctor.row, doctor.at - 1)'
    <3>1. fact \notin never
      BY <2>5, <2>6 DEF DoctorInv
    <3>2. HeldUpTo(doctor.row, doctor.at - 1)
      BY <2>1, <2>5, <2>6
    <3>3. \A i \in 1..doctor.at : i = doctor.at \/ i \in 1..(doctor.at - 1)
      BY <2>1
    <3>4. \A i \in 1..doctor.at :
            Doctor!Subject(doctor.row.repository, Doctor!ProbeOf(doctor.row)[i]) \notin never
      BY <3>1, <3>2, <3>3 DEF HeldUpTo
    <3>5. doctor'.at - 1 = doctor.at
      BY <2>1, <2>5
    <3> HIDE DEF fact
    <3> QED
      BY <1>1, <2>5, <3>4, <3>5 DEF HeldUpTo
  <2> HIDE DEF fact
  <2>7. \A q \in doctor.selected \ doctor.todo : q = doctor.row \/ Attested(q)
    BY <1>a, <2>1 DEF InspectionInv
  <2>8. \A q \in doctor'.selected \ doctor'.todo : q = doctor'.row \/ Attested(q)'
    BY <1>d, <1>e, <2>5, <2>7
  <2>9. doctor'.at \in Nat \ {0}
    BY <2>1, <2>5
  <2>10. InspectionInv'
    BY <2>1, <2>5, <2>6, <2>8, <2>9 DEF InspectionInv
  <2> QED
    BY <1>2, <2>5, <2>10
<1>5. CASE Doctor!RowDone
  <2> DEFINE claim == Doctor!RowStatus(doctor.row, doctor.drift)
  <2>1. /\ doctor.pc = "probe" /\ doctor.row \in Requests /\ doctor.at \in Nat \ {0}
        /\ ~doctor.drift => HeldUpTo(doctor.row, doctor.at - 1)
        /\ doctor.at > Len(Doctor!ProbeOf(doctor.row))
    BY <1>5, <1>a DEF Doctor!RowDone, InspectionInv
  <2>2. claim \in Claims
    BY <2>1, ProbeCount DEF Doctor!RowStatus, Claims
  <2>3. doctor' = [doctor EXCEPT !.pc = "rows", !.status = @ \cup {claim}]
    BY <1>5 DEF Doctor!RowDone
  <2>4. /\ doctor.drift => claim = "UNVERIFIED"
        /\ ~doctor.drift => claim = Doctor!ClaimOf[doctor.row.protection]
    BY DEF Doctor!RowStatus
  <2> HIDE DEF claim
  <2>5. /\ doctor' \in Inspection /\ doctor'.pc = "rows"
        /\ doctor'.todo = doctor.todo /\ doctor'.selected = doctor.selected
        /\ doctor'.status = doctor.status \cup {claim}
    BY <1>a, <2>2, <2>3 DEF Inspection
  <2>6. ~doctor.drift => Held(doctor.row)
    <3>1. \A i \in 1..Len(Doctor!ProbeOf(doctor.row)) : i \in 1..(doctor.at - 1)
      BY <2>1, ProbeCount
    <3> QED
      BY <2>1, <3>1 DEF Held, HeldUpTo
  <2>7. /\ claim \in doctor'.status
        /\ \A q \in Requests : q = doctor.row /\ ~doctor.drift => Held(q)'
    BY <1>c, <2>5, <2>6
  <2>8. \A q \in doctor.selected \ doctor.todo : q = doctor.row \/ Attested(q)
    BY <1>a, <2>1 DEF InspectionInv
  <2>9. \A q \in Requests : q = doctor.row => Attested(q)'
    BY <2>4, <2>7 DEF Attested
  <2>10. \A q \in doctor'.selected \ doctor'.todo : Attested(q)'
    BY <1>d, <1>e, <2>5, <2>8, <2>9
  <2>11. InspectionInv'
    BY <2>5, <2>10 DEF InspectionInv
  <2> QED
    BY <1>2, <2>5, <2>11
<1> QED
  BY <1>3, <1>4, <1>5

LEMMA ReportStep ==
  ASSUME Doctor!RequestAssumption, DoctorInv, Doctor!Report
  PROVE  DoctorInv'
<1>1. /\ doctor.pc = "rows" /\ doctor.todo = {} /\ UNCHANGED never /\ Doctor!Quiet
      /\ doctor # Doctor!Idle
  <2>1. doctor.pc = "rows" /\ doctor.todo = {} /\ UNCHANGED never /\ Doctor!Quiet
    BY DEF Doctor!Report
  <2>2. Doctor!Idle.pc = "idle"
    BY DEF Doctor!Idle
  <2> QED
    BY <2>1, <2>2
<1>2. InspectionInv /\ doctor \in Inspection /\ never' \subseteq broken'
  BY <1>1 DEF DoctorInv, InspectionInv, Doctor!Quiet
<1>3. PICK statuses \in SUBSET Claims :
        /\ doctor.status \subseteq statuses
        /\ doctor' = IF statuses = {} THEN [doctor EXCEPT !.pc = "FAILED"]
                     ELSE [doctor EXCEPT !.pc = Doctor!Aggregate(doctor.version, statuses)]
  <2> DEFINE owned == /\ doctor.all
                      /\ \E r \in doctor.rows : r.protection = "organization-workflow"
  <2> DEFINE unknown == {s \in inventory :
                          owned /\ \A r \in doctor.rows : r.repository # s}
  <2> DEFINE statuses == doctor.status \cup {"UNVERIFIED" : s \in unknown}
  <2>1. doctor' = IF statuses = {} THEN [doctor EXCEPT !.pc = "FAILED"]
                  ELSE [doctor EXCEPT !.pc = Doctor!Aggregate(doctor.version, statuses)]
    BY DEF Doctor!Report
  <2>2. doctor.status \subseteq Claims
    BY <1>2 DEF Inspection
  <2>3. {"UNVERIFIED" : s \in unknown} \subseteq Claims
    BY DEF Claims
  <2>4. statuses \in SUBSET Claims /\ doctor.status \subseteq statuses
    BY <2>2, <2>3
  <2> HIDE DEF statuses
  <2> QED
    BY <2>1, <2>4
<1>4. \A r \in doctor.selected :
        /\ r \in Requests
        /\ "UNVERIFIED" \in statuses \/ (Doctor!ClaimOf[r.protection] \in statuses /\ Held(r))
  BY <1>1, <1>2, <1>3 DEF InspectionInv, Inspection, Attested
<1>5. CASE statuses = {}
  <2>1. doctor' \in Inspection /\ doctor'.pc = "FAILED"
    BY <1>2, <1>3, <1>5 DEF Inspection
  <2>2. InspectionInv' /\ Doctor!ClaimIsEarned'
    BY <2>1, Order DEF InspectionInv, Doctor!ClaimIsEarned, Doctor!Reported, Claims
  <2> QED
    BY <1>1, <1>2, <2>2, InspectionQuiet
<1>6. CASE statuses # {}
  <2> DEFINE claim == Doctor!Aggregate(doctor.version, statuses)
  \* What is reported is the least of the statuses, or nothing.
  <2>1. /\ claim \in Claims
        /\ claim # "UNVERIFIED" =>
             claim \in statuses
             /\ \A s \in statuses : Doctor!ClaimOrder[claim] <= Doctor!ClaimOrder[s]
    <3>1. CASE doctor.version = 2
      BY <1>6, <3>1, WeakestIsLeast DEF Doctor!Aggregate
    <3>2. CASE doctor.version # 2 /\ statuses = {"PROTECTED"}
      BY <3>2, Order DEF Doctor!Aggregate, Claims
    <3>3. CASE doctor.version # 2 /\ statuses # {"PROTECTED"}
      BY <3>3 DEF Doctor!Aggregate, Claims
    <3> QED
      BY <3>1, <3>2, <3>3
  <2>2. doctor' = [doctor EXCEPT !.pc = claim]
    BY <1>3, <1>6
  <2> HIDE DEF claim
  <2>3. /\ doctor' \in Inspection /\ doctor'.pc = claim
        /\ doctor'.selected = doctor.selected
    BY <1>2, <2>1, <2>2 DEF Inspection
  <2>4. ASSUME NEW r \in doctor.selected
        PROVE  /\ Doctor!ClaimOrder[claim] <= Doctor!ClaimOrder[Doctor!ClaimOf[r.protection]]
               /\ claim # "UNVERIFIED" => Held(r)
    <3>1. Doctor!ClaimOf[r.protection] \in Claims
      BY <1>4, ProbeCount
    <3>2. CASE claim = "UNVERIFIED"
      BY <3>1, <3>2, Order
    <3>3. CASE claim # "UNVERIFIED"
      <4>1. "UNVERIFIED" \notin statuses
        <5>1. Doctor!ClaimOrder[claim] >= 1
          BY <2>1, <3>3, Order DEF Claims
        <5> QED
          BY <2>1, <3>3, <5>1, Order
      <4> QED
        BY <1>4, <2>1, <3>3, <4>1
    <3> QED
      BY <3>2, <3>3
  <2>5. Doctor!ClaimIsEarned'
    BY <1>1, <2>3, <2>4 DEF Doctor!ClaimIsEarned, Held, HeldUpTo
  <2>6. InspectionInv'
    BY <2>1, <2>3 DEF InspectionInv, Claims
  <2> QED
    BY <1>1, <1>2, <2>5, <2>6, InspectionQuiet
<1> QED
  BY <1>5, <1>6

\* However registrations overlap the registry stays one the doctor and the hook accept, and
\* however the facts change the doctor claims no more than what every row has earned.
THEOREM DoctorClaimsWhatIsEarned ==
  ASSUME Doctor!RequestAssumption PROVE Doctor!Spec => []Doctor!DoctorIsHonest
<1>1. Doctor!Init => DoctorInv
  <2> SUFFICES ASSUME Doctor!Init PROVE DoctorInv
    OBVIOUS
  <2>1. RegistryInv
    BY DEF Doctor!Init, RegistryInv, Doctor!ValidRegistry, Doctor!OnePerIdentity
  <2>2. doctor = Doctor!Idle /\ never \subseteq broken
    BY DEF Doctor!Init
  <2>3. Doctor!ClaimIsEarned
    BY <2>2, Order DEF Doctor!ClaimIsEarned, Doctor!Reported, Doctor!Idle, Claims
  <2> QED
    BY <2>1, <2>2, <2>3 DEF DoctorInv
<1>2. DoctorInv /\ [Doctor!Next]_(Doctor!vars) => DoctorInv'
  <2>1. DoctorInv /\ UNCHANGED Doctor!vars => DoctorInv'
    BY DEF DoctorInv, RegistryInv, Doctor!ValidRegistry, InspectionInv, Attested, Held, HeldUpTo,
       Doctor!ClaimIsEarned, Doctor!Reported, Doctor!vars
  <2> QED
    BY <2>1, RegistryStep, WorldStep, InspectionStarts, InspectionStep, ReportStep
       DEF Doctor!Next
<1>3. DoctorInv => Doctor!DoctorIsHonest
  <2>1. ASSUME NEW r \in Requests, NEW version \in {1, 2}, Doctor!ValidRow(version, r),
               Doctor!ClaimOf[r.protection] = "PROTECTED"
        PROVE  r.scope = "organization" /\ r.workflow
    <3>1. r.protection = "organization-workflow"
      BY <2>1 DEF Doctor!RequestAssumption, Doctor!ClaimOf, Doctor!Protections
    <3> QED
      BY <2>1, <3>1 DEF Doctor!ValidRow, Doctor!LegacyRow, Doctor!LocalRow, Doctor!AppRow
  <2> QED
    BY <2>1 DEF DoctorInv, RegistryInv, Doctor!DoctorIsHonest, Doctor!RegistryStaysValid,
       Doctor!ValidRegistry
<1> QED
  BY <1>1, <1>2, <1>3, PTL DEF Doctor!Spec

-----------------------------------------------------------------------------
(* The gate before a deploy *)

CONSTANTS Checks, Reviewed, Detected, Populated, Poison, Paths, Ignored
VARIABLES dirty, files, declared, ledger, check, hook
Predeploy == INSTANCE PredeployGate

Stepping == {"load", "persist", "BLOCKED", "merge", "clean", "digest", "receipt", "decide",
             "before", "emit", "after", "record", "ROUTINE", "ALLOWED"}
Declarations == [data : BOOLEAN, dir : {r.dir : r \in Requests} \cup {Nothing}]
Pass == [path : Paths \cup {Nothing}, input : Commits \cup {Nothing}, returned : BOOLEAN]
Started == [pc : Stepping, ask : Requests, previous : Declarations, raced : BOOLEAN,
            gated : BOOLEAN, digest : Commits \cup {Nothing}, valid : BOOLEAN,
            input : Commits \cup {Nothing}, returned : BOOLEAN]
Answering == [pc : {"digest", "digest for the path", "read", "path", "clean", "hash", "answered"},
              gated : BOOLEAN, digest : Commits \cup {Nothing}, record : Pass \cup {Nothing},
              artifact : Paths \cup {Nothing}, again : BOOLEAN,
              hashed : SUBSET ((Paths \cup {Nothing}) \X (Commits \cup {Nothing}))]

PredeployTypes ==
  /\ head \in Commits /\ declared \in Declarations \cup {Poison}
  /\ check \in [Checks -> {[pc |-> "idle"]} \cup Started]
  /\ ledger \in [Commits -> Pass \cup {Nothing}]
  /\ hook \in {[pc |-> "idle"]} \cup Answering

\* A receipt valid under a HEAD that is the digest's names the digest, as long as HEAD has
\* not come back; what is archived is then the digest too.
Checked(x) ==
  /\ x.pc \in {"receipt", "decide", "before", "emit", "after", "record"} => x.digest \in Commits
  /\ x.pc = "decide" /\ x.valid /\ head = x.digest => x.returned \/ x.digest \in Reviewed
  /\ x.pc \in {"before", "emit", "after", "record"} => x.returned \/ x.digest \in Reviewed
  /\ x.pc = "after" /\ head = x.digest => x.returned \/ x.input = x.digest
  /\ x.pc = "record" => x.returned \/ x.input = x.digest

Sound(pass) == pass \in Pass /\ (pass.returned \/ pass.input \in Reviewed)
LedgerInv == \A c \in Commits : ledger[c] # Nothing => Sound(ledger[c])
Classified ==
  /\ hook.pc \in {"read", "path"} => hook.digest \in Commits
  /\ hook.pc \in {"clean", "hash"} => Sound(hook.record)
  /\ hook.pc = "answered" /\ hook.artifact # Nothing =>
       Sound(hook.record) /\ <<hook.record.path, hook.record.input>> \in hook.hashed

\* What a check declared is in the declarations and in what every check that is about to
\* write them has read, as long as no other check has been overtaken.
Keeps(d, ask) == (ask.data => d.data) /\ (ask.dir # Nothing => d.dir # Nothing)
Unraced(k) == \A j \in Checks \ {k} : check[j].pc # "idle" => ~check[j].raced
Told(k) == check[k].pc \notin {"idle", "load", "persist", "BLOCKED"} /\ Unraced(k)
RiskInv ==
  declared # Poison =>
    \A k \in Checks : Told(k) =>
      /\ Keeps(declared, check[k].ask)
      /\ \A j \in Checks : check[j].pc = "persist" => Keeps(check[j].previous, check[k].ask)

PredeployInv ==
  PredeployTypes /\ (\A k \in Checks : Checked(check[k])) /\ LedgerInv /\ Classified /\ RiskInv

\* A step of one check that persists nothing.
LEMMA QuietCheck ==
  ASSUME PredeployInv, NEW k \in Checks, NEW x \in Started,
         check' = [check EXCEPT ![k] = x],
         UNCHANGED <<head, declared, hook>>,
         check[k] \in Started, x.ask = check[k].ask, x.raced = check[k].raced,
         x.pc \notin {"load", "persist"}, check[k].pc \notin {"load", "persist"},
         check[k].pc = "BLOCKED" => x.pc = "BLOCKED",
         Checked(x), ledger' \in [Commits -> Pass \cup {Nothing}], LedgerInv'
  PROVE  PredeployInv'
<1>1. PredeployTypes'
  BY DEF PredeployInv, PredeployTypes
<1>2. \A j \in Checks : Checked(check[j])'
  BY DEF PredeployInv, PredeployTypes, Checked
<1>3. Classified'
  BY DEF PredeployInv, Classified
<1>4. RiskInv'
  <2> SUFFICES ASSUME declared # Poison, NEW j \in Checks, Told(j)'
               PROVE  /\ Keeps(declared, check'[j].ask)
                      /\ \A i \in Checks : check'[i].pc = "persist" =>
                           Keeps(check'[i].previous, check'[j].ask)
    BY DEF RiskInv, Keeps
  <2>1. Told(j)
    BY DEF PredeployInv, PredeployTypes, Told, Unraced, Started, Stepping
  <2>2. check'[j].ask = check[j].ask
    BY DEF PredeployInv, PredeployTypes
  <2> QED
    BY <2>1, <2>2 DEF PredeployInv, PredeployTypes, RiskInv, Told
<1> QED
  BY <1>1, <1>2, <1>3, <1>4 DEF PredeployInv

LEMMA PredeployGoto ==
  ASSUME PredeployInv, NEW k \in Checks, NEW pc \in Stepping \ {"load", "persist"},
         check[k].pc \notin {"idle", "load", "persist", "BLOCKED"},
         Predeploy!Goto(k, pc), UNCHANGED <<head, declared, hook, ledger>>,
         Checked([check[k] EXCEPT !.pc = pc])
  PROVE  PredeployInv'
<1> DEFINE x == [check[k] EXCEPT !.pc = pc]
<1>1. check[k] \in Started
  BY DEF PredeployInv, PredeployTypes
<1>2. x \in Started /\ x.ask = check[k].ask /\ x.raced = check[k].raced /\ x.pc = pc
  BY <1>1 DEF Started
<1>3. check' = [check EXCEPT ![k] = x]
  BY DEF Predeploy!Goto
<1>4. ledger' \in [Commits -> Pass \cup {Nothing}] /\ LedgerInv'
  BY DEF PredeployInv, PredeployTypes, LedgerInv
<1> HIDE DEF x
<1> QED
  BY <1>1, <1>2, <1>3, <1>4, QuietCheck DEF x

LEMMA StartStep ==
  ASSUME Predeploy!PredeployAssumption, PredeployInv, NEW k \in Checks, Predeploy!Start(k)
  PROVE  PredeployInv'
<1>1. PICK r \in Requests :
        check' = [check EXCEPT ![k] =
          [pc |-> IF r.data \/ r.dir # Nothing THEN "load" ELSE "merge", ask |-> r,
           previous |-> Predeploy!NoDeclaration, raced |-> FALSE, gated |-> FALSE,
           digest |-> Nothing, valid |-> FALSE, input |-> Nothing, returned |-> FALSE]]
  BY DEF Predeploy!Start
<1> DEFINE x == [pc |-> IF r.data \/ r.dir # Nothing THEN "load" ELSE "merge", ask |-> r,
                 previous |-> Predeploy!NoDeclaration, raced |-> FALSE, gated |-> FALSE,
                 digest |-> Nothing, valid |-> FALSE, input |-> Nothing, returned |-> FALSE]
<1>2. x \in Started /\ x.pc \in {"load", "merge"} /\ ~x.raced
  BY DEF Started, Stepping, Declarations, Predeploy!NoDeclaration
<1>3. x.pc = "merge" => ~x.ask.data /\ x.ask.dir = Nothing
  BY <1>2
<1>4. check' = [check EXCEPT ![k] = x]
  BY <1>1
<1> HIDE DEF x
<1>5. /\ check[k].pc = "idle"
      /\ UNCHANGED <<head, declared, hook, ledger>>
  BY DEF Predeploy!Start, Predeploy!Now, Predeploy!Untouched
<1>6. PredeployTypes'
  BY <1>2, <1>4, <1>5 DEF PredeployInv, PredeployTypes
<1>7. \A j \in Checks : Checked(check[j])'
  BY <1>2, <1>4, <1>5 DEF PredeployInv, PredeployTypes, Checked
<1>8. LedgerInv' /\ Classified'
  BY <1>5 DEF PredeployInv, LedgerInv, Classified
<1>9. RiskInv'
  <2> SUFFICES ASSUME declared # Poison, NEW j \in Checks, Told(j)'
               PROVE  /\ Keeps(declared, check'[j].ask)
                      /\ \A i \in Checks : check'[i].pc = "persist" =>
                           Keeps(check'[i].previous, check'[j].ask)
    BY <1>5 DEF RiskInv, Keeps
  <2>1. CASE j = k
    BY <1>2, <1>3, <1>4, <2>1 DEF PredeployInv, PredeployTypes, Told, Keeps
  <2>2. CASE j # k
    <3>1. Told(j)
      BY <1>4, <1>5, <2>2 DEF PredeployInv, PredeployTypes, Told, Unraced
    <3>2. check'[j].ask = check[j].ask
      BY <1>4, <2>2 DEF PredeployInv, PredeployTypes
    <3> QED
      BY <1>2, <1>4, <3>1, <3>2 DEF PredeployInv, PredeployTypes, RiskInv
  <2> QED
    BY <2>1, <2>2
<1> QED
  BY <1>6, <1>7, <1>8, <1>9 DEF PredeployInv

LEMMA LoadStep ==
  ASSUME Predeploy!PredeployAssumption, PredeployInv, NEW k \in Checks, Predeploy!LoadDeclared(k)
  PROVE  PredeployInv'
<1> DEFINE x == [check[k] EXCEPT !.pc = "persist", !.previous = Predeploy!Loaded]
<1>1. /\ check[k].pc = "load" /\ check' = [check EXCEPT ![k] = x]
      /\ UNCHANGED <<head, declared, hook, ledger>>
  BY DEF Predeploy!LoadDeclared, Predeploy!Now, Predeploy!Untouched
<1>2. check[k] \in Started
  BY <1>1 DEF PredeployInv, PredeployTypes
<1>3. Predeploy!Loaded \in Declarations /\ (declared # Poison => Predeploy!Loaded = declared)
  BY DEF Predeploy!Loaded, Predeploy!NoDeclaration, Declarations, PredeployInv, PredeployTypes
<1>4. /\ x \in Started /\ x.pc = "persist" /\ x.previous = Predeploy!Loaded
      /\ x.raced = check[k].raced
  BY <1>2, <1>3 DEF Started, Stepping
<1> HIDE DEF x
<1>5. PredeployTypes'
  BY <1>1, <1>4 DEF PredeployInv, PredeployTypes
<1>6. \A j \in Checks : Checked(check[j])'
  BY <1>1, <1>4 DEF PredeployInv, PredeployTypes, Checked
<1>7. LedgerInv' /\ Classified'
  BY <1>1 DEF PredeployInv, LedgerInv, Classified
<1>8. RiskInv'
  <2> SUFFICES ASSUME declared # Poison, NEW j \in Checks, Told(j)'
               PROVE  /\ Keeps(declared, check'[j].ask)
                      /\ \A i \in Checks : check'[i].pc = "persist" =>
                           Keeps(check'[i].previous, check'[j].ask)
    BY <1>1 DEF RiskInv, Keeps
  <2>1. j # k
    BY <1>1, <1>4 DEF PredeployInv, PredeployTypes, Told
  <2>2. Told(j) /\ check'[j].ask = check[j].ask
    BY <1>1, <1>4, <2>1 DEF PredeployInv, PredeployTypes, Told, Unraced
  <2> QED
    BY <1>1, <1>3, <1>4, <2>2 DEF PredeployInv, PredeployTypes, RiskInv
<1> QED
  BY <1>5, <1>6, <1>7, <1>8 DEF PredeployInv

LEMMA PersistStep ==
  ASSUME Predeploy!PredeployAssumption, PredeployInv, NEW k \in Checks, Predeploy!Persist(k)
  PROVE  PredeployInv'
<1>1. check[k].pc = "persist" /\ UNCHANGED <<head, hook, ledger>> /\ check[k] \in Started
  BY DEF PredeployInv, PredeployTypes, Predeploy!Persist, Predeploy!Now
<1>2. LedgerInv' /\ Classified'
  BY <1>1 DEF PredeployInv, LedgerInv, Classified
<1>3. CASE declared = Poison
  <2> DEFINE x == [check[k] EXCEPT !.pc = "BLOCKED"]
  <2>1. check' = [check EXCEPT ![k] = x] /\ declared' = declared
    BY <1>3 DEF Predeploy!Persist, Predeploy!Goto
  <2>2. x \in Started /\ x.pc = "BLOCKED"
    BY <1>1 DEF Started, Stepping
  <2> HIDE DEF x
  <2>3. PredeployTypes'
    BY <1>1, <2>1, <2>2 DEF PredeployInv, PredeployTypes
  <2>4. \A j \in Checks : Checked(check[j])'
    BY <1>1, <2>1, <2>2 DEF PredeployInv, PredeployTypes, Checked
  <2>5. RiskInv'
    BY <1>3, <2>1 DEF RiskInv
  <2> QED
    BY <1>2, <2>3, <2>4, <2>5 DEF PredeployInv
<1>4. CASE declared # Poison
  <2> DEFINE own == check[k].ask
             prior == check[k].previous
             x == [check[k] EXCEPT !.pc = "merge"]
             Raced(j) == [check[j] EXCEPT !.raced = TRUE]
  <2>1. /\ declared' = [data |-> prior.data \/ own.data,
                        dir |-> IF own.dir # Nothing THEN own.dir ELSE prior.dir]
        /\ check' = [j \in Checks |-> IF j = k THEN x
                       ELSE IF check[j].pc = "persist" THEN Raced(j) ELSE check[j]]
    BY <1>4 DEF Predeploy!Persist
  <2>2. /\ x \in Started /\ x.pc = "merge" /\ x.ask = own
        /\ own \in Requests /\ own.data \in BOOLEAN /\ prior \in Declarations
    BY <1>1 DEF Started, Stepping, Predeploy!PredeployAssumption
  <2>3. ASSUME NEW j \in Checks, check[j].pc = "persist"
        PROVE  /\ Raced(j) \in Started /\ Raced(j).pc = "persist" /\ Raced(j).raced
               /\ Raced(j).ask = check[j].ask
    <3>1. check[j] \in Started
      BY <2>3 DEF PredeployInv, PredeployTypes
    <3> QED
      BY <2>3, <3>1 DEF Started
  <2>4. /\ declared' \in Declarations
        /\ Keeps(declared', own)
        /\ \A ask : Keeps(prior, ask) => Keeps(declared', ask)
    BY <2>1, <2>2 DEF Declarations, Keeps
  <2> HIDE DEF own, prior, x, Raced
  <2>5. PredeployTypes'
    BY <1>1, <2>1, <2>2, <2>3, <2>4 DEF PredeployInv, PredeployTypes
  <2>6. \A j \in Checks : Checked(check[j])'
    <3> TAKE j \in Checks
    <3>1. CASE j = k
      BY <1>1, <2>1, <2>2, <3>1 DEF Checked
    <3>2. CASE j # k /\ check[j].pc = "persist"
      BY <1>1, <2>1, <2>3, <3>2 DEF Checked
    <3>3. CASE j # k /\ check[j].pc # "persist"
      BY <1>1, <2>1, <3>3 DEF PredeployInv, Checked
    <3> QED
      BY <3>1, <3>2, <3>3
  <2>7. RiskInv'
    <3> SUFFICES ASSUME NEW j \in Checks, Told(j)'
                 PROVE  /\ Keeps(declared', check'[j].ask)
                        /\ \A i \in Checks : check'[i].pc = "persist" =>
                             Keeps(check'[i].previous, check'[j].ask)
      BY DEF RiskInv, Keeps
    <3>1. ASSUME NEW i \in Checks, check'[i].pc = "persist" PROVE FALSE
      <4>1. i # k /\ check[i].pc = "persist"
        BY <2>1, <2>2, <3>1
      <4>2. check'[i].raced
        BY <2>1, <2>3, <4>1
      <4>3. i # j
        BY <3>1 DEF Told
      <4> QED
        BY <3>1, <4>2, <4>3 DEF Told, Unraced
    <3>2. CASE j = k
      BY <2>1, <2>2, <2>4, <3>1, <3>2
    <3>3. CASE j # k
      <4>1. check[j].pc # "persist"
        BY <2>1, <2>3, <3>3 DEF Told
      <4>2. check'[j] = check[j]
        BY <2>1, <3>3, <4>1
      <4>3. \A i \in Checks \ {j} : check[i].pc # "idle" => ~check[i].raced
        <5> SUFFICES ASSUME NEW i \in Checks \ {j}, check[i].pc # "idle", check[i].raced PROVE FALSE
          OBVIOUS
        <5>1. check'[i].pc # "idle" /\ check'[i].raced
          <6>1. CASE i = k
            <7>1. x.raced = check[k].raced
              BY <1>1 DEF x, Started
            <7> QED
              BY <2>1, <2>2, <6>1, <7>1
          <6>2. CASE i # k /\ check[i].pc = "persist"
            BY <2>1, <2>3, <6>2
          <6>3. CASE i # k /\ check[i].pc # "persist"
            BY <2>1, <6>3
          <6> QED
            BY <6>1, <6>2, <6>3
        <5> QED
          BY <5>1 DEF Told, Unraced
      <4>4. Keeps(prior, check[j].ask)
        BY <1>1, <1>4, <4>2, <4>3 DEF Told, Unraced, PredeployInv, RiskInv, prior
      <4> QED
        BY <2>4, <3>1, <4>2, <4>4
    <3> QED
      BY <3>2, <3>3
  <2> QED
    BY <1>2, <2>5, <2>6, <2>7 DEF PredeployInv
<1> QED
  BY <1>3, <1>4

\* The steps of a check between the declarations and the pass.
LEMMA DecisionStep ==
  ASSUME Predeploy!PredeployAssumption, PredeployInv, NEW k \in Checks,
         \/ Predeploy!Merge(k) \/ Predeploy!CheckClean(k) \/ Predeploy!Digest(k)
         \/ Predeploy!Validate(k) \/ Predeploy!Decide(k) \/ Predeploy!Before(k)
         \/ Predeploy!Emit(k) \/ Predeploy!After(k) \/ Predeploy!RecordPass(k)
  PROVE  PredeployInv'
<1> DEFINE x == check[k]
<1>1. /\ x.pc \in {"merge", "clean", "digest", "receipt", "decide", "before", "emit", "after", "record"}
      /\ UNCHANGED <<head, declared, hook>>
  BY DEF Predeploy!Merge, Predeploy!CheckClean, Predeploy!Digest, Predeploy!Validate,
         Predeploy!Decide, Predeploy!Before, Predeploy!Emit, Predeploy!After,
         Predeploy!RecordPass, Predeploy!Now, Predeploy!Untouched
<1>2. x \in Started /\ Checked(x) /\ head \in Commits
  BY <1>1 DEF PredeployInv, PredeployTypes
<1>3. ASSUME UNCHANGED ledger
      PROVE  ledger' \in [Commits -> Pass \cup {Nothing}] /\ LedgerInv'
  BY <1>3 DEF PredeployInv, PredeployTypes, LedgerInv
<1>4. ASSUME NEW pc \in Stepping \ {"load", "persist"}, Predeploy!Goto(k, pc), UNCHANGED ledger,
             Checked([x EXCEPT !.pc = pc])
      PROVE  PredeployInv'
  BY <1>1, <1>4, PredeployGoto
<1>5. \A pc : LET y == [x EXCEPT !.pc = pc] IN
        /\ y.pc = pc /\ y.digest = x.digest /\ y.valid = x.valid /\ y.input = x.input
        /\ y.returned = x.returned
  BY <1>2 DEF Started
<1>6. ASSUME UNCHANGED ledger, Predeploy!Goto(k, "BLOCKED") PROVE PredeployInv'
  BY <1>4, <1>5, <1>6 DEF Checked, Stepping
<1>7. ASSUME NEW y \in Started, check' = [check EXCEPT ![k] = y], UNCHANGED ledger,
             y.ask = x.ask, y.raced = x.raced, y.pc \notin {"load", "persist"}, Checked(y)
      PROVE  PredeployInv'
  BY <1>1, <1>2, <1>3, <1>7, QuietCheck
<1>8. CASE Predeploy!Merge(k)
  <2> DEFINE risky == Predeploy!Gated(x.ask.data, x.ask.dir)
             y == [x EXCEPT !.pc = "clean", !.gated = risky]
  <2>1. risky \in BOOLEAN
    BY DEF Predeploy!Gated
  <2>2. check' = [check EXCEPT ![k] = y] /\ UNCHANGED ledger
    BY <1>8 DEF Predeploy!Merge, Predeploy!Untouched
  <2> HIDE DEF risky
  <2>3. y \in Started /\ y.ask = x.ask /\ y.raced = x.raced /\ y.pc = "clean"
    BY <1>2, <2>1 DEF Started, Stepping
  <2> QED
    BY <1>7, <2>2, <2>3 DEF Checked
<1>9. CASE Predeploy!CheckClean(k)
  BY <1>4, <1>5, <1>6, <1>9
     DEF Predeploy!CheckClean, Predeploy!Require, Predeploy!Untouched, Checked, Stepping
<1>10. CASE Predeploy!Digest(k)
  <2> DEFINE y == [x EXCEPT !.pc = "receipt", !.digest = head]
  <2>1. y \in Started /\ y.ask = x.ask /\ y.raced = x.raced /\ y.pc = "receipt" /\ y.digest \in Commits
    BY <1>2 DEF Started, Stepping
  <2> QED
    BY <1>7, <1>10, <2>1 DEF Predeploy!Digest, Predeploy!Untouched, Checked
<1>11. CASE Predeploy!Validate(k)
  <2>1. PICK fails \in BOOLEAN :
          check' = [check EXCEPT ![k].pc = "decide",
                                 ![k].valid = x.gated /\ head \in Reviewed /\ ~fails]
    BY <1>11 DEF Predeploy!Validate
  <2> DEFINE valid == x.gated /\ head \in Reviewed /\ ~fails
             y == [x EXCEPT !.pc = "decide", !.valid = valid]
  <2>2. valid \in BOOLEAN /\ (valid => head \in Reviewed)
    BY <1>2 DEF Started
  <2>3. check' = [check EXCEPT ![k] = y] /\ UNCHANGED ledger /\ x.pc = "receipt"
    BY <1>11, <2>1 DEF Predeploy!Validate, Predeploy!Now, Predeploy!Untouched
  <2> HIDE DEF valid
  <2>4. /\ y \in Started /\ y.ask = x.ask /\ y.raced = x.raced /\ y.pc = "decide"
        /\ y.digest = x.digest /\ y.valid = valid
    BY <1>2, <2>2 DEF Started, Stepping
  <2> QED
    BY <1>2, <1>7, <2>2, <2>3, <2>4 DEF Checked
<1>12. CASE Predeploy!Decide(k)
  <2>1. x.pc = "decide" /\ UNCHANGED ledger
    BY <1>12 DEF Predeploy!Decide, Predeploy!Now, Predeploy!Untouched
  <2>2. CASE Predeploy!Goto(k, "BLOCKED")
    BY <1>6, <2>1, <2>2
  <2>3. CASE Predeploy!Goto(k, "ROUTINE")
    BY <1>4, <1>5, <2>1, <2>3 DEF Checked, Stepping
  <2>4. CASE Predeploy!Goto(k, "before") /\ head = x.digest /\ x.valid
    BY <1>2, <1>4, <1>5, <2>1, <2>4 DEF Checked, Stepping
  <2> QED
    BY <1>12, <2>2, <2>3, <2>4 DEF Predeploy!Decide, Predeploy!Allowed
<1>13. CASE Predeploy!Before(k)
  BY <1>2, <1>4, <1>5, <1>6, <1>13
     DEF Predeploy!Before, Predeploy!Now, Predeploy!Require, Predeploy!Untouched, Checked, Stepping
<1>14. CASE Predeploy!Emit(k)
  <2>1. x.pc = "emit" /\ UNCHANGED ledger
    BY <1>14 DEF Predeploy!Emit, Predeploy!Now
  <2>2. CASE Predeploy!Goto(k, "BLOCKED")
    BY <1>6, <2>1, <2>2
  <2>3. CASE check' = [check EXCEPT ![k].pc = "after", ![k].input = head]
    <3> DEFINE y == [x EXCEPT !.pc = "after", !.input = head]
    <3>1. /\ y \in Started /\ y.ask = x.ask /\ y.raced = x.raced /\ y.pc = "after"
          /\ y.digest = x.digest /\ y.input = head /\ y.returned = x.returned
      BY <1>2 DEF Started, Stepping
    <3>2. check' = [check EXCEPT ![k] = y]
      BY <2>3
    <3> HIDE DEF y
    <3> QED
      BY <1>2, <1>7, <2>1, <3>1, <3>2 DEF Checked
  <2> QED
    BY <1>14, <2>2, <2>3 DEF Predeploy!Emit
<1>15. CASE Predeploy!After(k)
  BY <1>2, <1>4, <1>5, <1>6, <1>15
     DEF Predeploy!After, Predeploy!Now, Predeploy!Require, Predeploy!Untouched, Checked, Stepping
<1>16. CASE Predeploy!RecordPass(k)
  <2>1. x.pc = "record"
    BY <1>16 DEF Predeploy!RecordPass, Predeploy!Now
  <2>2. CASE Predeploy!Goto(k, "BLOCKED") /\ UNCHANGED ledger
    BY <1>6, <2>2
  <2>3. CASE /\ ledger' = [ledger EXCEPT ![x.digest] =
                  [path |-> x.ask.path, input |-> x.input, returned |-> x.returned]]
             /\ Predeploy!Goto(k, "ALLOWED")
    <3> DEFINE pass == [path |-> x.ask.path, input |-> x.input, returned |-> x.returned]
    <3>1. x.ask.path \in Paths \cup {Nothing}
      BY <1>2 DEF Started, Predeploy!PredeployAssumption
    <3>2. Sound(pass)
      BY <1>2, <2>1, <3>1 DEF Sound, Pass, Started, Checked
    <3> HIDE DEF pass
    <3>3. ledger' \in [Commits -> Pass \cup {Nothing}] /\ LedgerInv'
      BY <2>3, <3>2 DEF pass, Sound, PredeployInv, PredeployTypes, LedgerInv
    <3> DEFINE y == [x EXCEPT !.pc = "ALLOWED"]
    <3>4. y \in Started /\ y.ask = x.ask /\ y.raced = x.raced /\ y.pc = "ALLOWED"
      BY <1>2 DEF Started, Stepping
    <3>5. check' = [check EXCEPT ![k] = y]
      BY <2>3 DEF Predeploy!Goto
    <3> HIDE DEF y
    <3> QED
      BY <1>1, <1>2, <3>3, <3>4, <3>5, QuietCheck DEF Checked
  <2> QED
    BY <1>16, <2>2, <2>3 DEF Predeploy!RecordPass
<1> QED
  BY <1>8, <1>9, <1>10, <1>11, <1>12, <1>13, <1>14, <1>15, <1>16

LEMMA HookMoves ==
  ASSUME PredeployInv, Predeploy!HookStep
  PROVE  PredeployInv'
<1>a. UNCHANGED <<head, declared, check, ledger>>
  BY DEF Predeploy!HookStep, Predeploy!HookStart, Predeploy!HookDigest, Predeploy!ReadRecord,
         Predeploy!HookClean, Predeploy!Hash, Predeploy!ReadPath, Predeploy!HookAt
<1>b. hook \in {[pc |-> "idle"]} \cup Answering /\ head \in Commits
  BY DEF PredeployInv, PredeployTypes
<1>1. /\ UNCHANGED <<head, declared, check, ledger>> /\ head \in Commits
      /\ hook.pc = "idle" \/ hook \in Answering
  BY <1>a, <1>b
<1>2. ASSUME hook' \in Answering, Classified' PROVE PredeployInv'
  BY <1>1, <1>2 DEF PredeployInv, PredeployTypes, Checked, LedgerInv, RiskInv, Told, Unraced
<1>3. ASSUME Predeploy!NoPass, hook \in Answering PROVE PredeployInv'
  <2>1. hook' \in Answering /\ hook'.pc = "answered" /\ hook'.artifact = Nothing
    BY <1>3 DEF Predeploy!NoPass, Answering
  <2> QED
    BY <1>2, <2>1 DEF Classified
<1>4. CASE Predeploy!HookStart
  <2>1. Predeploy!Gated(FALSE, Nothing) \in BOOLEAN
    BY DEF Predeploy!Gated
  <2>2. hook' \in Answering /\ hook'.pc = "digest"
    BY <1>4, <2>1 DEF Predeploy!HookStart, Answering
  <2> QED
    BY <1>2, <2>2 DEF Classified
<1>5. CASE Predeploy!HookDigest
  <2>1. hook \in Answering
    BY <1>1, <1>5 DEF Predeploy!HookDigest
  <2>2. hook' \in Answering /\ hook'.pc \in {"read", "path"} /\ hook'.digest \in Commits
    BY <1>1, <1>5, <2>1 DEF Predeploy!HookDigest, Answering
  <2> QED
    BY <1>2, <2>2 DEF Classified
<1>6. CASE Predeploy!ReadRecord
  <2>1. hook \in Answering /\ hook.pc = "read"
    BY <1>1, <1>6 DEF Predeploy!ReadRecord, Predeploy!HookAt
  <2>2. CASE /\ ledger[hook.digest] # Nothing
             /\ hook' = [hook EXCEPT !.pc = "clean", !.record = ledger[hook.digest]]
    <3> DEFINE pass == ledger[hook.digest]
    <3>1. Sound(pass)
      BY <2>1, <2>2 DEF PredeployInv, Classified, LedgerInv
    <3> HIDE DEF pass
    <3>2. hook' \in Answering /\ hook'.pc = "clean" /\ hook'.record = pass
      BY <2>1, <2>2, <3>1 DEF Answering, Sound, pass
    <3> QED
      BY <1>2, <3>1, <3>2 DEF Classified, Sound
  <2> QED
    BY <1>3, <1>6, <2>1, <2>2 DEF Predeploy!ReadRecord
<1>7. CASE Predeploy!HookClean
  <2>1. hook \in Answering /\ hook.pc = "clean" /\ Sound(hook.record)
    BY <1>1, <1>7 DEF Predeploy!HookClean, Predeploy!HookAt, PredeployInv, Classified
  <2>2. CASE hook' = [hook EXCEPT !.pc = "hash"]
    <3>1. hook' \in Answering /\ hook'.pc = "hash" /\ hook'.record = hook.record
      BY <2>1, <2>2 DEF Answering
    <3> QED
      BY <1>2, <2>1, <3>1 DEF Classified, Sound
  <2> QED
    BY <1>3, <1>7, <2>1, <2>2 DEF Predeploy!HookClean
<1>8. CASE Predeploy!Hash
  <2>1. hook \in Answering /\ hook.pc = "hash" /\ Sound(hook.record)
    BY <1>1, <1>8 DEF Predeploy!Hash, Predeploy!HookAt, PredeployInv, Classified
  <2> DEFINE hashes == hook.hashed \cup {<<hook.record.path, hook.record.input>>}
             next == IF hook.again THEN "answered" ELSE "digest for the path"
  <2>2. CASE hook' = [hook EXCEPT !.pc = next, !.hashed = hashes]
    <3>1. hashes \in SUBSET ((Paths \cup {Nothing}) \X (Commits \cup {Nothing}))
      <4>1. hook.hashed \in SUBSET ((Paths \cup {Nothing}) \X (Commits \cup {Nothing}))
        BY <2>1 DEF Answering
      <4>2. hook.record.path \in Paths \cup {Nothing} /\ hook.record.input \in Commits \cup {Nothing}
        BY <2>1 DEF Sound, Pass
      <4> QED
        BY <4>1, <4>2
    <3>2. next \in {"answered", "digest for the path"}
      OBVIOUS
    <3>3. <<hook.record.path, hook.record.input>> \in hashes
      OBVIOUS
    <3> HIDE DEF hashes, next
    <3>4. /\ hook' \in Answering /\ hook'.pc = next /\ hook'.record = hook.record
          /\ hook'.hashed = hashes
      BY <2>1, <2>2, <3>1, <3>2 DEF Answering
    <3> QED
      BY <1>2, <2>1, <3>2, <3>3, <3>4 DEF Classified, Sound
  <2> QED
    BY <1>3, <1>8, <2>1, <2>2 DEF Predeploy!Hash
<1>9. CASE Predeploy!ReadPath
  <2>1. hook \in Answering /\ hook.pc = "path"
    BY <1>1, <1>9 DEF Predeploy!ReadPath, Predeploy!HookAt
  <2>2. CASE /\ ledger[hook.digest] # Nothing
             /\ hook' = [hook EXCEPT !.pc = "digest", !.again = TRUE, !.artifact = ledger[hook.digest].path]
    <3>1. ledger[hook.digest].path \in Paths \cup {Nothing}
      BY <2>1, <2>2 DEF PredeployInv, Classified, LedgerInv, Sound, Pass
    <3>2. hook' \in Answering /\ hook'.pc = "digest"
      BY <2>1, <2>2, <3>1 DEF Answering
    <3> QED
      BY <1>2, <3>2 DEF Classified
  <2> QED
    BY <1>3, <1>9, <2>1, <2>2 DEF Predeploy!ReadPath
<1> QED
  BY <1>4, <1>5, <1>6, <1>7, <1>8, <1>9 DEF Predeploy!HookStep

\* A HEAD that becomes a check's digest has come back under it.
LEMMA HeadStep ==
  ASSUME PredeployInv, Predeploy!HeadMoves
  PROVE  PredeployInv'
<1> DEFINE Back(k) == [check[k] EXCEPT !.returned = TRUE]
<1>1. PICK c \in Commits \ {head} :
        /\ head' = c
        /\ check' = [k \in Checks |-> IF check[k].pc # "idle" /\ check[k].digest = c
                                      THEN Back(k) ELSE check[k]]
  BY DEF Predeploy!HeadMoves
<1>2. UNCHANGED <<declared, ledger, hook>>
  BY DEF Predeploy!HeadMoves, Predeploy!Moved
<1>3. ASSUME NEW k \in Checks, check[k].pc # "idle"
      PROVE  /\ check[k] \in Started /\ Back(k) \in Started
             /\ Back(k).returned /\ Back(k).pc = check[k].pc /\ Back(k).ask = check[k].ask
             /\ Back(k).raced = check[k].raced /\ Back(k).previous = check[k].previous
             /\ Back(k).digest = check[k].digest
  <2>1. check[k] \in Started
    BY <1>3 DEF PredeployInv, PredeployTypes
  <2> QED
    BY <2>1 DEF Started
<1> HIDE DEF Back
<1>4. PredeployTypes'
  BY <1>1, <1>2, <1>3 DEF PredeployInv, PredeployTypes
<1>5. ASSUME NEW k \in Checks PROVE Checked(check[k])'
  <2>1. CASE check[k].pc # "idle" /\ check[k].digest = c
    BY <1>1, <1>3, <2>1 DEF PredeployInv, Checked
  <2>2. CASE check[k].pc = "idle"
    BY <1>1, <2>2 DEF Checked
  <2>3. CASE check[k].digest # c /\ check[k].pc # "idle"
    BY <1>1, <2>3 DEF PredeployInv, Checked
  <2> QED
    BY <2>1, <2>2, <2>3
<1>6. LedgerInv' /\ Classified'
  BY <1>2 DEF PredeployInv, LedgerInv, Classified
<1>7. \A k \in Checks : /\ check'[k].pc = check[k].pc
                        /\ check[k].pc # "idle" => /\ check'[k].ask = check[k].ask
                                                   /\ check'[k].raced = check[k].raced
                                                   /\ check'[k].previous = check[k].previous
  BY <1>1, <1>3
<1>8. RiskInv'
  BY <1>2, <1>7 DEF PredeployInv, RiskInv, Told, Unraced, Keeps
<1> QED
  BY <1>4, <1>5, <1>6, <1>8 DEF PredeployInv

\* However checks overlap and HEAD moves, an artifact the hook lets through is that of a
\* reviewed commit, and a declared risk stays declared, with the exceptions the two name.
THEOREM DeploymentsAreReviewed ==
  ASSUME Predeploy!PredeployAssumption PROVE Predeploy!Spec => []Predeploy!HookIsRight
<1>1. Predeploy!Init => PredeployInv
  <2> SUFFICES ASSUME Predeploy!Init PROVE PredeployInv
    OBVIOUS
  <2>1. /\ \A k \in Checks : check[k].pc = "idle"
        /\ \A c \in Commits : ledger[c] = Nothing
    BY DEF Predeploy!Init
  <2>2. Predeploy!NoDeclaration \in Declarations
    BY DEF Predeploy!NoDeclaration, Declarations
  <2>3. PredeployTypes
    BY <2>2 DEF Predeploy!Init, PredeployTypes
  <2>4. hook.pc = "idle"
    BY DEF Predeploy!Init
  <2> QED
    BY <2>1, <2>3, <2>4 DEF PredeployInv, Checked, LedgerInv, Classified, RiskInv, Told
<1>2. PredeployInv /\ [Predeploy!Next]_(Predeploy!vars) => PredeployInv'
  <2>1. ASSUME PredeployInv, UNCHANGED <<head, declared, ledger, check, hook>> PROVE PredeployInv'
    BY <2>1 DEF PredeployInv, PredeployTypes, Checked, LedgerInv, Classified, RiskInv, Told, Unraced
  <2>2. Predeploy!Edited \/ Predeploy!FileReplaced \/ UNCHANGED Predeploy!vars
          => UNCHANGED <<head, declared, ledger, check, hook>>
    BY DEF Predeploy!Edited, Predeploy!FileReplaced, Predeploy!Moved, Predeploy!vars
  <2> QED
    BY <2>1, <2>2, StartStep, LoadStep, PersistStep, DecisionStep, HookMoves, HeadStep
       DEF Predeploy!Next, Predeploy!CheckStep
<1>3. PredeployInv => Predeploy!HookIsRight
  <2> SUFFICES ASSUME PredeployInv PROVE Predeploy!HookIsRight
    OBVIOUS
  <2>1. Predeploy!ArtifactIsReviewed
    BY DEF PredeployInv, Classified, Sound, Predeploy!ArtifactIsReviewed
  <2>2. Predeploy!DeclaredStays
    BY DEF PredeployInv, RiskInv, Told, Unraced, Keeps, Predeploy!DeclaredStays
  <2> QED
    BY <2>1, <2>2 DEF Predeploy!HookIsRight
<1> QED
  BY <1>1, <1>2, <1>3, PTL DEF Predeploy!Spec

-----------------------------------------------------------------------------
(* The completion gate *)

CONSTANTS Slots, Responses, Runs, Sessions, Unnamed, Modes, MaxLines, MaxCalls, MaxHeads, MaxEdits
VARIABLES contract, record, lock, written, gate, calls, edits, loose
Completion == INSTANCE CompletionGate

LEMMA CompletionCounts == ASSUME NEW S PROVE Completion!Cardinality(S) = Cardinality(S)
  BY DEF Completion!Cardinality, Cardinality

\* A set of positions has all of the last lines that a trim leaves.
HasLast(S, size) == \A i \in 1..size : size - i < MaxLines => i \in S

WholeHook(x) == x = [step |-> x.step, signal |-> x.signal, copy |-> x.copy]
LogInv ==
  /\ \E S : written \in Seq(S)
  /\ ledger \subseteq 1..Len(written)
  /\ hook = [s \in Slots |-> hook[s]]
  /\ \A s \in Slots :
       /\ WholeHook(hook[s]) /\ hook[s].step \in {"idle", "observe", "append", "trim", "replace"}
       /\ hook[s].step = "replace" => hook[s].copy \subseteq 1..Len(written)
  /\ ~loose =>
       /\ HasLast(ledger, Len(written))
       /\ \A s \in Slots :
            /\ hook[s].step \in {"trim", "replace"} => lock = s
            /\ hook[s].step = "replace" => HasLast(hook[s].copy, Len(written))

\* What is judged of a reading: CompletionIsEarned for any gate.
Shown(at) == {i \in 1..at : written[i].session = "mine"}
Bearing(i, layers, h) ==
  Completion!Layer(written[i].command) \in layers /\ (h = 0 \/ written[i].head \in {0, h})
Past(i, read, at, c) ==
  \/ i \notin read /\ (at - i >= MaxLines \/ loose)
  \/ \E j \in Shown(at) : j > i /\ Completion!SameRun(i, j) /\ Completion!IsGreen(j, c)
Earned(read, at, h, c, tests) ==
  /\ \A i \in Shown(at) : Completion!IsRed(i) /\ Bearing(i, {1, 2}, h) =>
       \/ Past(i, read, at, c)
       \/ \E j \in Shown(at) : j > i /\ Bearing(j, {1, 2}, h) /\ Completion!Same(i, j)
  /\ tests => \E i \in Shown(at) :
       /\ written[i].outcome = "pass" /\ Bearing(i, {2}, h)
       /\ \A j \in Shown(at) :
            j > i /\ Bearing(j, {2}, h) /\ Completion!Same(i, j) => Past(j, read, at, c)
Faithful(read, at) ==
  /\ at \in Nat /\ at <= Len(written) /\ read \subseteq Shown(at)
  /\ \A i \in Shown(at) : i \notin read => at - i >= MaxLines \/ loose

WholeGate(g) ==
  g = [step |-> g.step, strict |-> g.strict, read |-> g.read, at |-> g.at, head |-> g.head,
       counted |-> g.counted, tests |-> g.tests, ran |-> g.ran, touched |-> g.touched,
       answer |-> g.answer]
GateInv ==
  /\ WholeGate(gate)
  /\ gate.answer = "allow" => gate.step = "commit"
  /\ gate.step \in {"head", "verdict", "evidence", "rerun"} \/ gate.answer = "allow" =>
       Faithful(gate.read, gate.at)
  /\ gate.step \in {"evidence", "rerun"} \/ gate.answer = "allow" =>
       Earned(gate.read, gate.at, gate.head, gate.counted, gate.tests)
  /\ gate.step \in {"ledger", "head", "verdict", "evidence", "rerun"} /\ gate.strict =>
       contract = 1 \/ gate.touched
  /\ gate.answer = "allow" /\ gate.strict => gate.ran = 1 \/ gate.touched

\* A trim keeps the last lines of the ledger, since no more than those follow each of them.
LEMMA TrimKeeps ==
  ASSUME Completion!CompletionAssumption, NEW n \in Nat, NEW S \in SUBSET (1..n), HasLast(S, n)
  PROVE  Completion!Kept(S) \subseteq S /\ HasLast(Completion!Kept(S), n)
<1>1. ASSUME NEW i \in 1..n, n - i < MaxLines PROVE i \in Completion!Kept(S)
  <2> DEFINE later == {j \in S : j > i}
  <2>1. later \subseteq (i + 1)..n
    <3> SUFFICES ASSUME NEW j \in S, j > i PROVE j \in (i + 1)..n
      OBVIOUS
    <3>1. j \in 1..n /\ i \in 1..n
      BY <1>1
    <3> QED
      BY <3>1
  <2>2. IsFiniteSet((i + 1)..n) /\ Cardinality((i + 1)..n) = n - i
    BY FS_Interval
  <2>3. IsFiniteSet(later) /\ Cardinality(later) \in Nat /\ Cardinality(later) <= n - i
    BY <2>1, <2>2, FS_Subset, FS_CardinalityType
  <2>4. Cardinality(later) < MaxLines
    BY <1>1, <2>3 DEF Completion!CompletionAssumption
  <2>5. i \in S
    BY <1>1 DEF HasLast
  <2> QED
    BY <2>4, <2>5, CompletionCounts DEF Completion!Kept
<1> QED
  BY <1>1 DEF HasLast, Completion!Kept

\* A verdict that blocks nothing is earned by what was read.
LEMMA VerdictIsEarned ==
  ASSUME NEW read, NEW at, NEW h, NEW c, NEW tests, Faithful(read, at),
         ~Completion!Blocked(Completion!Counted(read, c), h, tests)
  PROVE  Earned(read, at, h, c, tests)
<1> DEFINE counted == Completion!Counted(read, c)
<1>1. /\ read \subseteq Shown(at) /\ counted \subseteq read
      /\ \A i \in Shown(at) : i \in Nat
  BY DEF Faithful, Completion!Counted, Shown
\* What was read and does not count has been superseded.
<1>2. ASSUME NEW i \in Shown(at), i \notin counted PROVE Past(i, read, at, c)
  <2>1. CASE i \notin read
    BY <1>2, <2>1 DEF Faithful, Past
  <2>2. CASE i \in read
    <3>1. /\ Completion!Recorded(i) /\ Completion!IsRed(i)
          /\ \E j \in read : /\ Completion!SameRun(i, j) /\ Completion!IsGreen(j, c)
                             /\ \A k \in read : k > j => ~Completion!SameRun(i, k)
      BY <1>2, <2>2 DEF Completion!Counted
    <3>2. PICK j \in read : /\ Completion!SameRun(i, j) /\ Completion!IsGreen(j, c)
                            /\ \A k \in read : k > j => ~Completion!SameRun(i, k)
      BY <3>1
    <3>3. i # j
      BY <3>1, <3>2 DEF Completion!IsRed, Completion!IsGreen
    <3>4. Completion!SameRun(i, i)
      BY <3>1 DEF Completion!SameRun
    <3>5. j > i
      BY <1>1, <2>2, <3>2, <3>3, <3>4
    <3> QED
      BY <1>1, <3>2, <3>5 DEF Past
  <2> QED
    BY <2>1, <2>2
<1>3. ASSUME NEW i \in Shown(at), NEW layer \in {1, 2}, Bearing(i, {layer}, h), i \in counted
      PROVE  i \in Completion!AtHead(counted, layer, h)
  BY <1>3 DEF Bearing, Completion!AtHead
<1>4. ASSUME NEW layer \in {1, 2}, NEW i \in Completion!AtHead(counted, layer, h)
      PROVE  i \in Shown(at) /\ i \in counted /\ Bearing(i, {layer}, h)
  BY <1>1, <1>4 DEF Bearing, Completion!AtHead
<1> HIDE DEF counted
<1>5. \A layer \in {1, 2} : \A i \in Completion!Latest(counted, layer, h) : written[i].outcome # "fail"
  BY DEF Completion!Blocked, Completion!Status, counted
<1>6. ASSUME NEW i \in Shown(at), Completion!IsRed(i), Bearing(i, {1, 2}, h), ~Past(i, read, at, c)
      PROVE  \E j \in Shown(at) : j > i /\ Bearing(j, {1, 2}, h) /\ Completion!Same(i, j)
  <2>1. i \in counted
    BY <1>2, <1>6
  <2>2. PICK layer \in {1, 2} : Bearing(i, {layer}, h)
    BY <1>6 DEF Bearing
  <2>3. i \in Completion!AtHead(counted, layer, h)
    BY <1>3, <2>1, <2>2
  <2>4. i \notin Completion!Latest(counted, layer, h)
    BY <1>5, <1>6 DEF Completion!IsRed
  <2>5. PICK j \in Completion!AtHead(counted, layer, h) : j > i /\ Completion!Same(i, j)
    BY <2>3, <2>4 DEF Completion!Latest, Completion!Last
  <2>6. j \in Shown(at) /\ Bearing(j, {layer}, h)
    BY <1>4, <2>5
  <2> QED
    BY <2>5, <2>6 DEF Bearing
<1>7. ASSUME tests
      PROVE  \E i \in Shown(at) :
               /\ written[i].outcome = "pass" /\ Bearing(i, {2}, h)
               /\ \A j \in Shown(at) :
                    j > i /\ Bearing(j, {2}, h) /\ Completion!Same(i, j) => Past(j, read, at, c)
  <2>1. PICK i \in Completion!Latest(counted, 2, h) : written[i].outcome = "pass"
    BY <1>5, <1>7 DEF Completion!Blocked, Completion!Status, counted
  <2>2. i \in Completion!AtHead(counted, 2, h)
    BY <2>1 DEF Completion!Latest, Completion!Last
  <2>3. i \in Shown(at) /\ Bearing(i, {2}, h)
    BY <1>4, <2>2
  <2>4. ASSUME NEW j \in Shown(at), j > i, Bearing(j, {2}, h), Completion!Same(i, j)
        PROVE  Past(j, read, at, c)
    <3>1. j \notin Completion!AtHead(counted, 2, h)
      BY <2>1, <2>4 DEF Completion!Latest, Completion!Last
    <3> QED
      BY <1>2, <1>3, <2>4, <3>1
  <2> QED
    BY <2>1, <2>3, <2>4
<1> QED
  BY <1>6, <1>7 DEF Earned

\* What was earned and read stays so: signals are only added, and loose stays loose.
LEMMA EarnedStays ==
  ASSUME NEW read, NEW at, NEW h, NEW c, NEW tests, Faithful(read, at),
         Len(written) \in Nat, Len(written') \in Nat, Len(written) <= Len(written'),
         \A i \in 1..Len(written) : written'[i] = written[i], loose => loose'
  PROVE  /\ Faithful(read, at)'
         /\ Earned(read, at, h, c, tests) => Earned(read, at, h, c, tests)'
<1>1. at \in Nat /\ at <= Len(written) /\ read \subseteq Shown(at)
  BY DEF Faithful
<1>2. \A i \in 1..at : written'[i] = written[i]
  BY <1>1
<1>3. Shown(at)' = Shown(at) /\ \A i \in Shown(at) : i \in 1..at /\ written'[i] = written[i]
  BY <1>2 DEF Shown
<1>4. \A i \in Shown(at) : i \notin read => at - i >= MaxLines \/ loose'
  BY DEF Faithful
<1>5. Faithful(read, at)'
  BY <1>1, <1>3, <1>4 DEF Faithful
<1>6. \A i \in Shown(at) : /\ Completion!IsRed(i)' = Completion!IsRed(i)
                           /\ Bearing(i, {1, 2}, h)' = Bearing(i, {1, 2}, h)
                           /\ Bearing(i, {2}, h)' = Bearing(i, {2}, h)
                           /\ Completion!IsGreen(i, c)' = Completion!IsGreen(i, c)
  BY <1>3 DEF Completion!IsRed, Bearing, Completion!IsGreen
<1>7. \A i, j \in Shown(at) : /\ Completion!SameRun(i, j)' = Completion!SameRun(i, j)
                              /\ Completion!Same(i, j)' = Completion!Same(i, j)
  BY <1>3 DEF Completion!SameRun, Completion!Same, Completion!Recorded
<1>8. \A i \in Shown(at) : Past(i, read, at, c) => Past(i, read, at, c)'
  BY <1>3, <1>6, <1>7 DEF Past
<1> QED
  BY <1>3, <1>5, <1>6, <1>7, <1>8 DEF Earned

\* The gate as it is while signals arrive and the contract stays.
LEMMA GateStays ==
  ASSUME GateInv, UNCHANGED <<gate, contract>>,
         Len(written) \in Nat, Len(written') \in Nat, Len(written) <= Len(written'),
         \A i \in 1..Len(written) : written'[i] = written[i], loose => loose'
  PROVE  GateInv'
<1>1. PICK read, at, h, c, tests :
        read = gate.read /\ at = gate.at /\ h = gate.head /\ c = gate.counted /\ tests = gate.tests
  OBVIOUS
<1>2. Faithful(read, at) =>
        /\ Faithful(read, at)'
        /\ Earned(read, at, h, c, tests) => Earned(read, at, h, c, tests)'
  BY EarnedStays
<1>3. Faithful(read, at)' = Faithful(gate.read, gate.at)'
  BY <1>1 DEF Faithful, Shown
<1>4. Earned(read, at, h, c, tests)' = Earned(gate.read, gate.at, gate.head, gate.counted, gate.tests)'
  BY <1>1 DEF Earned, Past, Shown, Bearing
<1>5. /\ Faithful(gate.read, gate.at) = Faithful(read, at)
      /\ Earned(gate.read, gate.at, gate.head, gate.counted, gate.tests) = Earned(read, at, h, c, tests)
  BY <1>1
<1> QED
  BY <1>2, <1>3, <1>4, <1>5 DEF GateInv, WholeGate

LEMMA Written ==
  ASSUME \E S : written \in Seq(S)
  PROVE  /\ Len(written) \in Nat
         /\ \A e : LET more == Append(written, e) IN
              /\ \E S : more \in Seq(S)
              /\ Len(more) = Len(written) + 1
              /\ \A i \in 1..Len(written) : more[i] = written[i]
<1>1. PICK S : written \in Seq(S)
  OBVIOUS
<1>2. ASSUME NEW e
      PROVE  LET more == Append(written, e) IN
               /\ \E T : more \in Seq(T)
               /\ Len(more) = Len(written) + 1
               /\ \A i \in 1..Len(written) : more[i] = written[i]
  <2>1. written \in Seq(S \cup {e}) /\ e \in S \cup {e}
    BY <1>1
  <2> QED
    BY <2>1
<1> QED
  BY <1>1, <1>2

\* The steps of a hook.
LEMMA HookLog ==
  ASSUME Completion!CompletionAssumption, LogInv, NEW s \in Slots,
         \/ Completion!Call(s) \/ Completion!Observe(s) \/ Completion!AppendSignal(s)
         \/ Completion!ReadForTrim(s) \/ Completion!Replace(s) \/ Completion!Die(s)
  PROVE  /\ LogInv' /\ UNCHANGED <<gate, contract>>
         /\ Len(written) \in Nat /\ Len(written') \in Nat /\ Len(written) <= Len(written')
         /\ \A i \in 1..Len(written) : written'[i] = written[i]
         /\ loose => loose'
<1>1. Len(written) \in Nat /\ \E S : written \in Seq(S)
  BY Written DEF LogInv
<1>2. ASSUME NEW x, hook' = [hook EXCEPT ![s] = x]
      PROVE  /\ hook' = [t \in Slots |-> hook'[t]] /\ hook'[s] = x
             /\ \A t \in Slots \ {s} : hook'[t] = hook[t]
  BY <1>2 DEF LogInv
<1>3. WholeHook(hook[s])
  BY DEF LogInv
\* A step that neither writes nor takes the lock.
<1>4. ASSUME NEW x, hook' = [hook EXCEPT ![s] = x], WholeHook(x),
             x.step \in {"idle", "observe", "append"}, UNCHANGED <<written, ledger, loose>>,
             lock' = lock \/ lock' = (IF lock = s THEN Nothing ELSE lock)
      PROVE  LogInv'
  <2>1. \A t \in Slots : hook'[t].step \in {"trim", "replace"} => t # s /\ hook'[t] = hook[t]
    BY <1>2, <1>4
  <2> QED
    BY <1>2, <1>4, <2>1 DEF LogInv
<1>q. ASSUME UNCHANGED <<written, loose, gate, contract>>, LogInv'
      PROVE  /\ LogInv' /\ UNCHANGED <<gate, contract>>
             /\ Len(written) \in Nat /\ Len(written') \in Nat /\ Len(written) <= Len(written')
             /\ \A i \in 1..Len(written) : written'[i] = written[i]
             /\ loose => loose'
  BY <1>1, <1>q
<1>5. WholeHook(Completion!Idle) /\ Completion!Idle.step = "idle"
  BY DEF WholeHook, Completion!Idle
<1>6. CASE Completion!Call(s)
  <2>1. PICK signal : hook' = [hook EXCEPT ![s] = [step |-> "observe", copy |-> {}, signal |-> signal]]
    BY <1>6 DEF Completion!Call
  <2> DEFINE x == [step |-> "observe", copy |-> {}, signal |-> signal]
  <2>2. WholeHook(x) /\ x.step = "observe" /\ hook' = [hook EXCEPT ![s] = x]
    BY <2>1 DEF WholeHook
  <2>3. UNCHANGED <<written, ledger, loose, lock, gate, contract>>
    BY <1>6 DEF Completion!Call
  <2> HIDE DEF x
  <2>4. LogInv'
    BY <1>4, <2>2, <2>3
  <2> QED
    BY <1>q, <2>3, <2>4
<1>7. CASE Completion!Observe(s)
  <2>1. PICK h : hook' = [hook EXCEPT ![s].signal.head = h, ![s].step = "append"]
    BY <1>7 DEF Completion!Observe
  <2> DEFINE y == hook[s]
             signal == [y.signal EXCEPT !.head = h]
             x == [y EXCEPT !.signal = signal, !.step = "append"]
  <2>2. hook' = [hook EXCEPT ![s] = x]
    BY <2>1
  <2>3. x = [y EXCEPT !.signal = signal, !.step = "append"]
    OBVIOUS
  <2>4. UNCHANGED <<written, ledger, loose, lock, gate, contract>>
    BY <1>7 DEF Completion!Observe
  <2>5. WholeHook(y)
    BY <1>3
  <2> HIDE DEF x, y, signal
  <2>6. WholeHook(x) /\ x.step = "append"
    BY <2>3, <2>5 DEF WholeHook
  <2>7. LogInv'
    BY <1>4, <2>2, <2>4, <2>6
  <2> QED
    BY <1>q, <2>4, <2>7
<1>8. CASE Completion!Die(s)
  <2>1. /\ UNCHANGED <<written, ledger, loose, gate, contract>>
        /\ hook' = [hook EXCEPT ![s] = Completion!Idle]
        /\ lock' = (IF lock = s THEN Nothing ELSE lock)
    BY <1>8 DEF Completion!Die, Completion!Unlock
  <2>2. LogInv'
    BY <1>4, <1>5, <2>1
  <2> QED
    BY <1>q, <2>1, <2>2
<1>9. CASE Completion!AppendSignal(s)
  <2> DEFINE x == [hook[s] EXCEPT !.step = "trim"]
  <2>1. /\ hook[s].step = "append" /\ hook' = [hook EXCEPT ![s] = x]
        /\ written' = Append(written, hook[s].signal) /\ ledger' = ledger \cup {Len(written) + 1}
        /\ UNCHANGED <<gate, contract>>
        /\ IF lock = Nothing THEN lock' = s /\ loose' = loose ELSE loose' = TRUE /\ lock' = lock
    BY <1>9 DEF Completion!AppendSignal, Completion!Size
  <2>2. WholeHook(x) /\ x.step = "trim"
    BY <1>3 DEF WholeHook
  <2>3. /\ \E S : written' \in Seq(S)
        /\ Len(written') = Len(written) + 1
        /\ \A i \in 1..Len(written) : written'[i] = written[i]
    BY <1>1, <2>1, Written
  <2> HIDE DEF x
  <2>4. /\ hook' = [t \in Slots |-> hook'[t]] /\ hook'[s] = x
        /\ \A t \in Slots \ {s} : hook'[t] = hook[t]
    BY <1>2, <2>1
  <2>5. ledger' \subseteq 1..Len(written')
    BY <1>1, <2>1, <2>3 DEF LogInv
  <2>6. ASSUME NEW t \in Slots
        PROVE  /\ WholeHook(hook'[t])
               /\ hook'[t].step \in {"idle", "observe", "append", "trim", "replace"}
               /\ hook'[t].step = "replace" => hook'[t].copy \subseteq 1..Len(written')
    <3>1. CASE t = s
      BY <2>2, <2>4, <3>1
    <3>2. CASE t # s
      BY <1>1, <2>3, <2>4, <3>2 DEF LogInv
    <3> QED
      BY <3>1, <3>2
  <2>7. ASSUME ~loose'
        PROVE  /\ HasLast(ledger', Len(written'))
               /\ \A t \in Slots :
                    /\ hook'[t].step \in {"trim", "replace"} => lock' = t
                    /\ hook'[t].step = "replace" => HasLast(hook'[t].copy, Len(written'))
    <3>1. ~loose /\ lock = Nothing /\ lock' = s
      BY <2>1, <2>7
    <3>2. \A t \in Slots : hook[t].step \notin {"trim", "replace"}
      BY <3>1 DEF LogInv, Completion!CompletionAssumption
    <3>3. HasLast(ledger', Len(written'))
      BY <1>1, <2>1, <2>3, <3>1 DEF LogInv, HasLast, Completion!CompletionAssumption
    <3> QED
      BY <2>2, <2>4, <3>1, <3>2, <3>3
  <2>8. LogInv'
    BY <2>3, <2>4, <2>5, <2>6, <2>7 DEF LogInv
  <2> QED
    BY <1>1, <2>1, <2>3, <2>8
<1>10. CASE Completion!ReadForTrim(s)
  <2>1. hook[s].step = "trim" /\ UNCHANGED <<written, ledger, loose, gate, contract>>
    BY <1>10 DEF Completion!ReadForTrim
  <2>2. CASE hook' = [hook EXCEPT ![s] = Completion!Idle] /\ Completion!Unlock(s)
    <3>1. lock' = (IF lock = s THEN Nothing ELSE lock)
      BY <2>2 DEF Completion!Unlock
    <3>2. LogInv'
      BY <1>4, <1>5, <2>1, <2>2, <3>1
    <3> QED
      BY <1>q, <2>1, <3>2
  <2>3. CASE /\ hook' = [hook EXCEPT ![s].step = "replace", ![s].copy = Completion!Kept(ledger)]
             /\ UNCHANGED lock
    <3> DEFINE y == hook[s]
               cut == Completion!Kept(ledger)
               x == [y EXCEPT !.step = "replace", !.copy = cut]
    <3>1. x = [y EXCEPT !.step = "replace", !.copy = cut] /\ hook' = [hook EXCEPT ![s] = x]
      BY <2>3
    <3>2. cut \subseteq ledger /\ (~loose => HasLast(cut, Len(written)))
      <4>1. Completion!Kept(ledger) \subseteq ledger
        BY DEF Completion!Kept
      <4> QED
        BY <1>1, <4>1, TrimKeeps DEF LogInv
    <3>3. WholeHook(y)
      BY <1>3
    <3> HIDE DEF x, y, cut
    <3>4. WholeHook(x) /\ x.step = "replace" /\ x.copy = cut
      BY <3>1, <3>3 DEF WholeHook
    <3>5. /\ hook' = [t \in Slots |-> hook'[t]] /\ hook'[s] = x
          /\ \A t \in Slots \ {s} : hook'[t] = hook[t]
      BY <1>2, <3>1
    <3>6. LogInv'
      BY <2>1, <2>3, <3>2, <3>4, <3>5 DEF LogInv
    <3> QED
      BY <1>1, <2>1, <3>6
  <2> QED
    BY <1>10, <2>2, <2>3 DEF Completion!ReadForTrim
<1>11. CASE Completion!Replace(s)
  <2>1. /\ hook[s].step = "replace" /\ UNCHANGED <<written, loose, gate, contract>>
        /\ ledger' = hook[s].copy /\ hook' = [hook EXCEPT ![s] = Completion!Idle]
        /\ lock' = (IF lock = s THEN Nothing ELSE lock)
    BY <1>11 DEF Completion!Replace, Completion!Unlock
  <2>2. /\ hook' = [t \in Slots |-> hook'[t]] /\ hook'[s] = Completion!Idle
        /\ \A t \in Slots \ {s} : hook'[t] = hook[t]
    BY <1>2, <2>1
  <2>3. \A t \in Slots : hook'[t].step \in {"trim", "replace"} => t # s
    BY <1>5, <2>2
  <2>4. LogInv'
    BY <1>5, <2>1, <2>2, <2>3 DEF LogInv
  <2> QED
    BY <1>1, <2>1, <2>4
<1> QED
  BY <1>6, <1>7, <1>8, <1>9, <1>10, <1>11

\* The steps of the gate: the ledger and the signals stand still.
LEMMA GateStep ==
  ASSUME Completion!CompletionAssumption, LogInv, GateInv,
         \/ Completion!Begin \/ Completion!Bypass \/ Completion!ReadLedger \/ Completion!NameHead
         \/ Completion!Judge \/ Completion!Weigh \/ Completion!Rerun
  PROVE  GateInv'
<1>1. /\ UNCHANGED <<contract, written, ledger, loose>>
      /\ Len(written) \in Nat /\ ledger \subseteq 1..Len(written)
  <2>1. UNCHANGED <<contract, written, ledger, loose>>
    BY DEF Completion!Begin, Completion!Bypass, Completion!ReadLedger, Completion!NameHead,
           Completion!Judge, Completion!Weigh, Completion!Rerun, Completion!Rest
  <2> QED
    BY <2>1, Written DEF LogInv
<1>2. ASSUME NEW read, NEW at PROVE Faithful(read, at)' = Faithful(read, at)
  BY <1>1 DEF Faithful, Shown
<1>3. ASSUME NEW read, NEW at, NEW h, NEW c, NEW tests, Earned(read, at, h, c, tests),
             Faithful(read, at)
      PROVE  Earned(read, at, h, c, tests)'
  BY <1>1, <1>3, EarnedStays
\* What the next gate has to hold, with its fields named.
<1>4. ASSUME NEW g, gate' = g, WholeGate(g),
             g.answer = "allow" => g.step = "commit",
             g.step \in {"head", "verdict", "evidence", "rerun"} \/ g.answer = "allow" =>
               Faithful(g.read, g.at),
             g.step \in {"evidence", "rerun"} \/ g.answer = "allow" =>
               Earned(g.read, g.at, g.head, g.counted, g.tests),
             g.step \in {"ledger", "head", "verdict", "evidence", "rerun"} /\ g.strict =>
               contract = 1 \/ g.touched,
             g.answer = "allow" /\ g.strict => g.ran = 1 \/ g.touched
      PROVE  GateInv'
  <2>1. Faithful(gate.read, gate.at)' = Faithful(g.read, g.at)'
    BY <1>4 DEF Faithful, Shown
  <2>2. Earned(gate.read, gate.at, gate.head, gate.counted, gate.tests)'
          = Earned(g.read, g.at, g.head, g.counted, g.tests)'
    BY <1>4 DEF Earned, Past, Shown, Bearing
  <2>3. Faithful(g.read, g.at) => Faithful(g.read, g.at)'
    BY <1>2
  <2>4. Faithful(g.read, g.at) /\ Earned(g.read, g.at, g.head, g.counted, g.tests)
          => Earned(g.read, g.at, g.head, g.counted, g.tests)'
    BY <1>3
  <2> QED
    BY <1>1, <1>4, <2>1, <2>2, <2>3, <2>4 DEF GateInv, WholeGate
<1>5. ASSUME NEW strict, NEW step \in {"idle", "ledger"}, strict /\ step = "ledger" => contract = 1,
             gate' = [Completion!Closed EXCEPT !.step = step, !.strict = strict]
      PROVE  GateInv'
  <2> DEFINE closed == Completion!Closed
             g == [closed EXCEPT !.step = step, !.strict = strict]
  <2>1. /\ WholeGate(g) /\ g.step = step /\ g.strict = strict /\ g.answer = "none"
    <3>1. g = [closed EXCEPT !.step = step, !.strict = strict]
      OBVIOUS
    <3>2. WholeGate(closed) /\ closed.answer = "none"
      BY DEF WholeGate, Completion!Closed
    <3> HIDE DEF g, closed
    <3> QED
      BY <3>1, <3>2 DEF WholeGate
  <2>2. gate' = g
    BY <1>5
  <2> HIDE DEF g
  <2> QED
    BY <1>4, <1>5, <2>1, <2>2
<1>6. ASSUME Completion!Deny PROVE GateInv'
  <2> DEFINE g == Completion!Closed
  <2>1. /\ WholeGate(g) /\ g.step = "idle" /\ g.answer = "none"
    BY DEF WholeGate, Completion!Closed
  <2>2. gate' = g
    BY <1>6 DEF Completion!Deny
  <2> HIDE DEF g
  <2> QED
    BY <1>4, <2>1, <2>2
<1>7. ASSUME gate' = [Completion!Closed EXCEPT !.step = "commit", !.answer = "unjudged"] PROVE GateInv'
  <2> DEFINE closed == Completion!Closed
             g == [closed EXCEPT !.step = "commit", !.answer = "unjudged"]
  <2>1. /\ WholeGate(g) /\ g.step = "commit" /\ g.answer = "unjudged"
    <3>1. g = [closed EXCEPT !.step = "commit", !.answer = "unjudged"]
      OBVIOUS
    <3>2. WholeGate(closed)
      BY DEF WholeGate, Completion!Closed
    <3> HIDE DEF g, closed
    <3> QED
      BY <3>1, <3>2 DEF WholeGate
  <2>2. gate' = g
    BY <1>7
  <2> HIDE DEF g
  <2> QED
    BY <1>4, <2>1, <2>2
<1>8. CASE Completion!Begin
  BY <1>5, <1>6, <1>7, <1>8 DEF Completion!Begin
<1>9. CASE Completion!Bypass
  BY <1>6, <1>7, <1>9 DEF Completion!Bypass
<1> DEFINE y == gate
<1>10. WholeGate(y)
  BY DEF GateInv
<1>11. CASE Completion!ReadLedger
  <2> DEFINE mine == Completion!Mine(ledger)
             size == Len(written)
             g == [y EXCEPT !.step = "head", !.read = mine, !.at = size]
  <2>1. y.step = "ledger" /\ gate' = g
    BY <1>11 DEF Completion!ReadLedger, Completion!Size
  <2>2. Faithful(mine, size)
    <3>1. mine \subseteq Shown(size)
      BY <1>1 DEF Shown, Completion!Mine
    <3>2. ASSUME NEW i \in Shown(size), i \notin mine, ~loose PROVE size - i >= MaxLines
      <4>1. i \in 1..size /\ i \notin ledger
        BY <3>2 DEF Shown, Completion!Mine
      <4> QED
        BY <1>1, <3>2, <4>1 DEF LogInv, HasLast, Completion!CompletionAssumption
    <3> QED
      BY <1>1, <3>1, <3>2 DEF Faithful
  <2>3. g = [y EXCEPT !.step = "head", !.read = mine, !.at = size]
    OBVIOUS
  <2>4. y.answer # "allow" /\ (y.strict => contract = 1 \/ y.touched)
    BY <2>1 DEF GateInv
  <2> HIDE DEF g, y, mine, size
  <2>5. /\ WholeGate(g) /\ g.step = "head" /\ g.read = mine /\ g.at = size
        /\ g.answer = y.answer /\ g.strict = y.strict /\ g.touched = y.touched
    BY <1>10, <2>3 DEF WholeGate
  <2> QED
    BY <1>4, <2>1, <2>2, <2>4, <2>5
<1>12. CASE Completion!NameHead
  <2>1. PICK h, tests : gate' = [gate EXCEPT !.step = "verdict", !.head = h, !.tests = tests]
    BY <1>12 DEF Completion!NameHead
  <2> DEFINE g == [y EXCEPT !.step = "verdict", !.head = h, !.tests = tests]
  <2>2. gate' = g /\ g = [y EXCEPT !.step = "verdict", !.head = h, !.tests = tests]
    BY <2>1
  <2>3. /\ Faithful(y.read, y.at) /\ y.answer # "allow" /\ (y.strict => contract = 1 \/ y.touched)
    BY <1>12 DEF GateInv, Completion!NameHead
  <2> HIDE DEF g, y
  <2>4. /\ WholeGate(g) /\ g.step = "verdict" /\ g.read = y.read /\ g.at = y.at
        /\ g.answer = y.answer /\ g.strict = y.strict /\ g.touched = y.touched
    BY <1>10, <2>2 DEF WholeGate
  <2> QED
    BY <1>4, <2>2, <2>3, <2>4
<1>13. CASE Completion!Judge
  <2>1. PICK h \in Completion!SomeHead :
          IF Completion!Blocked(Completion!Counted(gate.read, h), gate.head, gate.tests)
          THEN Completion!Deny
          ELSE gate' = [gate EXCEPT !.counted = h,
                                    !.step = IF gate.strict THEN "evidence" ELSE "commit",
                                    !.answer = IF gate.strict THEN "none" ELSE "allow"]
    BY <1>13 DEF Completion!Judge
  <2>2. CASE ~Completion!Blocked(Completion!Counted(gate.read, h), gate.head, gate.tests)
    <3> DEFINE step == IF y.strict THEN "evidence" ELSE "commit"
               answer == IF y.strict THEN "none" ELSE "allow"
               g == [y EXCEPT !.counted = h, !.step = step, !.answer = answer]
    <3>1. gate' = g /\ g = [y EXCEPT !.counted = h, !.step = step, !.answer = answer]
      BY <2>1, <2>2
    <3>2. Faithful(y.read, y.at) /\ (y.strict => contract = 1 \/ y.touched)
      BY <1>13 DEF GateInv, Completion!Judge
    <3>3. Earned(y.read, y.at, y.head, h, y.tests)
      BY <2>2, <3>2, VerdictIsEarned
    <3>4. step \in {"evidence", "commit"} /\ (step = "evidence" <=> y.strict)
          /\ (answer = "allow" <=> ~y.strict) /\ answer \in {"none", "allow"}
      OBVIOUS
    <3> HIDE DEF g, y, step, answer
    <3>5. /\ WholeGate(g) /\ g.step = step /\ g.answer = answer /\ g.counted = h
          /\ g.read = y.read /\ g.at = y.at /\ g.head = y.head /\ g.tests = y.tests
          /\ g.strict = y.strict /\ g.touched = y.touched
      BY <1>10, <3>1 DEF WholeGate
    <3> QED
      BY <1>4, <3>1, <3>2, <3>3, <3>4, <3>5
  <2> QED
    BY <1>6, <2>1, <2>2
<1>14. CASE Completion!Weigh
  <2>1. CASE gate' = [gate EXCEPT !.step = "rerun"]
    <3> DEFINE g == [y EXCEPT !.step = "rerun"]
    <3>1. gate' = g /\ g = [y EXCEPT !.step = "rerun"]
      BY <2>1
    <3>2. /\ Faithful(y.read, y.at) /\ Earned(y.read, y.at, y.head, y.counted, y.tests)
          /\ y.answer # "allow" /\ (y.strict => contract = 1 \/ y.touched)
      BY <1>14 DEF GateInv, Completion!Weigh
    <3> HIDE DEF g, y
    <3>3. /\ WholeGate(g) /\ g.step = "rerun" /\ g.answer = y.answer /\ g.counted = y.counted
          /\ g.read = y.read /\ g.at = y.at /\ g.head = y.head /\ g.tests = y.tests
          /\ g.strict = y.strict /\ g.touched = y.touched
      BY <1>10, <3>1 DEF WholeGate
    <3> QED
      BY <1>4, <3>1, <3>2, <3>3
  <2> QED
    BY <1>6, <1>14, <2>1 DEF Completion!Weigh
<1>15. CASE Completion!Rerun
  <2>1. CASE gate' = [gate EXCEPT !.step = "commit", !.answer = "allow", !.ran = contract]
    <3> DEFINE g == [y EXCEPT !.step = "commit", !.answer = "allow", !.ran = contract]
    <3>1. gate' = g /\ g = [y EXCEPT !.step = "commit", !.answer = "allow", !.ran = contract]
      BY <2>1
    <3>2. /\ Faithful(y.read, y.at) /\ Earned(y.read, y.at, y.head, y.counted, y.tests)
          /\ (y.strict => contract = 1 \/ y.touched)
      BY <1>15 DEF GateInv, Completion!Rerun
    <3> HIDE DEF g, y
    <3>3. /\ WholeGate(g) /\ g.step = "commit" /\ g.answer = "allow" /\ g.counted = y.counted
          /\ g.read = y.read /\ g.at = y.at /\ g.head = y.head /\ g.tests = y.tests
          /\ g.strict = y.strict /\ g.touched = y.touched /\ g.ran = contract
      BY <1>10, <3>1 DEF WholeGate
    <3> QED
      BY <1>4, <3>1, <3>2, <3>3
  <2> QED
    BY <1>6, <1>15, <2>1 DEF Completion!Rerun
<1> QED
  BY <1>8, <1>9, <1>11, <1>12, <1>13, <1>14, <1>15

\* A commit closes the gate; an edit of the contract is remembered by a gate at work.
LEMMA AroundGate ==
  ASSUME LogInv, GateInv,
         Completion!HiddenRun \/ Completion!Commit \/ Completion!Move \/ Completion!Edit
  PROVE  LogInv' /\ GateInv'
<1>1. UNCHANGED <<hook, lock, written, ledger, loose>>
  BY DEF Completion!HiddenRun, Completion!Commit, Completion!Move, Completion!Edit
<1>2. LogInv'
  BY <1>1 DEF LogInv, WholeHook, HasLast
<1>3. Len(written) \in Nat /\ Len(written') = Len(written)
  BY <1>1, Written DEF LogInv
<1>4. CASE Completion!HiddenRun \/ Completion!Move
  BY <1>1, <1>2, <1>3, <1>4, GateStays DEF Completion!HiddenRun, Completion!Move
<1>5. CASE Completion!Commit
  <2> DEFINE g == gate'
  <2>1. g = Completion!Closed
    BY <1>5 DEF Completion!Commit
  <2>2. WholeGate(g) /\ g.step = "idle" /\ g.answer = "none"
    BY <2>1 DEF WholeGate, Completion!Closed
  <2> QED
    BY <1>2, <2>2 DEF GateInv, WholeGate
<1>6. CASE Completion!Edit
  <2> DEFINE y == gate
             g == [y EXCEPT !.touched = y.step # "idle"]
  <2>1. gate' = g
    BY <1>6 DEF Completion!Edit
  <2>2. WholeGate(y)
    BY DEF GateInv
  <2>3. /\ WholeGate(g) /\ g.touched = (y.step # "idle") /\ g.step = y.step /\ g.answer = y.answer
        /\ g.counted = y.counted /\ g.read = y.read /\ g.at = y.at /\ g.head = y.head
        /\ g.tests = y.tests /\ g.strict = y.strict /\ g.ran = y.ran
    <3>1. g = [y EXCEPT !.touched = y.step # "idle"]
      OBVIOUS
    <3> HIDE DEF y, g
    <3> QED
      BY <2>2, <3>1 DEF WholeGate
  <2> HIDE DEF g
  <2>4. PICK read, at, h, c, tests :
          read = y.read /\ at = y.at /\ h = y.head /\ c = y.counted /\ tests = y.tests
    OBVIOUS
  <2>5. Faithful(read, at) =>
          /\ Faithful(read, at)'
          /\ Earned(read, at, h, c, tests) => Earned(read, at, h, c, tests)'
    BY <1>1, <1>3, EarnedStays
  <2>6. Faithful(read, at)' = Faithful(gate.read, gate.at)'
    BY <2>1, <2>3, <2>4 DEF Faithful, Shown
  <2>7. Earned(read, at, h, c, tests)' = Earned(gate.read, gate.at, gate.head, gate.counted, gate.tests)'
    BY <2>1, <2>3, <2>4 DEF Earned, Past, Shown, Bearing
  <2>8. /\ Faithful(gate.read, gate.at) = Faithful(read, at)
        /\ Earned(gate.read, gate.at, gate.head, gate.counted, gate.tests) = Earned(read, at, h, c, tests)
    BY <2>4
  <2>9. GateInv'
    BY <2>1, <2>3, <2>5, <2>6, <2>7, <2>8 DEF GateInv, WholeGate
  <2> QED
    BY <1>2, <2>9
<1> QED
  BY <1>4, <1>5, <1>6

\* For any number of hooks, calls and commits, and any bound on the ledger: source is let
\* through on a verdict only on the last word of what this session's hooks have written.
THEOREM CompletionsAreEarned ==
  ASSUME Completion!CompletionAssumption PROVE Completion!Spec => []Completion!CompletionIsEarned
<1>1. Completion!Init => LogInv /\ GateInv
  <2> SUFFICES ASSUME Completion!Init PROVE LogInv /\ GateInv
    OBVIOUS
  <2>1. written = <<>> /\ ledger = {} /\ hook = [s \in Slots |-> Completion!Idle] /\ gate = Completion!Closed
    BY DEF Completion!Init
  <2>2. LogInv
    <3>1. written \in Seq({}) /\ Len(written) = 0
      BY <2>1
    <3>2. \A s \in Slots : WholeHook(hook[s]) /\ hook[s].step = "idle"
      BY <2>1 DEF WholeHook, Completion!Idle
    <3> QED
      BY <2>1, <3>1, <3>2 DEF LogInv, HasLast
  <2>3. WholeGate(gate) /\ gate.step = "idle" /\ gate.answer = "none"
    BY <2>1 DEF WholeGate, Completion!Closed
  <2> QED
    BY <2>2, <2>3 DEF GateInv
<1>2. LogInv /\ GateInv /\ [Completion!Next]_(Completion!vars) => (LogInv /\ GateInv)'
  <2> SUFFICES ASSUME LogInv, GateInv, [Completion!Next]_(Completion!vars) PROVE LogInv' /\ GateInv'
    OBVIOUS
  <2>1. CASE UNCHANGED Completion!vars
    <3>1. /\ UNCHANGED <<hook, lock, written, ledger, loose, gate, contract>>
          /\ Len(written) \in Nat
      BY <2>1, Written DEF Completion!vars, LogInv
    <3>2. LogInv'
      BY <3>1 DEF LogInv, WholeHook, HasLast
    <3> QED
      BY <3>1, <3>2, GateStays
  <2>2. ASSUME NEW s \in Slots,
               \/ Completion!Call(s) \/ Completion!Observe(s) \/ Completion!AppendSignal(s)
               \/ Completion!ReadForTrim(s) \/ Completion!Replace(s) \/ Completion!Die(s)
        PROVE  LogInv' /\ GateInv'
    BY <2>2, HookLog, GateStays
  <2>3. CASE \/ Completion!Begin \/ Completion!Bypass \/ Completion!ReadLedger \/ Completion!NameHead
             \/ Completion!Judge \/ Completion!Weigh \/ Completion!Rerun
    <3>1. UNCHANGED <<hook, lock, written, ledger, loose>>
      BY <2>3 DEF Completion!Begin, Completion!Bypass, Completion!ReadLedger, Completion!NameHead,
                  Completion!Judge, Completion!Weigh, Completion!Rerun, Completion!Rest
    <3>2. LogInv'
      BY <3>1 DEF LogInv, WholeHook, HasLast
    <3> QED
      BY <2>3, <3>2, GateStep
  <2> QED
    BY <2>1, <2>2, <2>3, AroundGate DEF Completion!Next
<1>3. LogInv /\ GateInv => Completion!CompletionIsEarned
  <2> SUFFICES ASSUME GateInv, gate.answer = "allow"
               PROVE  /\ Earned(gate.read, gate.at, gate.head, gate.counted, gate.tests)
                      /\ gate.strict => gate.ran = 1 \/ gate.touched
    BY DEF Completion!CompletionIsEarned, Earned, Past, Shown, Bearing, Completion!Seen,
           Completion!Bears, Completion!Superseded, Completion!Lost, Completion!Gone,
           Completion!IsLast
  <2> QED
    BY DEF GateInv
<1> QED
  BY <1>1, <1>2, <1>3, PTL DEF Completion!Spec
=============================================================================
