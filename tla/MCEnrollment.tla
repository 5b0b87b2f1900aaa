---------------------------- MODULE MCEnrollment ----------------------------
(* The store's enrollment rows, the threads of the broker's process, and the *)
(* gates that read their results: the guarded delivery, the gate registry    *)
(* and its doctor, and the machine oracle; components without a shared       *)
(* variable: focus says which one a behaviour is about.                      *)
(*                                                                         *)
(* Enrollment: two repositories; one of them rotates between two Apps, with *)
(* two receipts that name the same App, the other has a single receipt.     *)
EXTENDS Enrollment, TLC

CONSTANTS ra, rb, x1, x2, x3, y1, app1, app2, Conns, MaxHandlers, MaxFaults,
          c1, c2, foreign, k1, k2, Nothing
VARIABLES
  focus,
  slots, handlers, conn, accepting, queued, told, wake, stop, worker, blind, server, open, faults,
  head, remote, pull, computed, checks, nonces, reviewed, flight, profile, p, disturbed, invoked,
  lost, seen, delivered,
  registry, writer, broken, inventory, doctor, never, changes,
  root, base, same, o, drifts

MCRepoOf == [x \in Receipts |-> IF x = y1 THEN rb ELSE ra]
MCAppOf == [x \in Receipts |-> IF x = x2 THEN app2 ELSE app1]

service == <<slots, handlers, conn, accepting, queued, told, wake, stop, worker, blind,
             server, open, faults>>
delivery == <<head, remote, pull, computed, checks, nonces, reviewed, flight, profile, p,
              disturbed, invoked, lost, seen, delivered>>
rows == <<registry, writer, broken, inventory, doctor, never, changes>>
execution == <<root, base, same, o, drifts>>

Service == INSTANCE BrokerService
\* Two commits of the maker, the second on top of the first.
Delivery == INSTANCE GuardedPr WITH
              Commits <- {c1, c2}, Foreign <- foreign, Extends <- {<<c1, c2>>}, PushAttempts <- 2,
              MaxDisturbances <- 1, MaxInvocations <- 2, MaxChecks <- 3
\* Rows of every profile; the last two are refused.
Row(repository, protection, deployment, kinds, owner, scope, workflow) ==
  [repository |-> repository, protection |-> protection, deployment |-> deployment,
   evidence |-> kinds, owner |-> owner, visibility |-> "public", scope |-> scope,
   workflow |-> workflow]
Doctor == INSTANCE GateDoctor WITH
            Repos <- {ra, rb}, Commands <- {k1, k2}, MaxChanges <- 2,
            Requests <- {
              Row(ra, "local-review", "local-submission", {"local"}, "user", "repository", FALSE),
              Row(rb, "app-check", "managed-app", {"app"}, "user", "repository", FALSE),
              Row(rb, "organization-workflow", "self-hosted-app", {"app"}, "organization", "organization", TRUE),
              Row(ra, "organization-workflow", "self-hosted-app", {"app"}, "organization", "organization", TRUE),
              Row(ra, "organization-workflow", "self-hosted-app", {"app"}, "user", "repository", TRUE),
              Row(rb, "app-check", "self-hosted-app", {"app", "local"}, "user", "repository", FALSE)}
\* Two commits in each repository, with the same verifiers and contract or with others.
Oracle == INSTANCE MachineOracle WITH
            Candidates <- {c1, c2}, Trusted <- {x1, x2}, NumCommands <- 2, MaxMoves <- 3, moves <- drifts,
            Verifier <- (c1 :> "v") @@ (c2 :> "w") @@ (x1 :> "v") @@ (x2 :> "w"),
            Contract <- (c1 :> "k") @@ (c2 :> "k2") @@ (x1 :> "k") @@ (x2 :> "k2")
ASSUME ServiceFits == Service!ServiceAssumption
ASSUME DeliveryFits == Delivery!DeliveryAssumption
ASSUME DoctorFits == Doctor!RequestAssumption

MCInit ==
  /\ focus \in {"enrollment", "service", "delivery", "registry", "oracle"}
  /\ Init /\ Service!Init /\ Delivery!Init /\ Doctor!Init /\ Oracle!Init
  /\ focus # "delivery" => head = c1 /\ remote = Nothing /\ reviewed = {} /\ profile = "local-review"
  /\ focus # "registry" => registry = Nothing /\ broken = {}
  /\ focus # "oracle" => root = Oracle!Clean(c1) /\ base = Oracle!Clean(x1) /\ same
MCNext ==
  \/ /\ focus = "enrollment" /\ Next
     /\ UNCHANGED <<focus, service, delivery, rows, execution>>
  \/ /\ focus = "service" /\ Service!Next
     /\ UNCHANGED <<focus, vars, delivery, rows, execution>>
  \/ /\ focus = "delivery" /\ Delivery!Next
     /\ UNCHANGED <<focus, vars, service, rows, execution>>
  \/ /\ focus = "registry" /\ Doctor!Next
     /\ UNCHANGED <<focus, vars, service, delivery, execution>>
  \/ /\ focus = "oracle" /\ Oracle!Next
     /\ UNCHANGED <<focus, vars, service, delivery, rows>>
MCSpec == MCInit /\ [][MCNext]_<<focus, vars, service, delivery, rows, execution>>

\* No permit and no notification is lost, and the worker never meets a closed store.
ServerKeepsServing == focus = "service" => Service!ServerKeepsServing
\* What was pushed was reviewed, what was passed is exact: GuardedPr.
DeliveryIsExact == focus = "delivery" => Delivery!DeliveryIsExact
\* The registry stays valid and the claim about it is earned: GateDoctor.
DoctorIsHonest == focus = "registry" => Doctor!DoctorIsHonest
\* A passed execution names what it ran, on what, by which contract: MachineOracle.
OraclePassIsExact == focus = "oracle" => Oracle!OraclePassIsExact
=============================================================================
