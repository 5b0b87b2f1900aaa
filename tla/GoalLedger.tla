----------------------------- MODULE GoalLedger -----------------------------
(***************************************************************************)
(* What the goal verifier promises of its two ledgers: a transition of a   *)
(* unit changes its status in GOAL.json and appends its event to           *)
(* events.jsonl at once, and only from a status that allows it.            *)
(*                                                                         *)
(* Two things happen beside transitions: the working deadline sets a unit  *)
(* to recovery_required before its event is written, and other events      *)
(* (task units, failed checkers, deadline stops) are appended to the log.  *)
(***************************************************************************)
EXTENDS Sequences

CONSTANTS Units, TaskUnit

VARIABLES
  status,  \* of each unit, as GOAL.json has it or will have it
  log      \* the complete lines of events.jsonl

Open == {"in_progress", "recovery_required"}
AnyStatus == {"pending", "in_progress", "recovery_required", "verified", "blocked"}

Transitions == {"activated", "verified", "regressed", "unverified", "blocked",
                "budget_exhausted"}
Event(u, d, tx) == [unit |-> u, decision |-> d, tx |-> tx]

\* The status a unit has after a transition.
Target(d) ==
  CASE d \in {"activated", "regressed", "unverified"} -> "in_progress"
    [] d = "verified" -> "verified"
    [] d \in {"blocked", "budget_exhausted"} -> "blocked"

\* The statuses a transition may start from; bounded stops come from anywhere.
Source(d) ==
  CASE d = "activated" -> {"pending", "blocked", "recovery_required"}
    [] d = "verified" -> {"in_progress", "verified"}
    [] d \in {"regressed", "unverified"} -> {"verified"}
    [] d \in {"blocked", "budget_exhausted"} -> AnyStatus

Init ==
  /\ status = [u \in Units |-> "pending"]
  /\ log = <<>>

Transition(u, d) ==
  /\ status[u] \in Source(d)
  /\ d = "activated" => \A v \in Units \ {u} : status[v] \notin Open
  /\ status' = [status EXCEPT ![u] = Target(d)]
  /\ log' = Append(log, Event(u, d, TRUE))

Pause(u) ==
  /\ status[u] = "in_progress"
  /\ status' = [status EXCEPT ![u] = "recovery_required"]
  /\ UNCHANGED log

OtherEvent(u) ==
  /\ \/ u = TaskUnit
     \/ u \in Units /\ status[u] \in Open
  /\ \E d \in Transitions : log' = Append(log, Event(u, d, FALSE))
  /\ UNCHANGED status

Next ==
  \/ \E u \in Units : Pause(u) \/ \E d \in Transitions : Transition(u, d)
  \/ \E u \in Units \cup {TaskUnit} : OtherEvent(u)

Spec == Init /\ [][Next]_<<status, log>>
=============================================================================
