------------------------------ MODULE CheckGate ------------------------------
(***************************************************************************)
(* What the review broker promises about GitHub Check Runs, without saying *)
(* who publishes, in which order, or what is retried after a crash: a      *)
(* Check Run is created in progress, evidence about it is only ever added, *)
(* and it takes a terminal conclusion only when evidence for exactly that  *)
(* conclusion is already durable.                                          *)
(***************************************************************************)
CONSTANTS
  CheckIds,     \* GitHub's Check Run ids
  Conclusions   \* the terminal conclusions the broker may publish, and no
                \* other state of a Check Run

VARIABLES
  check,    \* check[k]: "absent", "in_progress" or a conclusion
  evidence  \* evidence[k]: the conclusions durable evidence backs

vars == <<check, evidence>>

Init ==
  /\ check = [k \in CheckIds |-> "absent"]
  /\ evidence = [k \in CheckIds |-> {}]

Create(k) ==
  /\ check[k] = "absent"
  /\ check' = [check EXCEPT ![k] = "in_progress"]
  /\ UNCHANGED evidence

Record(k, c) ==
  /\ check[k] # "absent"
  /\ evidence' = [evidence EXCEPT ![k] = @ \cup {c}]
  /\ UNCHANGED check

Conclude(k, c) ==
  /\ c \in evidence[k]
  /\ check' = [check EXCEPT ![k] = c]
  /\ UNCHANGED evidence

Next ==
  \E k \in CheckIds :
    \/ Create(k)
    \/ \E c \in Conclusions : Record(k, c) \/ Conclude(k, c)

Spec == Init /\ [][Next]_vars
=============================================================================
