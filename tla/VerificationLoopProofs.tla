----------------------- MODULE VerificationLoopProofs -----------------------
(***************************************************************************)
(* What VerificationLoop promises, for every set of trees, inputs and      *)
(* processes, every budget and any number of edits, days and crashes.      *)
(*                                                                         *)
(* The lock file does not exclude: two processes that both found a dead    *)
(* owner allocate the same number at once, and a process may remove a lock *)
(* that is not its own.  No invariant below mentions the lock; the proofs  *)
(* rest on receipts that are linked once and carry the number of their     *)
(* path, and on entries that are linked only in their turn.                *)
(*                                                                         *)
(* Beside the loop, what stands around it: the files it is written with    *)
(* (SafeAtomic), the two readings of a diff in its stop rule (DiffSurface),*)
(* the worktrees of fresh sessions (FreshSession) and the receipt a free   *)
(* review ends in (TwoPhaseReceipt), each an instance of its own with a    *)
(* section of its own below.                                               *)
(***************************************************************************)
EXTENDS VerificationLoop, Integers, WellFoundedInduction, TLAPS

Running == {"reserve", "takeover", "locking", "allocate", "receipt", "entry"}
Outcomes == {"PASSED", "ADJUDICATED"}
Adjudication ==
  [outcome : Outcomes, machine : Machine, checker : Checker, tree : Trees,
   attempt : 1..MaxAttempts, day : 0..MaxDays]
Job ==
  [outcome : Outcomes, machine : Machine, checker : Checker, tree : Trees,
   attempt : 0..MaxAttempts, day : 0..MaxDays, tries : {0, 1}]

TypeOK ==
  /\ index \in Trees /\ work \in Trees /\ input \in Inputs
  /\ day \in 0..MaxDays
  /\ oracle \in [tree : Trees, input : Inputs] \cup {NoMachine}
  /\ machines \subseteq Machine /\ checkers \subseteq Checker /\ signed \subseteq checkers
  /\ receipt \in [Trees \X (1..MaxAttempts) -> Adjudication \cup {None}]
  /\ ledger \in [Trees -> Seq(Adjudication)]
  /\ lock \in [by : Procs, written : BOOLEAN] \cup {NoLock} /\ aged \in BOOLEAN
  /\ pc \in [Procs -> Running \cup {"idle", "dead"}]
  /\ job \in [Procs -> Job \cup {None}]

\* A machine receipt that passed was proved on the tree and the input it names.
MachinesAreHonest ==
  \A m \in machines : m.verdict = "PASSED" => <<m.tree, m.input>> \in Proven

\* The signed route is minted for clean reviews alone.
CheckersAreHonest ==
  \A c \in checkers : c.verdict = "BLOCKED" => c.route = NoMachine

\* A receipt carries the tree and the number of the path it is linked at.
ReceiptsAreNamed ==
  \A t \in Trees, n \in 1..MaxAttempts :
    receipt[<<t, n>>] # None => receipt[<<t, n>>].tree = t /\ receipt[<<t, n>>].attempt = n

\* A command under way has its job; past the allocation it has a number, and past
\* the receipt there is one at its path, of this very transaction.
JobsAreSound ==
  \A p \in Procs : pc[p] \in Running =>
    /\ job[p] # None
    /\ pc[p] \in {"receipt", "entry"} => job[p].attempt \in 1..MaxAttempts
    /\ pc[p] = "entry" => receipt[Path(p)] # None /\ Same(receipt[Path(p)], job[p])

LoopInv == /\ TypeOK /\ MachinesAreHonest /\ CheckersAreHonest /\ ReceiptsAreNamed
           /\ JobsAreSound /\ LedgerNamesReceipts

-----------------------------------------------------------------------------
(* Types *)

LEMMA InitInv == Init => LoopInv
  <1> SUFFICES ASSUME Init PROVE LoopInv
    OBVIOUS
  <1>1. TypeOK
    <2>1. << >> \in Seq(Adjudication)
      OBVIOUS
    <2>2. ledger \in [Trees -> Seq(Adjudication)]
      BY <2>1 DEF Init
    <2>3. receipt \in [Trees \X (1..MaxAttempts) -> Adjudication \cup {None}]
      BY DEF Init
    <2>4. pc \in [Procs -> Running \cup {"idle", "dead"}] /\ job \in [Procs -> Job \cup {None}]
      BY DEF Init
    <2>5. machines \subseteq Machine /\ checkers \subseteq Checker /\ signed \subseteq checkers
      BY DEF Init
    <2>6. day \in 0..MaxDays
      BY BoundsAssumption DEF Init
    <2> QED
      BY <2>2, <2>3, <2>4, <2>5, <2>6 DEF Init, TypeOK
  <1>2. MachinesAreHonest /\ CheckersAreHonest /\ JobsAreSound
    BY DEF Init, MachinesAreHonest, CheckersAreHonest, JobsAreSound, Running
  <1>3. ReceiptsAreNamed
    BY DEF Init, ReceiptsAreNamed
  <1>4. LedgerNamesReceipts
    BY BoundsAssumption DEF Init, LedgerNamesReceipts
  <1> QED
    BY <1>1, <1>2, <1>3, <1>4 DEF LoopInv

\* Whatever a process does with the lock, its job or its state, the types of the
\* rest are those of what it leaves alone.
LEMMA TypeStep == TypeOK /\ JobsAreSound /\ [Next]_vars => TypeOK'
  <1> SUFFICES ASSUME TypeOK, JobsAreSound, [Next]_vars PROVE TypeOK'
    OBVIOUS
  <1> USE BoundsAssumption
  <1>1. CASE Edit
    BY <1>1 DEF Edit, TypeOK, evidence
  <1>2. CASE Tomorrow
    BY <1>2 DEF Tomorrow, TypeOK, evidence
  <1>3. CASE Minute
    BY <1>3 DEF Minute, TypeOK, evidence, env
  <1>4. CASE MachineBegins
    BY <1>4 DEF MachineBegins, TypeOK, evidence, env
  <1>5. CASE MachineEnds
    BY <1>5 DEF MachineEnds, TypeOK, env, Machine, NoMachine
  <1>6. CASE MintChecker
    <2>1. checkers' \subseteq Checker /\ signed' \subseteq checkers'
      BY <1>6 DEF MintChecker, TypeOK, env, Checker, Verdicts
    <2> QED
      BY <1>6, <2>1 DEF MintChecker, TypeOK, env
  <1>7. CASE HumanSigns
    BY <1>7 DEF HumanSigns, TypeOK, env
  <1>8. ASSUME NEW p \in Procs, Adjudicate(p) PROVE TypeOK'
    <2>1. job' \in [Procs -> Job \cup {None}]
      <3>1. PICK m \in machines, c \in checkers, h \in BOOLEAN :
              job' = [job EXCEPT ![p] =
                [outcome |-> IF h THEN "ADJUDICATED" ELSE "PASSED", machine |-> m,
                 checker |-> c, tree |-> index, attempt |-> 0, day |-> day, tries |-> 0]]
        BY <1>8 DEF Adjudicate
      <3> QED
        BY <3>1 DEF TypeOK, Job, Outcomes
    <2> QED
      BY <1>8, <2>1 DEF Adjudicate, TypeOK, Goto, Running, env, evidence
  <1>9. ASSUME NEW p \in Procs, CreateLock(p) PROVE TypeOK'
    BY <1>9 DEF CreateLock, TypeOK, Goto, Running, env, evidence
  <1>10. ASSUME NEW p \in Procs, WriteOwner(p) PROVE TypeOK'
    BY <1>10 DEF WriteOwner, TypeOK, Goto, Running, env, evidence
  <1>11. ASSUME NEW p \in Procs, FindLock(p) PROVE TypeOK'
    BY <1>11 DEF FindLock, TypeOK, Goto, Running, env, evidence
  <1>12. ASSUME NEW p \in Procs, Takeover(p) PROVE TypeOK'
    <2>1. job[p] \in Job
      BY <1>12 DEF Takeover, TypeOK, JobsAreSound, Running
    <2>2. job' \in [Procs -> Job \cup {None}]
      BY <1>12, <2>1 DEF Takeover, TypeOK, Job
    <2> QED
      BY <1>12, <2>2 DEF Takeover, TypeOK, Goto, Running, env, evidence
  <1>13. ASSUME NEW p \in Procs, Refuse(p) PROVE TypeOK'
    BY <1>13 DEF Refuse, TypeOK, Goto, Running, env, evidence
  <1>14. ASSUME NEW p \in Procs, Allocate(p) PROVE TypeOK'
    <2>1. job[p] \in Job
      BY <1>14 DEF Allocate, TypeOK, JobsAreSound, Running
    <2>2. Len(ledger[job[p].tree]) \in Nat
      BY <2>1 DEF TypeOK, Job
    <2>3. job' \in [Procs -> Job \cup {None}]
      <3> DEFINE n == Len(ledger[job[p].tree]) + 1
      <3>1. CASE n > MaxAttempts
        BY <1>14, <3>1 DEF Allocate, TypeOK, Leave
      <3>2. CASE ~(n > MaxAttempts)
        <4>1. job' = [job EXCEPT ![p].attempt = n] /\ n \in 0..MaxAttempts
          BY <1>14, <3>2, <2>2 DEF Allocate
        <4> HIDE DEF n
        <4>2. [job[p] EXCEPT !.attempt = n] \in Job
          BY <2>1, <4>1 DEF Job
        <4> QED
          BY <4>1, <4>2 DEF TypeOK
      <3> QED
        BY <3>1, <3>2
    <2>4. pc' \in [Procs -> Running \cup {"idle", "dead"}]
      BY <1>14 DEF Allocate, TypeOK, Goto, Leave, Running
    <2>5. lock' \in [by : Procs, written : BOOLEAN] \cup {NoLock} /\ aged' \in BOOLEAN
      BY <1>14 DEF Allocate, TypeOK, Leave
    <2> QED
      BY <1>14, <2>3, <2>4, <2>5 DEF Allocate, TypeOK, env, evidence
  <1>15. ASSUME NEW p \in Procs, WriteReceipt(p) PROVE TypeOK'
    <2>1. job[p] \in Job /\ job[p].attempt \in 1..MaxAttempts
      BY <1>15 DEF WriteReceipt, TypeOK, JobsAreSound, Running
    <2>2. receipt' \in [Trees \X (1..MaxAttempts) -> Adjudication \cup {None}]
      <3>1. [outcome |-> job[p].outcome, machine |-> job[p].machine,
             checker |-> job[p].checker, tree |-> job[p].tree,
             attempt |-> job[p].attempt, day |-> day] \in Adjudication
        BY <2>1 DEF TypeOK, Job, Adjudication
      <3> QED
        BY <1>15, <3>1 DEF WriteReceipt, TypeOK
    <2>3. /\ job' \in [Procs -> Job \cup {None}]
          /\ pc' \in [Procs -> Running \cup {"idle", "dead"}]
          /\ lock' \in [by : Procs, written : BOOLEAN] \cup {NoLock} /\ aged' \in BOOLEAN
      BY <1>15 DEF WriteReceipt, TypeOK, Goto, Leave, Running
    <2> QED
      BY <1>15, <2>2, <2>3 DEF WriteReceipt, TypeOK, env, evidence
  <1>16. ASSUME NEW p \in Procs, WriteEntry(p) PROVE TypeOK'
    <2>1. job[p] \in Job /\ job[p].attempt \in 1..MaxAttempts /\ receipt[Path(p)] # None
      BY <1>16 DEF WriteEntry, TypeOK, JobsAreSound, Running
    <2>2. receipt[Path(p)] \in Adjudication
      BY <2>1 DEF TypeOK, Path, Job
    <2>3. ledger' \in [Trees -> Seq(Adjudication)]
      <3>1. Append(ledger[job[p].tree], receipt[Path(p)]) \in Seq(Adjudication)
        BY <2>1, <2>2 DEF TypeOK, Job
      <3> QED
        BY <1>16, <3>1 DEF WriteEntry, TypeOK
    <2> QED
      BY <1>16, <2>3 DEF WriteEntry, TypeOK, Leave, env, evidence
  <1>17. ASSUME NEW p \in Procs, Crash(p) PROVE TypeOK'
    BY <1>17 DEF Crash, TypeOK, Goto, env, evidence
  <1>18. CASE UNCHANGED vars
    BY <1>18 DEF vars, TypeOK
  <1> QED
    BY <1>1, <1>2, <1>3, <1>4, <1>5, <1>6, <1>7, <1>8, <1>9, <1>10, <1>11, <1>12,
       <1>13, <1>14, <1>15, <1>16, <1>17, <1>18 DEF Next

-----------------------------------------------------------------------------
(* Evidence *)

\* Only these steps touch the evidence: each of them is honest.
LEMMA EvidenceStep ==
  ASSUME TypeOK, MachinesAreHonest, CheckersAreHonest, [Next]_vars
  PROVE  MachinesAreHonest' /\ CheckersAreHonest'
  <1>1. CASE MachineEnds
    BY <1>1 DEF MachineEnds, MachinesAreHonest, CheckersAreHonest
  <1>2. CASE MintChecker
    <2>1. PICK v \in Verdicts, r \in machines \cup {NoMachine} :
            /\ v = "BLOCKED" => r = NoMachine
            /\ checkers' = checkers \cup
                 {[tree |-> index, verdict |-> v, day |-> day, route |-> r]}
      BY <1>2 DEF MintChecker
    <2> QED
      BY <1>2, <2>1 DEF MintChecker, MachinesAreHonest, CheckersAreHonest
  <1>3. CASE UNCHANGED <<machines, checkers>>
    BY <1>3 DEF MachinesAreHonest, CheckersAreHonest
  <1>4. MachineEnds \/ MintChecker \/ UNCHANGED <<machines, checkers>>
    BY DEF Next, vars, Edit, Tomorrow, Minute, MachineBegins, HumanSigns, Adjudicate,
       CreateLock, WriteOwner, FindLock, Takeover, Refuse, Allocate, WriteReceipt,
       WriteEntry, Crash, evidence
  <1> QED
    BY <1>1, <1>2, <1>3, <1>4

-----------------------------------------------------------------------------
(* Receipts and the jobs that link them *)

\* A receipt that is linked is never rewritten: a process that finds one at its
\* path takes it over or gives up.
LEMMA LinkedStays ==
  ASSUME TypeOK, [Next]_vars
  PROVE  \A k \in DOMAIN receipt : receipt[k] # None => receipt'[k] = receipt[k]
  <1>1. ASSUME NEW p \in Procs, WriteReceipt(p)
        PROVE  \A k \in DOMAIN receipt : receipt[k] # None => receipt'[k] = receipt[k]
    BY <1>1 DEF WriteReceipt, TypeOK
  <1>2. CASE receipt' = receipt
    BY <1>2
  <1>3. (\E p \in Procs : WriteReceipt(p)) \/ receipt' = receipt
    BY DEF Next, vars, Edit, Tomorrow, Minute, MachineBegins, MachineEnds, MintChecker,
       HumanSigns, Adjudicate, CreateLock, WriteOwner, FindLock, Takeover, Refuse,
       Allocate, WriteEntry, Crash
  <1> QED
    BY <1>1, <1>2, <1>3

LEMMA NamedStep ==
  ASSUME TypeOK, JobsAreSound, ReceiptsAreNamed, [Next]_vars
  PROVE  ReceiptsAreNamed'
  <1>1. ASSUME NEW p \in Procs, WriteReceipt(p) PROVE ReceiptsAreNamed'
    <2>1. job[p] \in Job /\ job[p].attempt \in 1..MaxAttempts
      BY <1>1 DEF WriteReceipt, TypeOK, JobsAreSound, Running
    <2>2. \/ receipt' = receipt
          \/ receipt' = [receipt EXCEPT ![Path(p)] =
               [outcome |-> job[p].outcome, machine |-> job[p].machine,
                checker |-> job[p].checker, tree |-> job[p].tree,
                attempt |-> job[p].attempt, day |-> day]]
      BY <1>1 DEF WriteReceipt
    <2>3. SUFFICES ASSUME NEW t \in Trees, NEW n \in 1..MaxAttempts,
                          receipt'[<<t, n>>] # None
                   PROVE  receipt'[<<t, n>>].tree = t /\ receipt'[<<t, n>>].attempt = n
      BY DEF ReceiptsAreNamed
    <2>4. CASE receipt'[<<t, n>>] = receipt[<<t, n>>]
      BY <2>3, <2>4 DEF ReceiptsAreNamed
    <2>5. CASE receipt'[<<t, n>>] # receipt[<<t, n>>]
      <3>1. <<t, n>> = Path(p)
        BY <2>2, <2>5 DEF TypeOK
      <3>2. t = job[p].tree /\ n = job[p].attempt
        BY <3>1 DEF Path
      <3> QED
        BY <2>2, <2>5, <3>1, <3>2 DEF TypeOK
    <2> QED
      BY <2>4, <2>5
  <1>2. CASE receipt' = receipt
    BY <1>2 DEF ReceiptsAreNamed
  <1>3. (\E p \in Procs : WriteReceipt(p)) \/ receipt' = receipt
    BY DEF Next, vars, Edit, Tomorrow, Minute, MachineBegins, MachineEnds, MintChecker,
       HumanSigns, Adjudicate, CreateLock, WriteOwner, FindLock, Takeover, Refuse,
       Allocate, WriteEntry, Crash
  <1> QED
    BY <1>1, <1>2, <1>3

\* What a process relies on survives every step that leaves its own state alone.
LEMMA OthersKeepJob ==
  ASSUME TypeOK, JobsAreSound, [Next]_vars, NEW q \in Procs,
         pc'[q] = pc[q], job'[q] = job[q], pc'[q] \in Running
  PROVE  /\ job'[q] # None
         /\ pc'[q] \in {"receipt", "entry"} => job'[q].attempt \in 1..MaxAttempts
         /\ pc'[q] = "entry" => receipt'[Path(q)'] # None /\ Same(receipt'[Path(q)'], job'[q])
  <1>1. /\ job[q] # None
        /\ pc[q] \in {"receipt", "entry"} => job[q].attempt \in 1..MaxAttempts
        /\ pc[q] = "entry" => receipt[Path(q)] # None /\ Same(receipt[Path(q)], job[q])
    BY DEF JobsAreSound
  <1>2. Path(q)' = Path(q)
    BY DEF Path
  <1>3. pc[q] = "entry" => Path(q) \in DOMAIN receipt
    <2> SUFFICES ASSUME pc[q] = "entry" PROVE Path(q) \in DOMAIN receipt
      OBVIOUS
    <2>1. job[q] \in Job /\ job[q].attempt \in 1..MaxAttempts
      BY <1>1 DEF TypeOK
    <2> QED
      BY <2>1 DEF TypeOK, Path, Job
  <1>4. pc[q] = "entry" => receipt'[Path(q)] = receipt[Path(q)]
    BY <1>1, <1>3, LinkedStays
  <1> QED
    BY <1>1, <1>2, <1>4

LEMMA JobsStep ==
  ASSUME TypeOK, JobsAreSound, [Next]_vars
  PROVE  JobsAreSound'
  <1> USE BoundsAssumption
  <1> DEFINE Mine(q) ==
        pc'[q] \in Running =>
          /\ job'[q] # None
          /\ pc'[q] \in {"receipt", "entry"} => job'[q].attempt \in 1..MaxAttempts
          /\ pc'[q] = "entry" => receipt'[Path(q)'] # None /\ Same(receipt'[Path(q)'], job'[q])
  <1>1. ASSUME NEW q \in Procs, pc'[q] = pc[q], job'[q] = job[q] PROVE Mine(q)
    BY <1>1, OthersKeepJob
  <1>2. ASSUME NEW p \in Procs, Adjudicate(p) PROVE Mine(p)
    <2>1. PICK m \in machines, c \in checkers, h \in BOOLEAN :
            job' = [job EXCEPT ![p] =
              [outcome |-> IF h THEN "ADJUDICATED" ELSE "PASSED", machine |-> m,
               checker |-> c, tree |-> index, attempt |-> 0, day |-> day, tries |-> 0]]
      BY <1>2 DEF Adjudicate
    <2>2. job'[p] # None /\ pc'[p] = "reserve"
      BY <1>2, <2>1 DEF Adjudicate, Goto, TypeOK, None
    <2> QED
      BY <2>2
  <1>3. ASSUME NEW p \in Procs, CreateLock(p) \/ WriteOwner(p) PROVE Mine(p)
    BY <1>3 DEF CreateLock, WriteOwner, Goto, TypeOK, JobsAreSound, Running
  <1>4. ASSUME NEW p \in Procs, FindLock(p) PROVE Mine(p)
    BY <1>4 DEF FindLock, Goto, TypeOK, JobsAreSound, Running
  <1>5. ASSUME NEW p \in Procs, Takeover(p) PROVE Mine(p)
    <2>1. job[p] \in Job
      BY <1>5 DEF Takeover, TypeOK, JobsAreSound, Running
    <2>2. job'[p] # None /\ pc'[p] = "reserve"
      BY <1>5, <2>1 DEF Takeover, Goto, TypeOK, Job, None
    <2> QED
      BY <2>2
  <1>6. ASSUME NEW p \in Procs, Refuse(p) \/ Crash(p) \/ WriteEntry(p) PROVE Mine(p)
    <2>1. pc'[p] \notin Running
      BY <1>6 DEF Refuse, Crash, WriteEntry, Leave, Goto, TypeOK, Running
    <2> QED
      BY <2>1
  <1>7. ASSUME NEW p \in Procs, Allocate(p) PROVE Mine(p)
    <2>1. job[p] \in Job
      BY <1>7 DEF Allocate, TypeOK, JobsAreSound, Running
    <2> DEFINE n == Len(ledger[job[p].tree]) + 1
    <2>2. n \in Nat \ {0}
      BY <2>1 DEF TypeOK, Job
    <2>3. CASE n > MaxAttempts
      BY <1>7, <2>3 DEF Allocate, Leave, TypeOK, Running
    <2>4. CASE ~(n > MaxAttempts)
      <3>1. pc' = [pc EXCEPT ![p] = "receipt"] /\ job' = [job EXCEPT ![p].attempt = n]
        BY <1>7, <2>4 DEF Allocate, Goto
      <3>2. n \in 1..MaxAttempts
        BY <2>2, <2>4
      <3> HIDE DEF n
      <3>3. job'[p] = [job[p] EXCEPT !.attempt = n] /\ pc'[p] = "receipt"
        BY <3>1 DEF TypeOK
      <3>4. job'[p].attempt = n /\ job'[p].outcome = job[p].outcome
        BY <2>1, <3>3 DEF Job
      <3>5. job'[p] # None
        BY <2>1, <3>4 DEF Job, Outcomes, None
      <3> QED
        BY <3>2, <3>3, <3>4, <3>5
    <2> QED
      BY <2>3, <2>4
  <1>8. ASSUME NEW p \in Procs, WriteReceipt(p) PROVE Mine(p)
    <2>1. job[p] \in Job /\ job[p].attempt \in 1..MaxAttempts /\ job[p] # None
      BY <1>8 DEF WriteReceipt, TypeOK, JobsAreSound, Running
    <2>2. Path(p) \in DOMAIN receipt
      BY <2>1 DEF TypeOK, Path, Job
    <2> DEFINE a == [outcome |-> job[p].outcome, machine |-> job[p].machine,
                     checker |-> job[p].checker, tree |-> job[p].tree,
                     attempt |-> job[p].attempt, day |-> day]
    <2>3. CASE receipt[Path(p)] = None
      <3>1. receipt' = [receipt EXCEPT ![Path(p)] = a] /\ job' = job
        BY <1>8, <2>3 DEF WriteReceipt
      <3>2. Same(a, job[p]) /\ a # None
        BY <2>1 DEF Same, Job, Outcomes, None
      <3>3. Path(p)' = Path(p)
        BY <3>1 DEF Path
      <3> HIDE DEF a
      <3> QED
        BY <2>1, <2>2, <3>1, <3>2, <3>3
    <2>4. CASE receipt[Path(p)] # None /\ Recoverable(p, receipt[Path(p)])
      <3>1. receipt' = receipt /\ job' = job
        BY <1>8, <2>4 DEF WriteReceipt
      <3>2. Path(p)' = Path(p)
        BY <3>1 DEF Path
      <3> QED
        BY <2>1, <2>4, <3>1, <3>2 DEF Recoverable
    <2>5. CASE receipt[Path(p)] # None /\ ~Recoverable(p, receipt[Path(p)])
      <3>1. pc'[p] \notin Running
        BY <1>8, <2>5 DEF WriteReceipt, Leave, TypeOK, Running
      <3> QED
        BY <3>1
    <2> QED
      BY <2>3, <2>4, <2>5
  <1>9. ASSUME NEW p \in Procs, NEW q \in Procs, q # p,
               \/ Adjudicate(p) \/ CreateLock(p) \/ WriteOwner(p) \/ FindLock(p)
               \/ Takeover(p) \/ Refuse(p) \/ Allocate(p) \/ WriteReceipt(p)
               \/ WriteEntry(p) \/ Crash(p)
        PROVE  pc'[q] = pc[q] /\ job'[q] = job[q]
    BY <1>9 DEF Adjudicate, CreateLock, WriteOwner, FindLock, Takeover, Refuse, Allocate,
       WriteReceipt, WriteEntry, Crash, Goto, Leave, TypeOK
  <1>10. \/ pc' = pc /\ job' = job
         \/ \E p \in Procs :
              \/ Adjudicate(p) \/ CreateLock(p) \/ WriteOwner(p) \/ FindLock(p)
              \/ Takeover(p) \/ Refuse(p) \/ Allocate(p) \/ WriteReceipt(p)
              \/ WriteEntry(p) \/ Crash(p)
    BY DEF Next, vars, Edit, Tomorrow, Minute, MachineBegins, MachineEnds, MintChecker,
       HumanSigns
  <1> HIDE DEF Mine
  <1>11. \A q \in Procs : Mine(q)
    BY <1>1, <1>2, <1>3, <1>4, <1>5, <1>6, <1>7, <1>8, <1>9, <1>10
  <1> QED
    BY <1>11 DEF Mine, JobsAreSound

-----------------------------------------------------------------------------
(* The ledger *)

LEMMA LedgerStep ==
  ASSUME TypeOK, JobsAreSound, ReceiptsAreNamed, LedgerNamesReceipts, [Next]_vars
  PROVE  LedgerNamesReceipts'
  <1> USE BoundsAssumption
  <1> SUFFICES ASSUME NEW t \in Trees
               PROVE  /\ Len(ledger'[t]) <= MaxAttempts
                      /\ \A n \in 1..Len(ledger'[t]) : /\ ledger'[t][n] = receipt'[<<t, n>>]
                                                       /\ ledger'[t][n].attempt = n
    BY DEF LedgerNamesReceipts
  <1>1. /\ ledger[t] \in Seq(Adjudication) /\ Len(ledger[t]) \in Nat
        /\ Len(ledger[t]) <= MaxAttempts
        /\ \A n \in 1..Len(ledger[t]) : /\ ledger[t][n] = receipt[<<t, n>>]
                                        /\ ledger[t][n].attempt = n
    BY DEF TypeOK, LedgerNamesReceipts
  <1>2. \A n \in 1..Len(ledger[t]) : receipt'[<<t, n>>] = receipt[<<t, n>>]
    <2> SUFFICES ASSUME NEW n \in 1..Len(ledger[t])
                 PROVE  receipt'[<<t, n>>] = receipt[<<t, n>>]
      OBVIOUS
    <2>1. <<t, n>> \in DOMAIN receipt
      BY <1>1 DEF TypeOK
    <2>2. ledger[t][n] \in Adjudication
      BY <1>1
    <2>3. receipt[<<t, n>>] # None
      BY <1>1, <2>2 DEF Adjudication, Outcomes, None
    <2> QED
      BY <2>1, <2>3, LinkedStays
  <1>3. CASE ledger'[t] = ledger[t]
    BY <1>1, <1>2, <1>3
  <1>4. ASSUME NEW p \in Procs, WriteEntry(p), ledger'[t] # ledger[t]
        PROVE  /\ Len(ledger'[t]) <= MaxAttempts
               /\ \A n \in 1..Len(ledger'[t]) : /\ ledger'[t][n] = receipt'[<<t, n>>]
                                                /\ ledger'[t][n].attempt = n
    <2>1. /\ job[p] \in Job /\ job[p].attempt \in 1..MaxAttempts
          /\ receipt[Path(p)] # None
      BY <1>4 DEF WriteEntry, TypeOK, JobsAreSound, Running
    <2>2. /\ t = job[p].tree /\ Len(ledger[t]) + 1 = job[p].attempt
          /\ ledger'[t] = Append(ledger[t], receipt[Path(p)])
      BY <1>4 DEF WriteEntry, TypeOK
    <2>3. /\ receipt[Path(p)] \in Adjudication /\ receipt' = receipt
          /\ receipt[Path(p)].attempt = job[p].attempt
      BY <1>4, <2>1, <2>2 DEF WriteEntry, TypeOK, ReceiptsAreNamed, Path
    <2>4. /\ Len(ledger'[t]) = Len(ledger[t]) + 1
          /\ \A n \in 1..Len(ledger[t]) : ledger'[t][n] = ledger[t][n]
          /\ ledger'[t][Len(ledger[t]) + 1] = receipt[Path(p)]
      BY <1>1, <2>2, <2>3
    <2>5. Path(p) = <<t, Len(ledger[t]) + 1>>
      BY <2>2 DEF Path
    <2>6. Len(ledger'[t]) <= MaxAttempts
      BY <1>1, <2>1, <2>2, <2>4
    <2>7. ASSUME NEW n \in 1..Len(ledger'[t])
          PROVE  ledger'[t][n] = receipt'[<<t, n>>] /\ ledger'[t][n].attempt = n
      <3>1. n \in 1..Len(ledger[t]) \/ n = Len(ledger[t]) + 1
        BY <1>1, <2>4
      <3>2. CASE n \in 1..Len(ledger[t])
        BY <1>1, <2>3, <2>4, <3>2
      <3>3. CASE n = Len(ledger[t]) + 1
        BY <2>2, <2>3, <2>4, <2>5, <3>3
      <3> QED
        BY <3>1, <3>2, <3>3
    <2> QED
      BY <2>6, <2>7
  <1>5. (\E p \in Procs : WriteEntry(p)) \/ ledger' = ledger
    BY DEF Next, vars, Edit, Tomorrow, Minute, MachineBegins, MachineEnds, MintChecker,
       HumanSigns, Adjudicate, CreateLock, WriteOwner, FindLock, Takeover, Refuse,
       Allocate, WriteReceipt, Crash
  <1> QED
    BY <1>3, <1>4, <1>5

-----------------------------------------------------------------------------
(* The theorems *)

\* The inductive invariant of the loop, whatever the lock file says or loses.
THEOREM LoopInvariant == Spec => []LoopInv
  <1>1. LoopInv /\ [Next]_vars => LoopInv'
    BY TypeStep, EvidenceStep, NamedStep, JobsStep, LedgerStep DEF LoopInv
  <1> QED
    BY InitInv, <1>1, PTL DEF Spec

\* command_check accepts only what the oracle proved on the tree and the declared
\* input that are there now, and no blocked review without a human's dispositions
\* of it; where the signed route is demanded it names this very machine receipt.
THEOREM AcceptedEvidenceIsSound == Spec => []AcceptedIsSound
  <1>1. LoopInv => AcceptedIsProven
    <2> SUFFICES ASSUME LoopInv, NEW k \in DOMAIN receipt, Accept(receipt[k], FALSE)
                 PROVE  /\ <<index, input>> \in Proven /\ work = index
                        /\ receipt[k].machine.day = day /\ receipt[k].checker.day = day
      BY DEF AcceptedIsProven
    <2>1. receipt[k].machine \in machines /\ receipt[k].machine.verdict = "PASSED"
      BY DEF Accept, ValidEvidence, ValidMachine
    <2>2. <<receipt[k].machine.tree, receipt[k].machine.input>> \in Proven
      BY <2>1 DEF LoopInv, MachinesAreHonest
    <2> QED
      BY <2>2 DEF Accept, ValidEvidence, ValidMachine, ValidChecker, Current,
         CheckoutMatches
  <1>2. LoopInv => AcceptedIsReviewed
    <2> SUFFICES ASSUME LoopInv, NEW k \in DOMAIN receipt, NEW routed \in BOOLEAN,
                        Accept(receipt[k], routed)
                 PROVE  LET a == receipt[k] IN
                          /\ a.checker.verdict = "PASSED" \/ (a.checker \in signed /\ ~routed)
                          /\ routed => a.checker.route = a.machine /\ a.checker.tree = index
      BY DEF AcceptedIsReviewed
    <2> DEFINE a == receipt[k]
    <2>1. a.checker \in checkers /\ a.checker.tree = index
      BY DEF Accept, ValidEvidence, ValidChecker, Current
    <2>2. routed => a.checker.route = a.machine
      BY DEF Accept, Routed, ValidEvidence, RouteBinds
    <2>3. a.checker.verdict = "PASSED" \/ (a.checker.verdict = "BLOCKED" /\ a.checker \in signed)
      BY DEF Accept, ValidEvidence, ValidChecker, ValidHuman
    <2>4. a.checker.verdict = "BLOCKED" => ~routed
      BY <2>1 DEF Accept, Routed, LoopInv, CheckersAreHonest
    <2> QED
      BY <2>1, <2>2, <2>3, <2>4
  <1> QED
    BY LoopInvariant, <1>1, <1>2, PTL DEF AcceptedIsSound

\* Entry n of a candidate's ledger is the receipt at path n, within the budget, also
\* when two processes allocate at once or one takes over another's receipt.
THEOREM LedgerIsTheReceipts == Spec => []LedgerNamesReceipts
  <1>1. LoopInv => LedgerNamesReceipts
    BY DEF LoopInv
  <1> QED
    BY LoopInvariant, <1>1, PTL

\* No receipt is rewritten, and a ledger grows only by the receipt of the
\* transaction of the process that makes it grow.
THEOREM EvidenceStays == Spec => EvidenceIsImmutable
  <1> DEFINE Kept ==
        /\ \A k \in DOMAIN receipt : receipt[k] # None => receipt'[k] = receipt[k]
        /\ \A t \in Trees : ledger'[t] # ledger[t] =>
             \E p \in Procs : /\ pc[p] = "entry" /\ job[p].tree = t
                              /\ ledger'[t] = Append(ledger[t], receipt[<<t, job[p].attempt>>])
                              /\ Same(receipt[<<t, job[p].attempt>>], job[p])
  <1>1. LoopInv /\ [Next]_vars => Kept
    <2> SUFFICES ASSUME LoopInv, [Next]_vars PROVE Kept
      OBVIOUS
    <2>1. \A k \in DOMAIN receipt : receipt[k] # None => receipt'[k] = receipt[k]
      BY LinkedStays DEF LoopInv
    <2>2. ASSUME NEW p \in Procs, WriteEntry(p), NEW t \in Trees, ledger'[t] # ledger[t]
          PROVE  /\ pc[p] = "entry" /\ job[p].tree = t
                 /\ ledger'[t] = Append(ledger[t], receipt[<<t, job[p].attempt>>])
                 /\ Same(receipt[<<t, job[p].attempt>>], job[p])
      <3>1. pc[p] = "entry" /\ Same(receipt[Path(p)], job[p])
        BY <2>2 DEF WriteEntry, LoopInv, JobsAreSound, Running
      <3>2. job[p].tree = t /\ ledger'[t] = Append(ledger[t], receipt[Path(p)])
        BY <2>2 DEF WriteEntry, LoopInv, TypeOK
      <3> QED
        BY <3>1, <3>2 DEF Path
    <2>3. (\E p \in Procs : WriteEntry(p)) \/ ledger' = ledger
      BY DEF Next, vars, Edit, Tomorrow, Minute, MachineBegins, MachineEnds, MintChecker,
         HumanSigns, Adjudicate, CreateLock, WriteOwner, FindLock, Takeover, Refuse,
         Allocate, WriteReceipt, Crash
    <2> QED
      BY <2>1, <2>2, <2>3
  <1> QED
    BY LoopInvariant, <1>1, PTL DEF Spec, EvidenceIsImmutable

-----------------------------------------------------------------------------
(* The files under the loop *)

CONSTANTS Writers, Op, Value, Old, Absent, MaxFaults, MaxDeaths
VARIABLES stage, data, synced, leaf, disk, renames, child, store, taken, log, kept, faults,
          deaths
Durable == INSTANCE SafeAtomic

Stages == Durable!Over \cup {"write", "fsync", "rename", "dirsync", "link", "append", "rest",
                           "logsync"}
Fragment == [by : Writers, end : BOOLEAN]

\* A stage belongs to one operation, and a file that is named is on the disk.
Sealed(f) == f \in {Old, Absent} \/ (f \in Writers /\ synced[f])
FileInv ==
  /\ stage \in [Writers -> Stages] /\ synced \in [Writers -> BOOLEAN]
  /\ data \in [Writers -> {"none", "part", "whole"}]
  /\ \A w \in Writers :
       /\ synced[w] => data[w] = "whole" /\ stage[w] \notin {"idle", "write", "fsync"}
       /\ stage[w] = "fsync" => data[w] = "whole"
       /\ stage[w] \in {"write", "fsync"} => Op[w] \in {"replace", "create"}
       /\ stage[w] = "rename" => synced[w] /\ Op[w] = "replace"
       /\ stage[w] = "link" => synced[w] /\ Op[w] = "create"
       /\ stage[w] \in {"append", "rest", "logsync"} => Op[w] = "append"
  /\ Sealed(leaf) /\ Sealed(disk) /\ Sealed(child) /\ Sealed(store)

\* What a replacement put there has not been followed by anything older.
Upto(f, g) == \E i, j \in 1..Len(renames) : renames[i] = f /\ renames[j] = g /\ i <= j
ReplaceInv ==
  /\ renames \in Seq(Writers \cup {Old})
  /\ \A w \in Writers :
       /\ stage[w] = "dirsync" /\ Op[w] = "replace" => Upto(w, leaf)
       /\ stage[w] = "replaced" => Upto(w, leaf) /\ Upto(w, disk)

\* What is on the disk of the immutable name is what is seen, or nothing.
CreateInv ==
  /\ child \in Writers \cup {Absent} /\ store \in {Absent, child}
  /\ \A w \in Writers :
       /\ stage[w] = "dirsync" /\ Op[w] = "create" => child = w
       /\ stage[w] = "created" => child = w /\ store = w
       /\ stage[w] = "same" => \E v \in taken \cup {child} : v # Absent /\ Value[v] = Value[w]

\* A line stays in the log, once synchronised also beyond a power failure.
LineAt(w, n) == \E i \in 1..n : log[i] = Durable!Last(w)
AppendInv ==
  /\ log \in Seq(Fragment) /\ kept \in 0..Len(log)
  /\ \A w \in Writers :
       /\ stage[w] = "logsync" => LineAt(w, Len(log))
       /\ stage[w] = "dirsync" /\ Op[w] = "append" => LineAt(w, kept)
       /\ stage[w] = "appended" => LineAt(w, kept)

FilesInv == FileInv /\ ReplaceInv /\ CreateInv /\ AppendInv

LEMMA FileStep ==
  ASSUME Durable!FileAssumption, FileInv, CreateInv, Durable!Next
  PROVE  FileInv'
<1> USE DEF Durable!FileAssumption, FileInv, Stages, Durable!Over, Durable!Done, Durable!Goto
<1>1. CASE Durable!PowerFails
  BY <1>1 DEF Durable!PowerFails, Sealed
<1>2. ASSUME NEW w \in Writers, Durable!Start(w) PROVE FileInv'
  BY <1>2 DEF Durable!Start, Durable!Existing, Durable!tmp, Durable!reg, Durable!imm, Sealed
<1>3. ASSUME NEW w \in Writers, Durable!Write(w) PROVE FileInv'
  BY <1>3 DEF Durable!Write, Durable!reg, Durable!imm, Sealed
<1>6. ASSUME NEW w \in Writers, Durable!Fsync(w) PROVE FileInv'
  BY <1>6 DEF Durable!Fsync, Durable!reg, Durable!imm, Sealed
<1>4. ASSUME NEW w \in Writers, Durable!Rename(w) \/ Durable!DirSync(w) \/ Durable!Link(w)
      PROVE  FileInv'
  BY <1>4 DEF Durable!Rename, Durable!DirSync, Durable!Link, Durable!Existing, Durable!tmp,
     Durable!reg, Durable!imm, Sealed
<1>5. ASSUME NEW w \in Writers,
             Durable!AppendWrite(w) \/ Durable!LogSync(w) \/ Durable!Fail(w) \/ Durable!Die(w)
      PROVE  FileInv'
  BY <1>5 DEF Durable!AppendWrite, Durable!LogSync, Durable!Fail, Durable!Die, Durable!tmp,
     Durable!reg, Durable!imm, Sealed
<1> QED
  BY <1>1, <1>2, <1>3, <1>4, <1>5, <1>6 DEF Durable!Next

LEMMA ReplaceStep ==
  ASSUME Durable!FileAssumption, FileInv, ReplaceInv, Durable!Next
  PROVE  ReplaceInv'
<1> USE DEF Durable!FileAssumption, FileInv, ReplaceInv, Durable!Goto, Durable!reg
<1>a. ASSUME UNCHANGED renames
      PROVE  \A f, g : Upto(f, g) => Upto(f, g)'
  BY <1>a DEF Upto
<1>1. CASE Durable!PowerFails
  <2>1. /\ UNCHANGED renames /\ leaf' \in {leaf, disk} /\ disk' = leaf'
        /\ \A w \in Writers : stage'[w] = stage[w] \/ stage'[w] = "dead"
        /\ \A w \in Writers : stage'[w] # "dirsync"
    BY <1>1 DEF Durable!PowerFails, Durable!Over, Durable!Done
  <2> QED
    BY <1>a, <2>1
<1>2. ASSUME NEW w \in Writers, Durable!Rename(w) PROVE ReplaceInv'
  <2>1. /\ renames' = Append(renames, w) /\ leaf' = w /\ disk' = disk
        /\ stage' = [stage EXCEPT ![w] = "dirsync"]
    BY <1>2 DEF Durable!Rename
  <2>2. /\ renames' \in Seq(Writers \cup {Old}) /\ Len(renames') = Len(renames) + 1
        /\ \A i \in 1..Len(renames) : renames'[i] = renames[i]
        /\ renames'[Len(renames) + 1] = w
    BY <2>1
  <2>3. \A f, g : Upto(f, g) => Upto(f, g)' /\ Upto(f, w)'
    BY <2>2 DEF Upto
  <2>4. Upto(w, w)'
    BY <2>2 DEF Upto
  <2> QED
    BY <2>1, <2>2, <2>3, <2>4
<1>3. ASSUME NEW w \in Writers, Durable!DirSync(w) PROVE ReplaceInv'
  BY <1>3, <1>a DEF Durable!DirSync
<1>4. ASSUME NEW w \in Writers, UNCHANGED <<leaf, disk, renames>>,
             NEW next \in Stages \ {"dirsync", "replaced"}, Durable!Goto(w, next)
      PROVE  ReplaceInv'
  BY <1>4, <1>a
<1>5. ASSUME NEW w \in Writers, UNCHANGED <<leaf, disk, renames>>,
             Op[w] # "replace", Durable!Goto(w, "dirsync")
      PROVE  ReplaceInv'
  BY <1>5, <1>a
<1>6. ASSUME NEW w \in Writers, Durable!Start(w) PROVE ReplaceInv'
  BY <1>4, <1>6 DEF Durable!Start, Durable!Existing, Stages, Durable!Over, Durable!Done
<1>7. ASSUME NEW w \in Writers, Durable!Write(w) \/ Durable!Fsync(w) PROVE ReplaceInv'
  BY <1>4, <1>7 DEF Durable!Write, Durable!Fsync, Stages
<1>8. ASSUME NEW w \in Writers, Durable!Link(w) PROVE ReplaceInv'
  BY <1>4, <1>5, <1>8 DEF Durable!Link, Durable!Existing, Stages, Durable!Over, Durable!Done
<1>9. ASSUME NEW w \in Writers, Durable!AppendWrite(w) \/ Durable!LogSync(w) PROVE ReplaceInv'
  BY <1>4, <1>5, <1>9 DEF Durable!AppendWrite, Durable!LogSync, Stages
<1>10. ASSUME NEW w \in Writers, Durable!Fail(w) \/ Durable!Die(w) PROVE ReplaceInv'
  BY <1>4, <1>10 DEF Durable!Fail, Durable!Die, Stages, Durable!Over
<1> QED
  BY <1>1, <1>2, <1>3, <1>6, <1>7, <1>8, <1>9, <1>10 DEF Durable!Next

LEMMA CreateStep ==
  ASSUME Durable!FileAssumption, FileInv, CreateInv, Durable!Next
  PROVE  CreateInv'
<1> USE DEF Durable!FileAssumption, FileInv, Durable!Goto, Durable!imm
<1>1. CASE Durable!PowerFails
  <2>1. /\ child' \in {child, store} /\ store' = child'
        /\ taken' = taken \cup ({child} \ {child', Absent})
        /\ \A w \in Writers : stage'[w] = stage[w] \/ stage'[w] = "dead"
        /\ \A w \in Writers : stage'[w] # "dirsync"
    BY <1>1 DEF Durable!PowerFails, Durable!Over, Durable!Done
  <2> QED
    BY <2>1 DEF CreateInv
<1>2. ASSUME NEW w \in Writers, UNCHANGED <<child, store, taken>>,
             NEW next \in Stages \ {"dirsync", "created", "same"}, Durable!Goto(w, next)
      PROVE  CreateInv'
  BY <1>2 DEF CreateInv
<1>3. ASSUME NEW w \in Writers, UNCHANGED <<child, store, taken>>, Op[w] # "create",
             Durable!Goto(w, "dirsync")
      PROVE  CreateInv'
  BY <1>3 DEF CreateInv
\* A writer that meets the name compares bytes.
<1>4. ASSUME NEW w \in Writers, UNCHANGED <<child, store, taken>>, child # Absent,
             Durable!Goto(w, Durable!Existing(w))
      PROVE  CreateInv'
  BY <1>4 DEF CreateInv, Durable!Existing
<1>5. ASSUME NEW w \in Writers, Durable!Start(w) PROVE CreateInv'
  BY <1>2, <1>4, <1>5 DEF Durable!Start, Stages
<1>6. ASSUME NEW w \in Writers, Durable!Write(w) \/ Durable!Fsync(w) PROVE CreateInv'
  BY <1>2, <1>6 DEF Durable!Write, Durable!Fsync, Stages
<1>7. ASSUME NEW w \in Writers, Durable!Rename(w) PROVE CreateInv'
  BY <1>3, <1>7 DEF Durable!Rename
<1>8. ASSUME NEW w \in Writers, Durable!DirSync(w) PROVE CreateInv'
  BY <1>8 DEF Durable!DirSync, CreateInv
<1>9. ASSUME NEW w \in Writers, Durable!Link(w) PROVE CreateInv'
  <2>1. CASE child = Absent
    BY <1>9, <2>1 DEF Durable!Link, CreateInv
  <2>2. CASE child # Absent
    BY <1>4, <1>9, <2>2 DEF Durable!Link
  <2> QED
    BY <2>1, <2>2
<1>10. ASSUME NEW w \in Writers, Durable!AppendWrite(w) \/ Durable!LogSync(w) PROVE CreateInv'
  BY <1>2, <1>3, <1>10 DEF Durable!AppendWrite, Durable!LogSync, Stages
<1>11. ASSUME NEW w \in Writers, Durable!Fail(w) \/ Durable!Die(w) PROVE CreateInv'
  BY <1>2, <1>11 DEF Durable!Fail, Durable!Die, Stages, Durable!Over
<1> QED
  BY <1>1, <1>5, <1>6, <1>7, <1>8, <1>9, <1>10, <1>11 DEF Durable!Next

LEMMA AppendStep ==
  ASSUME Durable!FileAssumption, FileInv, AppendInv, Durable!Next
  PROVE  AppendInv'
<1> USE DEF Durable!FileAssumption, FileInv, Durable!Goto, Durable!book
<1>1. CASE Durable!PowerFails
  <2>1. PICK n \in kept..Len(log) : log' = SubSeq(log, 1, n) /\ kept' = n
    BY <1>1 DEF Durable!PowerFails
  <2>2. /\ \A w \in Writers : stage'[w] = stage[w] \/ stage'[w] = "dead"
        /\ \A w \in Writers : stage'[w] \notin {"dirsync", "logsync"}
    BY <1>1 DEF Durable!PowerFails, Durable!Over, Durable!Done
  <2>3. /\ n \in Nat /\ kept \in Nat /\ kept <= n /\ n <= Len(log) /\ log' \in Seq(Fragment)
        /\ Len(log') = n /\ \A i \in 1..n : log'[i] = log[i]
    BY <2>1 DEF AppendInv
  <2>4. \A w : LineAt(w, kept) => LineAt(w, kept)'
    BY <2>1, <2>3 DEF LineAt
  <2> QED
    BY <2>1, <2>2, <2>3, <2>4 DEF AppendInv
<1>2. ASSUME UNCHANGED log
      PROVE  \A w, n : LineAt(w, n) => LineAt(w, n)'
  BY <1>2 DEF LineAt
<1>3. ASSUME NEW w \in Writers, UNCHANGED <<log, kept>>,
             NEW next \in Stages \ {"logsync", "dirsync", "appended"}, Durable!Goto(w, next)
      PROVE  AppendInv'
  BY <1>2, <1>3 DEF AppendInv
<1>4. ASSUME NEW w \in Writers, UNCHANGED <<log, kept>>, Op[w] # "append",
             Durable!Goto(w, "dirsync")
      PROVE  AppendInv'
  BY <1>2, <1>4 DEF AppendInv
<1>5. ASSUME NEW w \in Writers, Durable!Start(w) PROVE AppendInv'
  BY <1>3, <1>5 DEF Durable!Start, Durable!Existing, Stages, Durable!Over, Durable!Done
<1>6. ASSUME NEW w \in Writers, Durable!Write(w) \/ Durable!Fsync(w) PROVE AppendInv'
  BY <1>3, <1>6 DEF Durable!Write, Durable!Fsync, Stages
<1>7. ASSUME NEW w \in Writers, Durable!Rename(w) \/ Durable!Link(w) PROVE AppendInv'
  BY <1>3, <1>4, <1>7 DEF Durable!Rename, Durable!Link, Durable!Existing, Stages, Durable!Over,
     Durable!Done
<1>8. ASSUME NEW w \in Writers, Durable!DirSync(w) PROVE AppendInv'
  <2>1. UNCHANGED <<log, kept>>
    BY <1>8 DEF Durable!DirSync
  <2>2. stage[w] = "dirsync" /\ \E next \in {"replaced", "created", "appended"} :
          Durable!Goto(w, next) /\ (next = "appended" => Op[w] = "append")
    BY <1>8 DEF Durable!DirSync
  <2> QED
    BY <1>2, <2>1, <2>2 DEF AppendInv
<1>9. ASSUME NEW w \in Writers, Durable!AppendWrite(w) PROVE AppendInv'
  <2>1. kept' = kept /\ Durable!First(w) \in Fragment /\ Durable!Last(w) \in Fragment
    BY <1>9 DEF Durable!AppendWrite, Durable!First, Durable!Last, Fragment
  <2>2. \/ log' = Append(log, Durable!First(w)) /\ Durable!Goto(w, "rest")
        \/ log' = log \o <<Durable!First(w), Durable!Last(w)>> /\ Durable!Goto(w, "logsync")
        \/ log' = Append(log, Durable!Last(w)) /\ Durable!Goto(w, "logsync")
    BY <1>9 DEF Durable!AppendWrite
  <2>3. /\ log' \in Seq(Fragment) /\ Len(log') >= Len(log)
        /\ \A i \in 1..Len(log) : log'[i] = log[i]
        /\ stage'[w] = "logsync" => log'[Len(log')] = Durable!Last(w)
        /\ Len(log') \in Nat \ {0} /\ Len(log) \in Nat
    <3>1. log \in Seq(Fragment) /\ w \in Writers /\ stage \in [Writers -> Stages]
      BY DEF AppendInv
    <3>2. ASSUME NEW f \in Fragment, log' = Append(log, f)
          PROVE  /\ log' \in Seq(Fragment) /\ Len(log') = Len(log) + 1 /\ Len(log) \in Nat
                 /\ log'[Len(log')] = f /\ \A i \in 1..Len(log) : log'[i] = log[i]
      BY <3>1, <3>2
    <3>3. ASSUME NEW f \in Fragment, NEW g \in Fragment, log' = log \o <<f, g>>
          PROVE  /\ log' \in Seq(Fragment) /\ Len(log') = Len(log) + 2 /\ Len(log) \in Nat
                 /\ log'[Len(log')] = g /\ \A i \in 1..Len(log) : log'[i] = log[i]
      BY <3>1, <3>3
    <3> QED
      BY <2>1, <2>2, <3>1, <3>2, <3>3
  <2>4. /\ \A v : LineAt(v, Len(log)) => LineAt(v, Len(log))'
        /\ \A v : LineAt(v, kept) => LineAt(v, kept)'
        /\ stage'[w] = "logsync" => LineAt(w, Len(log))'
    <3>1. kept \in 0..Len(log)
      BY DEF AppendInv
    <3>2. \A v, m : m \in 0..Len(log) /\ LineAt(v, m) => \E i \in 1..m : log'[i] = Durable!Last(v)
      BY <2>3 DEF LineAt
    <3>3. kept' = kept /\ Len(log) \in 0..Len(log)
      BY <2>1, <2>3
    <3> QED
      BY <2>3, <3>1, <3>2, <3>3 DEF LineAt
  <2> QED
    BY <2>1, <2>2, <2>3, <2>4 DEF AppendInv
<1>10. ASSUME NEW w \in Writers, Durable!LogSync(w) PROVE AppendInv'
  <2>1. /\ UNCHANGED log /\ kept' = Len(log) /\ stage[w] = "logsync"
        /\ Durable!Goto(w, "dirsync")
    BY <1>10 DEF Durable!LogSync
  <2>2. /\ \A v : LineAt(v, Len(log)) => LineAt(v, kept)'
        /\ \A v : LineAt(v, Len(log)) => LineAt(v, Len(log))'
        /\ \A v : LineAt(v, kept) => LineAt(v, kept)'
    BY <2>1 DEF LineAt, AppendInv
  <2> QED
    BY <2>1, <2>2 DEF AppendInv
<1>11. ASSUME NEW w \in Writers, Durable!Fail(w) \/ Durable!Die(w) PROVE AppendInv'
  BY <1>3, <1>11 DEF Durable!Fail, Durable!Die, Stages, Durable!Over
<1> QED
  BY <1>1, <1>5, <1>6, <1>7, <1>8, <1>9, <1>10, <1>11 DEF Durable!Next

\* In a log that is not refused the fragment before the first end after it is that line's.
LEMMA NothingTorn ==
  ASSUME log \in Seq(Fragment), Durable!Readable, NEW n \in 1..Len(log), ~log[n].end
  PROVE  n < Len(log) /\ log[n + 1] = Durable!Last(log[n].by)
<1> DEFINE Ends == {m \in (n + 1)..Len(log) : log[m].end}
<1>1. Len(log) \in Nat /\ log # << >> /\ log[Len(log)].end /\ n < Len(log)
  BY DEF Durable!Readable
<1>2. PICK m \in Ends : \A k \in Ends : ~(k < m)
  <2>1. Ends \subseteq Nat /\ Len(log) \in Ends
    BY <1>1
  <2>2. PICK m \in Ends : \A k \in Ends : ~(<<k, m>> \in OpToRel(<, Nat))
    BY <2>1, NatLessThanWellFounded, WFMin
  <2> QED
    BY <2>1, <2>2 DEF OpToRel
<1>3. m \in Nat /\ n < m /\ m <= Len(log) /\ log[m].end
  BY <1>1
<1>4. Durable!OneRecord(m)
  BY <1>3 DEF Durable!Readable, Durable!Lines
<1>5. m = n + 1
  <2>1. SUFFICES ASSUME m > n + 1 PROVE FALSE
    BY <1>3
  <2>2. log[m - 2].end
    BY <1>3, <1>4, <2>1 DEF Durable!OneRecord
  <2>3. m - 2 \in Ends
    BY <1>3, <2>1, <2>2
  <2> QED
    BY <1>2, <1>3, <2>3
<1>6. log[n] = Durable!First(log[m].by)
  BY <1>3, <1>4, <1>5 DEF Durable!OneRecord
<1>7. log[m] = Durable!Last(log[m].by)
  <2>1. log[m] \in [by : Writers, end : BOOLEAN]
    <3>1. log[m] \in Fragment
      BY <1>1, <1>3
    <3> QED
      BY <3>1 DEF Fragment
  <2>2. PICK w \in Writers, e \in BOOLEAN : log[m] = [by |-> w, end |-> e]
    BY <2>1
  <2> QED
    BY <1>3, <2>2 DEF Durable!Last
<1> QED
  BY <1>1, <1>5, <1>6, <1>7 DEF Durable!First

\* However many processes replace, create and append, and whatever fails, the files stay
\* whole, what was acknowledged stays, and a log that can be read is complete.
THEOREM FilesStayDurable ==
  ASSUME Durable!FileAssumption PROVE Durable!Spec => []Durable!FilesAreDurable
<1>1. Durable!Init => FilesInv
  BY DEF Durable!Init, Durable!FileAssumption, FilesInv, FileInv, ReplaceInv, CreateInv, AppendInv,
     Stages, Durable!Over, Durable!Done, Sealed
<1>2. FilesInv /\ [Durable!Next]_(Durable!vars) => FilesInv'
  <2>1. FilesInv /\ UNCHANGED Durable!vars => FilesInv'
    BY DEF FilesInv, FileInv, ReplaceInv, CreateInv, AppendInv, Sealed, Upto, LineAt, Durable!vars
  <2> QED
    BY <2>1, FileStep, ReplaceStep, CreateStep, AppendStep DEF FilesInv
<1>3. FilesInv => Durable!FilesAreDurable
  <2> SUFFICES ASSUME FilesInv PROVE Durable!FilesAreDurable
    OBVIOUS
  <2>1. Durable!FilesAreWhole
    BY DEF FilesInv, FileInv, Sealed, Durable!FilesAreWhole, Durable!Whole
  <2>2. Durable!ReplacedSurvives
    BY DEF FilesInv, ReplaceInv, Upto, Durable!ReplacedSurvives
  <2>3. Durable!CreatedOnce
    BY DEF FilesInv, CreateInv, Durable!CreatedOnce
  <2>4. \A w \in Writers : stage[w] = "appended" => \E n \in Durable!Lines : log[n].by = w
    <3>1. \A w \in Writers : LineAt(w, kept) => \E n \in Durable!Lines : log[n].by = w
      BY DEF FilesInv, AppendInv, LineAt, Durable!Last, Durable!Lines
    <3> QED
      BY <3>1 DEF FilesInv, AppendInv
  <2>5. Durable!ReadIsComplete
    BY <2>4, NothingTorn DEF FilesInv, AppendInv, Durable!ReadIsComplete
  <2> QED
    BY <2>1, <2>2, <2>3, <2>5 DEF Durable!FilesAreDurable
<1> QED
  BY <1>1, <1>2, <1>3, PTL DEF Durable!Spec

-----------------------------------------------------------------------------
(* The two readings of a diff, from which the stop rule counts what was added *)

CONSTANTS Files, Null, Hunks
VARIABLES full, keep, heads
Surface == INSTANCE DiffSurface

Sides == Files \cup {Null}
Reading ==
  [ok : BOOLEAN, paths : SUBSET Sides, added : SUBSET (Sides \X Int), ops : SUBSET (Files \X Files),
   minus : SUBSET Sides, seenPlus : BOOLEAN, meta : BOOLEAN, current : Sides,
   inHunk : BOOLEAN, oldLeft : Int, newLeft : Int, newLine : Int, prevOld : Nat \X Nat,
   prevNew : Nat \X Nat]
Counters == [ok : BOOLEAN, inHunk : BOOLEAN, oldLeft : Int, newLeft : Int]

\* What both readings have to agree on.
Shared(s) == <<s.ok, s.paths, s.ops, s.minus, s.seenPlus, s.meta, s.current, s.prevOld, s.prevNew>>
\* What does not concern the lines of a hunk.
Outside(s) == <<Shared(s), s.inHunk>>

Interval(file, first, count) == {<<file, n>> : n \in first..(first + count - 1)}
\* The lines the open hunk has announced and the full reading has not met yet.
Pending(s) ==
  IF s.inHunk /\ s.current # Null THEN Interval(s.current, s.newLine, s.newLeft) ELSE {}

\* The projection keeps the counters of the open hunk and knows its lines beforehand ...
InStep ==
  /\ heads \in Reading /\ full.ok /\ Shared(heads) = Shared(full)
  /\ keep.ok /\ keep.inHunk = full.inHunk
  /\ full.inHunk => /\ keep.oldLeft = full.oldLeft /\ full.oldLeft >= 0
                    /\ keep.newLeft = full.newLeft /\ full.newLeft >= 0
  /\ heads.added = full.added \cup Pending(full)
\* ... or the hunk has more lines than it announced, and the text is never accepted.
Overrun == full.inHunk /\ (full.oldLeft < 0 \/ full.newLeft < 0)

SurfaceInv == full \in Reading /\ keep \in Counters /\ (InStep \/ Overrun)

LEMMA RefusedReading ==
  ASSUME NEW s \in Reading
  PROVE  ~Surface!Refused(s).ok
BY DEF Surface!Refused, Reading

LEMMA TakeReading ==
  ASSUME NEW s \in Reading, Surface!Take(s).ok
  PROVE  /\ s.current # Null /\ s.newLine # 0
         /\ Surface!Take(s) \in Reading /\ Outside(Surface!Take(s)) = Outside(s)
         /\ Surface!Take(s).oldLeft = s.oldLeft /\ Surface!Take(s).newLeft = s.newLeft - 1
         /\ Surface!Take(s).newLine = s.newLine + 1
         /\ Surface!Take(s).added = s.added \cup {<<s.current, s.newLine>>}
<1>1. s.current # Null /\ s.newLine # 0
  BY RefusedReading DEF Surface!Take
<1>2. s.added \cup {<<s.current, s.newLine>>} \in SUBSET (Sides \X Int)
  BY DEF Reading
<1>3. s.newLine + 1 \in Int /\ s.newLeft - 1 \in Int
  BY DEF Reading
<1> QED
  <2>1. Surface!Take(s) = [s EXCEPT !.added = s.added \cup {<<s.current, s.newLine>>},
                                    !.newLine = s.newLine + 1, !.newLeft = s.newLeft - 1]
    BY <1>1 DEF Surface!Take
  <2> DEFINE grown == s.added \cup {<<s.current, s.newLine>>}
             next == s.newLine + 1
             rest == s.newLeft - 1
             taking == Surface!Take(s)
  <2>2. /\ taking = [s EXCEPT !.added = grown, !.newLine = next, !.newLeft = rest]
        /\ grown \in SUBSET (Sides \X Int) /\ next \in Int /\ rest \in Int
    BY <1>2, <1>3, <2>1
  <2> HIDE DEF grown, next, rest, taking
  <2>3. /\ taking \in Reading /\ Outside(taking) = Outside(s) /\ taking.oldLeft = s.oldLeft
        /\ taking.newLeft = rest /\ taking.newLine = next /\ taking.added = grown
    BY <2>2 DEF Reading, Outside, Shared
  <2> QED
    BY <1>1, <2>3 DEF grown, next, rest, taking

LEMMA DropReading ==
  ASSUME NEW s \in Reading
  PROVE  /\ Surface!Drop(s) \in Reading /\ Outside(Surface!Drop(s)) = Outside(s)
         /\ Surface!Drop(s).oldLeft = s.oldLeft - 1 /\ Surface!Drop(s).newLeft = s.newLeft
         /\ Surface!Drop(s).newLine = s.newLine /\ Surface!Drop(s).added = s.added
<1>1. ASSUME NEW left \in Int, NEW t, t = [s EXCEPT !.oldLeft = left]
      PROVE  /\ t \in Reading /\ Outside(t) = Outside(s) /\ t.oldLeft = left
             /\ t.newLeft = s.newLeft /\ t.newLine = s.newLine /\ t.added = s.added
  BY <1>1 DEF Reading, Outside, Shared
<1>2. s.oldLeft - 1 \in Int
  BY DEF Reading
<1> QED
  BY <1>1, <1>2 DEF Surface!Drop

LEMMA LineIs ==
  ASSUME NEW line \in Surface!Lines
  PROVE  /\ line.is \in {"diff", "minus", "plus", "hunk", "add", "del", "index", "mode", "noeol",
                         "context"}
         /\ line.is = "diff" => line.old \in Files /\ line.new \in Files
         /\ line.is \in {"minus", "plus"} => line.file \in Sides
         /\ line.is = "hunk" => line.at \in Hunks
BY DEF Surface!Lines, Sides

\* The headers, read by either reading.
LEMMA HeaderReading ==
  ASSUME Surface!HunkAssumption, NEW s \in Reading, NEW line \in Surface!Lines
  PROVE  /\ line.is = "diff" =>
              LET t == Surface!Open(s, line) IN
              /\ t \in Reading /\ t.added = s.added /\ ~t.inHunk
              /\ Shared(t) = <<s.ok, s.paths, {<<line.old, line.new>>}, {}, FALSE, FALSE, Null,
                               Surface!None, Surface!None>>
         /\ line.is = "minus" =>
              LET t == Surface!Minus(s, line) IN
              /\ t \in Reading /\ t.added = s.added /\ ~t.inHunk
              /\ Shared(t) = <<s.ok, s.paths, s.ops, {line.file}, s.seenPlus, s.meta, s.current,
                               s.prevOld, s.prevNew>>
         /\ line.is = "plus" /\ s.minus # {} =>
              LET t == Surface!Plus(s, line)
                  met == s.paths \cup Surface!Sides(CHOOSE f \in s.minus : TRUE, line.file)
              IN /\ t \in Reading /\ t.added = s.added /\ ~t.inHunk
                 /\ Shared(t) = <<s.ok, met, s.ops, s.minus, TRUE, s.meta, line.file, s.prevOld,
                                  s.prevNew>>
         /\ line.is \in {"index", "mode"} =>
              LET t == Surface!Meta(s, line) IN
              /\ t \in Reading /\ t.added = s.added /\ ~t.inHunk
              /\ Shared(t) = <<s.ok, s.paths, s.ops, s.minus, s.seenPlus,
                               s.meta \/ line.is = "mode", s.current, s.prevOld, s.prevNew>>
<1>1. CASE line.is = "diff"
  <2>1. {<<line.old, line.new>>} \in SUBSET (Files \X Files) /\ Surface!None \in Nat \X Nat
    BY <1>1, LineIs DEF Surface!None
  <2>2. ASSUME NEW ops \in SUBSET (Files \X Files), NEW none \in Nat \X Nat, NEW t,
               t = [ok |-> s.ok, paths |-> s.paths, added |-> s.added, ops |-> ops, minus |-> {},
                    seenPlus |-> FALSE, meta |-> FALSE, current |-> Null,
                    inHunk |-> FALSE, oldLeft |-> 0, newLeft |-> 0, newLine |-> 0,
                    prevOld |-> none, prevNew |-> none]
        PROVE  /\ t \in Reading /\ t.added = s.added /\ ~t.inHunk
               /\ Shared(t) = <<s.ok, s.paths, ops, {}, FALSE, FALSE, Null, none, none>>
    BY <2>2 DEF Reading, Shared, Sides
  <2> QED
    BY <1>1, <2>1, <2>2 DEF Surface!Open, Surface!Section
<1>2. CASE line.is = "minus"
  <2>1. ASSUME NEW minus \in SUBSET Sides, NEW t,
               t = [s EXCEPT !.minus = minus, !.inHunk = FALSE]
        PROVE  /\ t \in Reading /\ t.added = s.added /\ ~t.inHunk
               /\ Shared(t) = <<s.ok, s.paths, s.ops, minus, s.seenPlus, s.meta, s.current,
                                s.prevOld, s.prevNew>>
    BY <2>1 DEF Reading, Shared
  <2>2. {line.file} \in SUBSET Sides
    BY <1>2, LineIs
  <2> QED
    BY <1>2, <2>1, <2>2 DEF Surface!Minus
<1>3. CASE line.is = "plus" /\ s.minus # {}
  <2> DEFINE met == s.paths \cup Surface!Sides(CHOOSE f \in s.minus : TRUE, line.file)
  <2>1. ASSUME NEW paths \in SUBSET Sides, NEW file \in Sides, NEW t,
               t = [s EXCEPT !.seenPlus = TRUE, !.paths = paths, !.current = file,
                             !.inHunk = FALSE, !.newLine = 0]
        PROVE  /\ t \in Reading /\ t.added = s.added /\ ~t.inHunk
               /\ Shared(t) = <<s.ok, paths, s.ops, s.minus, TRUE, s.meta, file, s.prevOld,
                                s.prevNew>>
    <3>1. t \in Reading
      <4> DEFINE u == [s EXCEPT !.seenPlus = TRUE, !.paths = paths, !.current = file]
      <4>1. u \in Reading
        BY DEF Reading
      <4> DEFINE v == [u EXCEPT !.inHunk = FALSE]
      <4>2. t = [v EXCEPT !.newLine = 0]
        BY <2>1 DEF Reading
      <4> HIDE DEF u
      <4>3. v \in Reading
        BY <4>1 DEF Reading
      <4> HIDE DEF v
      <4> QED
        BY <4>2, <4>3 DEF Reading
    <3>2. /\ t.added = s.added /\ ~t.inHunk /\ t.ok = s.ok /\ t.paths = paths /\ t.ops = s.ops
          /\ t.minus = s.minus /\ t.seenPlus /\ t.seenPlus \in BOOLEAN /\ t.meta = s.meta
          /\ t.current = file /\ t.prevOld = s.prevOld /\ t.prevNew = s.prevNew
      BY <2>1 DEF Reading
    <3> QED
      BY <3>1, <3>2 DEF Shared
  <2>2. line.file \in Sides
    BY <1>3, LineIs
  <2>3. met \in SUBSET Sides
    <3>1. s.minus \subseteq Sides /\ s.paths \subseteq Sides
      BY DEF Reading
    <3>2. (CHOOSE f \in s.minus : TRUE) \in Sides
      BY <1>3, <3>1
    <3> QED
      BY <2>2, <3>1, <3>2 DEF Surface!Sides
  <2> HIDE DEF met
  <2>4. Surface!Plus(s, line) =
          [s EXCEPT !.seenPlus = TRUE, !.paths = met, !.current = line.file,
                    !.inHunk = FALSE, !.newLine = 0]
    BY DEF Surface!Plus, met
  <2>5. LET t == Surface!Plus(s, line) IN
        /\ t \in Reading /\ t.added = s.added /\ ~t.inHunk
        /\ Shared(t) = <<s.ok, met, s.ops, s.minus, TRUE, s.meta, line.file, s.prevOld, s.prevNew>>
    BY <2>1, <2>2, <2>3, <2>4
  <2> QED
    BY <1>3, <2>5 DEF met
<1>4. CASE line.is \in {"index", "mode"}
  <2>1. ASSUME NEW meta \in BOOLEAN, NEW t, t = [s EXCEPT !.inHunk = FALSE, !.meta = meta]
        PROVE  /\ t \in Reading /\ t.added = s.added /\ ~t.inHunk
               /\ Shared(t) = <<s.ok, s.paths, s.ops, s.minus, s.seenPlus, meta, s.current,
                                s.prevOld, s.prevNew>>
    BY <2>1 DEF Reading, Shared
  <2>2. (s.meta \/ line.is = "mode") \in BOOLEAN
    OBVIOUS
  <2> QED
    BY <1>4, <2>1, <2>2 DEF Surface!Meta
<1> QED
  BY <1>1, <1>2, <1>3, <1>4

\* A hunk header: the full reading will meet the lines the other takes at once.
LEMMA HunkReading ==
  ASSUME Surface!HunkAssumption, NEW s \in Reading, NEW at \in Hunks, NEW isFull \in BOOLEAN,
         Surface!HunkFits(s, at)
  PROVE  LET t == Surface!Hunk(s, at, isFull) IN
         /\ at.new[1] \in Nat /\ at.new[2] \in Nat /\ at.old[2] \in Nat
         /\ t \in Reading /\ t.inHunk /\ t.oldLeft = at.old[2] /\ t.newLeft = at.new[2]
         /\ Shared(t) = <<s.ok, s.paths, s.ops, s.minus, s.seenPlus, s.meta, s.current, at.old,
                          at.new>>
         /\ isFull /\ s.current # Null => t.newLine = at.new[1]
         /\ t.added = IF isFull THEN s.added
                      ELSE s.added \cup Interval(s.current, at.new[1], at.new[2])
<1>1. /\ at.old \in Nat \X Nat /\ at.new \in Nat \X Nat
      /\ at.new[1] \in Nat /\ at.new[2] \in Nat /\ at.old[2] \in Nat
  BY DEF Surface!HunkAssumption
<1> DEFINE oldRange == at.old
           newRange == at.new
           oldCount == at.old[2]
           newCount == at.new[2]
           first == IF isFull /\ s.current # Null THEN at.new[1] ELSE 0
           grown == IF isFull THEN s.added
                    ELSE s.added \cup Interval(s.current, at.new[1], at.new[2])
           opened == Surface!Hunk(s, at, isFull)
<1>2. opened = [s EXCEPT !.oldLeft = oldCount, !.newLeft = newCount, !.prevOld = oldRange,
                         !.prevNew = newRange, !.inHunk = TRUE, !.newLine = first,
                         !.added = grown]
  BY DEF Surface!Hunk, Interval
<1>3. grown \in SUBSET (Sides \X Int)
  <2>1. s.added \subseteq Sides \X Int /\ s.current \in Sides
    BY DEF Reading
  <2>2. Interval(s.current, at.new[1], at.new[2]) \subseteq Sides \X Int
    BY <1>1, <2>1 DEF Interval
  <2> QED
    BY <2>1, <2>2
<1>4. /\ oldRange \in Nat \X Nat /\ newRange \in Nat \X Nat
      /\ oldCount \in Int /\ newCount \in Int /\ first \in Int
  BY <1>1
<1>5. isFull /\ s.current # Null => first = at.new[1]
  OBVIOUS
<1> HIDE DEF opened, grown, first, oldCount, newCount, oldRange, newRange
<1>6. opened \in Reading
  <2> DEFINE u == [s EXCEPT !.oldLeft = oldCount, !.newLeft = newCount]
             v == [u EXCEPT !.prevOld = oldRange, !.prevNew = newRange]
             x == [v EXCEPT !.inHunk = TRUE, !.newLine = first]
  <2>1. u \in Reading
    BY <1>4 DEF Reading
  <2>2. opened = [x EXCEPT !.added = grown]
    BY <1>2 DEF Reading
  <2> HIDE DEF u
  <2>3. v \in Reading
    BY <1>4, <2>1 DEF Reading
  <2> HIDE DEF v
  <2>4. x \in Reading
    BY <1>4, <2>3 DEF Reading
  <2> HIDE DEF x
  <2> QED
    BY <1>3, <2>2, <2>4 DEF Reading
<1>7. /\ opened.ok = s.ok /\ opened.paths = s.paths /\ opened.ops = s.ops
      /\ opened.minus = s.minus /\ opened.seenPlus = s.seenPlus /\ opened.meta = s.meta
      /\ opened.current = s.current
  BY <1>2 DEF Reading
<1>8. /\ opened.prevOld = oldRange /\ opened.prevNew = newRange /\ opened.inHunk
      /\ opened.oldLeft = oldCount /\ opened.newLeft = newCount /\ opened.newLine = first
      /\ opened.added = grown
  BY <1>2 DEF Reading
<1> QED
  BY <1>1, <1>5, <1>6, <1>7, <1>8 DEF Shared, opened, grown, oldCount, newCount, oldRange, newRange

\* What decides about a header is shared.
LEMMA SameJudgement ==
  ASSUME NEW s, NEW t, Shared(s) = Shared(t)
  PROVE  /\ Surface!SectionClosed(s) <=> Surface!SectionClosed(t)
         /\ \A f : Surface!Paired(s, f) <=> Surface!Paired(t, f)
         /\ \A at : Surface!HunkFits(s, at) <=> Surface!HunkFits(t, at)
         /\ s.ok = t.ok /\ s.paths = t.paths /\ s.ops = t.ops /\ s.minus = t.minus
         /\ s.seenPlus = t.seenPlus /\ s.meta = t.meta /\ s.current = t.current
         /\ s.prevOld = t.prevOld /\ s.prevNew = t.prevNew
<1>1. /\ s.ok = t.ok /\ s.paths = t.paths /\ s.ops = t.ops /\ s.minus = t.minus
      /\ s.seenPlus = t.seenPlus /\ s.meta = t.meta /\ s.current = t.current
      /\ s.prevOld = t.prevOld /\ s.prevNew = t.prevNew
  BY DEF Shared
<1> QED
  BY <1>1 DEF Surface!SectionClosed, Surface!Paired, Surface!HunkFits

\* The projection: what it counts and when it leaves the hunk.
LEMMA ProjectionCounts ==
  ASSUME Surface!HunkAssumption, NEW k \in Counters, NEW line \in Surface!Lines
  PROVE  LET t == Surface!Project(k, line) IN
         /\ t \in Counters
         /\ Surface!Counts(k, line) =>
              /\ t.ok = k.ok /\ t.inHunk = k.inHunk
              /\ line.is \in Surface!Adds =>
                   t.newLeft = k.newLeft - 1 /\ t.oldLeft = k.oldLeft
              /\ line.is \notin Surface!Adds =>
                   t.newLeft = k.newLeft /\ t.oldLeft = k.oldLeft - 1
         /\ ~Surface!Counts(k, line) /\ line.is = "hunk" =>
              /\ t.ok = k.ok /\ t.inHunk
              /\ t.oldLeft = line.at.old[2] /\ t.newLeft = line.at.new[2]
         /\ ~Surface!Counts(k, line) /\ line.is \in Surface!Headers \ {"hunk"} =>
              t.ok = k.ok /\ ~t.inHunk
         /\ line.is = "noeol" => t = k
<1> DEFINE t == Surface!Project(k, line)
<1>1. CASE Surface!Counts(k, line) /\ line.is \in Surface!Adds
  <2> DEFINE n == k.newLeft - 1
  <2>1. t = [k EXCEPT !.newLeft = n] /\ n \in Int
    BY <1>1 DEF Surface!Project, Counters
  <2> HIDE DEF n, t
  <2>2. /\ t \in Counters /\ t.ok = k.ok /\ t.inHunk = k.inHunk /\ t.newLeft = n
        /\ t.oldLeft = k.oldLeft
    BY <2>1 DEF Counters
  <2>3. line.is # "noeol"
    BY <1>1 DEF Surface!Adds
  <2> QED
    BY <1>1, <2>2, <2>3 DEF n, t
<1>2. CASE Surface!Counts(k, line) /\ line.is \notin Surface!Adds
  <2> DEFINE n == k.oldLeft - 1
  <2>1. t = [k EXCEPT !.oldLeft = n] /\ n \in Int
    BY <1>2 DEF Surface!Project, Counters
  <2> HIDE DEF n, t
  <2>2. /\ t \in Counters /\ t.ok = k.ok /\ t.inHunk = k.inHunk /\ t.oldLeft = n
        /\ t.newLeft = k.newLeft
    BY <2>1 DEF Counters
  <2>3. line.is # "noeol"
    BY <1>2 DEF Surface!Counts, Surface!Adds, Surface!Dels
  <2> QED
    BY <1>2, <2>2, <2>3 DEF n, t
<1>3. CASE ~Surface!Counts(k, line) /\ line.is = "hunk"
  <2> DEFINE old == line.at.old[2]
             new == line.at.new[2]
  <2>1. t = [k EXCEPT !.oldLeft = old, !.newLeft = new, !.inHunk = TRUE]
    BY <1>3 DEF Surface!Project
  <2>2. old \in Int /\ new \in Int
    BY <1>3, LineIs DEF Surface!HunkAssumption
  <2> HIDE DEF old, new, t
  <2>3. /\ t \in Counters /\ t.ok = k.ok /\ t.inHunk /\ t.oldLeft = old /\ t.newLeft = new
    BY <2>1, <2>2 DEF Counters
  <2> QED
    BY <1>3, <2>3 DEF old, new, t
<1>4. CASE ~Surface!Counts(k, line) /\ line.is # "hunk"
  <2>1. \/ line.is \in Surface!Headers /\ t = [k EXCEPT !.inHunk = FALSE]
        \/ line.is = "noeol" /\ t = k
        \/ line.is \notin Surface!Headers \cup {"noeol"} /\ t = [k EXCEPT !.ok = FALSE]
    BY <1>4 DEF Surface!Project, Surface!Headers
  <2> HIDE DEF t
  <2>2. t \in Counters /\ (line.is \in Surface!Headers => t.ok = k.ok /\ ~t.inHunk)
    BY <2>1 DEF Counters, Surface!Headers
  <2>3. line.is = "noeol" => t = k
    BY <2>1 DEF Surface!Headers
  <2> QED
    BY <1>4, <2>2, <2>3 DEF t
<1> QED
  BY <1>1, <1>2, <1>3, <1>4

\* A line that begins with + or - while the hunk owes lines: content for both.
LEMMA ContentStep ==
  ASSUME Surface!HunkAssumption, SurfaceInv, InStep, NEW line \in Surface!Lines,
         Surface!Feed(line), Surface!Content(full, line)
  PROVE  SurfaceInv'
<1>1. /\ full \in Reading /\ keep \in Counters /\ full.inHunk /\ keep.inHunk
      /\ keep.oldLeft = full.oldLeft /\ keep.newLeft = full.newLeft
      /\ full.oldLeft \in Nat /\ full.newLeft \in Nat /\ full.newLine \in Int
      /\ full.oldLeft > 0 \/ full.newLeft > 0
  BY DEF SurfaceInv, InStep, Reading, Surface!Content, Surface!Owes
<1>2. Surface!Counts(keep, line)
  BY <1>1 DEF Surface!Counts, Surface!Content, Surface!Owes
<1>3. heads' = heads /\ full'.ok /\ keep' = Surface!Project(keep, line)
  BY <1>2 DEF Surface!Feed, Surface!Kept
<1>4. /\ keep' \in Counters /\ keep'.ok = keep.ok /\ keep'.inHunk = keep.inHunk
      /\ line.is \in Surface!Adds =>
           keep'.newLeft = keep.newLeft - 1 /\ keep'.oldLeft = keep.oldLeft
      /\ line.is \notin Surface!Adds =>
           keep'.newLeft = keep.newLeft /\ keep'.oldLeft = keep.oldLeft - 1
  BY <1>1, <1>2, <1>3, ProjectionCounts
<1>5. CASE line.is \in Surface!Adds
  <2>1. full' = Surface!Take(full)
    BY <1>5 DEF Surface!Feed, Surface!Read
  <2>2. /\ full.current # Null
        /\ full' \in Reading /\ Outside(full') = Outside(full)
        /\ full'.oldLeft = full.oldLeft /\ full'.newLeft = full.newLeft - 1
        /\ full'.newLine = full.newLine + 1
        /\ full'.added = full.added \cup {<<full.current, full.newLine>>}
    BY <1>1, <1>3, <2>1, TakeReading
  <2>3. /\ keep' \in Counters /\ keep'.newLeft = full'.newLeft /\ keep'.oldLeft = full'.oldLeft
        /\ keep'.ok = keep.ok /\ keep'.inHunk = keep.inHunk
    BY <1>1, <1>4, <1>5, <2>2
  <2>4. full'.inHunk = full.inHunk /\ Shared(full') = Shared(full)
    BY <2>2 DEF Outside
  <2>5. full'.current = full.current
    BY <2>4 DEF Shared
  <2>6. CASE full.newLeft = 0
    BY <1>1, <2>2, <2>3, <2>4, <2>6 DEF SurfaceInv, Overrun
  <2>7. CASE full.newLeft > 0
    <3>1. Pending(full) = {<<full.current, full.newLine>>} \cup Pending(full')
      <4>1. \A n : n \in full.newLine..(full.newLine + full.newLeft - 1)
                   <=> n = full.newLine \/ n \in full'.newLine..(full'.newLine + full'.newLeft - 1)
        BY <1>1, <2>2, <2>7
      <4> QED
        BY <1>1, <2>2, <2>4, <2>5, <4>1 DEF Pending, Interval
    <3>2. heads'.added = full'.added \cup Pending(full')
      BY <1>3, <2>2, <3>1 DEF InStep
    <3>3. InStep'
      BY <1>1, <1>3, <2>2, <2>3, <2>4, <2>7, <3>2 DEF InStep, Pending
    <3> QED
      BY <2>2, <2>3, <3>3 DEF SurfaceInv
  <2> QED
    BY <1>1, <2>6, <2>7
<1>6. CASE line.is \notin Surface!Adds
  <2>1. full' = Surface!Drop(full)
    BY <1>6 DEF Surface!Feed, Surface!Read
  <2>2. /\ full' \in Reading /\ Outside(full') = Outside(full)
        /\ full'.oldLeft = full.oldLeft - 1 /\ full'.newLeft = full.newLeft
        /\ full'.newLine = full.newLine /\ full'.added = full.added
    BY <1>1, <2>1, DropReading
  <2>3. /\ keep' \in Counters /\ keep'.newLeft = full'.newLeft /\ keep'.oldLeft = full'.oldLeft
        /\ keep'.ok = keep.ok /\ keep'.inHunk = keep.inHunk
    BY <1>1, <1>4, <1>6, <2>2
  <2>4. full'.inHunk = full.inHunk /\ Shared(full') = Shared(full)
    BY <2>2 DEF Outside
  <2>5. full'.current = full.current
    BY <2>4 DEF Shared
  <2>6. CASE full.oldLeft = 0
    BY <1>1, <2>2, <2>3, <2>4, <2>6 DEF SurfaceInv, Overrun
  <2>7. CASE full.oldLeft > 0
    <3>1. Pending(full') = Pending(full)
      BY <2>2, <2>4, <2>5 DEF Pending, Interval
    <3>2. InStep'
      BY <1>1, <1>3, <2>2, <2>3, <2>4, <2>7, <3>1 DEF InStep, Pending
    <3> QED
      BY <2>2, <2>3, <3>2 DEF SurfaceInv
  <2> QED
    BY <1>1, <2>6, <2>7
<1> QED
  BY <1>5, <1>6

\* A header, which the projection keeps and both readings take in.
LEMMA HeaderStep ==
  ASSUME Surface!HunkAssumption, SurfaceInv, InStep, NEW line \in Surface!Lines,
         Surface!Feed(line), ~Surface!Content(full, line), line.is \in Surface!Headers
  PROVE  SurfaceInv'
<1>1. full \in Reading /\ heads \in Reading
  BY DEF SurfaceInv, InStep
<1>2. /\ full \in Reading /\ heads \in Reading /\ keep \in Counters /\ keep.ok /\ full.ok
      /\ heads.ok /\ Shared(heads) = Shared(full) /\ full'.ok
      /\ full' = Surface!Read(full, line, TRUE) /\ keep' = Surface!Project(keep, line)
  BY SameJudgement DEF SurfaceInv, InStep, Surface!Feed
<1>3. ~Surface!Counts(keep, line)
  BY DEF InStep, Surface!Counts, Surface!Content, Surface!Owes
<1>4. heads' = Surface!Read(heads, line, FALSE)
  BY <1>2, <1>3 DEF Surface!Feed, Surface!Kept
<1>5. Surface!HunkClosed(heads, FALSE)
  BY DEF Surface!HunkClosed
<1>6. full' # Surface!Refused(full)
  BY <1>2, RefusedReading
<1>7. Surface!HunkClosed(full, TRUE)
  BY <1>2, <1>6 DEF Surface!Read, Surface!Headers
<1>8. heads.added = full.added
  <2>1. full.newLine \in Int
    BY <1>2 DEF Reading
  <2>2. full.inHunk => full.newLine..(full.newLine + full.newLeft - 1) = {}
    BY <1>7, <2>1 DEF Surface!HunkClosed
  <2>3. Pending(full) = {}
    BY <2>2 DEF Pending, Interval
  <2> QED
    BY <2>3 DEF InStep
<1>9. /\ keep' \in Counters
      /\ line.is = "hunk" => /\ keep'.ok /\ keep'.inHunk
                             /\ keep'.oldLeft = line.at.old[2] /\ keep'.newLeft = line.at.new[2]
      /\ line.is # "hunk" => keep'.ok /\ ~keep'.inHunk
  BY <1>2, <1>3, ProjectionCounts DEF Surface!Headers
<1>10. ASSUME line.is # "hunk", full' \in Reading, heads' \in Reading,
             ~full'.inHunk, full'.added = full.added, heads'.added = heads.added,
             Shared(heads') = Shared(full')
      PROVE  SurfaceInv'
  <2>1. Pending(full') = {} /\ heads'.added = full'.added
    BY <1>8, <1>10 DEF Pending
  <2>2. keep'.inHunk = full'.inHunk
    BY <1>2, <1>9, <1>10 DEF Counters, Reading
  <2>3. InStep'
    BY <1>2, <1>9, <1>10, <2>1, <2>2 DEF InStep
  <2> QED
    BY <1>9, <1>10, <2>3 DEF SurfaceInv
<1>11. CASE line.is = "diff"
  <2>1. full' = Surface!Open(full, line) /\ Surface!SectionClosed(heads)
    BY <1>2, <1>6, <1>11, SameJudgement DEF Surface!Read
  <2>2. heads' = Surface!Open(heads, line)
    BY <1>4, <1>5, <1>11, <2>1 DEF Surface!Read
  <2>3. /\ full' \in Reading /\ full'.added = full.added /\ ~full'.inHunk
        /\ Shared(full') = <<full.ok, full.paths, {<<line.old, line.new>>}, {}, FALSE, FALSE, Null,
                             Surface!None, Surface!None>>
    BY <1>1, <1>11, <2>1, HeaderReading
  <2>4. /\ heads' \in Reading /\ heads'.added = heads.added
        /\ Shared(heads') = <<heads.ok, heads.paths, {<<line.old, line.new>>}, {}, FALSE, FALSE,
                              Null, Surface!None, Surface!None>>
    BY <1>1, <1>11, <2>2, HeaderReading
  <2> QED
    BY <1>2, <1>10, <1>11, <2>3, <2>4, SameJudgement
<1>12. CASE line.is = "minus"
  <2>1. full' = Surface!Minus(full, line) /\ heads.ops # {} /\ heads.minus = {}
    BY <1>2, <1>6, <1>12, SameJudgement DEF Surface!Read
  <2>2. heads' = Surface!Minus(heads, line)
    BY <1>4, <1>5, <1>12, <2>1 DEF Surface!Read
  <2>3. /\ full' \in Reading /\ full'.added = full.added /\ ~full'.inHunk
        /\ Shared(full') = <<full.ok, full.paths, full.ops, {line.file}, full.seenPlus, full.meta,
                             full.current, full.prevOld, full.prevNew>>
    BY <1>1, <1>12, <2>1, HeaderReading
  <2>4. /\ heads' \in Reading /\ heads'.added = heads.added
        /\ Shared(heads') = <<heads.ok, heads.paths, heads.ops, {line.file}, heads.seenPlus,
                              heads.meta, heads.current, heads.prevOld, heads.prevNew>>
    BY <1>1, <1>12, <2>2, HeaderReading
  <2> QED
    BY <1>2, <1>10, <1>12, <2>3, <2>4, SameJudgement
<1>13. CASE line.is = "plus"
  <2>1. /\ full' = Surface!Plus(full, line) /\ full.minus # {}
        /\ heads.minus # {} /\ ~heads.seenPlus /\ Surface!Paired(heads, line.file)
    BY <1>2, <1>6, <1>13, SameJudgement DEF Surface!Read
  <2>2. heads' = Surface!Plus(heads, line)
    BY <1>4, <1>5, <1>13, <2>1 DEF Surface!Read
  <2> DEFINE met(s) == s.paths \cup Surface!Sides(CHOOSE f \in s.minus : TRUE, line.file)
  <2>3. /\ full' \in Reading /\ full'.added = full.added /\ ~full'.inHunk
        /\ Shared(full') = <<full.ok, met(full), full.ops, full.minus, TRUE, full.meta,
                             line.file, full.prevOld, full.prevNew>>
    BY <1>1, <1>13, <2>1, HeaderReading
  <2>4. /\ heads' \in Reading /\ heads'.added = heads.added
        /\ Shared(heads') = <<heads.ok, met(heads), heads.ops, heads.minus, TRUE, heads.meta,
                              line.file, heads.prevOld, heads.prevNew>>
    BY <1>1, <1>13, <2>1, <2>2, HeaderReading
  <2> QED
    BY <1>2, <1>10, <1>13, <2>3, <2>4, SameJudgement
<1>14. CASE line.is \in {"index", "mode"}
  <2>1. full' = Surface!Meta(full, line) /\ heads.ops # {}
    BY <1>2, <1>6, <1>14, SameJudgement DEF Surface!Read
  <2>2. heads' = Surface!Meta(heads, line)
    BY <1>4, <1>5, <1>14, <2>1 DEF Surface!Read
  <2>3. /\ full' \in Reading /\ full'.added = full.added /\ ~full'.inHunk
        /\ Shared(full') = <<full.ok, full.paths, full.ops, full.minus, full.seenPlus,
                             full.meta \/ line.is = "mode", full.current, full.prevOld,
                             full.prevNew>>
    BY <1>1, <1>14, <2>1, HeaderReading
  <2>4. /\ heads' \in Reading /\ heads'.added = heads.added
        /\ Shared(heads') = <<heads.ok, heads.paths, heads.ops, heads.minus, heads.seenPlus,
                              heads.meta \/ line.is = "mode", heads.current, heads.prevOld,
                              heads.prevNew>>
    BY <1>1, <1>14, <2>2, HeaderReading
  <2> QED
    BY <1>2, <1>10, <1>14, <2>3, <2>4, SameJudgement
<1>15. CASE line.is = "hunk"
  <2>1. /\ full' = Surface!Hunk(full, line.at, TRUE) /\ Surface!HunkFits(full, line.at)
        /\ heads.seenPlus /\ Surface!HunkFits(heads, line.at)
    BY <1>2, <1>6, <1>15, SameJudgement DEF Surface!Read
  <2>2. heads' = Surface!Hunk(heads, line.at, FALSE)
    BY <1>4, <1>5, <1>15, <2>1 DEF Surface!Read
  <2>3. line.at \in Hunks
    BY <1>15, LineIs
  <2>4. /\ line.at.new[1] \in Nat /\ line.at.new[2] \in Nat /\ line.at.old[2] \in Nat
        /\ full' \in Reading /\ full'.inHunk /\ full'.oldLeft = line.at.old[2]
        /\ full'.newLeft = line.at.new[2] /\ full'.added = full.added
        /\ full.current # Null => full'.newLine = line.at.new[1]
        /\ Shared(full') = <<full.ok, full.paths, full.ops, full.minus, full.seenPlus, full.meta,
                             full.current, line.at.old, line.at.new>>
    BY <1>1, <2>1, <2>3, HunkReading
  <2>5. /\ heads' \in Reading
        /\ heads'.added = heads.added \cup Interval(heads.current, line.at.new[1], line.at.new[2])
        /\ Shared(heads') = <<heads.ok, heads.paths, heads.ops, heads.minus, heads.seenPlus,
                              heads.meta, heads.current, line.at.old, line.at.new>>
    BY <1>1, <2>1, <2>2, <2>3, HunkReading
  <2>6. heads.current = full.current /\ Shared(heads') = Shared(full')
    BY <1>2, <2>4, <2>5, SameJudgement
  <2>7. full'.current = full.current
    BY <2>4 DEF Shared
  <2>8. Pending(full') = Interval(full.current, line.at.new[1], line.at.new[2])
    <3>1. CASE full.current # Null
      BY <2>4, <2>7, <3>1 DEF Pending
    <3>2. CASE full.current = Null
      <4>1. line.at.new[2] = 0
        BY <2>1, <3>2 DEF Surface!HunkFits
      <4>2. line.at.new[1]..(line.at.new[1] + line.at.new[2] - 1) = {}
        BY <2>4, <4>1
      <4> QED
        BY <2>7, <3>2, <4>2 DEF Pending, Interval
    <3> QED
      BY <3>1, <3>2
  <2>9. heads'.added = full'.added \cup Pending(full')
    BY <1>8, <2>4, <2>5, <2>6, <2>8
  <2>10. keep'.inHunk = full'.inHunk
    BY <1>9, <1>15, <2>4 DEF Counters, Reading
  <2>11. /\ keep'.ok /\ keep'.oldLeft = full'.oldLeft /\ full'.oldLeft >= 0
         /\ keep'.newLeft = full'.newLeft /\ full'.newLeft >= 0
    BY <1>9, <1>15, <2>4
  <2>12. InStep'
    BY <1>2, <2>5, <2>6, <2>9, <2>10, <2>11 DEF InStep
  <2> QED
    BY <1>9, <2>4, <2>12 DEF SurfaceInv
<1> QED
  BY <1>11, <1>12, <1>13, <1>14, <1>15 DEF Surface!Headers

\* A line of the hunk that it does not owe, or a text that has overrun already: the
\* full reading goes on counting, and stays beyond what was announced.
LEMMA OverrunStep ==
  ASSUME Surface!HunkAssumption, SurfaceInv, NEW line \in Surface!Lines, Surface!Feed(line),
         Overrun \/ line.is \notin Surface!Headers, ~(InStep /\ Surface!Content(full, line))
  PROVE  SurfaceInv'
<1>1. /\ full \in Reading /\ full'.ok /\ full' = Surface!Read(full, line, TRUE)
      /\ keep' = Surface!Project(keep, line) /\ keep' \in Counters
  BY ProjectionCounts DEF SurfaceInv, Surface!Feed
<1>2. full' # Surface!Refused(full) /\ full.oldLeft \in Int /\ full.newLeft \in Int
  BY <1>1, RefusedReading DEF Reading
<1>3. full.inHunk
  BY <1>1, <1>2 DEF Surface!Read, Surface!Content, Surface!Owes, Overrun, Surface!Headers
<1>4. Overrun => ~Surface!HunkClosed(full, TRUE)
  BY <1>2 DEF Overrun, Surface!HunkClosed
<1>5. \/ /\ full' = Surface!Take(full) /\ line.is \in Surface!Adds
      \/ /\ full' = Surface!Drop(full) /\ line.is \in Surface!Dels
      \/ /\ full' = full /\ line.is = "noeol" /\ ~Surface!Content(full, line)
  <2>1. CASE Surface!Content(full, line)
    BY <1>1, <2>1 DEF Surface!Read, Surface!Content
  <2>2. CASE ~Surface!Content(full, line)
    <3>1. line.is \notin Surface!Headers
      BY <1>1, <1>2, <1>4, <2>2 DEF Surface!Read, Surface!Headers
    <3>2. line.is \in {"add", "del", "noeol", "context"}
      BY <3>1, LineIs DEF Surface!Headers
    <3> QED
      BY <1>1, <1>2, <1>3, <2>2, <3>2 DEF Surface!Read, Surface!Adds, Surface!Dels
  <2> QED
    BY <2>1, <2>2
<1>6. CASE full' = full /\ line.is = "noeol" /\ ~Surface!Content(full, line)
  <2>1. keep' = keep /\ heads' = heads
    <3>1. keep' = keep
      BY <1>1, <1>6, ProjectionCounts DEF SurfaceInv
    <3>2. ~Surface!Kept(keep, line)
      BY <1>6 DEF Surface!Kept, Surface!Headers
    <3> QED
      BY <3>1, <3>2 DEF Surface!Feed
  <2> QED
    BY <1>6, <2>1 DEF SurfaceInv, InStep, Overrun, Pending
<1>7. CASE line.is \in Surface!Adds /\ full' = Surface!Take(full)
  <2>1. /\ full' \in Reading /\ Outside(full') = Outside(full)
        /\ full'.oldLeft = full.oldLeft /\ full'.newLeft = full.newLeft - 1
    BY <1>1, <1>7, TakeReading
  <2>2. full.newLeft <= 0 \/ Overrun
    BY <1>2, <1>3, <1>7 DEF SurfaceInv, Overrun, Surface!Content, Surface!Owes
  <2>3. full'.inHunk = full.inHunk
    BY <2>1 DEF Outside
  <2>4. Overrun'
    BY <1>2, <1>3, <2>1, <2>2, <2>3 DEF Overrun
  <2> QED
    BY <1>1, <2>1, <2>4 DEF SurfaceInv
<1>8. CASE line.is \in Surface!Dels /\ full' = Surface!Drop(full)
  <2>1. /\ full' \in Reading /\ Outside(full') = Outside(full)
        /\ full'.oldLeft = full.oldLeft - 1 /\ full'.newLeft = full.newLeft
    BY <1>1, <1>8, DropReading
  <2>2. full.oldLeft <= 0 \/ Overrun
    BY <1>2, <1>3, <1>8 DEF SurfaceInv, Overrun, Surface!Content, Surface!Owes
  <2>3. full'.inHunk = full.inHunk
    BY <2>1 DEF Outside
  <2>4. Overrun'
    BY <1>2, <1>3, <2>1, <2>2, <2>3 DEF Overrun
  <2> QED
    BY <1>1, <2>1, <2>4 DEF SurfaceInv
<1> QED
  BY <1>5, <1>6, <1>7, <1>8

\* The surface that the stop rule counts does not depend on which text was archived:
\* what parse_diff_surface accepts in full it accepts of project_hunk_headers too, and
\* reads the same added lines, whatever the files, the ranges and the length of the text.
THEOREM ReadingsAgree ==
  ASSUME Surface!HunkAssumption
  PROVE  Surface!Spec => []Surface!SurfaceIsExact
<1>1. Surface!Init => SurfaceInv
  <2> SUFFICES ASSUME Surface!Init PROVE SurfaceInv
    OBVIOUS
  <2> DEFINE text == Surface!Empty
  <2>1. text \in Reading /\ text.ok /\ text.added = {} /\ ~text.inHunk
    BY DEF Surface!Empty, Surface!Section, Surface!None, Reading, Sides
  <2>2. full = text /\ heads = text
    BY DEF Surface!Init
  <2>3. keep \in Counters /\ keep.ok /\ keep.inHunk = FALSE
    BY DEF Surface!Init, Counters
  <2>4. text.inHunk = FALSE
    BY DEF Surface!Empty, Surface!Section
  <2> HIDE DEF text
  <2>5. Pending(full) = {}
    BY <2>1, <2>2 DEF Pending
  <2> QED
    BY <2>1, <2>2, <2>3, <2>4, <2>5 DEF SurfaceInv, InStep
<1>2. SurfaceInv /\ [Surface!Next]_Surface!vars => SurfaceInv'
  <2>1. ASSUME SurfaceInv, UNCHANGED Surface!vars
        PROVE  SurfaceInv'
    BY <2>1 DEF SurfaceInv, InStep, Overrun, Pending, Surface!vars
  <2>2. ASSUME SurfaceInv, NEW line \in Surface!Lines, Surface!Feed(line)
        PROVE  SurfaceInv'
    BY <2>2, ContentStep, HeaderStep, OverrunStep DEF SurfaceInv
  <2> QED
    BY <2>1, <2>2 DEF Surface!Next
<1>3. SurfaceInv => Surface!SurfaceIsExact
  <2> SUFFICES ASSUME SurfaceInv, Surface!Accepted(full, TRUE)
               PROVE  keep.ok /\ Surface!Accepted(heads, FALSE) /\ heads.added = full.added
    BY DEF Surface!SurfaceIsExact
  <2>1. full \in Reading /\ (full.inHunk => full.oldLeft = 0 /\ full.newLeft = 0)
    BY DEF SurfaceInv, Surface!Accepted, Surface!HunkClosed
  <2>2. InStep
    BY <2>1 DEF SurfaceInv, Overrun
  <2>3. Pending(full) = {}
    <3>1. full.newLine \in Int
      BY <2>1 DEF Reading
    <3>2. full.inHunk => full.newLine..(full.newLine + full.newLeft - 1) = {}
      BY <2>1, <3>1
    <3> QED
      BY <3>2 DEF Pending, Interval
  <2>4. Surface!SectionClosed(heads) /\ heads.ok /\ heads.added = full.added
    BY <2>2, <2>3, SameJudgement DEF InStep, Surface!Accepted
  <2> QED
    BY <2>2, <2>4 DEF InStep, Surface!Accepted, Surface!HunkClosed
<1> QED
  BY <1>1, <1>2, <1>3, PTL DEF Surface!Spec
-----------------------------------------------------------------------------
(* Worktrees for fresh sessions *)

CONSTANTS Units, Paths, Targets, Offers, Preparers, Finalizers, MaxPackets, MaxChanges, Nothing
VARIABLES state, packets, tree, prep, fin, bound, raced
Worktrees == INSTANCE FreshSession

Packet == [unit : Units, allowed : SUBSET Paths, state : Worktrees!State]
Binding == [packet : Packet, state : Worktrees!State]
MadeOf(packet) == packet \in Packet /\ packet.state.unit = packet.unit

\* A preparation that made its target has it to itself until it is done.
Active == {"spaces", "packet", "snapshot", "recheck", "session", "fail"}
Owns(y) == y.created /\ y.step \in Active
\* Its target has no session yet, or one half written of its own packet.
Tied(y, x) ==
  Owns(y) =>
    /\ x.here
    /\ y.step # "session" => x.session.seal = "absent"
    /\ y.step = "session" /\ x.session.seal = "open" =>
         x.session.content = Worktrees!Session(y.packet)
Preparing(y) ==
  /\ y = [step |-> y.step, packet |-> y.packet, target |-> y.target, created |-> y.created]
  /\ y.step \in {"idle", "add", "done"} \cup Active /\ y.created \in BOOLEAN
  /\ y.step \in {"add"} \cup Active => MadeOf(y.packet) /\ y.target \in Targets
  /\ y.step = "add" => ~y.created
  /\ y.step \in Active \ {"fail"} => y.created
PrepInv ==
  /\ prep = [p \in Preparers |-> prep[p]]
  /\ \A p \in Preparers :
       /\ Preparing(prep[p]) /\ Tied(prep[p], tree[prep[p].target])
       /\ Owns(prep[p]) => bound[prep[p].target] = Nothing
  /\ \A p, q \in Preparers :
       Owns(prep[p]) /\ Owns(prep[q]) /\ prep[p].target = prep[q].target => p = q

\* A session is sealed where it was bound, and stays.
WholeTree(x) ==
  /\ x = [here |-> x.here, spaces |-> x.spaces, packet |-> x.packet, snapshot |-> x.snapshot,
          session |-> x.session, index |-> x.index, files |-> x.files]
  /\ x.session = [content |-> x.session.content, seal |-> x.session.seal]
WholeSession(s) == s = [packet |-> s.packet, state |-> s.state, tree |-> s.tree, done |-> s.done]
Names(s, b) == WholeSession(s) /\ s.packet = b.packet /\ s.state = b.state
Settled(x, b, inRace) ==
  /\ x.here /\ Worktrees!IsSealed(x.session) /\ b \in Binding
  /\ Names(x.session.content, b)
  /\ b.state.unit = b.packet.unit
  /\ x.session.content.done =>
       Worktrees!Changed(x.session.content.tree) \subseteq b.packet.allowed \/ inRace
TreeInv ==
  /\ tree = [t \in Targets |-> tree[t]] /\ bound = [t \in Targets |-> bound[t]]
  /\ \A t \in Targets :
       /\ WholeTree(tree[t])
       /\ Worktrees!IsSealed(tree[t].session) => bound[t] # Nothing
       /\ bound[t] # Nothing => Settled(tree[t], bound[t], t \in raced)

\* What a finalization has read is of the bound session, whose paths it has checked.
Finalizing(z, staged) ==
  /\ z = [step |-> z.step, target |-> z.target, session |-> z.session, packet |-> z.packet,
          moved |-> z.moved, tree |-> z.tree]
  /\ z.step \in {"idle", "artifacts", "diff", "tree", "replace"} /\ z.moved \in BOOLEAN
  /\ z.step \in {"diff", "tree", "replace"} => z.packet = z.session.packet
  /\ z.step = "tree" => z.moved \/ Worktrees!Changed(staged) \subseteq z.packet.allowed
  /\ z.step = "replace" => z.moved \/ Worktrees!Changed(z.tree) \subseteq z.packet.allowed
FinInv ==
  /\ fin = [f \in Finalizers |-> fin[f]]
  /\ \A f \in Finalizers :
       /\ Finalizing(fin[f], tree[fin[f].target].index)
       /\ fin[f].step # "idle" =>
            /\ fin[f].target \in Targets /\ bound[fin[f].target] # Nothing
            /\ Names(fin[f].session, bound[fin[f].target])

SessionInv ==
  /\ state \in Worktrees!State /\ \A packet \in packets : MadeOf(packet)
  /\ PrepInv /\ TreeInv /\ FinInv

\* A step of one preparation that changes no target, or only one that it has to itself.
LEMMA QuietPreparation ==
  ASSUME SessionInv, NEW p \in Preparers, NEW y, prep' = [prep EXCEPT ![p] = y],
         UNCHANGED <<state, packets, tree, fin, bound, raced>>, Preparing(y),
         Owns(y) => /\ Owns(prep[p]) /\ y.target = prep[p].target
                    /\ Tied(y, tree[y.target])
  PROVE  SessionInv'
<1>1. TreeInv' /\ FinInv'
  BY DEF SessionInv, TreeInv, FinInv
<1>2. /\ prep' = [q \in Preparers |-> prep'[q]] /\ prep'[p] = y
      /\ \A q \in Preparers \ {p} : prep'[q] = prep[q]
  BY DEF SessionInv, PrepInv
<1>3. Tied(y, tree[y.target])
  BY DEF Tied
<1>4. PrepInv'
  <2>1. ASSUME NEW q \in Preparers
        PROVE  /\ Preparing(prep'[q]) /\ Tied(prep'[q], tree[prep'[q].target])
               /\ Owns(prep'[q]) => bound[prep'[q].target] = Nothing
    BY <1>2, <1>3 DEF SessionInv, PrepInv
  <2>2. ASSUME NEW q \in Preparers, NEW r \in Preparers, Owns(prep'[q]), Owns(prep'[r]),
               prep'[q].target = prep'[r].target
        PROVE  q = r
    BY <1>2, <2>2 DEF SessionInv, PrepInv
  <2> QED
    BY <1>2, <2>1, <2>2 DEF PrepInv, Preparing, Tied, Owns, MadeOf
<1> QED
  BY <1>1, <1>4 DEF SessionInv, MadeOf

LEMMA OwnPreparation ==
  ASSUME SessionInv, NEW p \in Preparers, NEW y, NEW u \in Targets, NEW x,
         prep' = [prep EXCEPT ![p] = y], tree' = [tree EXCEPT ![u] = x],
         UNCHANGED <<state, packets, fin, bound, raced>>,
         Preparing(y), y.target = u, Tied(y, x), WholeTree(x),
         bound[u] = Nothing, ~Worktrees!IsSealed(x.session),
         \A q \in Preparers \ {p} : Owns(prep[q]) => prep[q].target # u
  PROVE  SessionInv'
<1>1. /\ prep' = [q \in Preparers |-> prep'[q]] /\ prep'[p] = y
      /\ \A q \in Preparers \ {p} : prep'[q] = prep[q]
  BY DEF SessionInv, PrepInv
<1>2. /\ tree' = [t \in Targets |-> tree'[t]] /\ tree'[u] = x
      /\ \A t \in Targets \ {u} : tree'[t] = tree[t]
  BY DEF SessionInv, TreeInv
<1>3. TreeInv'
  BY <1>2 DEF SessionInv, TreeInv
<1>4. FinInv'
  <2>1. ASSUME NEW f \in Finalizers PROVE Finalizing(fin[f], tree'[fin[f].target].index)
    BY <1>2 DEF SessionInv, FinInv, Finalizing
  <2> QED
    BY <2>1 DEF SessionInv, FinInv, Finalizing
<1>5. PrepInv'
  <2>1. ASSUME NEW q \in Preparers
        PROVE  /\ Preparing(prep'[q]) /\ Tied(prep'[q], tree'[prep'[q].target])
               /\ Owns(prep'[q]) => bound[prep'[q].target] = Nothing
    <3>1. CASE q = p
      BY <1>1, <1>2, <3>1
    <3>2. CASE q # p
      <4>1. prep'[q] = prep[q] /\ Preparing(prep[q]) /\ Tied(prep[q], tree[prep[q].target])
            /\ (Owns(prep[q]) => bound[prep[q].target] = Nothing /\ prep[q].target \in Targets
                                 /\ prep[q].target # u)
        BY <1>1, <3>2 DEF SessionInv, PrepInv, Preparing, Owns
      <4> QED
        BY <1>2, <4>1 DEF Tied
    <3> QED
      BY <3>1, <3>2
  <2>2. ASSUME NEW q \in Preparers, NEW r \in Preparers, Owns(prep'[q]), Owns(prep'[r]),
               prep'[q].target = prep'[r].target
        PROVE  q = r
    BY <1>1, <2>2 DEF SessionInv, PrepInv
  <2> QED
    BY <1>1, <2>1, <2>2 DEF PrepInv, Preparing, Tied, Owns, MadeOf
<1> QED
  BY <1>3, <1>4, <1>5 DEF SessionInv, MadeOf

\* What a preparation that has begun may rely on.
LEMMA Begun ==
  ASSUME SessionInv, NEW p \in Preparers, prep[p].step \in {"add"} \cup Active
  PROVE  /\ Preparing(prep[p]) /\ prep[p].target \in Targets /\ MadeOf(prep[p].packet)
         /\ WholeTree(tree[prep[p].target])
         /\ Tied(prep[p], tree[prep[p].target])
         /\ Owns(prep[p]) =>
              /\ bound[prep[p].target] = Nothing
              /\ ~Worktrees!IsSealed(tree[prep[p].target].session)
              /\ tree[prep[p].target].here
              /\ \A q \in Preparers \ {p} : Owns(prep[q]) => prep[q].target # prep[p].target
  BY DEF SessionInv, PrepInv, TreeInv, Preparing, Tied

\* A step that only goes to another step, and not further with a target.
LEMMA GoesTo ==
  ASSUME SessionInv, NEW p \in Preparers, NEW step,
         Worktrees!Goto(p, step), UNCHANGED <<state, packets, tree, fin, bound, raced>>,
         prep[p].step \in {"add"} \cup Active,
         \/ step \in {"fail", "done"} /\ (step = "fail" => prep[p].step # "session")
         \/ prep[p].step = "recheck" /\ step = "session"
  PROVE  SessionInv'
<1> DEFINE z == prep[p]
           y == [z EXCEPT !.step = step]
<1>1. y = [z EXCEPT !.step = step] /\ prep' = [prep EXCEPT ![p] = y]
  BY DEF Worktrees!Goto
<1>2. Preparing(z) /\ Tied(z, tree[z.target]) /\ z.step \in {"add"} \cup Active
  BY Begun
<1>3. \/ step \in {"fail", "done"} /\ (step = "fail" => z.step # "session")
      \/ z.step = "recheck" /\ step = "session"
  OBVIOUS
<1> HIDE DEF y, z
<1>4. /\ y.step = step /\ y.packet = z.packet /\ y.target = z.target /\ y.created = z.created
      /\ y = [step |-> y.step, packet |-> y.packet, target |-> y.target, created |-> y.created]
  BY <1>1, <1>2 DEF Preparing
<1>5. Preparing(y)
  BY <1>2, <1>3, <1>4 DEF Preparing, Active
<1>6. Owns(y) => Owns(z) /\ Tied(y, tree[y.target])
  BY <1>2, <1>3, <1>4 DEF Preparing, Active, Owns, Tied
<1> QED
  BY <1>1, <1>4, <1>5, <1>6, QuietPreparation DEF z

\* A step of a preparation in a target it has to itself.
LEMMA WorksOn ==
  ASSUME SessionInv, NEW p \in Preparers, Owns(prep[p]), NEW step \in Active \cup {"done"}, NEW x,
         prep' = [prep EXCEPT ![p].step = step], tree' = [tree EXCEPT ![prep[p].target] = x],
         UNCHANGED <<state, packets, fin, bound, raced>>,
         WholeTree(x), ~Worktrees!IsSealed(x.session),
         step # "done" => x.here,
         step \notin {"done", "session"} => x.session.seal = "absent",
         step = "session" /\ x.session.seal = "open" =>
           x.session.content = Worktrees!Session(prep[p].packet)
  PROVE  SessionInv'
<1> DEFINE z == prep[p]
           y == [z EXCEPT !.step = step]
<1>1. y = [z EXCEPT !.step = step] /\ prep' = [prep EXCEPT ![p] = y]
  OBVIOUS
<1>2. /\ Preparing(z) /\ z.step \in Active /\ z.created /\ z.target \in Targets
      /\ bound[z.target] = Nothing
      /\ \A q \in Preparers \ {p} : Owns(prep[q]) => prep[q].target # z.target
  BY Begun DEF Owns
<1>3. /\ tree' = [tree EXCEPT ![z.target] = x]
      /\ step = "session" /\ x.session.seal = "open" =>
           x.session.content = Worktrees!Session(z.packet)
  OBVIOUS
<1> HIDE DEF y, z
<1>4. /\ y.step = step /\ y.packet = z.packet /\ y.target = z.target /\ y.created = z.created
      /\ y = [step |-> y.step, packet |-> y.packet, target |-> y.target, created |-> y.created]
  BY <1>1, <1>2 DEF Preparing
<1>5. Preparing(y)
  BY <1>2, <1>4 DEF Preparing, Active
<1>6. Tied(y, x)
  BY <1>2, <1>3, <1>4 DEF Owns, Tied, Active
<1> QED
  BY <1>1, <1>2, <1>3, <1>4, <1>5, <1>6, OwnPreparation

LEMMA PacketMade ==
  ASSUME SessionInv, Worktrees!SessionAssumption, Worktrees!MakePacket PROVE SessionInv'
<1>1. PICK offer \in Offers :
        /\ state.unit = offer.unit
        /\ packets' = packets \cup {[unit |-> offer.unit, allowed |-> offer.allowed, state |-> state]}
        /\ UNCHANGED <<state, tree, prep, fin, bound, raced>>
  BY DEF Worktrees!MakePacket, Worktrees!Holds
<1>2. MadeOf([unit |-> offer.unit, allowed |-> offer.allowed, state |-> state])
  BY <1>1 DEF MadeOf, Packet, SessionInv, Worktrees!SessionAssumption
<1>3. PrepInv' /\ TreeInv' /\ FinInv'
  BY <1>1 DEF SessionInv, PrepInv, TreeInv, FinInv
<1> QED
  BY <1>1, <1>2, <1>3 DEF SessionInv, MadeOf

LEMMA LoadStep ==
  ASSUME SessionInv, NEW p \in Preparers, Worktrees!Load(p) PROVE SessionInv'
<1>1. PICK packet \in packets, t \in Targets :
        prep' = [prep EXCEPT ![p] = [step |-> "add", packet |-> packet, target |-> t, created |-> FALSE]]
  BY DEF Worktrees!Load
<1> DEFINE y == [step |-> "add", packet |-> packet, target |-> t, created |-> FALSE]
<1>2. Preparing(y) /\ ~Owns(y)
  <2>1. /\ y.step = "add" /\ y.packet = packet /\ y.target = t /\ y.created = FALSE
        /\ y = [step |-> y.step, packet |-> y.packet, target |-> y.target, created |-> y.created]
    OBVIOUS
  <2>2. MadeOf(packet)
    BY DEF SessionInv
  <2> HIDE DEF y
  <2> QED
    BY <2>1, <2>2 DEF Preparing, Owns, Active
<1>3. prep' = [prep EXCEPT ![p] = y] /\ UNCHANGED <<state, packets, tree, fin, bound, raced>>
  BY <1>1 DEF Worktrees!Load, Worktrees!Rest
<1> HIDE DEF y
<1> QED
  BY <1>2, <1>3, QuietPreparation

LEMMA AddStep ==
  ASSUME SessionInv, NEW p \in Preparers, Worktrees!Add(p) PROVE SessionInv'
<1>1. /\ prep[p].step = "add" /\ UNCHANGED <<state, packets, fin, bound, raced>>
      /\ Preparing(prep[p]) /\ prep[p].target \in Targets
  BY Begun DEF Worktrees!Add, Worktrees!Rest
<1>2. CASE Worktrees!Goto(p, "fail") /\ UNCHANGED tree
  BY <1>1, <1>2, GoesTo
<1>3. CASE /\ ~tree[prep[p].target].here
           /\ tree' = [tree EXCEPT ![prep[p].target] = [Worktrees!Absent EXCEPT !.here = TRUE]]
           /\ prep' = [prep EXCEPT ![p].step = "spaces", ![p].created = TRUE]
  <2> DEFINE u == prep[p].target
             x == [Worktrees!Absent EXCEPT !.here = TRUE]
             z == prep[p]
             y == [z EXCEPT !.step = "spaces", !.created = TRUE]
  <2>1. WholeTree(x) /\ x.here /\ x.session.seal = "absent" /\ ~Worktrees!IsSealed(x.session)
    <3> DEFINE none == Worktrees!Absent
    <3>1. x = [none EXCEPT !.here = TRUE]
      OBVIOUS
    <3>2. WholeTree(none) /\ none.session.seal = "absent"
      BY DEF WholeTree, Worktrees!Absent, Worktrees!NoFile, Worktrees!File
    <3> HIDE DEF x, none
    <3>3. WholeTree(x) /\ x.here /\ x.session = none.session
      BY <3>1, <3>2 DEF WholeTree
    <3> QED
      BY <3>2, <3>3 DEF Worktrees!IsSealed
  <2>2. bound[u] = Nothing /\ \A q \in Preparers \ {p} : Owns(prep[q]) => prep[q].target # u
    BY <1>1, <1>3 DEF SessionInv, TreeInv, PrepInv, Tied, Settled
  <2>3. /\ y = [z EXCEPT !.step = "spaces", !.created = TRUE] /\ prep' = [prep EXCEPT ![p] = y]
        /\ Preparing(z) /\ z.step = "add" /\ u = z.target
    BY <1>1, <1>3
  <2>4. tree' = [tree EXCEPT ![u] = x] /\ u \in Targets
    BY <1>1, <1>3
  <2> HIDE DEF u, x, y, z
  <2>5. /\ y.step = "spaces" /\ y.packet = z.packet /\ y.target = u /\ y.created
        /\ y = [step |-> y.step, packet |-> y.packet, target |-> y.target, created |-> y.created]
    BY <2>3 DEF Preparing
  <2>6. Preparing(y)
    BY <2>3, <2>5 DEF Preparing, Active
  <2>7. Tied(y, x)
    BY <2>1, <2>5 DEF Tied
  <2> QED
    BY <1>1, <2>1, <2>2, <2>3, <2>4, <2>5, <2>6, <2>7, OwnPreparation
<1> QED
  BY <1>2, <1>3 DEF Worktrees!Add

LEMMA SpacesStep ==
  ASSUME SessionInv, NEW p \in Preparers, Worktrees!MakeSpaces(p) PROVE SessionInv'
<1>1. /\ prep[p].step = "spaces" /\ UNCHANGED <<state, packets, fin, bound, raced>>
      /\ Owns(prep[p])
  BY Begun DEF Worktrees!MakeSpaces, Worktrees!Rest, Owns, Preparing, Active
<1>2. CASE Worktrees!Goto(p, "fail") /\ UNCHANGED tree
  BY <1>1, <1>2, GoesTo DEF Active
<1>3. CASE tree' = [tree EXCEPT ![prep[p].target].spaces = TRUE] /\ Worktrees!Goto(p, "packet")
  <2> DEFINE w == tree[prep[p].target]
             x == [w EXCEPT !.spaces = TRUE]
  <2>1. tree' = [tree EXCEPT ![prep[p].target] = x] /\ x = [w EXCEPT !.spaces = TRUE]
    BY <1>3
  <2>2. /\ WholeTree(w) /\ w.here /\ ~Worktrees!IsSealed(w.session)
        /\ w.session.seal = "absent"
    BY <1>1, Begun DEF Owns, Tied
  <2> HIDE DEF x, w
  <2>3. WholeTree(x) /\ x.here /\ x.session = w.session
    BY <2>1, <2>2 DEF WholeTree
  <2> QED
    BY <1>1, <1>3, <2>1, <2>2, <2>3, WorksOn DEF Worktrees!Goto, Active
<1> QED
  BY <1>2, <1>3 DEF Worktrees!MakeSpaces

\* The packet and the snapshot, created and sealed by their preparation.
LEMMA PacketFileStep ==
  ASSUME SessionInv, NEW p \in Preparers, NEW step \in {"packet", "snapshot"},
         NEW name \in {"packet", "snapshot"}, NEW content,
         NEW after \in {"snapshot", "recheck"},
         Worktrees!Create(p, step, name, content, after)
  PROVE  SessionInv'
<1> DEFINE u == prep[p].target
           w == tree[u]
<1>1. /\ prep[p].step = step /\ UNCHANGED <<state, packets, fin, raced>> /\ Owns(prep[p])
  BY Begun DEF Worktrees!Create, Worktrees!Rest, Owns, Preparing, Active
<1>2. /\ WholeTree(w) /\ w.here /\ ~Worktrees!IsSealed(w.session)
      /\ w.session.seal = "absent" /\ u \in Targets
  BY <1>1, Begun DEF Owns, Tied
<1>3. ASSUME NEW v, tree' = [tree EXCEPT ![u][name] = v], UNCHANGED bound,
             NEW next \in Active \ {"session"}, prep' = [prep EXCEPT ![p].step = next]
      PROVE  SessionInv'
  <2> DEFINE x == [w EXCEPT ![name] = v]
  <2>1. tree' = [tree EXCEPT ![u] = x] /\ x = [w EXCEPT ![name] = v]
    BY <1>3
  <2> HIDE DEF x, w
  <2>2. WholeTree(x) /\ x.here /\ x.session = w.session
    BY <1>2, <2>1 DEF WholeTree
  <2> HIDE DEF u
  <2> QED
    BY <1>1, <1>2, <1>3, <2>1, <2>2, WorksOn DEF u, w
<1>4. prep = [prep EXCEPT ![p].step = step]
  <2> DEFINE z == prep[p]
             y == [z EXCEPT !.step = step]
  <2>1. y = [z EXCEPT !.step = step] /\ Preparing(z) /\ z.step = step
    BY <1>1 DEF SessionInv, PrepInv
  <2>2. y = z
    <3> HIDE DEF y, z
    <3> QED
      BY <2>1 DEF Preparing
  <2>3. prep = [prep EXCEPT ![p] = y]
    BY <2>2 DEF SessionInv, PrepInv
  <2> QED
    BY <2>3
<1>5. CASE tree' = [tree EXCEPT ![u][name] = Worktrees!File(content, "open")] /\ UNCHANGED <<prep, bound>>
  BY <1>1, <1>3, <1>4, <1>5 DEF Active
<1>6. CASE tree' = [tree EXCEPT ![u][name].seal = "sealed"] /\ Worktrees!Goto(p, after) /\ UNCHANGED bound
  <2>1. tree' = [tree EXCEPT ![u][name] = [w[name] EXCEPT !.seal = "sealed"]]
    BY <1>6
  <2> QED
    BY <1>3, <1>6, <2>1 DEF Worktrees!Goto, Active
<1>7. CASE tree' = [tree EXCEPT ![u][name] = Worktrees!NoFile] /\ Worktrees!Goto(p, "fail") /\ UNCHANGED bound
  BY <1>3, <1>7 DEF Worktrees!Goto, Active
<1> QED
  BY <1>5, <1>6, <1>7 DEF Worktrees!Create

LEMMA SealStep ==
  ASSUME SessionInv, Worktrees!SessionAssumption, NEW p \in Preparers, Worktrees!WriteSession(p)
  PROVE  SessionInv'
<1> DEFINE z == prep[p]
           u == z.target
           w == tree[u]
           content == Worktrees!Session(z.packet)
<1>1. /\ z.step = "session" /\ UNCHANGED <<state, packets, fin, raced>> /\ Owns(z)
  BY Begun DEF Worktrees!WriteSession, Worktrees!Create, Worktrees!Rest, Owns, Preparing, Active
<1>2. /\ WholeTree(w) /\ w.here /\ ~Worktrees!IsSealed(w.session) /\ u \in Targets
      /\ w.session.seal = "open" => w.session.content = content
      /\ bound[u] = Nothing /\ MadeOf(z.packet) /\ Preparing(z)
      /\ \A q \in Preparers \ {p} : Owns(prep[q]) => prep[q].target # u
  BY <1>1, Begun DEF Owns, Tied
<1>3. ASSUME NEW file, tree' = [tree EXCEPT ![u].session = file], UNCHANGED bound,
             file = [content |-> file.content, seal |-> file.seal],
             NEW next \in {"session", "fail"}, prep' = [prep EXCEPT ![p].step = next],
             next = "session" => file.seal = "open" /\ file.content = content,
             next = "fail" => file.seal = "absent"
      PROVE  SessionInv'
  <2> DEFINE x == [w EXCEPT !.session = file]
  <2>1. tree' = [tree EXCEPT ![u] = x] /\ x = [w EXCEPT !.session = file]
    BY <1>3
  <2> HIDE DEF x, w
  <2>2. WholeTree(x) /\ x.here /\ x.session = file /\ ~Worktrees!IsSealed(file)
    BY <1>2, <1>3, <2>1 DEF WholeTree, Worktrees!IsSealed
  <2>3. next \in Active
    BY DEF Active
  <2>4. x.session.content = Worktrees!Session(prep[p].packet) \/ next = "fail"
    BY <1>3, <2>2
  <2>5. /\ x.here /\ (next # "session" => x.session.seal = "absent")
        /\ UNCHANGED <<state, packets, fin, bound, raced>>
    BY <1>1, <1>3, <2>2
  <2>6. ~Worktrees!IsSealed(x.session)
    BY <2>2
  <2> HIDE DEF content
  <2>7. Owns(prep[p]) /\ prep' = [prep EXCEPT ![p].step = next]
        /\ tree' = [tree EXCEPT ![prep[p].target] = x]
    BY <1>1, <1>3, <2>1
  <2> QED
    BY <2>2, <2>3, <2>4, <2>5, <2>6, <2>7, WorksOn
<1>4. CASE tree' = [tree EXCEPT ![u]["session"] = Worktrees!File(content, "open")] /\ UNCHANGED <<prep, bound>>
  <2> DEFINE file == Worktrees!File(content, "open")
  <2>1. prep' = [prep EXCEPT ![p].step = "session"]
    <3> DEFINE y == [z EXCEPT !.step = "session"]
    <3>1. y = [z EXCEPT !.step = "session"]
      OBVIOUS
    <3>2. y = z
      <4> HIDE DEF y, z
      <4> QED
        BY <1>1, <1>2, <3>1 DEF Preparing
    <3>3. prep = [prep EXCEPT ![p] = y]
      BY <3>2 DEF SessionInv, PrepInv
    <3> QED
      BY <1>4, <3>3
  <2>2. file.content = content /\ file.seal = "open" /\ file = [content |-> file.content, seal |-> file.seal]
    BY DEF Worktrees!File
  <2>3. tree' = [tree EXCEPT ![u].session = file]
    BY <1>4
  <2> HIDE DEF file
  <2> QED
    BY <1>3, <1>4, <2>1, <2>2, <2>3
<1>5. CASE tree' = [tree EXCEPT ![u]["session"] = Worktrees!NoFile] /\ Worktrees!Goto(p, "fail") /\ UNCHANGED bound
  <2> DEFINE file == Worktrees!NoFile
  <2>1. file.seal = "absent" /\ file = [content |-> file.content, seal |-> file.seal]
    BY DEF Worktrees!File, Worktrees!NoFile
  <2>2. tree' = [tree EXCEPT ![u].session = file]
    BY <1>5
  <2> HIDE DEF file
  <2> QED
    BY <1>3, <1>5, <2>1, <2>2 DEF Worktrees!Goto
<1>6. CASE /\ w.session.seal = "open"
           /\ tree' = [tree EXCEPT ![u]["session"].seal = "sealed"] /\ Worktrees!Goto(p, "done")
           /\ bound' = [bound EXCEPT ![u] = [packet |-> content.packet, state |-> content.state]]
  <2> DEFINE file == w.session
             seal == [file EXCEPT !.seal = "sealed"]
             x == [w EXCEPT !.session = seal]
             y == [z EXCEPT !.step = "done"]
             b == [packet |-> content.packet, state |-> content.state]
  <2>1. tree' = [tree EXCEPT ![u] = x] /\ x = [w EXCEPT !.session = seal]
        /\ seal = [file EXCEPT !.seal = "sealed"] /\ file = w.session
        /\ prep' = [prep EXCEPT ![p] = y] /\ y = [z EXCEPT !.step = "done"]
        /\ bound' = [bound EXCEPT ![u] = b]
    BY <1>6 DEF Worktrees!Goto
  <2>2. /\ WholeSession(content) /\ content.packet = z.packet /\ content.state = z.packet.state
        /\ content.done = FALSE
    BY DEF WholeSession, Worktrees!Session
  <2>3. b.packet = z.packet /\ b.state = z.packet.state /\ b \in Binding
    BY <1>2, <2>2 DEF MadeOf, Packet, Binding
  <2>4. b # Nothing
    BY <2>3 DEF Binding, Packet, Worktrees!SessionAssumption
  <2>5. file.content = content
    BY <1>2, <1>6
  <2> HIDE DEF content, b, y, x, seal, file, w, z
  <2>6. /\ seal.seal = "sealed" /\ seal.content = content /\ WholeTree(x) /\ x.here
        /\ x.session = seal /\ x.index = w.index
    BY <1>2, <2>1, <2>5 DEF WholeTree
  <2>7. Settled(x, b, u \in raced)
    BY <1>2, <2>2, <2>3, <2>6 DEF Settled, Worktrees!IsSealed, Names, MadeOf
  <2>8. y.step = "done" /\ Preparing(y) /\ ~Owns(y)
    BY <1>2, <2>1 DEF Preparing, Owns, Active
  <2> HIDE DEF u
  <2>9. /\ prep' = [q \in Preparers |-> prep'[q]] /\ prep'[p] = y
        /\ \A q \in Preparers \ {p} : prep'[q] = prep[q]
    BY <2>1 DEF SessionInv, PrepInv
  <2>10. /\ tree' = [t \in Targets |-> tree'[t]] /\ tree'[u] = x
         /\ \A t \in Targets \ {u} : tree'[t] = tree[t]
    BY <1>2, <2>1 DEF SessionInv, TreeInv
  <2>11. /\ bound' = [t \in Targets |-> bound'[t]] /\ bound'[u] = b
         /\ \A t \in Targets \ {u} : bound'[t] = bound[t]
    BY <1>2, <2>1 DEF SessionInv, TreeInv
  <2>12. TreeInv'
    BY <1>1, <2>4, <2>6, <2>7, <2>10, <2>11 DEF SessionInv, TreeInv
  <2>13. PrepInv'
    <3>1. ASSUME NEW q \in Preparers
          PROVE  /\ Preparing(prep'[q]) /\ Tied(prep'[q], tree'[prep'[q].target])
                 /\ Owns(prep'[q]) => bound'[prep'[q].target] = Nothing
      <4>1. CASE q = p
        BY <2>8, <2>9, <4>1 DEF Tied
      <4>2. CASE q # p
        <5>1. prep'[q] = prep[q] /\ Preparing(prep[q]) /\ Tied(prep[q], tree[prep[q].target])
              /\ (Owns(prep[q]) => bound[prep[q].target] = Nothing /\ prep[q].target \in Targets
                                   /\ prep[q].target # u)
          BY <1>2, <2>9, <4>2 DEF SessionInv, PrepInv, Preparing, Owns
        <5> QED
          BY <2>10, <2>11, <5>1 DEF Tied
      <4> QED
        BY <4>1, <4>2
    <3>2. ASSUME NEW q \in Preparers, NEW r \in Preparers, Owns(prep'[q]), Owns(prep'[r]),
                 prep'[q].target = prep'[r].target
          PROVE  q = r
      BY <2>8, <2>9, <3>2 DEF SessionInv, PrepInv
    <3> QED
      BY <2>9, <3>1, <3>2 DEF PrepInv, Preparing, Tied, Owns, MadeOf
  <2>14. FinInv'
    <3>1. ASSUME NEW f \in Finalizers PROVE Finalizing(fin[f], tree'[fin[f].target].index)
      BY <2>6, <2>10 DEF SessionInv, FinInv, Finalizing, u, w
    <3>2. ASSUME NEW f \in Finalizers, fin[f].step # "idle"
          PROVE  /\ fin[f].target \in Targets /\ bound'[fin[f].target] # Nothing
                 /\ Names(fin[f].session, bound'[fin[f].target])
      BY <1>2, <2>11, <3>2 DEF SessionInv, FinInv
    <3> QED
      BY <1>1, <3>1, <3>2 DEF SessionInv, FinInv, Finalizing, Names, WholeSession
  <2> QED
    BY <1>1, <2>12, <2>13, <2>14 DEF SessionInv, MadeOf
<1> QED
  BY <1>4, <1>5, <1>6 DEF Worktrees!WriteSession, Worktrees!Create

LEMMA EndStep ==
  ASSUME SessionInv, NEW p \in Preparers,
         Worktrees!Recheck(p) \/ Worktrees!CleanUp(p) \/ Worktrees!Die(p)
  PROVE  SessionInv'
<1>1. UNCHANGED <<state, packets, fin, bound, raced>>
  BY DEF Worktrees!Recheck, Worktrees!CleanUp, Worktrees!Die, Worktrees!Rest
<1>2. CASE Worktrees!Recheck(p)
  BY <1>1, <1>2, GoesTo DEF Worktrees!Recheck, Active
<1>3. CASE Worktrees!Die(p)
  <2>1. prep[p].step \in {"add"} \cup Active
    BY <1>3 DEF Worktrees!Die, SessionInv, PrepInv, Preparing
  <2> QED
    BY <1>1, <1>3, <2>1, GoesTo DEF Worktrees!Die
<1>4. CASE Worktrees!CleanUp(p)
  <2>1. CASE UNCHANGED tree
    BY <1>1, <1>4, <2>1, GoesTo DEF Worktrees!CleanUp, Active
  <2>2. CASE prep[p].created /\ tree' = [tree EXCEPT ![prep[p].target] = Worktrees!Absent]
    <3> DEFINE x == Worktrees!Absent
    <3>1. WholeTree(x) /\ ~Worktrees!IsSealed(x.session)
      BY DEF WholeTree, Worktrees!Absent, Worktrees!NoFile, Worktrees!File, Worktrees!IsSealed
    <3>2. Owns(prep[p]) /\ Worktrees!Goto(p, "done") /\ tree' = [tree EXCEPT ![prep[p].target] = x]
      BY <1>4, <2>2 DEF Worktrees!CleanUp, Owns, Active
    <3> HIDE DEF x
    <3> QED
      BY <1>1, <3>1, <3>2, WorksOn DEF Worktrees!Goto
  <2> QED
    BY <1>4, <2>1, <2>2 DEF Worktrees!CleanUp
<1> QED
  BY <1>2, <1>3, <1>4

\* A step of one finalization that writes nothing.
LEMMA FinMoves ==
  ASSUME SessionInv, NEW f \in Finalizers, NEW z, fin' = [fin EXCEPT ![f] = z],
         UNCHANGED <<state, packets, tree, prep, bound, raced>>,
         Finalizing(z, tree[z.target].index),
         z.step # "idle" => /\ z.target \in Targets /\ bound[z.target] # Nothing
                            /\ Names(z.session, bound[z.target])
  PROVE  SessionInv'
<1>1. PrepInv' /\ TreeInv'
  BY DEF SessionInv, PrepInv, TreeInv
<1>2. /\ fin' = [g \in Finalizers |-> fin'[g]] /\ fin'[f] = z
      /\ \A g \in Finalizers \ {f} : fin'[g] = fin[g]
  BY DEF SessionInv, FinInv
<1>3. FinInv'
  BY <1>2 DEF SessionInv, FinInv, Finalizing, Names, WholeSession
<1> QED
  BY <1>1, <1>3 DEF SessionInv, MadeOf

LEMMA GiveUp ==
  ASSUME SessionInv, NEW f \in Finalizers, Worktrees!Give(f),
         UNCHANGED <<state, packets, tree, prep, bound, raced>>
  PROVE  SessionInv'
<1> DEFINE z == Worktrees!Resting
<1>1. z.step = "idle" /\ Finalizing(z, tree[z.target].index)
  BY DEF Worktrees!Resting, Finalizing
<1>2. fin' = [fin EXCEPT ![f] = z]
  BY DEF Worktrees!Give
<1> HIDE DEF z
<1> QED
  BY <1>1, <1>2, FinMoves

\* A finalization's next step, and what it may have read for it.
LEMMA FinGoes ==
  ASSUME SessionInv, NEW f \in Finalizers, NEW z, fin' = [fin EXCEPT ![f] = z],
         UNCHANGED <<state, packets, tree, prep, bound, raced>>, fin[f].step # "idle",
         z = [step |-> z.step, target |-> z.target, session |-> z.session, packet |-> z.packet,
              moved |-> z.moved, tree |-> z.tree],
         z.target = fin[f].target, z.session = fin[f].session, z.moved = fin[f].moved,
         z.packet = z.session.packet,
         \/ z.step = "diff"
         \/ z.step = "tree" /\ Worktrees!Changed(tree[z.target].index) \subseteq z.packet.allowed
         \/ z.step = "replace"
              /\ (z.moved \/ Worktrees!Changed(z.tree) \subseteq z.packet.allowed)
  PROVE  SessionInv'
<1>1. Finalizing(z, tree[z.target].index)
  BY DEF SessionInv, FinInv, Finalizing
<1>2. /\ z.target \in Targets /\ bound[z.target] # Nothing
      /\ Names(z.session, bound[z.target])
  BY DEF SessionInv, FinInv
<1> QED
  BY <1>1, <1>2, FinMoves

LEMMA ReadStep ==
  ASSUME SessionInv, NEW f \in Finalizers,
         \/ Worktrees!LoadSession(f) \/ Worktrees!LoadArtifacts(f)
         \/ Worktrees!ReadDiff(f) \/ Worktrees!WriteTree(f)
  PROVE  SessionInv'
<1>1. UNCHANGED <<state, packets, tree, prep, bound, raced>>
  BY DEF Worktrees!LoadSession, Worktrees!LoadArtifacts, Worktrees!ReadDiff,
         Worktrees!WriteTree, Worktrees!Keep
<1> DEFINE y == fin[f]
<1>2. Finalizing(y, tree[y.target].index)
  BY DEF SessionInv, FinInv
<1>3. CASE Worktrees!LoadSession(f)
  <2>1. PICK t \in Targets :
          /\ Worktrees!IsSealed(tree[t].session)
          /\ fin' = [fin EXCEPT ![f] = [Worktrees!Resting EXCEPT !.step = "artifacts", !.target = t,
                                          !.session = tree[t].session.content]]
    BY <1>3 DEF Worktrees!LoadSession
  <2> DEFINE rest == Worktrees!Resting
             held == tree[t].session.content
             z == [rest EXCEPT !.step = "artifacts", !.target = t, !.session = held]
  <2>2. z = [rest EXCEPT !.step = "artifacts", !.target = t, !.session = held]
        /\ fin' = [fin EXCEPT ![f] = z]
    BY <2>1
  <2>3. bound[t] # Nothing /\ Names(held, bound[t])
    BY <2>1 DEF SessionInv, TreeInv, Settled
  <2>4. /\ rest = [step |-> rest.step, target |-> rest.target, session |-> rest.session,
                   packet |-> rest.packet, moved |-> rest.moved, tree |-> rest.tree]
        /\ rest.moved = FALSE
    BY DEF Worktrees!Resting
  <2> HIDE DEF z, held, rest
  <2>5. /\ z.step = "artifacts" /\ z.target = t /\ z.session = held /\ z.moved = FALSE
        /\ z = [step |-> z.step, target |-> z.target, session |-> z.session, packet |-> z.packet,
                moved |-> z.moved, tree |-> z.tree]
    BY <2>2, <2>4
  <2>6. Finalizing(z, tree[z.target].index)
    BY <2>5 DEF Finalizing
  <2> QED
    BY <1>1, <2>2, <2>3, <2>5, <2>6, FinMoves
<1>4. CASE Worktrees!LoadArtifacts(f)
  <2> DEFINE packet == tree[y.target].packet.content
             z == [y EXCEPT !.step = "diff", !.packet = packet]
  <2>1. CASE Worktrees!Give(f)
    BY <1>1, <2>1, GiveUp
  <2>2. CASE packet = y.session.packet /\ fin' = [fin EXCEPT ![f].step = "diff", ![f].packet = packet]
    <3>1. z = [y EXCEPT !.step = "diff", !.packet = packet] /\ fin' = [fin EXCEPT ![f] = z]
      BY <2>2
    <3>2. y.step = "artifacts" /\ packet = y.session.packet
      BY <1>4, <2>2 DEF Worktrees!LoadArtifacts
    <3> HIDE DEF z, y, packet
    <3>3. /\ z.step = "diff" /\ z.target = y.target /\ z.session = y.session /\ z.packet = packet
          /\ z.moved = y.moved
          /\ z = [step |-> z.step, target |-> z.target, session |-> z.session, packet |-> z.packet,
                  moved |-> z.moved, tree |-> z.tree]
      BY <1>2, <3>1 DEF Finalizing
    <3>4. z.packet = z.session.packet /\ z.target = fin[f].target /\ z.session = fin[f].session
          /\ z.moved = fin[f].moved /\ fin[f].step # "idle"
      BY <3>2, <3>3 DEF y
    <3> QED
      BY <1>1, <3>1, <3>3, <3>4, FinGoes
  <2> QED
    BY <1>4, <2>1, <2>2 DEF Worktrees!LoadArtifacts
<1>5. CASE Worktrees!ReadDiff(f)
  <2> DEFINE z == [y EXCEPT !.step = "tree"]
  <2>1. CASE Worktrees!Give(f)
    BY <1>1, <2>1, GiveUp
  <2>2. CASE /\ Worktrees!Changed(tree[y.target].index) \subseteq y.packet.allowed
             /\ fin' = [fin EXCEPT ![f].step = "tree"]
    <3>1. z = [y EXCEPT !.step = "tree"] /\ fin' = [fin EXCEPT ![f] = z] /\ y.step = "diff"
          /\ Worktrees!Changed(tree[y.target].index) \subseteq y.packet.allowed
      BY <1>5, <2>2 DEF Worktrees!ReadDiff
    <3> HIDE DEF z, y
    <3>2. /\ z.step = "tree" /\ z.target = y.target /\ z.session = y.session
          /\ z.packet = y.packet /\ z.moved = y.moved /\ y.packet = y.session.packet
          /\ z = [step |-> z.step, target |-> z.target, session |-> z.session, packet |-> z.packet,
                  moved |-> z.moved, tree |-> z.tree]
      BY <1>2, <3>1 DEF Finalizing
    <3> QED
      BY <1>1, <3>1, <3>2, FinGoes DEF y
  <2> QED
    BY <1>5, <2>1, <2>2 DEF Worktrees!ReadDiff
<1>6. CASE Worktrees!WriteTree(f)
  <2> DEFINE read == tree[y.target].index
             z == [y EXCEPT !.step = "replace", !.tree = read]
  <2>1. z = [y EXCEPT !.step = "replace", !.tree = read] /\ fin' = [fin EXCEPT ![f] = z]
        /\ y.step = "tree"
    BY <1>6 DEF Worktrees!WriteTree
  <2>2. y.moved \/ Worktrees!Changed(read) \subseteq y.packet.allowed
    BY <1>2, <2>1 DEF Finalizing
  <2> HIDE DEF z, y, read
  <2>3. /\ z.step = "replace" /\ z.target = y.target /\ z.session = y.session /\ z.tree = read
        /\ z.packet = y.packet /\ z.moved = y.moved /\ y.packet = y.session.packet
        /\ z = [step |-> z.step, target |-> z.target, session |-> z.session, packet |-> z.packet,
                moved |-> z.moved, tree |-> z.tree]
    BY <1>2, <2>1 DEF Finalizing
  <2>4. z.packet = z.session.packet /\ z.target = fin[f].target /\ z.session = fin[f].session
        /\ z.moved = fin[f].moved /\ fin[f].step # "idle"
    BY <2>1, <2>3 DEF y
  <2>5. z.step = "replace" /\ (z.moved \/ Worktrees!Changed(z.tree) \subseteq z.packet.allowed)
    BY <2>2, <2>3
  <2>6. /\ z = [step |-> z.step, target |-> z.target, session |-> z.session, packet |-> z.packet,
                moved |-> z.moved, tree |-> z.tree]
        /\ fin' = [fin EXCEPT ![f] = z]
    BY <2>1, <2>3
  <2> QED
    BY <1>1, <2>4, <2>5, <2>6, FinGoes
<1> QED
  BY <1>3, <1>4, <1>5, <1>6

LEMMA RecheckStep ==
  ASSUME SessionInv, NEW f \in Finalizers, Worktrees!Replace(f) PROVE SessionInv'
<1> DEFINE z == fin[f]
           t == z.target
           w == tree[t]
           s == [z.session EXCEPT !.tree = z.tree, !.done = TRUE]
           x == [w EXCEPT !.session = Worktrees!File(s, "sealed")]
<1>1. /\ z.step = "replace" /\ UNCHANGED <<state, packets, prep, bound>>
      /\ tree' = [tree EXCEPT ![t] = x]
      /\ raced' = (IF z.moved THEN raced \cup {t} ELSE raced \ {t})
      /\ fin' = [fin EXCEPT ![f] = Worktrees!Resting]
  BY DEF Worktrees!Replace, Worktrees!Keep, Worktrees!Give
<1>2. /\ t \in Targets /\ bound[t] # Nothing /\ Names(z.session, bound[t])
      /\ z.moved \in BOOLEAN /\ z.packet = z.session.packet
      /\ z.moved \/ Worktrees!Changed(z.tree) \subseteq z.packet.allowed
  BY <1>1 DEF SessionInv, FinInv, Finalizing
<1>3. WholeTree(w) /\ Settled(w, bound[t], t \in raced)
  BY <1>2 DEF SessionInv, TreeInv
<1>4. /\ WholeSession(s) /\ s.packet = z.session.packet /\ s.state = z.session.state
      /\ s.tree = z.tree /\ s.done = TRUE
  <2> DEFINE held == z.session
             shown == z.tree
  <2>1. s = [held EXCEPT !.tree = shown, !.done = TRUE] /\ WholeSession(held)
    BY <1>2 DEF Names
  <2> HIDE DEF s, z, held, shown
  <2>2. /\ WholeSession(s) /\ s.packet = held.packet /\ s.state = held.state
        /\ s.tree = shown /\ s.done = TRUE
    BY <2>1 DEF WholeSession
  <2> QED
    BY <2>2 DEF held, shown
<1>5. /\ WholeTree(x) /\ x.here = w.here /\ x.index = w.index
      /\ x.session.content = s /\ x.session.seal = "sealed"
  <2> DEFINE file == Worktrees!File(s, "sealed")
  <2>1. file = [content |-> file.content, seal |-> file.seal] /\ file.content = s
        /\ file.seal = "sealed"
    BY DEF Worktrees!File
  <2>2. x = [w EXCEPT !.session = file]
    OBVIOUS
  <2> HIDE DEF x, w, s, file
  <2> QED
    BY <1>3, <2>1, <2>2 DEF WholeTree
<1>6. Settled(x, bound[t], t \in raced')
  BY <1>1, <1>2, <1>3, <1>4, <1>5 DEF Settled, Names, Worktrees!IsSealed
<1> HIDE DEF x, s
<1>7. /\ tree' = [u \in Targets |-> tree'[u]] /\ tree'[t] = x
      /\ \A u \in Targets \ {t} : tree'[u] = tree[u]
  BY <1>1, <1>2 DEF SessionInv, TreeInv
<1>8. TreeInv'
  <2>1. ASSUME NEW u \in Targets, u # t, bound[u] # Nothing
        PROVE  Settled(tree'[u], bound[u], u \in raced')
    <3>1. u \in raced' <=> u \in raced
      BY <1>1, <2>1
    <3>2. Settled(tree[u], bound[u], u \in raced)
      BY <2>1 DEF SessionInv, TreeInv
    <3> QED
      BY <1>7, <2>1, <3>1, <3>2 DEF Settled
  <2> QED
    BY <1>1, <1>2, <1>5, <1>6, <1>7, <2>1 DEF SessionInv, TreeInv
<1>9. PrepInv'
  <2>1. ASSUME NEW q \in Preparers PROVE Tied(prep[q], tree'[prep[q].target])
    <3>1. Owns(prep[q]) => prep[q].target \in Targets /\ prep[q].target # t
      BY <1>2 DEF SessionInv, PrepInv, Preparing, Owns
    <3>2. Tied(prep[q], tree[prep[q].target])
      BY DEF SessionInv, PrepInv
    <3> QED
      BY <1>7, <3>1, <3>2 DEF Tied
  <2> QED
    BY <1>1, <2>1 DEF SessionInv, PrepInv, Preparing, Tied, Owns, MadeOf
<1>10. FinInv'
  <2> DEFINE rest == Worktrees!Resting
  <2>1. rest.step = "idle" /\ \A i : Finalizing(rest, i)
    BY DEF Worktrees!Resting, Finalizing
  <2>2. fin' = [fin EXCEPT ![f] = rest]
    BY <1>1
  <2> HIDE DEF rest
  <2>3. /\ fin' = [g \in Finalizers |-> fin'[g]] /\ fin'[f] = rest
        /\ \A g \in Finalizers \ {f} : fin'[g] = fin[g]
    BY <2>2 DEF SessionInv, FinInv
  <2>4. ASSUME NEW g \in Finalizers, g # f
        PROVE  /\ Finalizing(fin[g], tree'[fin[g].target].index)
               /\ fin[g].step # "idle" =>
                    /\ fin[g].target \in Targets /\ bound[fin[g].target] # Nothing
                    /\ Names(fin[g].session, bound[fin[g].target])
    BY <1>5, <1>7 DEF SessionInv, FinInv, Finalizing
  <2> QED
    BY <1>1, <2>1, <2>3, <2>4 DEF FinInv, Finalizing, Names, WholeSession
<1> QED
  BY <1>1, <1>8, <1>9, <1>10 DEF SessionInv, MadeOf

LEMMA AdvanceStep ==
  ASSUME SessionInv, Worktrees!Advance PROVE SessionInv'
<1>1. UNCHANGED <<packets, tree, prep, fin, bound, raced>> /\ state' \in Worktrees!State
  BY DEF Worktrees!Advance, Worktrees!State, SessionInv
<1>2. PrepInv' /\ TreeInv' /\ FinInv'
  BY <1>1 DEF SessionInv, PrepInv, TreeInv, FinInv
<1> QED
  BY <1>1, <1>2 DEF SessionInv, MadeOf

\* The maker touches a worktree whose session is bound; a finalization that has looked at
\* its index and not yet read it as a tree takes note.
LEMMA TouchStep ==
  ASSUME SessionInv, NEW t \in Targets, bound[t] # Nothing, NEW x, WholeTree(x),
         x.here = tree[t].here, x.session = tree[t].session, tree' = [tree EXCEPT ![t] = x],
         fin' = [f \in Finalizers |->
            IF fin[f].step = "tree" /\ fin[f].target = t /\ tree'[t].index # tree[t].index
            THEN [fin[f] EXCEPT !.moved = TRUE] ELSE fin[f]],
         UNCHANGED <<state, packets, prep, bound, raced>>
  PROVE  SessionInv'
<1>1. /\ tree' = [u \in Targets |-> tree'[u]] /\ tree'[t] = x
      /\ \A u \in Targets \ {t} : tree'[u] = tree[u]
  BY DEF SessionInv, TreeInv
<1>2. TreeInv'
  BY <1>1 DEF SessionInv, TreeInv, Settled
<1>3. PrepInv'
  <2>1. ASSUME NEW q \in Preparers PROVE Tied(prep[q], tree'[prep[q].target])
    <3>1. Owns(prep[q]) => prep[q].target \in Targets /\ prep[q].target # t
      BY DEF SessionInv, PrepInv, Preparing, Owns
    <3>2. Tied(prep[q], tree[prep[q].target])
      BY DEF SessionInv, PrepInv
    <3> QED
      BY <1>1, <3>1, <3>2 DEF Tied
  <2> QED
    BY <2>1 DEF SessionInv, PrepInv, Preparing, Tied, Owns, MadeOf
<1>4. ASSUME NEW f \in Finalizers
      PROVE  /\ Finalizing(fin'[f], tree'[fin'[f].target].index)
             /\ fin'[f].step # "idle" =>
                  /\ fin'[f].target \in Targets /\ bound[fin'[f].target] # Nothing
                  /\ Names(fin'[f].session, bound[fin'[f].target])
  <2> DEFINE y == fin[f]
             z == [y EXCEPT !.moved = TRUE]
  <2>1. /\ Finalizing(y, tree[y.target].index)
        /\ y.step # "idle" => /\ y.target \in Targets /\ bound[y.target] # Nothing
                              /\ Names(y.session, bound[y.target])
    BY DEF SessionInv, FinInv
  <2>2. CASE y.step = "tree" /\ y.target = t /\ tree'[t].index # tree[t].index
    <3>1. fin'[f] = z /\ z = [y EXCEPT !.moved = TRUE]
      BY <2>2
    <3> HIDE DEF y, z
    <3>2. /\ z.step = y.step /\ z.target = y.target /\ z.session = y.session
          /\ z.packet = y.packet /\ z.moved = TRUE
          /\ z = [step |-> z.step, target |-> z.target, session |-> z.session, packet |-> z.packet,
                  moved |-> z.moved, tree |-> z.tree]
      BY <2>1, <3>1 DEF Finalizing
    <3>3. Finalizing(z, tree'[z.target].index)
      BY <2>1, <2>2, <3>2 DEF Finalizing
    <3> QED
      BY <2>1, <3>1, <3>2, <3>3
  <2>3. CASE ~(y.step = "tree" /\ y.target = t /\ tree'[t].index # tree[t].index)
    <3>1. fin'[f] = y
      BY <2>3
    <3>2. y.step = "tree" => tree'[y.target].index = tree[y.target].index
      BY <1>1, <2>1, <2>3
    <3>3. Finalizing(y, tree'[y.target].index)
      BY <2>1, <3>2 DEF Finalizing
    <3> QED
      BY <2>1, <3>1, <3>3
  <2> QED
    BY <2>2, <2>3
<1>5. FinInv'
  <2>1. fin' = [f \in Finalizers |-> fin'[f]]
    OBVIOUS
  <2>2. ASSUME NEW f \in Finalizers PROVE Finalizing(fin[f], tree[fin[f].target].index)'
    BY <1>4 DEF Finalizing
  <2>3. ASSUME NEW f \in Finalizers, fin'[f].step # "idle"
        PROVE  /\ fin'[f].target \in Targets /\ bound'[fin'[f].target] # Nothing
               /\ Names(fin[f].session, bound[fin[f].target])'
    BY <1>4, <2>3 DEF Names, WholeSession
  <2> QED
    BY <2>1, <2>2, <2>3 DEF FinInv
<1> QED
  BY <1>2, <1>3, <1>5 DEF SessionInv, MadeOf

LEMMA EditStep ==
  ASSUME SessionInv, Worktrees!Edit PROVE SessionInv'
<1>1. PICK t \in Targets :
        /\ bound[t] # Nothing
        /\ \/ \E p \in Paths : tree' = [tree EXCEPT ![t] = [tree[t] EXCEPT !.index[p] = 1 - @]]
           \/ \E p \in tree[t].files : tree' = [tree EXCEPT ![t] = [tree[t] EXCEPT !.files = @ \ {p}]]
           \/ tree' = [tree EXCEPT ![t] = [tree[t] EXCEPT !.spaces = FALSE]]
           \/ \E packet \in packets :
                tree' = [tree EXCEPT ![t] = [tree[t] EXCEPT !.packet = Worktrees!File(packet, "sealed")]]
        /\ fin' = [f \in Finalizers |->
            IF fin[f].step = "tree" /\ fin[f].target = t /\ tree'[t].index # tree[t].index
            THEN [fin[f] EXCEPT !.moved = TRUE] ELSE fin[f]]
  BY DEF Worktrees!Edit, Worktrees!Touch
<1>2. UNCHANGED <<state, packets, prep, bound, raced>>
  BY DEF Worktrees!Edit
<1> DEFINE w == tree[t]
<1>3. WholeTree(w)
  BY DEF SessionInv, TreeInv
\* What is put in the place of one of the other fields does not matter.
<1>4. ASSUME NEW v, NEW x, tree' = [tree EXCEPT ![t] = x],
             \/ x = [w EXCEPT !.index = v] \/ x = [w EXCEPT !.files = v]
             \/ x = [w EXCEPT !.spaces = v] \/ x = [w EXCEPT !.packet = v]
      PROVE  SessionInv'
  <2> HIDE DEF w
  <2>1. WholeTree(x) /\ x.here = w.here /\ x.session = w.session
    BY <1>3, <1>4 DEF WholeTree
  <2> QED
    BY <1>1, <1>2, <1>4, <2>1, TouchStep DEF w
<1>5. ASSUME NEW p \in Paths, tree' = [tree EXCEPT ![t] = [tree[t] EXCEPT !.index[p] = 1 - @]]
      PROVE  SessionInv'
  <2> DEFINE v == [w.index EXCEPT ![p] = 1 - w.index[p]]
             x == [w EXCEPT !.index = v]
  <2>1. tree' = [tree EXCEPT ![t] = x] /\ x = [w EXCEPT !.index = v]
    BY <1>5
  <2> HIDE DEF x, v
  <2> QED
    BY <1>4, <2>1
<1>6. ASSUME NEW p, tree' = [tree EXCEPT ![t] = [tree[t] EXCEPT !.files = @ \ {p}]]
      PROVE  SessionInv'
  <2> DEFINE v == w.files \ {p}
             x == [w EXCEPT !.files = v]
  <2>1. tree' = [tree EXCEPT ![t] = x] /\ x = [w EXCEPT !.files = v]
    BY <1>6
  <2> HIDE DEF x, v
  <2> QED
    BY <1>4, <2>1
<1> QED
  BY <1>1, <1>4, <1>5, <1>6

LEMMA SessionInit == Worktrees!Init => SessionInv
<1> SUFFICES ASSUME Worktrees!Init PROVE SessionInv
  OBVIOUS
<1> DEFINE x == Worktrees!Absent
           y == Worktrees!Waiting
           z == Worktrees!Resting
<1>1. WholeTree(x) /\ ~Worktrees!IsSealed(x.session)
  BY DEF WholeTree, Worktrees!Absent, Worktrees!NoFile, Worktrees!File, Worktrees!IsSealed
<1>2. Preparing(y) /\ ~Owns(y)
  <2>1. y.step = "idle" /\ y.created = FALSE
        /\ y = [step |-> y.step, packet |-> y.packet, target |-> y.target, created |-> y.created]
    BY DEF Worktrees!Waiting
  <2> HIDE DEF y
  <2> QED
    BY <2>1 DEF Preparing, Owns, Active
<1>3. z.step = "idle" /\ \A i : Finalizing(z, i)
  BY DEF Worktrees!Resting, Finalizing
<1>4. /\ tree = [t \in Targets |-> x] /\ prep = [p \in Preparers |-> y]
      /\ fin = [f \in Finalizers |-> z] /\ bound = [t \in Targets |-> Nothing]
      /\ packets = {} /\ state \in Worktrees!State
  BY DEF Worktrees!Init, Worktrees!State
<1> HIDE DEF x, y, z
<1>5. PrepInv
  BY <1>2, <1>4 DEF PrepInv, Tied
<1>6. TreeInv
  BY <1>1, <1>4 DEF TreeInv
<1>7. FinInv
  BY <1>3, <1>4 DEF FinInv
<1> QED
  BY <1>4, <1>5, <1>6, <1>7 DEF SessionInv

\* SessionIsBound of the worktrees, for any units, paths, targets, offers and changes, and
\* for any preparations and finalizations that race and die: a session that can be
\* finalized was prepared to the end, stays bound to its packet and state, and is finalized
\* with a tree of that packet's paths unless the index moved between the two readings.
THEOREM SessionsAreBound ==
  ASSUME Worktrees!SessionAssumption PROVE Worktrees!Spec => []Worktrees!SessionIsBound
<1>1. Worktrees!Init => SessionInv
  BY SessionInit
<1>2. SessionInv /\ [Worktrees!Next]_Worktrees!vars => SessionInv'
  <2> SUFFICES ASSUME SessionInv, [Worktrees!Next]_Worktrees!vars PROVE SessionInv'
    OBVIOUS
  <2>1. CASE UNCHANGED Worktrees!vars
    <3>1. PrepInv' /\ TreeInv' /\ FinInv'
      BY <2>1 DEF Worktrees!vars, SessionInv, PrepInv, TreeInv, FinInv
    <3> QED
      BY <2>1, <3>1 DEF Worktrees!vars, SessionInv, MadeOf
  <2>2. ASSUME NEW p \in Preparers, Worktrees!WritePacket(p) \/ Worktrees!WriteSnapshot(p)
        PROVE  SessionInv'
    BY <2>2, PacketFileStep DEF Worktrees!WritePacket, Worktrees!WriteSnapshot
  <2> QED
    BY <2>1, <2>2, PacketMade, AdvanceStep, EditStep, LoadStep, AddStep, SpacesStep, SealStep,
       EndStep, ReadStep, RecheckStep DEF Worktrees!Next
<1>3. SessionInv => Worktrees!SessionIsBound
  BY DEF SessionInv, TreeInv, Settled, Names, Worktrees!SessionIsBound
<1> QED
  BY <1>1, <1>2, <1>3, PTL DEF Worktrees!Spec
-----------------------------------------------------------------------------
(* The receipt of a free review, and its countersignature *)

CONSTANTS Contents, LargeTrees, LogicalTrees, ClosingTrees, FileCount, NamesIn, Maker, Reviewers,
          Permitted, Standby, MaxCommits, MaxMoves
VARIABLES repo, machine, pull, check, packet, phaseOne, binding, phaseTwo, moves
Receipts == INSTANCE TwoPhaseReceipt

Content == Receipts!Content
Line == {c \in Seq(Content) : Len(c) > 0}

CheckoutInv ==
  /\ repo = [head |-> repo.head, index |-> repo.index, dirty |-> repo.dirty, scope |-> repo.scope]
  /\ repo.head \in Line /\ repo.index \in Content /\ repo.scope \in Line
  /\ pull = [open |-> pull.open, mergeable |-> pull.mergeable, head |-> pull.head,
             base |-> pull.base, merge |-> pull.merge]
  /\ pull.head \in Line /\ pull.base \in Line
\* A machine receipt is of the diff it names to the tree it names.
MachineInv ==
  machine # Nothing => machine.diff.to = machine.tree

\* What a freeze has read at each step, as far as the index has moved under it.
AfterTree == {"head", "diff", "own", "records", "text", "contracts"}
AfterDiff == {"own", "records", "text", "contracts"}
AfterOwn == {"records", "text", "contracts"}
WholePacket(k) ==
  k = [step |-> k.step, mode |-> k.mode, base |-> k.base, parent |-> k.parent,
       target |-> k.target, tree |-> k.tree, diff |-> k.diff, own |-> k.own,
       records |-> k.records, text |-> k.text, lineage |-> k.lineage, moved |-> k.moved]
Between(base, d) == d = Receipts!Diff(base, d.to)
\* The diff and the text that are signed for a tree after so many moves of the index.
Signed(base, content, diff, text, count) ==
  /\ Between(base, diff) /\ Between(base, text)
  /\ diff.to # content => count >= 2
  /\ text.to # content => count >= (IF Receipts!IsDerived(text) \/ Receipts!IsDerived(diff) THEN 1 ELSE 2)
Frozen(k, staged) ==
  /\ WholePacket(k) /\ k.moved \in Nat
  /\ k.step \in {"idle", "clean", "tree", "frozen"} \cup AfterTree
  /\ k.step \in AfterTree /\ staged # k.tree => k.moved >= 1
  /\ k.step \in AfterTree => k.parent \in Line /\ k.tree \in Content
  /\ k.step \in {"clean", "tree"} => k.parent \in Line
  /\ k.step \in AfterOwn => k.own \in [from : Content, to : Content]
  /\ k.step \in AfterDiff => /\ Between(k.base, k.diff)
                             /\ k.diff.to # k.tree => k.moved >= 1
  /\ k.step = "own" /\ k.diff.to # k.tree /\ staged = k.tree => k.moved >= 2
  /\ k.step \in AfterOwn /\ k.own.to = k.tree /\ k.diff.to # k.tree => k.moved >= 2
  /\ k.step \in {"text", "contracts"} => /\ Between(k.base, k.records)
                                         /\ k.records.to # k.tree => k.moved >= 1
  /\ k.step = "contracts" /\ k.own.to = k.tree =>
       Signed(k.base, k.tree, k.diff, k.text, k.moved)
  /\ k.step = "frozen" => Signed(k.base, k.tree, k.diff, k.text, k.moved)
PacketInv == Frozen(packet, repo.index) /\ (packet.step # "idle" => phaseOne = Nothing)

SignedInv ==
  phaseOne # Nothing =>
    Signed(phaseOne.candidate.base, phaseOne.candidate.tree, phaseOne.candidate.diff,
           phaseOne.text, phaseOne.moved)
\* What the App holds of the pull request was exact when it was read.
BindingInv ==
  binding.step # "idle" =>
    phaseOne # Nothing /\ binding.pull.head \in Line /\ Receipts!PullIsExact(binding.pull, phaseOne)

ReceiptInv ==
  /\ CheckoutInv /\ MachineInv /\ PacketInv /\ SignedInv /\ BindingInv
  /\ Receipts!CountersignIsExact /\ Receipts!LineageHolds

\* A commit is its first parent and its own tree.
LEMMA CommitIs ==
  ASSUME NEW c \in Line, Len(c) > 1
  PROVE  c = Append(Receipts!FirstParent(c), Receipts!Last(c))
<1>1. c \in Seq(Content) /\ Len(c) \in Nat
  BY DEF Line
<1> DEFINE n == Len(c)
<1>2. SubSeq(c, 1, n - 1) \in Seq(Content) /\ Len(SubSeq(c, 1, n - 1)) = n - 1
      /\ \A i \in 1..(n - 1) : SubSeq(c, 1, n - 1)[i] = c[i]
  BY <1>1
<1>3. Append(SubSeq(c, 1, n - 1), c[n]) = c
  BY <1>1, <1>2
<1> QED
  BY <1>3 DEF Receipts!FirstParent, Receipts!Front, Receipts!Last

\* Every commit there is has a tree.
LEMMA ObjectsAreLines == ASSUME CheckoutInv PROVE Receipts!Objects \subseteq Line
<1> SUFFICES ASSUME NEW c \in Line, NEW n \in 1..Len(c) PROVE SubSeq(c, 1, n) \in Line
  BY DEF CheckoutInv, Receipts!Objects, Receipts!History
<1>1. c \in Seq(Content) /\ Len(c) \in Nat
  BY DEF Line
<1>2. SubSeq(c, 1, n) \in Seq(Content) /\ Len(SubSeq(c, 1, n)) = n
  BY <1>1
<1> QED
  BY <1>2 DEF Line

LEMMA ReceiptInit == Receipts!Init => ReceiptInv
<1> SUFFICES ASSUME Receipts!Init PROVE ReceiptInv
  OBVIOUS
<1>1. Receipts!Root \in Line
  BY DEF Receipts!Root, Line, Content, Receipts!Content
<1>2. CheckoutInv
  BY <1>1 DEF Receipts!Init, CheckoutInv, Content, Receipts!Content
<1>3. PacketInv
  <2> DEFINE k == Receipts!Idle
  <2>1. WholePacket(k) /\ k.moved = 0 /\ k.step = "idle"
    BY DEF WholePacket, Receipts!Idle
  <2>2. packet = k
    BY DEF Receipts!Init
  <2> HIDE DEF k
  <2>3. Frozen(k, repo.index)
    BY <2>1 DEF Frozen, AfterTree, AfterDiff, AfterOwn
  <2> QED
    BY <2>1, <2>2, <2>3 DEF PacketInv
<1>4. MachineInv /\ SignedInv /\ BindingInv /\ Receipts!CountersignIsExact /\ Receipts!LineageHolds
  BY DEF Receipts!Init, MachineInv, SignedInv, BindingInv, Receipts!NoBinding,
         Receipts!CountersignIsExact, Receipts!LineageHolds
<1> QED
  BY <1>2, <1>3, <1>4 DEF ReceiptInv

\* Steps that leave the signed receipts alone.
LEMMA SignedStay ==
  ASSUME ReceiptInv, UNCHANGED <<phaseOne, binding, phaseTwo>>
  PROVE  SignedInv' /\ BindingInv' /\ Receipts!CountersignIsExact' /\ Receipts!LineageHolds'
  BY DEF ReceiptInv, SignedInv, BindingInv, Receipts!CountersignIsExact, Receipts!LineageHolds,
         Signed, Between, Receipts!Diff, Receipts!Last, Receipts!IsDerived, Receipts!IsLogical,
         Receipts!IsLarge, Line, Content, Receipts!Content, Receipts!PullIsExact, Receipts!FirstParent,
         Receipts!Front, Receipts!IsAncestor, Receipts!IsPrefix

\* Another session moves the index, and with it the count of a freeze under way.
LEMMA StageStep == ASSUME ReceiptInv, Receipts!Stage PROVE ReceiptInv'
<1>1. PICK t \in Contents : repo' = [repo EXCEPT !.index = t]
  BY DEF Receipts!Stage
<1>2. UNCHANGED <<machine, pull, check, phaseOne, binding, phaseTwo>>
      /\ packet' = (IF Receipts!Freezing THEN [packet EXCEPT !.moved = @ + 1] ELSE packet)
  BY DEF Receipts!Stage, Receipts!github
<1>3. repo'.index = t /\ CheckoutInv'
  <2> DEFINE r == repo
             n == [r EXCEPT !.index = t]
  <2>1. n = [r EXCEPT !.index = t] /\ repo' = n
        /\ r = [head |-> r.head, index |-> r.index, dirty |-> r.dirty, scope |-> r.scope]
    BY <1>1 DEF ReceiptInv, CheckoutInv
  <2> HIDE DEF r, n
  <2>2. /\ n = [head |-> n.head, index |-> n.index, dirty |-> n.dirty, scope |-> n.scope]
        /\ n.index = t /\ n.head = r.head /\ n.scope = r.scope
    BY <2>1
  <2> QED
    BY <1>2, <2>1, <2>2 DEF ReceiptInv, CheckoutInv, Content, Receipts!Content, Line, r
<1>4. Frozen(packet', t)
  <2> DEFINE k == packet
             m == [k EXCEPT !.moved = @ + 1]
  <2>1. Frozen(k, repo.index)
    BY DEF ReceiptInv, PacketInv
  <2>2. CASE ~Receipts!Freezing
    <3>1. packet' = k /\ k.step \in {"idle", "frozen"}
      BY <1>2, <2>2 DEF Receipts!Freezing
    <3> HIDE DEF k
    <3>2. Frozen(k, t)
      BY <2>1, <3>1 DEF Frozen, AfterTree, AfterDiff, AfterOwn
    <3> QED
      BY <3>1, <3>2
  <2>3. CASE Receipts!Freezing
    <3>1. packet' = m /\ m = [k EXCEPT !.moved = k.moved + 1] /\ k.step \notin {"idle", "frozen"}
      BY <1>2, <2>3 DEF Receipts!Freezing
    <3> HIDE DEF k, m
    <3>2. /\ WholePacket(m) /\ m.moved = k.moved + 1 /\ m.step = k.step /\ m.base = k.base
          /\ m.parent = k.parent /\ m.tree = k.tree /\ m.diff = k.diff /\ m.own = k.own /\ m.records = k.records
          /\ m.text = k.text /\ k.moved \in Nat
      BY <2>1, <3>1 DEF Frozen, WholePacket
    <3>3. Signed(k.base, k.tree, k.diff, k.text, k.moved) => Signed(m.base, m.tree, m.diff, m.text, m.moved)
      BY <3>2 DEF Signed
    <3>4. Frozen(m, t)
      BY <2>1, <3>1, <3>2, <3>3 DEF Frozen, AfterTree, AfterDiff, AfterOwn
    <3> QED
      BY <3>1, <3>4
  <2> QED
    BY <2>2, <2>3
<1>5. packet'.step = packet.step
  <2> DEFINE k == packet
             m == [k EXCEPT !.moved = @ + 1]
  <2>1. packet' = m \/ packet' = k
    BY <1>2
  <2>2. m = [k EXCEPT !.moved = k.moved + 1] /\ WholePacket(k)
    BY DEF ReceiptInv, PacketInv, Frozen
  <2> HIDE DEF k, m
  <2>3. m.step = k.step
    BY <2>2 DEF WholePacket
  <2> QED
    BY <2>1, <2>3 DEF k
<1>6. PacketInv' /\ MachineInv'
  <2>1. Frozen(packet, repo.index)'
    BY <1>3, <1>4 DEF Frozen, WholePacket, Between, Signed, Receipts!Diff, Receipts!Last,
         Receipts!IsDerived, Receipts!IsLogical, Receipts!IsLarge
  <2> QED
    BY <1>2, <1>5, <2>1 DEF PacketInv, ReceiptInv, MachineInv
<1> QED
  BY <1>2, <1>3, <1>6, SignedStay DEF ReceiptInv

\* The checkout and the machine receipt move otherwise, or the pull request; nothing read
\* so far is touched.
LEMMA OutsideStep ==
  ASSUME ReceiptInv, UNCHANGED <<packet, phaseOne, binding, phaseTwo>>,
         repo'.index = repo.index, CheckoutInv', MachineInv'
  PROVE  ReceiptInv'
<1>1. PacketInv'
  <2>1. Frozen(packet, repo.index)'
    BY DEF ReceiptInv, PacketInv, Frozen, WholePacket, Between, Signed, Receipts!Diff, Receipts!Last,
           Receipts!IsDerived, Receipts!IsLogical, Receipts!IsLarge
  <2> QED
    BY <2>1 DEF ReceiptInv, PacketInv
<1> QED
  BY <1>1, SignedStay DEF ReceiptInv

LEMMA CheckoutStep ==
  ASSUME ReceiptInv, Receipts!Touch \/ Receipts!Commit \/ Receipts!RunMachine
  PROVE  ReceiptInv'
<1>1. UNCHANGED <<pull, check, packet, phaseOne, binding, phaseTwo>>
  BY DEF Receipts!Touch, Receipts!Commit, Receipts!RunMachine, Receipts!github, Receipts!review
<1> DEFINE r == repo
<1>2. /\ r = [head |-> r.head, index |-> r.index, dirty |-> r.dirty, scope |-> r.scope]
      /\ r.head \in Line /\ r.index \in Content /\ r.scope \in Line
  BY DEF ReceiptInv, CheckoutInv
\* What the next checkout has to be.
<1>3. ASSUME NEW n, repo' = n, n = [head |-> n.head, index |-> n.index, dirty |-> n.dirty, scope |-> n.scope],
             n.head \in Line, n.index = r.index, n.scope \in Line, UNCHANGED machine
      PROVE  ReceiptInv'
  <2>1. CheckoutInv' /\ MachineInv'
    BY <1>1, <1>2, <1>3 DEF ReceiptInv, CheckoutInv, MachineInv, Line, Content, Receipts!Content
  <2> QED
    BY <1>1, <1>3, <2>1, OutsideStep
<1>4. CASE Receipts!Touch
  <2>1. ASSUME NEW v, NEW n, repo' = n, n = [r EXCEPT !.dirty = v] \/ (n = [r EXCEPT !.scope = v] /\ v \in Line)
        PROVE  ReceiptInv'
    <3> HIDE DEF r
    <3>1. /\ n = [head |-> n.head, index |-> n.index, dirty |-> n.dirty, scope |-> n.scope]
          /\ n.head = r.head /\ n.index = r.index /\ n.scope \in Line
      BY <1>2, <2>1
    <3> QED
      BY <1>2, <1>3, <1>4, <2>1, <3>1 DEF Receipts!Touch
  <2>2. CASE repo' = [repo EXCEPT !.dirty = ~@]
    <3> DEFINE v == ~r.dirty
               n == [r EXCEPT !.dirty = v]
    <3>1. repo' = n /\ n = [r EXCEPT !.dirty = v]
      BY <2>2
    <3> HIDE DEF v, n
    <3> QED
      BY <2>1, <3>1
  <2>3. ASSUME NEW c \in Line, repo' = [repo EXCEPT !.scope = c] PROVE ReceiptInv'
    <3> DEFINE n == [r EXCEPT !.scope = c]
    <3>1. repo' = n /\ n = [r EXCEPT !.scope = c]
      BY <2>3
    <3> HIDE DEF n
    <3> QED
      BY <2>1, <3>1
  <2> QED
    BY <1>4, <2>2, <2>3, ObjectsAreLines DEF Receipts!Touch, ReceiptInv
<1>5. CASE Receipts!Commit
  <2> DEFINE h == Append(r.head, r.index)
             n == [r EXCEPT !.head = h]
  <2>1. repo' = n /\ n = [r EXCEPT !.head = h] /\ UNCHANGED machine
    BY <1>5 DEF Receipts!Commit
  <2>2. h \in Line
    BY <1>2 DEF Line
  <2> HIDE DEF r, h, n
  <2>3. /\ n = [head |-> n.head, index |-> n.index, dirty |-> n.dirty, scope |-> n.scope]
        /\ n.head = h /\ n.index = r.index /\ n.scope = r.scope
    BY <1>2, <2>1
  <2> QED
    BY <1>2, <1>3, <2>1, <2>2, <2>3
<1>6. CASE Receipts!RunMachine
  <2>1. PICK parent :
          machine' = [base |-> parent, tree |-> repo.index, diff |-> Receipts!Diff(parent, repo.index),
                      scope |-> repo.scope]
    BY <1>6 DEF Receipts!RunMachine
  <2>2. MachineInv'
    BY <2>1 DEF MachineInv, Receipts!Diff
  <2>3. UNCHANGED repo
    BY <1>6 DEF Receipts!RunMachine
  <2>4. CheckoutInv'
    BY <1>1, <2>3 DEF ReceiptInv, CheckoutInv, Line, Content, Receipts!Content
  <2> QED
    BY <1>1, <2>2, <2>3, <2>4, OutsideStep
<1> QED
  BY <1>4, <1>5, <1>6

LEMMA GitHubStep ==
  ASSUME ReceiptInv, \/ Receipts!PullMoves \/ Receipts!Recompute
                     \/ Receipts!OpenCheck \/ Receipts!CompleteCheck
  PROVE  ReceiptInv'
<1>1. UNCHANGED <<repo, machine, packet, phaseOne, binding, phaseTwo>>
  BY DEF Receipts!PullMoves, Receipts!Recompute, Receipts!OpenCheck, Receipts!CompleteCheck,
         Receipts!checkout, Receipts!review
<1> DEFINE q == pull
<1>2. /\ q = [open |-> q.open, mergeable |-> q.mergeable, head |-> q.head, base |-> q.base,
              merge |-> q.merge]
      /\ q.head \in Line /\ repo.head \in Line /\ q.base \in Line
  BY DEF ReceiptInv, CheckoutInv
<1>3. ASSUME NEW n, pull' = n,
             n = [open |-> n.open, mergeable |-> n.mergeable, head |-> n.head, base |-> n.base,
                  merge |-> n.merge],
             n.head \in Line, n.base \in Line
      PROVE  ReceiptInv'
  <2>1. CheckoutInv' /\ MachineInv'
    BY <1>1, <1>2, <1>3 DEF ReceiptInv, CheckoutInv, MachineInv, Line, Content, Receipts!Content
  <2> QED
    BY <1>1, <2>1, OutsideStep
<1>4. ASSUME NEW v, NEW w, NEW n, pull' = n,
             \/ n = [q EXCEPT !.head = v, !.mergeable = w] /\ v \in Line
             \/ n = [q EXCEPT !.base = v] /\ v \in Line
             \/ n = [q EXCEPT !.open = v]
             \/ n = [q EXCEPT !.mergeable = v, !.merge = w]
             \/ n = q
      PROVE  ReceiptInv'
  <2> HIDE DEF q
  <2>1. /\ n = [open |-> n.open, mergeable |-> n.mergeable, head |-> n.head, base |-> n.base,
                merge |-> n.merge]
        /\ n.head \in Line /\ n.base \in Line
    BY <1>2, <1>4
  <2> QED
    BY <1>3, <1>4, <2>1
<1>5. CASE pull' = [pull EXCEPT !.head = repo.head, !.mergeable = FALSE]
  <2> DEFINE n == [q EXCEPT !.head = repo.head, !.mergeable = FALSE]
  <2>1. pull' = n /\ n = [q EXCEPT !.head = repo.head, !.mergeable = FALSE]
    BY <1>5
  <2> HIDE DEF n
  <2> QED
    BY <1>2, <1>4, <2>1
<1>6. CASE pull' = [pull EXCEPT !.base = Append(@, 0)]
  <2> DEFINE v == Append(q.base, 0)
             n == [q EXCEPT !.base = v]
  <2>1. pull' = n /\ n = [q EXCEPT !.base = v]
    BY <1>6
  <2>2. v \in Line
    BY <1>2 DEF Line, Content, Receipts!Content
  <2> HIDE DEF n, v
  <2> QED
    BY <1>4, <2>1, <2>2
<1>7. CASE pull' = [pull EXCEPT !.open = FALSE]
  <2> DEFINE n == [q EXCEPT !.open = FALSE]
  <2>1. pull' = n /\ n = [q EXCEPT !.open = FALSE]
    BY <1>7
  <2> HIDE DEF n
  <2> QED
    BY <1>4, <2>1
<1>8. CASE pull' = [pull EXCEPT !.mergeable = TRUE, !.merge = <<pull.base, pull.head>>]
  <2> DEFINE v == <<q.base, q.head>>
             n == [q EXCEPT !.mergeable = TRUE, !.merge = v]
  <2>1. pull' = n /\ n = [q EXCEPT !.mergeable = TRUE, !.merge = v]
    BY <1>8
  <2> HIDE DEF n, v
  <2> QED
    BY <1>4, <2>1
<1>9. CASE pull' = pull
  BY <1>4, <1>9
<1> QED
  BY <1>5, <1>6, <1>7, <1>8, <1>9 DEF Receipts!PullMoves, Receipts!Moved, Receipts!Recompute,
     Receipts!OpenCheck, Receipts!CompleteCheck

\* A step of the freeze: it writes the packet, and nothing else.
LEMMA FreezeMoves ==
  ASSUME ReceiptInv, NEW z, packet' = z, Receipts!Unmoved, Frozen(z, repo.index),
         z.step = "idle" \/ phaseOne = Nothing
  PROVE  ReceiptInv'
<1>1. UNCHANGED <<repo, machine, pull, check, phaseOne, binding, phaseTwo>>
  BY DEF Receipts!Unmoved, Receipts!checkout, Receipts!github
<1>2. CheckoutInv' /\ MachineInv'
  BY <1>1 DEF ReceiptInv, CheckoutInv, MachineInv, Line, Content, Receipts!Content
<1>3. Frozen(packet, repo.index)'
  BY <1>1 DEF Frozen, WholePacket, Between, Signed, Receipts!Diff, Receipts!Last,
       Receipts!IsDerived, Receipts!IsLogical, Receipts!IsLarge, Line, Content, Receipts!Content
<1>4. PacketInv'
  BY <1>1, <1>3 DEF PacketInv
<1> QED
  BY <1>1, <1>2, <1>4, SignedStay DEF ReceiptInv

LEMMA RefuseStep ==
  ASSUME ReceiptInv, Receipts!Refuse, Receipts!Unmoved PROVE ReceiptInv'
<1> DEFINE k == Receipts!Idle
<1>1. WholePacket(k) /\ k.moved = 0 /\ k.step = "idle"
  BY DEF WholePacket, Receipts!Idle
<1>2. packet' = k
  BY DEF Receipts!Refuse
<1> HIDE DEF k
<1>3. Frozen(k, repo.index)
  BY <1>1 DEF Frozen, AfterTree, AfterDiff, AfterOwn
<1> QED
  BY <1>1, <1>2, <1>3, FreezeMoves

LEMMA FreezeStep == ASSUME ReceiptInv, Receipts!Freeze PROVE ReceiptInv'
<1>1. PICK mode \in {"staged", "committed-head"}, base \in {Receipts!Root, pull.base},
           target \in {Nothing, pull.head} :
        LET parent == IF mode = "staged" THEN repo.head ELSE Receipts!FirstParent(repo.head) IN
          /\ mode = "committed-head" => Len(repo.head) > 1
          /\ packet' = [Receipts!Idle EXCEPT !.step = "clean", !.mode = mode, !.base = base,
                          !.parent = parent, !.target = target]
  BY DEF Receipts!Freeze
<1> DEFINE parent == IF mode = "staged" THEN repo.head ELSE Receipts!FirstParent(repo.head)
           k == Receipts!Idle
           z == [k EXCEPT !.step = "clean", !.mode = mode, !.base = base,
                          !.parent = parent, !.target = target]
<1>2. parent \in Line
  <2>1. repo.head \in Seq(Content) /\ Len(repo.head) \in Nat /\ repo.head \in Line
    BY DEF ReceiptInv, CheckoutInv, Line
  <2>2. CASE mode = "staged"
    BY <2>1, <2>2
  <2>3. CASE mode # "staged"
    <3>1. parent = SubSeq(repo.head, 1, Len(repo.head) - 1) /\ Len(repo.head) > 1
      BY <1>1, <2>3 DEF Receipts!FirstParent, Receipts!Front
    <3>2. SubSeq(repo.head, 1, Len(repo.head) - 1) \in Seq(Content)
          /\ Len(SubSeq(repo.head, 1, Len(repo.head) - 1)) = Len(repo.head) - 1
      BY <2>1, <3>1
    <3> QED
      BY <2>1, <3>1, <3>2 DEF Line
  <2> QED
    BY <2>2, <2>3
<1>3. packet' = z /\ z = [k EXCEPT !.step = "clean", !.mode = mode, !.base = base,
                            !.parent = parent, !.target = target]
  BY <1>1
<1>4. WholePacket(k) /\ k.moved = 0
  BY DEF WholePacket, Receipts!Idle
<1> HIDE DEF k, z, parent
<1>5. WholePacket(z) /\ z.step = "clean" /\ z.parent = parent /\ z.moved = 0
  BY <1>3, <1>4 DEF WholePacket
<1>6. Frozen(z, repo.index)
  BY <1>2, <1>5 DEF Frozen, AfterTree, AfterDiff, AfterOwn
<1> QED
  BY <1>3, <1>6, FreezeMoves DEF Receipts!Freeze

LEMMA ReadsStep ==
  ASSUME ReceiptInv,
         \/ Receipts!CheckClean \/ Receipts!WriteTree \/ Receipts!CompareHead \/ Receipts!ReadDiff
         \/ Receipts!ReadOwnDiff \/ Receipts!ReadRecords
  PROVE  ReceiptInv'
<1> DEFINE k == packet
           i == repo.index
<1>1. Frozen(k, i) /\ (k.step # "idle" => phaseOne = Nothing) /\ i \in Content
  BY DEF ReceiptInv, PacketInv, CheckoutInv
<1>2. Receipts!Unmoved
  BY DEF Receipts!CheckClean, Receipts!WriteTree, Receipts!CompareHead, Receipts!ReadDiff,
         Receipts!ReadOwnDiff, Receipts!ReadRecords
<1>3. CASE Receipts!Refuse
  BY <1>2, <1>3, RefuseStep
\* The packet goes on from step to step.
<1>4. ASSUME NEW z, packet' = z, k.step # "idle", Frozen(z, i) PROVE ReceiptInv'
  BY <1>1, <1>2, <1>4, FreezeMoves
<1>5. CASE Receipts!CheckClean
  <2> DEFINE z == [k EXCEPT !.step = "tree"]
  <2>1. Receipts!Refuse \/ (k.step = "clean" /\ packet' = z /\ z = [k EXCEPT !.step = "tree"])
    BY <1>5 DEF Receipts!CheckClean, Receipts!Then
  <2> HIDE DEF z, k, i
  <2>2. ASSUME k.step = "clean", z = [k EXCEPT !.step = "tree"] PROVE Frozen(z, i)
    <3>1. WholePacket(z) /\ z.step = "tree" /\ z.parent = k.parent /\ z.moved = k.moved
      BY <1>1, <2>2 DEF Frozen, WholePacket
    <3> QED
      BY <1>1, <2>2, <3>1 DEF Frozen, AfterTree, AfterDiff, AfterOwn
  <2> QED
    BY <1>3, <1>4, <2>1, <2>2
<1>6. CASE Receipts!WriteTree
  <2> DEFINE next == IF k.mode = "staged" THEN "diff" ELSE "head"
             z == [k EXCEPT !.tree = i, !.step = next]
  <2>1. k.step = "tree" /\ packet' = z /\ z = [k EXCEPT !.tree = i, !.step = next]
        /\ next \in {"diff", "head"}
    BY <1>6 DEF Receipts!WriteTree, Receipts!Then
  <2> HIDE DEF z, k, i, next
  <2>2. WholePacket(z) /\ z.step = next /\ z.parent = k.parent /\ z.moved = k.moved /\ z.tree = i
    BY <1>1, <2>1 DEF Frozen, WholePacket
  <2>3. Frozen(z, i)
    BY <1>1, <2>1, <2>2 DEF Frozen, AfterTree, AfterDiff, AfterOwn
  <2> QED
    BY <1>4, <2>1, <2>3
<1>7. CASE Receipts!CompareHead
  <2> DEFINE z == [k EXCEPT !.step = "diff"]
  <2>1. Receipts!Refuse \/ (k.step = "head" /\ packet' = z /\ z = [k EXCEPT !.step = "diff"])
    BY <1>7 DEF Receipts!CompareHead, Receipts!Then
  <2> HIDE DEF z, k, i
  <2>2. ASSUME k.step = "head", z = [k EXCEPT !.step = "diff"] PROVE Frozen(z, i)
    <3>1. WholePacket(z) /\ z.step = "diff" /\ z.parent = k.parent /\ z.moved = k.moved
          /\ z.tree = k.tree
      BY <1>1, <2>2 DEF Frozen, WholePacket
    <3> QED
      BY <1>1, <2>2, <3>1 DEF Frozen, AfterTree, AfterDiff, AfterOwn
  <2> QED
    BY <1>3, <1>4, <2>1, <2>2
<1>8. CASE Receipts!ReadDiff
  <2> DEFINE d == Receipts!Diff(k.base, i)
             z == [k EXCEPT !.diff = d, !.step = "own"]
  <2>1. k.step = "diff" /\ packet' = z /\ z = [k EXCEPT !.diff = d, !.step = "own"]
    BY <1>8 DEF Receipts!ReadDiff, Receipts!Then
  <2>2. d.to = i /\ Between(k.base, d)
    BY DEF Receipts!Diff, Between
  <2> HIDE DEF z, k, i, d
  <2>3. WholePacket(z) /\ z.step = "own" /\ z.parent = k.parent /\ z.moved = k.moved
        /\ z.tree = k.tree /\ z.base = k.base /\ z.diff = d
    BY <1>1, <2>1 DEF Frozen, WholePacket
  <2>4. Frozen(z, i)
    BY <1>1, <2>1, <2>2, <2>3 DEF Frozen, AfterTree, AfterDiff, AfterOwn
  <2> QED
    BY <1>4, <2>1, <2>4
<1>9. CASE Receipts!ReadOwnDiff
  <2> DEFINE d == Receipts!Diff(k.parent, i)
             z == [k EXCEPT !.own = d, !.step = "records"]
  <2>1. Receipts!Refuse \/ (k.step = "own" /\ packet' = z /\ z = [k EXCEPT !.own = d, !.step = "records"])
    BY <1>9 DEF Receipts!ReadOwnDiff, Receipts!Then
  <2>2. d.to = i /\ d.from = Receipts!Last(k.parent) /\ d = [from |-> d.from, to |-> d.to]
    BY DEF Receipts!Diff
  <2> HIDE DEF z, k, i, d
  <2>3. ASSUME k.step = "own", z = [k EXCEPT !.own = d, !.step = "records"] PROVE Frozen(z, i)
    <3>1. WholePacket(z) /\ z.step = "records" /\ z.parent = k.parent /\ z.moved = k.moved
          /\ z.tree = k.tree /\ z.base = k.base /\ z.diff = k.diff /\ z.own = d
      BY <1>1, <2>3 DEF Frozen, WholePacket
    <3>2. k.parent \in Line
      BY <1>1, <2>3 DEF Frozen, AfterTree
    <3>3. d \in [from : Content, to : Content]
      BY <1>1, <2>2, <3>2 DEF Line, Receipts!Last
    <3> QED
      BY <1>1, <2>2, <2>3, <3>1, <3>3 DEF Frozen, AfterTree, AfterDiff, AfterOwn
  <2> QED
    BY <1>3, <1>4, <2>1, <2>3
<1>10. CASE Receipts!ReadRecords
  <2> DEFINE d == Receipts!Diff(k.base, i)
             z == [k EXCEPT !.records = d, !.step = "text"]
  <2>1. Receipts!Refuse \/ (k.step = "records" /\ packet' = z /\ z = [k EXCEPT !.records = d, !.step = "text"])
    BY <1>10 DEF Receipts!ReadRecords, Receipts!Then
  <2>2. d.to = i /\ Between(k.base, d)
    BY DEF Receipts!Diff, Between
  <2> HIDE DEF z, k, i, d
  <2>3. ASSUME k.step = "records", z = [k EXCEPT !.records = d, !.step = "text"] PROVE Frozen(z, i)
    <3>1. WholePacket(z) /\ z.step = "text" /\ z.parent = k.parent /\ z.moved = k.moved
          /\ z.tree = k.tree /\ z.base = k.base /\ z.diff = k.diff /\ z.own = k.own /\ z.records = d
      BY <1>1, <2>3 DEF Frozen, WholePacket
    <3> QED
      BY <1>1, <2>2, <2>3, <3>1 DEF Frozen, AfterTree, AfterDiff, AfterOwn
  <2> QED
    BY <1>3, <1>4, <2>1, <2>3
<1> QED
  BY <1>5, <1>6, <1>7, <1>8, <1>9, <1>10

LEMMA TextStep == ASSUME ReceiptInv, Receipts!ReadText PROVE ReceiptInv'
<1> DEFINE k == packet
           i == repo.index
           logical == Receipts!IsLogical(k.records) \/ Receipts!IsLogical(k.diff)
           other == Receipts!Diff(k.base, i)
           text == CASE logical -> k.records
                     [] ~logical /\ ~Receipts!IsLarge(k.diff) -> k.diff
                     [] OTHER -> other
           z == [k EXCEPT !.text = text, !.step = "contracts"]
<1>1. Frozen(k, i) /\ phaseOne = Nothing /\ k.step = "text" /\ Receipts!Unmoved
  BY DEF ReceiptInv, PacketInv, Receipts!ReadText, Receipts!Then
<1>2. CASE Receipts!Refuse
  BY <1>1, <1>2, RefuseStep
<1>3. CASE packet' = z /\ ~(logical /\ ~Receipts!IsLogical(k.records))
  <2>1. z = [k EXCEPT !.text = text, !.step = "contracts"] /\ packet' = z
    BY <1>3
  <2>2. other.to = i /\ Between(k.base, other)
    BY DEF Receipts!Diff, Between
  <2>3. \/ text = k.records /\ Receipts!IsDerived(k.records)
        \/ text = k.diff
        \/ text = other /\ Receipts!IsDerived(k.diff)
    BY <1>3 DEF Receipts!IsDerived
  <2> HIDE DEF z, text, other, i, k
  <2>4. WholePacket(z) /\ z.step = "contracts" /\ z.parent = k.parent /\ z.moved = k.moved
        /\ z.tree = k.tree /\ z.base = k.base /\ z.diff = k.diff /\ z.own = k.own
        /\ z.text = text /\ z.records = k.records
    BY <1>1, <2>1 DEF Frozen, WholePacket
  <2>5. ASSUME k.own.to = k.tree PROVE Signed(k.base, k.tree, k.diff, text, k.moved)
    <3>1. /\ Between(k.base, k.diff) /\ Between(k.base, k.records) /\ k.moved \in Nat
          /\ k.diff.to # k.tree => k.moved >= 2
          /\ k.records.to # k.tree => k.moved >= 1
          /\ i # k.tree => k.moved >= 1
      BY <1>1, <2>5 DEF Frozen, AfterTree, AfterDiff, AfterOwn
    <3> QED
      BY <2>2, <2>3, <3>1 DEF Signed
  <2>6. Frozen(z, i)
    BY <1>1, <2>4, <2>5 DEF Frozen, AfterTree, AfterDiff, AfterOwn
  <2> QED
    BY <1>1, <2>1, <2>6, FreezeMoves DEF i
<1> QED
  BY <1>2, <1>3 DEF Receipts!ReadText

LEMMA ContractsStep ==
  ASSUME Receipts!ReceiptAssumption, ReceiptInv, Receipts!ReadContracts PROVE ReceiptInv'
<1> DEFINE k == packet
           i == repo.index
<1>1. Frozen(k, i) /\ phaseOne = Nothing /\ k.step = "contracts" /\ Receipts!Unmoved
  BY DEF ReceiptInv, PacketInv, Receipts!ReadContracts, Receipts!Then
<1>2. CASE Receipts!Refuse
  BY <1>1, <1>2, RefuseStep
<1>3. ASSUME Receipts!MachineIsExact, NEW v, packet' = [packet EXCEPT !.step = "frozen", !.lineage = v]
      PROVE  ReceiptInv'
  <2> DEFINE z == [k EXCEPT !.step = "frozen", !.lineage = v]
  <2>1. z = [k EXCEPT !.step = "frozen", !.lineage = v] /\ packet' = z
    BY <1>3
  <2>2. k.own.to = k.tree
    <3>1. machine = [base |-> k.parent, tree |-> k.tree, diff |-> k.own, scope |-> repo.scope]
      BY <1>3 DEF Receipts!MachineIsExact
    <3>2. /\ k.parent \in Seq(Content) /\ k.tree \in Content /\ repo.scope \in Seq(Content)
          /\ k.own \in [from : Content, to : Content]
      BY <1>1 DEF Frozen, AfterTree, AfterOwn, Line, ReceiptInv, CheckoutInv
    <3>3. machine # Nothing
      BY <3>1, <3>2 DEF Receipts!ReceiptAssumption, Content
    <3>4. machine.diff = k.own /\ machine.tree = k.tree
      BY <3>1
    <3> QED
      BY <3>3, <3>4 DEF ReceiptInv, MachineInv
  <2> HIDE DEF z, k, i
  <2>3. WholePacket(z) /\ z.step = "frozen" /\ z.parent = k.parent /\ z.moved = k.moved
        /\ z.tree = k.tree /\ z.base = k.base /\ z.diff = k.diff /\ z.text = k.text
    BY <1>1, <2>1 DEF Frozen, WholePacket
  <2>4. Frozen(z, i)
    BY <1>1, <2>2, <2>3 DEF Frozen, AfterTree, AfterDiff, AfterOwn
  <2> QED
    BY <1>1, <2>1, <2>4, FreezeMoves DEF i
<1> QED
  BY <1>2, <1>3 DEF Receipts!ReadContracts

\* The receipt is signed over the frozen packet, whose lineage was derived once more.
LEMMA SignStep == ASSUME ReceiptInv, Receipts!SignPhaseOne PROVE ReceiptInv'
<1>1. /\ packet.step = "frozen" /\ Frozen(packet, repo.index) /\ phaseOne = Nothing
      /\ packet' = Receipts!Idle
      /\ UNCHANGED <<repo, machine, pull, check, binding, phaseTwo>>
  BY DEF ReceiptInv, PacketInv, Receipts!SignPhaseOne, Receipts!Refuse, Receipts!checkout, Receipts!github
<1>2. Signed(packet.base, packet.tree, packet.diff, packet.text, packet.moved)
  BY <1>1 DEF Frozen
<1>3. CheckoutInv' /\ MachineInv'
  BY <1>1 DEF ReceiptInv, CheckoutInv, MachineInv, Line, Content, Receipts!Content
<1>4. PacketInv'
  <2> DEFINE k == Receipts!Idle
  <2>1. WholePacket(k) /\ k.moved = 0 /\ k.step = "idle"
    BY DEF WholePacket, Receipts!Idle
  <2>2. packet' = k
    BY <1>1
  <2> HIDE DEF k
  <2>3. \A i : Frozen(k, i)
    BY <2>1 DEF Frozen, AfterTree, AfterDiff, AfterOwn
  <2>4. Frozen(packet, repo.index)'
    BY <2>2, <2>3 DEF Frozen, WholePacket, Between, Signed, Receipts!Diff, Receipts!Last,
         Receipts!IsDerived, Receipts!IsLogical, Receipts!IsLarge, Line, Content, Receipts!Content
  <2> QED
    BY <2>1, <2>2, <2>4 DEF PacketInv
<1>5. CASE UNCHANGED phaseOne
  BY <1>1, <1>3, <1>4, <1>5, SignedStay DEF ReceiptInv
<1>6. ASSUME Receipts!LineageIsCurrent(packet.lineage), NEW r,
             phaseOne' = [candidate |-> [base |-> packet.base, parent |-> packet.parent,
                                         tree |-> packet.tree, diff |-> packet.diff],
                           reviewer |-> r, level |-> Receipts!Level(r),
                           target |-> packet.target, text |-> packet.text,
                           lineage |-> packet.lineage, moved |-> packet.moved,
                           known |-> Receipts!Objects]
      PROVE  ReceiptInv'
  <2>1. /\ phaseOne'.candidate.base = packet.base /\ phaseOne'.candidate.parent = packet.parent
        /\ phaseOne'.candidate.tree = packet.tree /\ phaseOne'.candidate.diff = packet.diff
        /\ phaseOne'.text = packet.text /\ phaseOne'.lineage = packet.lineage
        /\ phaseOne'.moved = packet.moved /\ phaseOne'.known = Receipts!Objects
    BY <1>6
  <2>2. SignedInv'
    BY <1>2, <2>1 DEF SignedInv, Signed, Between, Receipts!Diff, Receipts!Last,
         Receipts!IsDerived, Receipts!IsLogical, Receipts!IsLarge
  <2>3. binding.step = "idle"
    BY <1>1 DEF ReceiptInv, BindingInv
  <2>4. BindingInv'
    BY <1>1, <2>3 DEF BindingInv
  <2>5. Receipts!CountersignIsExact'
    BY <1>1 DEF ReceiptInv, Receipts!CountersignIsExact
  <2>6. Receipts!LineageHolds'
    <3> DEFINE l == packet.lineage
    <3>1. SUFFICES ASSUME l # Nothing
                   PROVE  /\ l.unresolved \cap Receipts!Objects = {}
                          /\ Receipts!IsAncestor(l.start, packet.parent)
                          /\ \A c \in l.commits : c.commit \in Receipts!Objects
      BY <2>1 DEF Receipts!LineageHolds, Receipts!IsAncestor, Receipts!IsPrefix
    <3>2. /\ Receipts!StartHolds(packet.parent, l.start)
          /\ l = Receipts!Provenance(packet.parent, l.start, packet.text)
      BY <1>6, <3>1 DEF Receipts!LineageIsCurrent
    <3>3. /\ l.unresolved = NamesIn[packet.text.to] \ Receipts!Objects
          /\ l.commits = {Receipts!Relation(c, l.start, packet.parent) :
                            c \in NamesIn[packet.text.to] \cap Receipts!Objects}
      BY <3>2 DEF Receipts!Provenance
    <3> HIDE DEF l
    <3>4. \A c : Receipts!Relation(c, l.start, packet.parent).commit = c
      BY DEF Receipts!Relation
    <3> QED
      BY <3>2, <3>3, <3>4 DEF Receipts!StartHolds
  <2> QED
    BY <1>3, <1>4, <2>2, <2>4, <2>5, <2>6 DEF ReceiptInv
<1> QED
  BY <1>5, <1>6 DEF Receipts!SignPhaseOne

LEMMA BindingStep ==
  ASSUME ReceiptInv, Receipts!ReadPull \/ Receipts!ReadCheck \/ Receipts!Countersign
  PROVE  ReceiptInv'
<1>1. UNCHANGED <<repo, machine, pull, check, packet, phaseOne>>
  BY DEF Receipts!ReadPull, Receipts!ReadCheck, Receipts!Countersign, Receipts!checkout,
         Receipts!github, Receipts!review
<1>2. CheckoutInv' /\ MachineInv' /\ PacketInv' /\ SignedInv' /\ Receipts!LineageHolds'
  <2>1. Frozen(packet, repo.index)'
    BY <1>1 DEF ReceiptInv, PacketInv, Frozen, WholePacket, Between, Signed, Receipts!Diff, Receipts!Last,
         Receipts!IsDerived, Receipts!IsLogical, Receipts!IsLarge, Line, Content, Receipts!Content
  <2> QED
    BY <1>1, <2>1 DEF ReceiptInv, CheckoutInv, MachineInv, PacketInv, SignedInv, Receipts!LineageHolds,
         Signed, Between, Receipts!Diff, Receipts!Last, Receipts!IsDerived, Receipts!IsLogical,
         Receipts!IsLarge, Line, Content, Receipts!Content, Receipts!IsAncestor, Receipts!IsPrefix
<1>3. ASSUME NEW q, q.head \in Line, Receipts!PullIsExact(q, phaseOne), phaseOne # Nothing,
             binding'.pull = q
      PROVE  BindingInv'
  BY <1>1, <1>3 DEF BindingInv, Line, Content, Receipts!Content, Receipts!PullIsExact, Receipts!Last,
       Receipts!FirstParent, Receipts!Front
<1>4. CASE Receipts!ReadPull
  <2>1. binding'.pull = pull /\ pull.head \in Line /\ Receipts!PullIsExact(pull, phaseOne)
        /\ phaseOne # Nothing /\ UNCHANGED phaseTwo
    BY <1>4 DEF Receipts!ReadPull, ReceiptInv, CheckoutInv
  <2>2. Receipts!CountersignIsExact'
    BY <2>1 DEF ReceiptInv, Receipts!CountersignIsExact
  <2> QED
    BY <1>2, <1>3, <2>1, <2>2 DEF ReceiptInv
<1>5. CASE Receipts!ReadCheck
  <2>1. UNCHANGED phaseTwo /\ binding.step = "check"
    BY <1>5 DEF Receipts!ReadCheck
  <2>2. CASE binding' = Receipts!NoBinding
    BY <1>2, <2>1, <2>2 DEF ReceiptInv, BindingInv, Receipts!NoBinding, Receipts!CountersignIsExact
  <2>3. CASE binding' = [binding EXCEPT !.step = "again"]
    <3>1. binding'.pull = binding.pull
      BY <2>3
    <3>2. binding.pull.head \in Line /\ Receipts!PullIsExact(binding.pull, phaseOne) /\ phaseOne # Nothing
      BY <2>1 DEF ReceiptInv, BindingInv
    <3>3. Receipts!CountersignIsExact'
      BY <2>1 DEF ReceiptInv, Receipts!CountersignIsExact
    <3> QED
      BY <1>2, <1>3, <3>1, <3>2, <3>3 DEF ReceiptInv
  <2> QED
    BY <1>5, <2>2, <2>3 DEF Receipts!ReadCheck
<1>6. CASE Receipts!Countersign
  <2>1. /\ binding.step = "again" /\ binding' = Receipts!NoBinding
        /\ phaseTwo' = IF Receipts!Unchanged(binding.pull, pull) /\ Receipts!Live(binding.pull, phaseOne)
                       THEN [phaseOne |-> phaseOne, live |-> binding.pull, seen |-> pull]
                       ELSE Nothing
    BY <1>6 DEF Receipts!Countersign
  <2>2. BindingInv'
    BY <2>1 DEF BindingInv, Receipts!NoBinding
  <2>3. CASE ~(Receipts!Unchanged(binding.pull, pull) /\ Receipts!Live(binding.pull, phaseOne))
    BY <1>2, <2>1, <2>2, <2>3 DEF ReceiptInv, Receipts!CountersignIsExact
  <2>4. CASE pull = binding.pull /\ Receipts!Live(pull, phaseOne)
    <3>1. /\ pull.head \in Line /\ Receipts!PullIsExact(pull, phaseOne)
          /\ phaseTwo'.phaseOne = phaseOne /\ phaseTwo'.seen = pull
      BY <2>1, <2>4 DEF ReceiptInv, BindingInv, Receipts!Unchanged
    <3>2. pull.head = Append(phaseOne.candidate.parent, phaseOne.candidate.tree)
      BY <3>1, CommitIs DEF Receipts!PullIsExact
    <3>3. Receipts!CountersignIsExact'
      BY <2>4, <3>1, <3>2 DEF Receipts!CountersignIsExact, Receipts!PullIsExact, Receipts!Live
    <3> QED
      BY <1>2, <2>2, <3>3 DEF ReceiptInv
  <2> QED
    BY <2>3, <2>4 DEF Receipts!Unchanged
<1> QED
  BY <1>4, <1>5, <1>6

\* TextIsTheTree, CountersignIsExact and LineageHolds of the two-phase receipt, for any
\* contents, projections, commits and edits: what a signed receipt says was reviewed is its
\* tree unless the index moved under the freeze, a countersigned pull request was the
\* candidate when it was last read, and a lineage shown was true when it was signed.
THEOREM ReceiptsAreExact ==
  ASSUME Receipts!ReceiptAssumption
  PROVE  Receipts!Spec => [](/\ Receipts!TextIsTheTree /\ Receipts!CountersignIsExact
                             /\ Receipts!LineageHolds)
<1>1. Receipts!Init => ReceiptInv
  BY ReceiptInit
<1>2. ReceiptInv /\ [Receipts!Next]_Receipts!vars => ReceiptInv'
  <2> SUFFICES ASSUME ReceiptInv, [Receipts!Next]_Receipts!vars PROVE ReceiptInv'
    OBVIOUS
  <2>1. CASE UNCHANGED Receipts!vars
    <3>1. UNCHANGED <<packet, phaseOne, binding, phaseTwo, repo>> /\ CheckoutInv' /\ MachineInv'
      BY <2>1 DEF Receipts!vars, ReceiptInv, CheckoutInv, MachineInv, Line, Content, Receipts!Content
    <3> QED
      BY <3>1, OutsideStep
  <2> QED
    BY <2>1, StageStep, CheckoutStep, GitHubStep, FreezeStep, ReadsStep, TextStep, ContractsStep,
       SignStep, BindingStep DEF Receipts!Next
<1>3. ReceiptInv => /\ Receipts!TextIsTheTree /\ Receipts!CountersignIsExact
                    /\ Receipts!LineageHolds
  <2> SUFFICES ASSUME ReceiptInv PROVE Receipts!TextIsTheTree
    BY DEF ReceiptInv
  <2> DEFINE c == phaseOne.candidate
             exact == Receipts!Diff(c.base, c.tree)
  <2>1. ASSUME phaseOne # Nothing
        PROVE  /\ Signed(c.base, c.tree, c.diff, phaseOne.text, phaseOne.moved)
               /\ c.diff # exact => c.diff.to # c.tree
               /\ phaseOne.text # exact => phaseOne.text.to # c.tree
    BY <2>1 DEF ReceiptInv, SignedInv, Signed, Between
  <2> QED
    BY <2>1 DEF Receipts!TextIsTheTree, Signed
<1> QED
  BY <1>1, <1>2, <1>3, PTL DEF Receipts!Spec
=============================================================================
