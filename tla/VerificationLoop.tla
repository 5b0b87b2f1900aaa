-------------------------- MODULE VerificationLoop --------------------------
(***************************************************************************)
(* The proof-carrying verification loop of one unit at one risk tier that  *)
(* requires a checker.                                                     *)
(*                                                                         *)
(* A machine receipt records what the oracle commands returned on the      *)
(* staged tree, run in a disposable checkout with a sealed copy of the     *)
(* declared untracked input.  A checker receipt records a reviewer's       *)
(* verdict.  An adjudication joins the two under the next number of an     *)
(* append-only attempt ledger, allocated under a lock file that names the  *)
(* process that took it.  The candidate, the input and the time change     *)
(* under the commands, and a command may die between any two steps.        *)
(*                                                                         *)
(* A receipt is a value: it is immutable, digest-sealed and named by its   *)
(* content, so a set of receipts stands for the files.                     *)
(***************************************************************************)
EXTENDS Naturals, Sequences, FiniteSets

CONSTANTS
  Trees,        \* staged trees (candidates)
  Inputs,       \* contents of the declared untracked input
  Proven,       \* <<tree, input>> on which every oracle command exits 0
  Procs,        \* processes that adjudicate
  MaxAttempts,  \* policy.maxAttemptsPerCandidate
  NoLock,       \* there is no lock file
  MaxEdits,     \* bound: changes of the checkout or the input
  MaxDays,      \* bound: times the age of every receipt passes the limit
  MaxCrashes    \* bound: processes that die

ASSUME BoundsAssumption == MaxAttempts \in Nat /\ MaxEdits \in Nat /\ MaxDays \in Nat

VARIABLES
  index, work,  \* the staged tree, and the tree of the working directory
  input,        \* the declared input's content
  day,          \* a receipt of an earlier day is stale
  oracle,       \* the machine command under way, or none
  machines,     \* machine receipts
  checkers,     \* checker receipts
  signed,       \* checker receipts whose findings a human has dispositioned
  receipt,      \* adjudication receipt at the default path of <<tree, attempt>>
  ledger,       \* attempt ledger of each tree: the receipts its entries name
  lock,         \* .allocate.lock: the process that created the file, and whether
                \* its pid is written in it
  aged,         \* the lock file's mtime is a minute old
  pc, job,      \* each adjudicating process
  edits, crashes

env == <<index, work, input, day, edits>>
evidence == <<machines, checkers, signed>>
vars == <<index, work, input, day, oracle, machines, checkers, signed, receipt,
          ledger, lock, aged, pc, job, edits, crashes>>

Verdicts == {"PASSED", "BLOCKED"}
None == [outcome |-> "none"]
Machine == [tree : Trees, input : Inputs, verdict : {"PASSED", "FAILED"}, day : 0..MaxDays]
NoMachine == [tree |-> "none"]
\* route: the machine receipt a signed phase-one receipt names, if one is bound.
Checker == [tree : Trees, verdict : Verdicts, day : 0..MaxDays,
            route : Machine \cup {NoMachine}]

Init ==
  /\ index \in Trees /\ work = index /\ input \in Inputs /\ day = 0
  /\ oracle = NoMachine
  /\ machines = {} /\ checkers = {} /\ signed = {}
  /\ receipt = [k \in Trees \X (1..MaxAttempts) |-> None]
  /\ ledger = [t \in Trees |-> << >>]
  /\ lock = NoLock /\ aged = FALSE
  /\ pc = [p \in Procs |-> "idle"] /\ job = [p \in Procs |-> None]
  /\ edits = 0 /\ crashes = 0

-----------------------------------------------------------------------------
(* The project around the commands *)

\* The index, the working tree or the ignored input is edited.
Edit ==
  /\ edits < MaxEdits /\ edits' = edits + 1
  /\ \/ \E t \in Trees \ {work} : work' = t /\ UNCHANGED <<index, input>>
     \/ index # work /\ index' = work /\ UNCHANGED <<work, input>>
     \/ \E i \in Inputs \ {input} : input' = i /\ UNCHANGED <<index, work>>
  /\ UNCHANGED <<day, oracle, evidence, receipt, ledger, lock, aged, pc, job,
                 crashes>>

\* maxReceiptAgeSeconds pass; a lock file ages too.
Tomorrow ==
  /\ day < MaxDays /\ day' = day + 1
  /\ aged' = (lock # NoLock)
  /\ UNCHANGED <<index, work, input, oracle, evidence, receipt, ledger, lock, pc,
                 job, edits, crashes>>

\* A minute passes.
Minute ==
  /\ lock # NoLock /\ ~aged /\ aged' = TRUE
  /\ UNCHANGED <<env, oracle, evidence, receipt, ledger, lock, pc, job,
                 crashes>>

\* No unstaged change and no untracked file beside the staged tree.
CheckoutMatches(t) == index = t /\ work = t

-----------------------------------------------------------------------------
(* Producing evidence *)

\* command_machine up to the sealed inputs: the candidate and the input it reads.
MachineBegins ==
  /\ oracle = NoMachine
  /\ CheckoutMatches(index)
  /\ oracle' = [tree |-> index, input |-> input]
  /\ UNCHANGED <<env, evidence, receipt, ledger, lock, aged, pc, job, crashes>>

\* Mutant: the receipt describes the candidate and the input of the end of the run.
MachineEndsRereads ==
  /\ oracle # NoMachine /\ oracle' = NoMachine
  /\ CheckoutMatches(index)
  /\ machines' = machines \cup {[tree |-> index, input |-> input,
        verdict |-> IF <<oracle.tree, oracle.input>> \in Proven THEN "PASSED" ELSE "FAILED",
        day |-> day]}
  /\ UNCHANGED <<env, checkers, signed, receipt, ledger, lock, aged, pc, job,
                 crashes>>

\* The commands have run in the isolated checkout of the tree read before; the
\* receipt is published if the checkout still is that candidate.
MachineEnds ==
  /\ oracle # NoMachine /\ oracle' = NoMachine
  /\ IF CheckoutMatches(oracle.tree)
     THEN machines' = machines \cup {[tree |-> oracle.tree, input |-> oracle.input,
            verdict |-> IF <<oracle.tree, oracle.input>> \in Proven THEN "PASSED" ELSE "FAILED",
            day |-> day]}
     ELSE UNCHANGED machines
  /\ UNCHANGED <<env, checkers, signed, receipt, ledger, lock, aged, pc, job,
                 crashes>>

\* command_checker: a reviewer's verdict, with or without a signed phase-one
\* receipt, which the producer mints only for a clean review of this candidate.
MintChecker ==
  /\ CheckoutMatches(index)
  /\ \E v \in Verdicts, r \in {m \in machines : m.tree = index} \cup {NoMachine} :
       /\ v = "BLOCKED" => r = NoMachine
       /\ checkers' = checkers \cup {[tree |-> index, verdict |-> v, day |-> day, route |-> r]}
  /\ UNCHANGED <<env, oracle, machines, signed, receipt, ledger, lock, aged, pc,
                 job, crashes>>

\* A human fills the drafted dispositions of one checker receipt and affirms them.
HumanSigns ==
  /\ \E c \in checkers : c.verdict = "BLOCKED" /\ c \notin signed /\ signed' = signed \cup {c}
  /\ UNCHANGED <<env, oracle, machines, checkers, receipt, ledger, lock, aged, pc,
                 job, crashes>>

-----------------------------------------------------------------------------
(* Validating evidence against the current candidate *)

\* Mutant: the age of a receipt is not looked at.
CurrentAnyAge(r) == /\ CheckoutMatches(index) /\ r.tree = index

\* validate_common.
Current(r) == /\ CheckoutMatches(index) /\ r.tree = index /\ r.day = day

\* Mutant: the declared input is not compared.
ValidMachineAnyInput(m) == m \in machines /\ Current(m)

\* validate_machine, with the declared input compared again.
ValidMachine(m) == m \in machines /\ Current(m) /\ m.input = input

\* validate_human_adjudication: complete, affirmed, of this blocked receipt.
ValidHuman(c, h) == h = c /\ c \in signed /\ c.verdict = "BLOCKED"

\* validate_checker: with a human adjudication a blocked verdict is let through.
ValidChecker(c, adjudicated) ==
  /\ c \in checkers /\ Current(c)
  /\ c.verdict = "PASSED" \/ (adjudicated /\ c.verdict = "BLOCKED")

\* Mutant: the signed route may name another machine receipt.
RouteBindsAny(c, m) == TRUE

RouteBinds(c, m) == c.route = NoMachine \/ c.route = m

\* What command_adjudicate and validate_adjudication_evidence both require.
ValidEvidence(a) ==
  /\ ValidMachine(a.machine) /\ a.machine.verdict = "PASSED"
  /\ ValidChecker(a.checker, a.outcome = "ADJUDICATED")
  /\ a.outcome = "ADJUDICATED" => ValidHuman(a.checker, a.checker)
  /\ RouteBinds(a.checker, a.machine)

-----------------------------------------------------------------------------
(* command_adjudicate *)

Alive(p) == pc[p] \notin {"idle", "dead"}
Goto(p, s) == pc' = [pc EXCEPT ![p] = s]
\* The with-block's finally removes the lock file, whoever's it is.
Leave(p) ==
  /\ pc' = [pc EXCEPT ![p] = "idle"] /\ job' = [job EXCEPT ![p] = None]
  /\ lock' = NoLock /\ aged' = FALSE

\* Up to the reservation: candidate, receipts and outcome.
Adjudicate(p) ==
  /\ pc[p] = "idle"
  /\ \E m \in machines, c \in checkers, h \in BOOLEAN :
       LET a == [outcome |-> IF h THEN "ADJUDICATED" ELSE "PASSED", machine |-> m,
                 checker |-> c, tree |-> index, attempt |-> 0, day |-> day, tries |-> 0] IN
         ValidEvidence(a) /\ job' = [job EXCEPT ![p] = a]
  /\ Goto(p, "reserve")
  /\ UNCHANGED <<env, oracle, evidence, receipt, ledger, lock, aged, crashes>>

\* The checkout is compared again, once, before the first acquisition; then the
\* lock file is created exclusively.
CreateLock(p) ==
  /\ pc[p] = "reserve" /\ lock = NoLock
  /\ job[p].tries = 0 => CheckoutMatches(job[p].tree)
  /\ lock' = [by |-> p, written |-> FALSE] /\ aged' = FALSE
  /\ Goto(p, "locking")
  /\ UNCHANGED <<env, oracle, evidence, receipt, ledger, job, crashes>>

\* The owner's pid is written into the file this process created, which the path
\* may not name any more.
WriteOwner(p) ==
  /\ pc[p] = "locking"
  /\ lock' = IF lock # NoLock /\ lock.by = p THEN [lock EXCEPT !.written = TRUE] ELSE lock
  /\ Goto(p, "allocate")
  /\ UNCHANGED <<env, oracle, evidence, receipt, ledger, aged, job, crashes>>

OwnerAlive == IF lock.written THEN Alive(lock.by) ELSE ~aged

\* The file exists: a live owner refuses the command, a dead one is noted.
FindLock(p) ==
  /\ pc[p] = "reserve" /\ lock # NoLock
  /\ job[p].tries = 0 => CheckoutMatches(job[p].tree)
  /\ IF job[p].tries = 0 /\ ~OwnerAlive
     THEN Goto(p, "takeover") /\ UNCHANGED job
     ELSE Goto(p, "idle") /\ job' = [job EXCEPT ![p] = None]
  /\ UNCHANGED <<env, oracle, evidence, receipt, ledger, lock, aged, crashes>>

\* The path is unlinked, whatever file it names by now, and tried once more.
Takeover(p) ==
  /\ pc[p] = "takeover"
  /\ lock' = NoLock /\ aged' = FALSE
  /\ job' = [job EXCEPT ![p].tries = 1]
  /\ Goto(p, "reserve")
  /\ UNCHANGED <<env, oracle, evidence, receipt, ledger, crashes>>

\* The checkout has changed since the candidate was computed.
Refuse(p) ==
  /\ pc[p] = "reserve" /\ job[p].tries = 0 /\ ~CheckoutMatches(job[p].tree)
  /\ Goto(p, "idle") /\ job' = [job EXCEPT ![p] = None]
  /\ UNCHANGED <<env, oracle, evidence, receipt, ledger, lock, aged, crashes>>

\* reserve_attempt: the next number of this candidate's ledger, within the budget.
Allocate(p) ==
  LET n == Len(ledger[job[p].tree]) + 1 IN
  /\ pc[p] = "allocate"
  /\ IF n > MaxAttempts
     THEN Leave(p)
     ELSE Goto(p, "receipt") /\ job' = [job EXCEPT ![p].attempt = n] /\ UNCHANGED <<lock, aged>>
  /\ UNCHANGED <<env, oracle, evidence, receipt, ledger, crashes>>

Path(p) == <<job[p].tree, job[p].attempt>>
Same(a, b) == a.outcome = b.outcome /\ a.machine = b.machine /\ a.checker = b.checker
\* Mutant: any receipt found at the path is entered into the ledger.
RecoverableAlways(p, a) == TRUE

\* A receipt linked by a process that did not reach the ledger is taken over if
\* it is this very transaction and its evidence still holds.
Recoverable(p, a) ==
  /\ a.attempt = job[p].attempt /\ Same(a, job[p])
  /\ Current(a) /\ ValidEvidence(a)

\* The receipt is linked at its path, or the one there is recovered.
WriteReceipt(p) ==
  LET a == [outcome |-> job[p].outcome, machine |-> job[p].machine, checker |-> job[p].checker,
            tree |-> job[p].tree, attempt |-> job[p].attempt, day |-> day] IN
  /\ pc[p] = "receipt"
  /\ \/ /\ receipt[Path(p)] = None
        /\ receipt' = [receipt EXCEPT ![Path(p)] = a]
        /\ Goto(p, "entry") /\ UNCHANGED <<job, lock, aged>>
     \/ /\ receipt[Path(p)] # None /\ Recoverable(p, receipt[Path(p)])
        /\ Goto(p, "entry") /\ UNCHANGED <<receipt, job, lock, aged>>
     \/ /\ receipt[Path(p)] # None /\ ~Recoverable(p, receipt[Path(p)])
        /\ Leave(p) /\ UNCHANGED receipt
  /\ UNCHANGED <<env, oracle, evidence, ledger, crashes>>

\* Mutant: every process that ends enters its receipt.
WriteEntryAlways(p) ==
  LET t == job[p].tree IN
  /\ pc[p] = "entry"
  /\ ledger' = [ledger EXCEPT ![t] = Append(@, receipt[Path(p)])]
  /\ Leave(p)
  /\ UNCHANGED <<env, oracle, evidence, receipt, crashes>>

\* The entry of that number is linked, unless it exists; either way the command
\* ends (the validation that follows can only fail it).
WriteEntry(p) ==
  LET t == job[p].tree IN
  /\ pc[p] = "entry"
  /\ ledger' = IF Len(ledger[t]) + 1 = job[p].attempt
               THEN [ledger EXCEPT ![t] = Append(@, receipt[Path(p)])] ELSE ledger
  /\ Leave(p)
  /\ UNCHANGED <<env, oracle, evidence, receipt, crashes>>

Crash(p) ==
  /\ Alive(p) /\ crashes < MaxCrashes /\ crashes' = crashes + 1
  /\ Goto(p, "dead") /\ job' = [job EXCEPT ![p] = None]
  /\ UNCHANGED <<env, oracle, evidence, receipt, ledger, lock, aged>>

-----------------------------------------------------------------------------
(* command_check: validate_adjudication; it changes nothing *)

InLedger(a) ==
  a.attempt \in 1..Len(ledger[a.tree]) /\ ledger[a.tree][a.attempt] = a

\* validate_mandatory_route_evidence: a signed phase-one receipt of this candidate.
Routed(c) == c.route # NoMachine

Accept(a, routed) ==
  /\ a # None /\ Current(a) /\ InLedger(a) /\ ValidEvidence(a)
  /\ routed => Routed(a.checker)

Next ==
  \/ Edit \/ Tomorrow \/ Minute \/ MachineBegins \/ MachineEnds \/ MintChecker
  \/ HumanSigns
  \/ \E p \in Procs : \/ Adjudicate(p) \/ CreateLock(p) \/ WriteOwner(p) \/ FindLock(p)
                      \/ Takeover(p) \/ Refuse(p) \/ Allocate(p) \/ WriteReceipt(p)
                      \/ WriteEntry(p) \/ Crash(p)

Spec == Init /\ [][Next]_vars

-----------------------------------------------------------------------------
(* What the loop promises *)

\* Whatever is edited, aged, run or killed in between: what the check command
\* accepts, the oracle has proved on exactly the tree and the declared input that
\* are there at that moment, no longer ago than a receipt may be old.
AcceptedIsProven ==
  \A k \in DOMAIN receipt : Accept(receipt[k], FALSE) =>
    /\ <<index, input>> \in Proven /\ work = index
    /\ receipt[k].machine.day = day /\ receipt[k].checker.day = day

\* A review that blocked the candidate is accepted only with a human's
\* dispositions of that very review, and where the signed route is demanded, the
\* route names the machine receipt the adjudication rests on.
AcceptedIsReviewed ==
  \A k \in DOMAIN receipt, routed \in BOOLEAN : Accept(receipt[k], routed) =>
    LET a == receipt[k] IN
      /\ a.checker.verdict = "PASSED" \/ (a.checker \in signed /\ ~routed)
      /\ routed => a.checker.route = a.machine /\ a.checker.tree = index

\* What the check command accepts is proved, and reviewed without objection.
AcceptedIsSound == AcceptedIsProven /\ AcceptedIsReviewed

\* The ledger of a candidate never exceeds its budget and entry n names the
\* receipt at path n, which carries n: also when two processes allocate at once,
\* as they may after both found a dead owner, or one takes over another's receipt.
LedgerNamesReceipts ==
  \A t \in Trees :
    /\ Len(ledger[t]) <= MaxAttempts
    /\ \A n \in 1..Len(ledger[t]) : /\ ledger[t][n] = receipt[<<t, n>>]
                                    /\ ledger[t][n].attempt = n

\* An adjudication receipt, once linked, and a ledger, once written, are never
\* rewritten; a ledger grows by the receipt of the process that makes it grow.
EvidenceIsImmutable ==
  [][/\ \A k \in DOMAIN receipt : receipt[k] # None => receipt'[k] = receipt[k]
     /\ \A t \in Trees : ledger'[t] # ledger[t] =>
          \E p \in Procs : /\ pc[p] = "entry" /\ job[p].tree = t
                           /\ ledger'[t] = Append(ledger[t], receipt[<<t, job[p].attempt>>])
                           /\ Same(receipt[<<t, job[p].attempt>>], job[p])]_vars

\* reserve_attempt: "Serialize and monotonically allocate one durable
\* candidate/claim attempt."
AllocationIsSerial ==
  \A p, q \in Procs :
    pc[p] \in {"allocate", "receipt", "entry"} /\ pc[q] \in {"allocate", "receipt", "entry"}
      => p = q
=============================================================================
