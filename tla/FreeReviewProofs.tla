-------------------------- MODULE FreeReviewProofs --------------------------
(***************************************************************************)
(* What the keyless route promises for any number of invocations that      *)
(* share its files, at once or one after another, for any candidates and   *)
(* numbers of units, losses and kills.                                     *)
(*                                                                         *)
(* The first invariant follows an invocation along its own route: past the *)
(* guard its context was in no preserved observation when it began, and    *)
(* the prompts it has sent are counted by the rows it holds.  The second   *)
(* is about invocations that do not overlap: the running one extends the   *)
(* checkpoint it found, or has archived it.                                *)
(*                                                                         *)
(* Then, beside the route, the rule that ends a series of reviews          *)
(* (StopRule): what its scan over the rounds finds, and what cannot change *)
(* its mind.  Last, the paid review (HierarchicalReview): the packing      *)
(* keeps the order of the files, the units cover the diff, and the         *)
(* evidence of a complete review is derived again as it was written.       *)
(***************************************************************************)
EXTENDS FreeReview, ListWalks, SequenceTheorems, FiniteSetTheorems, WellFoundedInduction, TLAPS

Model == {"primary", "standby"}
Ctx == [cand : Cands, model : Model]
Rows == Seq({"clean", "finding"})
PromptType == [cand : Cands, call : Nat, reports : Rows]
Checkpoint == [ctx : Ctx, rows : Rows, fresh : BOOLEAN]
Out == {"none", "PASSED", "BLOCKED", "UNVERIFIED", "UNAVAILABLE"}
Step == {"guard", "load", "send", "await", "save", "negative", "recheck", "unlink", "mint"}
            \cup Ended
Local == [ctx : Ctx, rows : Rows, answered : BOOLEAN, degraded : BOOLEAN,
          path : {"none", "legacy", "history"}, sent : Seq(PromptType), out : Out]

Types ==
  /\ checkpoint \in Checkpoint \cup {Nothing}
  /\ archive \subseteq Checkpoint
  /\ legacy \in Ctx \cup {Nothing}
  /\ history \subseteq Ctx
  /\ step \in [Invocations -> Step]
  /\ me \in [Invocations -> Local]
  /\ overlap \in BOOLEAN
  /\ before \in [Invocations -> [checkpoint : Checkpoint \cup {Nothing},
                                 archive : SUBSET Checkpoint, preserved : SUBSET Ctx]]

\* The prompt of a primary that was given up.
Extra(m) == IF m.degraded THEN 1 ELSE 0

\* An invocation along its route, at s with m.
Along(s, m) ==
  LET n == UnitsOf[m.ctx.cand] IN
  /\ Len(m.rows) <= n
  /\ m.out # "none" => s = "over"
  /\ \A i \in 1..Len(m.sent) : m.sent[i].cand = m.ctx.cand
  /\ m.degraded <=> m.ctx.model = "standby"
  /\ s \in {"guard", "load"} => n > 0 /\ m.rows = << >> /\ ~m.answered /\ Len(m.sent) = Extra(m)
  /\ s = "send" =>
       Len(m.sent) <= Len(m.rows) + Extra(m) /\ (~m.answered => Len(m.sent) = Extra(m))
  /\ s = "await" =>
       Len(m.sent) <= Len(m.rows) + 1 + Extra(m) /\ (~m.answered => Len(m.sent) = 1 + Extra(m))
  /\ s = "save" => Len(m.sent) <= Len(m.rows) + Extra(m) /\ m.answered /\ n > 0
  /\ s \in {"negative", "recheck", "unlink", "mint"} => Len(m.sent) <= n + 1 + Extra(m)
  /\ s \in {"negative", "recheck", "unlink"} => n > 0
  /\ s \in {"recheck", "unlink"} => \A i \in 1..Len(m.rows) : m.rows[i] = "clean"
Walk(r) == Along(step[r], me[r])

\* Past the guard.
Past == {"load", "send", "await", "save", "negative", "recheck", "unlink", "mint"}
Guarded(r) ==
  /\ before[r].preserved \subseteq Preserved
  /\ Units(r) > 0 /\ step[r] \in Past =>
       me[r].path \in {"legacy", "history"} /\ me[r].ctx \notin before[r].preserved

CheckpointFits == checkpoint # Nothing => Len(checkpoint.rows) <= UnitsOf[checkpoint.ctx.cand]

Blocked(r) == me[r].out = "BLOCKED" /\ Units(r) > 0 => me[r].ctx \in Preserved

\* A receipt is the last thing its invocation does.
Receipt(x) ==
  /\ x.by \in Invocations /\ step[x.by] = "over"
  /\ UnitsOf[x.ctx.cand] > 0 => x.ctx \notin before[x.by].preserved
  /\ x.ledger = me[x.by].sent
  /\ \A n \in 1..Len(x.ledger) : x.ledger[n].cand = x.ctx.cand
  /\ Len(x.ledger) <= UnitsOf[x.ctx.cand] + (IF x.degraded THEN 2 ELSE 1)

RouteInv ==
  /\ Types /\ CheckpointFits
  /\ \A r \in Invocations : Walk(r) /\ Guarded(r) /\ Blocked(r)
  /\ \A x \in receipts : Receipt(x)

\* Without overlap one invocation runs, and it extends the checkpoint or has archived it.
Alone ==
  \A q, r \in Invocations : ~overlap /\ step[q] \notin Ended /\ step[r] \notin Ended => q = r
Archives(k) == \E a \in archive : a.ctx = k.ctx /\ a.rows = k.rows
Keeps(r) ==
  /\ ~overlap /\ checkpoint # Nothing /\ Units(r) > 0
  /\ step[r] \in {"send", "await", "save", "negative", "recheck", "unlink"}
  => \/ Archives(checkpoint)
     \/ checkpoint.ctx = me[r].ctx /\ Extends(checkpoint.rows, me[r].rows)
AloneInv == Alone /\ \A r \in Invocations : Keeps(r)
-----------------------------------------------------------------------------
(* A step of an invocation *)

LEMMA Lengths ==
  ASSUME RouteAssumption, NEW m \in Local
  PROVE  /\ UnitsOf[m.ctx.cand] \in Nat /\ Len(m.rows) \in Nat /\ Len(m.sent) \in Nat
         /\ Extra(m) \in Nat /\ m.ctx \in Ctx /\ m.ctx.cand \in Cands /\ m.ctx # Nothing
BY DEF RouteAssumption, Local, Ctx, Model, Rows, Extra

\* The invocation r moves to s and holds m.
Moves(r, s, m) == step' = [step EXCEPT ![r] = s] /\ me' = [me EXCEPT ![r] = m]

LEMMA Moved ==
  ASSUME Types, NEW r \in Invocations, NEW s \in Step, NEW m \in Local, Moves(r, s, m)
  PROVE  /\ step' \in [Invocations -> Step] /\ me' \in [Invocations -> Local]
         /\ step'[r] = s /\ me'[r] = m
         /\ \A q \in Invocations : q # r => step'[q] = step[q] /\ me'[q] = me[q]
BY DEF Types, Moves

LEMMA PreservedIsCtx ==
  ASSUME Types PROVE Preserved \subseteq Ctx
BY DEF Types, Preserved

\* What a step of r leaves to show: the files and r itself.
LEMMA Frame ==
  ASSUME RouteInv, NEW r \in Invocations, step[r] # "over",
         Types', CheckpointFits', Preserved \subseteq Preserved',
         \A x \in receipts' : x \in receipts \/ Receipt(x)',
         \A q \in Invocations :
           q # r => step'[q] = step[q] /\ me'[q] = me[q] /\ before'[q] = before[q],
         Walk(r)', Guarded(r)', Blocked(r)'
  PROVE  RouteInv'
<1>1. ASSUME NEW q \in Invocations, q # r
      PROVE  Walk(q)' /\ Guarded(q)' /\ Blocked(q)'
  <2>1. step'[q] = step[q] /\ me'[q] = me[q] /\ before'[q] = before[q]
    BY <1>1
  <2>2. Walk(q) /\ Guarded(q) /\ Blocked(q)
    BY DEF RouteInv
  <2>3. Walk(q)'
    BY <2>1, <2>2 DEF Walk
  <2>4. Guarded(q)'
    BY <2>1, <2>2 DEF Guarded, Units
  <2>5. Blocked(q)'
    BY <2>1, <2>2 DEF Blocked, Units
  <2> QED
    BY <2>3, <2>4, <2>5
<1>2. ASSUME NEW x \in receipts, Receipt(x)
      PROVE  Receipt(x)'
  <2>1. Receipt(x) /\ x.by # r
    BY <1>2 DEF Receipt
  <2> QED
    BY <2>1 DEF Receipt
<1> QED
  BY <1>1, <1>2 DEF RouteInv

\* The files stay as they are.
LEMMA FilesStay ==
  ASSUME RouteInv, UNCHANGED <<checkpoint, legacy, history>>
  PROVE  CheckpointFits' /\ Preserved' = Preserved
BY DEF RouteInv, CheckpointFits, Preserved

\* The end of a route.
LEMMA ExitInv ==
  ASSUME RouteAssumption, RouteInv, NEW r \in Invocations, step[r] # "over",
         NEW o \in Out, Exit(r, o), UNCHANGED <<checkpoint, archive, before, overlap>>,
         \A x \in receipts' : x \in receipts \/ Receipt(x)',
         legacy' \in Ctx \cup {Nothing}, history' \subseteq Ctx,
         Preserved \subseteq Preserved',
         o = "BLOCKED" /\ Units(r) > 0 => me[r].ctx \in Preserved'
  PROVE  RouteInv'
<1> DEFINE m == [me[r] EXCEPT !.out = o]
<1>1. Moves(r, "over", m)
  BY DEF Exit, Goto, Moves, RouteInv, Types
<1>2. /\ m \in Local /\ m.ctx = me[r].ctx /\ m.rows = me[r].rows /\ m.sent = me[r].sent
      /\ m.degraded = me[r].degraded /\ m.out = o
  BY DEF RouteInv, Types, Local
<1> HIDE DEF m
<1>3. /\ step' \in [Invocations -> Step] /\ me' \in [Invocations -> Local]
      /\ step'[r] = "over" /\ me'[r] = m
      /\ \A q \in Invocations : q # r => step'[q] = step[q] /\ me'[q] = me[q]
  <2>1. "over" \in Step
    BY DEF Step, Ended
  <2> QED
    BY <1>1, <1>2, <2>1, Moved DEF RouteInv
<1>4. Types'
  BY <1>3 DEF RouteInv, Types
<1>5. CheckpointFits'
  BY DEF RouteInv, CheckpointFits
<1>6. Walk(r) /\ Guarded(r)
  BY DEF RouteInv
<1>7. Walk(r)'
  BY <1>2, <1>3, <1>6 DEF Walk, Along
<1>8. Guarded(r)'
  BY <1>3, <1>6 DEF Guarded, Past
<1>9. Blocked(r)'
  BY <1>2, <1>3 DEF Blocked, Units
<1> QED
  BY <1>3, <1>4, <1>5, <1>7, <1>8, <1>9, Frame

LEMMA StartInv ==
  ASSUME RouteAssumption, RouteInv, NEW r \in Invocations, Start(r)
  PROVE  RouteInv'
<1>1. PICK x \in Cands : me' = [me EXCEPT ![r] = Fresh(x)] /\ Goto(r, Begin(x))
  BY DEF Start
<1> DEFINE m == Fresh(x)
<1> DEFINE n == UnitsOf[x]
<1>2. /\ m \in Local /\ m.ctx.cand = x /\ m.ctx.model = "primary" /\ m.rows = << >>
      /\ m.sent = << >> /\ ~m.answered /\ ~m.degraded /\ m.out = "none"
  BY DEF Fresh, Context, Local, Ctx, Model, Rows, Out
<1>3. Moves(r, Begin(x), m) /\ Begin(x) \in {"send", "guard"} /\ Begin(x) \in Step
  BY <1>1 DEF Moves, Goto, Begin, Step
<1>4. (Begin(x) = "guard" => n > 0) /\ (Begin(x) = "send" => n = 0) /\ n \in Nat
  BY DEF Begin, RouteAssumption
<1>5. /\ step[r] = "idle" /\ UNCHANGED <<files, receipts>> /\ overlap' \in BOOLEAN
      /\ before' = [before EXCEPT ![r] = [checkpoint |-> checkpoint, archive |-> archive,
                                          preserved |-> Preserved]]
  BY DEF Start
<1> HIDE DEF m, n
<1>6. /\ step' \in [Invocations -> Step] /\ me' \in [Invocations -> Local]
      /\ step'[r] = Begin(x) /\ me'[r] = m
      /\ \A q \in Invocations : q # r => step'[q] = step[q] /\ me'[q] = me[q]
  BY <1>2, <1>3, Moved DEF RouteInv
<1>7. /\ before'[r].preserved = Preserved
      /\ \A q \in Invocations : q # r => before'[q] = before[q]
      /\ before' \in [Invocations -> [checkpoint : Checkpoint \cup {Nothing},
                                      archive : SUBSET Checkpoint, preserved : SUBSET Ctx]]
  BY <1>5, PreservedIsCtx DEF RouteInv, Types
<1>8. Types'
  BY <1>5, <1>6, <1>7 DEF RouteInv, Types, files
<1>9. CheckpointFits' /\ Preserved' = Preserved
  BY <1>5, FilesStay DEF files
<1>10. Walk(r)'
  BY <1>2, <1>3, <1>4, <1>6 DEF Walk, Along, Extra, n
<1>11. Guarded(r)'
  BY <1>2, <1>3, <1>4, <1>6, <1>7, <1>9 DEF Guarded, Past, Units, n
<1>12. Blocked(r)'
  BY <1>2, <1>6 DEF Blocked
<1> QED
  BY <1>5, <1>6, <1>7, <1>8, <1>9, <1>10, <1>11, <1>12, Frame

LEMMA GuardInv ==
  ASSUME RouteAssumption, RouteInv, NEW r \in Invocations, Guard(r)
  PROVE  RouteInv'
<1>1. step[r] = "guard" /\ UNCHANGED <<files, prompts, receipts, before, overlap>>
  BY DEF Guard
<1>2. Preserved' = Preserved
  BY <1>1, FilesStay DEF files
<1>3. CASE me[r].ctx \in Preserved
  <2>1. Exit(r, "BLOCKED") /\ "BLOCKED" \in Out
    BY <1>3 DEF Guard, Out
  <2>2. legacy' \in Ctx \cup {Nothing} /\ history' \subseteq Ctx
    BY <1>1 DEF files, RouteInv, Types
  <2> QED
    BY <1>1, <1>2, <1>3, <2>1, <2>2, ExitInv DEF files
<1>4. CASE me[r].ctx \notin Preserved
  <2> DEFINE m == [me[r] EXCEPT !.path = IF legacy = Nothing THEN "legacy" ELSE "history"]
  <2>1. Moves(r, "load", m) /\ "load" \in Step
    BY <1>4 DEF Guard, Goto, Moves, Step, RouteInv, Types
  <2>2. /\ m \in Local /\ m.ctx = me[r].ctx /\ m.rows = me[r].rows /\ m.sent = me[r].sent
        /\ m.degraded = me[r].degraded /\ m.out = me[r].out /\ m.answered = me[r].answered
        /\ m.path \in {"legacy", "history"}
    BY DEF RouteInv, Types, Local
  <2> HIDE DEF m
  <2>3. /\ step' \in [Invocations -> Step] /\ me' \in [Invocations -> Local]
        /\ step'[r] = "load" /\ me'[r] = m
        /\ \A q \in Invocations : q # r => step'[q] = step[q] /\ me'[q] = me[q]
    BY <2>1, <2>2, Moved DEF RouteInv
  <2>4. Types'
    BY <1>1, <2>3 DEF RouteInv, Types, files
  <2>5. CheckpointFits'
    BY <1>1, FilesStay DEF files
  <2>6. Walk(r) /\ Guarded(r) /\ Blocked(r)
    BY DEF RouteInv
  <2>7. Walk(r)'
    BY <1>1, <2>2, <2>3, <2>6 DEF Walk, Along, Extra
  <2>8. Guarded(r)'
    BY <1>1, <1>2, <1>4, <2>2, <2>3, <2>6 DEF Guarded
  <2>9. Blocked(r)'
    BY <1>1, <2>2, <2>3, <2>6 DEF Blocked, Walk, Along
  <2> QED
    BY <1>1, <1>2, <2>3, <2>4, <2>5, <2>7, <2>8, <2>9, Frame
<1> QED
  BY <1>3, <1>4

\* A step along the route: r moves to s with m, and at most checkpoints change.
LEMMA GoesOn ==
  ASSUME RouteInv, NEW r \in Invocations, step[r] # "over",
         NEW s \in Step, NEW m \in Local, Moves(r, s, m), Along(s, m), m.out = "none",
         UnitsOf[m.ctx.cand] > 0 /\ s \in Past =>
           m.path \in {"legacy", "history"} /\ m.ctx \notin before[r].preserved,
         checkpoint' \in Checkpoint \cup {Nothing}, CheckpointFits', archive' \subseteq Checkpoint,
         UNCHANGED <<legacy, history, receipts, before, overlap>>
  PROVE  RouteInv'
<1>1. /\ step' \in [Invocations -> Step] /\ me' \in [Invocations -> Local]
      /\ step'[r] = s /\ me'[r] = m
      /\ \A q \in Invocations : q # r => step'[q] = step[q] /\ me'[q] = me[q]
  BY Moved DEF RouteInv
<1>2. Types' /\ Preserved' = Preserved
  BY <1>1 DEF RouteInv, Types, Preserved
<1>3. Walk(r)'
  BY <1>1 DEF Walk
<1>4. Guarded(r)'
  BY <1>1, <1>2 DEF RouteInv, Guarded, Units
<1>5. Blocked(r)'
  BY <1>1 DEF Blocked
<1> QED
  BY <1>1, <1>2, <1>3, <1>4, <1>5, Frame

\* An invocation under way has no outcome yet.
LEMMA UnderWay ==
  ASSUME RouteInv, NEW r \in Invocations, step[r] # "over"
  PROVE  /\ me[r] \in Local /\ Along(step[r], me[r]) /\ me[r].out = "none"
         /\ UnitsOf[me[r].ctx.cand] > 0 /\ step[r] \in Past =>
              me[r].path \in {"legacy", "history"} /\ me[r].ctx \notin before[r].preserved
<1>1. Walk(r) /\ Guarded(r) /\ me[r] \in Local
  BY DEF RouteInv, Types
<1> QED
  BY <1>1 DEF Walk, Along, Guarded, Units

\* A step to s that changes at most checkpoints.
LEMMA GotoInv ==
  ASSUME RouteInv, NEW r \in Invocations, step[r] # "over", NEW s \in Step,
         Goto(r, s), UNCHANGED me, Along(s, me[r]),
         UnitsOf[me[r].ctx.cand] > 0 /\ s \in Past => step[r] \in Past,
         checkpoint' \in Checkpoint \cup {Nothing}, CheckpointFits', archive' \subseteq Checkpoint,
         UNCHANGED <<legacy, history, receipts, before, overlap>>
  PROVE  RouteInv'
<1>1. Moves(r, s, me[r])
  BY DEF Goto, Moves, RouteInv, Types
<1> QED
  BY <1>1, UnderWay, GoesOn

LEMMA LoadInv ==
  ASSUME RouteAssumption, RouteInv, NEW r \in Invocations, Load(r)
  PROVE  RouteInv'
<1>1. /\ step[r] = "load" /\ UNCHANGED <<checkpoint, legacy, history, receipts, before, overlap>>
  BY DEF Load
<1>2. /\ checkpoint' \in Checkpoint \cup {Nothing} /\ CheckpointFits'
      /\ legacy' \in Ctx \cup {Nothing} /\ history' \subseteq Ctx /\ archive \subseteq Checkpoint
      /\ Preserved' = Preserved
  BY <1>1, FilesStay DEF RouteInv, Types
<1>3. /\ me[r] \in Local /\ Along("load", me[r]) /\ me[r].out = "none"
      /\ UnitsOf[me[r].ctx.cand] > 0 =>
              me[r].path \in {"legacy", "history"} /\ me[r].ctx \notin before[r].preserved
  BY <1>1, UnderWay DEF Past
<1>4. "send" \in Step /\ "send" \in Past /\ "load" \in Past /\ "UNVERIFIED" \in Out
  BY DEF Step, Past, Out
<1>5. ASSUME Goto(r, "send"), UNCHANGED me, archive' \subseteq Checkpoint
      PROVE  RouteInv'
  <2>1. Along("send", me[r])
    BY <1>3, Lengths DEF Along
  <2> QED
    BY <1>1, <1>2, <1>3, <1>4, <1>5, <2>1, GotoInv
<1>6. ASSUME checkpoint # Nothing, checkpoint.ctx = me[r].ctx, Goto(r, "send"),
             me' = [me EXCEPT ![r].rows = checkpoint.rows], UNCHANGED archive
      PROVE  RouteInv'
  <2> DEFINE m == [me[r] EXCEPT !.rows = checkpoint.rows]
  <2>1. Moves(r, "send", m)
    BY <1>6 DEF Goto, Moves, RouteInv, Types
  <2>2. checkpoint.rows \in Rows /\ Len(checkpoint.rows) <= UnitsOf[me[r].ctx.cand]
    BY <1>6 DEF RouteInv, Types, Checkpoint, CheckpointFits
  <2>3. /\ m \in Local /\ m.ctx = me[r].ctx /\ m.rows = checkpoint.rows /\ m.sent = me[r].sent
        /\ m.degraded = me[r].degraded /\ m.out = me[r].out /\ m.answered = me[r].answered
        /\ m.path = me[r].path
    BY <1>3, <2>2 DEF Local
  <2> HIDE DEF m
  <2>4. /\ Extra(m) = Extra(me[r]) /\ Extra(me[r]) \in Nat /\ Len(m.rows) \in Nat
        /\ Len(me[r].sent) \in Nat /\ UnitsOf[me[r].ctx.cand] \in Nat
    BY <1>3, <2>3, Lengths DEF Extra
  <2>5. Along("send", m)
    BY <1>3, <2>2, <2>3, <2>4 DEF Along
  <2> QED
    BY <1>1, <1>2, <1>3, <1>4, <1>6, <2>1, <2>3, <2>5, GoesOn
<1>7. CASE Exit(r, "UNVERIFIED") /\ UNCHANGED archive
  BY <1>1, <1>2, <1>4, <1>7, ExitInv
<1>8. checkpoint # Nothing => Archived(checkpoint) \subseteq Checkpoint
  BY DEF RouteInv, Types, Archived
<1> QED
  BY <1>2, <1>5, <1>6, <1>7, <1>8 DEF Load

LEMMA SendInv ==
  ASSUME RouteAssumption, RouteInv, NEW r \in Invocations, Send(r)
  PROVE  RouteInv'
<1> DEFINE p == Prompt(r)
<1> DEFINE m == [me[r] EXCEPT !.sent = Append(@, p)]
<1>1. /\ step[r] = "send" /\ UNCHANGED <<files, receipts, before, overlap>>
      /\ me' = [me EXCEPT ![r].sent = Append(@, p)] /\ Goto(r, "await")
  BY DEF Send
<1>2. /\ me[r] \in Local /\ Along("send", me[r]) /\ me[r].out = "none"
      /\ UnitsOf[me[r].ctx.cand] > 0 =>
              me[r].path \in {"legacy", "history"} /\ me[r].ctx \notin before[r].preserved
  BY <1>1, UnderWay DEF Past
<1>3. p \in PromptType /\ p.cand = me[r].ctx.cand
  <2>1. me[r].rows \in Rows /\ << >> \in Rows /\ Len(me[r].rows) + 1 \in Nat
        /\ me[r].ctx.cand \in Cands /\ 0 \in Nat
    BY <1>2, Lengths DEF Local, Rows
  <2> QED
    BY <2>1 DEF Prompt, UnitPrompt, IntegrationPrompt, PromptType
<1> HIDE DEF p
<1>4. Moves(r, "await", m) /\ "await" \in Step
  BY <1>1 DEF Goto, Moves, RouteInv, Types, Step
<1>5. /\ Append(me[r].sent, p) \in Seq(PromptType)
      /\ Len(Append(me[r].sent, p)) = Len(me[r].sent) + 1
      /\ \A i \in 1..Len(me[r].sent) + 1 :
           Append(me[r].sent, p)[i] = IF i = Len(me[r].sent) + 1 THEN p ELSE me[r].sent[i]
  BY <1>2, <1>3 DEF Local
<1>6. /\ m \in Local /\ m.ctx = me[r].ctx /\ m.rows = me[r].rows
      /\ m.sent = Append(me[r].sent, p)
      /\ m.degraded = me[r].degraded /\ m.out = me[r].out /\ m.answered = me[r].answered
      /\ m.path = me[r].path
  BY <1>2, <1>5 DEF Local
<1> HIDE DEF m
<1>7. \A i \in 1..Len(m.sent) : m.sent[i].cand = m.ctx.cand
  <2>1. \A i \in 1..Len(me[r].sent) : me[r].sent[i].cand = me[r].ctx.cand
    BY <1>2 DEF Along
  <2>2. Len(me[r].sent) \in Nat
    BY <1>2, Lengths
  <2> QED
    BY <1>3, <1>5, <1>6, <2>1, <2>2
<1>8. Along("await", m)
  <2>1. /\ Extra(m) = Extra(me[r]) /\ Extra(me[r]) \in Nat /\ Len(me[r].rows) \in Nat
        /\ Len(me[r].sent) \in Nat /\ UnitsOf[me[r].ctx.cand] \in Nat
    BY <1>2, <1>6, Lengths DEF Extra
  <2>2. Len(m.sent) = Len(me[r].sent) + 1
    BY <1>5, <1>6
  <2> QED
    BY <1>2, <1>6, <1>7, <2>1, <2>2 DEF Along
<1>9. /\ checkpoint' \in Checkpoint \cup {Nothing} /\ CheckpointFits' /\ archive' \subseteq Checkpoint
  BY <1>1, FilesStay DEF RouteInv, Types, files
<1> QED
  BY <1>1, <1>2, <1>4, <1>6, <1>8, <1>9, GoesOn DEF files

LEMMA AnswerUnitInv ==
  ASSUME RouteAssumption, RouteInv, NEW r \in Invocations, AnswerUnit(r)
  PROVE  RouteInv'
<1>1. /\ step[r] = "await" /\ UNCHANGED <<files, receipts, before, overlap>>
      /\ Goto(r, "save") /\ Len(me[r].rows) < Units(r)
  BY DEF AnswerUnit
<1>2. PICK v \in {"clean", "finding"} :
        me' = [me EXCEPT ![r].rows = Append(@, v), ![r].answered = TRUE]
  BY DEF AnswerUnit
<1> DEFINE m == [me[r] EXCEPT !.rows = Append(@, v), !.answered = TRUE]
<1>3. /\ me[r] \in Local /\ Along("await", me[r]) /\ me[r].out = "none"
      /\ UnitsOf[me[r].ctx.cand] > 0 =>
              me[r].path \in {"legacy", "history"} /\ me[r].ctx \notin before[r].preserved
  BY <1>1, UnderWay DEF Past
<1>4. Moves(r, "save", m) /\ "save" \in Step
  BY <1>1, <1>2 DEF Goto, Moves, RouteInv, Types, Step
<1>5. Append(me[r].rows, v) \in Rows /\ Len(Append(me[r].rows, v)) = Len(me[r].rows) + 1
  BY <1>3 DEF Local, Rows
<1>6. /\ m \in Local /\ m.ctx = me[r].ctx /\ m.rows = Append(me[r].rows, v)
      /\ m.sent = me[r].sent
      /\ m.degraded = me[r].degraded /\ m.out = me[r].out /\ m.answered = TRUE
      /\ m.path = me[r].path
  BY <1>3, <1>5 DEF Local
<1> HIDE DEF m
<1>7. Along("save", m)
  <2>1. /\ Extra(m) = Extra(me[r]) /\ Extra(me[r]) \in Nat /\ Len(me[r].rows) \in Nat
        /\ Len(me[r].sent) \in Nat /\ UnitsOf[me[r].ctx.cand] \in Nat
    BY <1>3, <1>6, Lengths DEF Extra
  <2>2. Len(m.rows) = Len(me[r].rows) + 1 /\ Len(me[r].rows) < UnitsOf[me[r].ctx.cand]
    BY <1>1, <1>5, <1>6 DEF Units
  <2> QED
    BY <1>3, <1>6, <2>1, <2>2 DEF Along
<1>8. /\ checkpoint' \in Checkpoint \cup {Nothing} /\ CheckpointFits' /\ archive' \subseteq Checkpoint
  BY <1>1, FilesStay DEF RouteInv, Types, files
<1> QED
  BY <1>1, <1>3, <1>4, <1>6, <1>7, <1>8, GoesOn DEF files

LEMMA SaveInv ==
  ASSUME RouteAssumption, RouteInv, NEW r \in Invocations, Save(r)
  PROVE  RouteInv'
<1>1. /\ step[r] = "save" /\ Goto(r, "send")
      /\ checkpoint' = [ctx |-> me[r].ctx, rows |-> me[r].rows, fresh |-> TRUE]
      /\ UNCHANGED <<archive, legacy, history, receipts, me, before, overlap>>
  BY DEF Save
<1>2. me[r] \in Local /\ Along("save", me[r]) /\ "send" \in Step /\ step[r] \in Past
  BY <1>1, UnderWay DEF Past, Step
<1>3. checkpoint' \in Checkpoint
  BY <1>1, <1>2 DEF Local, Checkpoint
<1>4. CheckpointFits'
  BY <1>1, <1>2 DEF CheckpointFits, Along
<1>5. Along("send", me[r])
  BY <1>2, Lengths DEF Along
<1>6. archive' \subseteq Checkpoint
  BY <1>1 DEF RouteInv, Types
<1> QED
  BY <1>1, <1>2, <1>3, <1>4, <1>5, <1>6, GotoInv

LEMMA AnswerLastInv ==
  ASSUME RouteAssumption, RouteInv, NEW r \in Invocations, AnswerLast(r)
  PROVE  RouteInv'
<1>1. /\ step[r] = "await" /\ UNCHANGED <<files, receipts, before, overlap>>
      /\ Len(me[r].rows) = Units(r)
  BY DEF AnswerLast
<1>2. /\ me[r] \in Local /\ Along("await", me[r]) /\ me[r].out = "none"
      /\ UnitsOf[me[r].ctx.cand] > 0 =>
              me[r].path \in {"legacy", "history"} /\ me[r].ctx \notin before[r].preserved
  BY <1>1, UnderWay DEF Past
<1>3. /\ checkpoint' \in Checkpoint \cup {Nothing} /\ CheckpointFits' /\ archive' \subseteq Checkpoint
      /\ legacy' \in Ctx \cup {Nothing} /\ history' \subseteq Ctx /\ Preserved' = Preserved
  BY <1>1, FilesStay DEF RouteInv, Types, files
<1> DEFINE m == [me[r] EXCEPT !.answered = TRUE]
<1>4. /\ m \in Local /\ m.ctx = me[r].ctx /\ m.rows = me[r].rows /\ m.sent = me[r].sent
      /\ m.degraded = me[r].degraded /\ m.out = me[r].out /\ m.path = me[r].path
  BY <1>2 DEF Local
<1>5. CASE Exit(r, "BLOCKED") /\ Units(r) = 0
  <2>1. "BLOCKED" \in Out
    BY DEF Out
  <2> QED
    BY <1>1, <1>3, <1>5, <2>1, ExitInv DEF files
<1>6. ASSUME NEW s \in {"mint", "recheck", "negative"}, Goto(r, s),
             me' = [me EXCEPT ![r].answered = TRUE],
             s # "mint" => Units(r) > 0,
             s = "recheck" => \A i \in 1..Len(me[r].rows) : me[r].rows[i] = "clean"
      PROVE  RouteInv'
  <2>1. Moves(r, s, m) /\ s \in Step
    BY <1>6 DEF Goto, Moves, RouteInv, Types, Step
  <2> HIDE DEF m
  <2>2. /\ Extra(m) = Extra(me[r]) /\ Extra(me[r]) \in Nat /\ Len(me[r].rows) \in Nat
        /\ Len(me[r].sent) \in Nat /\ UnitsOf[me[r].ctx.cand] \in Nat
    BY <1>2, <1>4, Lengths DEF Extra
  <2>3. Along(s, m)
    BY <1>1, <1>2, <1>4, <1>6, <2>2 DEF Along, Units
  <2> QED
    BY <1>1, <1>2, <1>3, <1>4, <2>1, <2>3, GoesOn DEF files
<1>7. UnitsOf[me[r].ctx.cand] \in Nat
  BY <1>2, Lengths
<1>8. PICK v \in {"clean", "finding"} :
        LET passed == Aggregate(me[r].rows, v) = "PASSED" IN
          IF Units(r) = 0
          THEN IF passed THEN Goto(r, "mint") /\ me' = [me EXCEPT ![r].answered = TRUE]
                         ELSE Exit(r, "BLOCKED")
          ELSE /\ Goto(r, IF passed THEN "recheck" ELSE "negative")
               /\ me' = [me EXCEPT ![r].answered = TRUE]
  BY DEF AnswerLast
<1>9. Aggregate(me[r].rows, v) = "PASSED" =>
        \A i \in 1..Len(me[r].rows) : me[r].rows[i] = "clean"
  BY DEF Aggregate
<1>10. CASE Units(r) = 0
  BY <1>5, <1>6, <1>8, <1>10
<1>11. CASE Units(r) # 0
  <2>1. Units(r) > 0
    BY <1>7, <1>11 DEF Units
  <2>2. CASE Aggregate(me[r].rows, v) = "PASSED"
    BY <1>6, <1>8, <1>9, <1>11, <2>1, <2>2
  <2>3. CASE Aggregate(me[r].rows, v) # "PASSED"
    BY <1>6, <1>8, <1>11, <2>1, <2>3
  <2> QED
    BY <2>2, <2>3
<1> QED
  BY <1>10, <1>11

LEMMA LoseInv ==
  ASSUME RouteAssumption, RouteInv, NEW r \in Invocations, Lose(r)
  PROVE  RouteInv'
<1>1. step[r] = "await" /\ UNCHANGED <<files, receipts, before, overlap>>
  BY DEF Lose
<1>2. me[r] \in Local /\ Along("await", me[r]) /\ me[r].out = "none"
  BY <1>1, UnderWay
<1>3. /\ checkpoint' \in Checkpoint \cup {Nothing} /\ CheckpointFits' /\ archive' \subseteq Checkpoint
      /\ legacy' \in Ctx \cup {Nothing} /\ history' \subseteq Ctx /\ Preserved' = Preserved
  BY <1>1, FilesStay DEF RouteInv, Types, files
<1>4. CASE Fallback(r)
  <2> DEFINE s == Begin(me[r].ctx.cand)
  <2> DEFINE m == [me[r] EXCEPT !.ctx.model = "standby", !.rows = << >>,
                                !.degraded = TRUE, !.answered = FALSE]
  <2>1. Moves(r, s, m)
    BY <1>4 DEF Lose, Goto, Moves, RouteInv, Types
  <2>2. /\ s \in {"send", "guard"} /\ s \in Step /\ UnitsOf[me[r].ctx.cand] \in Nat
        /\ (s = "guard" => UnitsOf[me[r].ctx.cand] > 0)
        /\ (s = "send" => UnitsOf[me[r].ctx.cand] = 0)
    BY <1>2, Lengths DEF Begin, Step
  <2>3. /\ m.ctx.cand = me[r].ctx.cand /\ m.ctx.model = "standby" /\ m.rows = << >>
        /\ m.degraded = TRUE /\ m.answered = FALSE /\ m.sent = me[r].sent
        /\ m.out = me[r].out
    BY <1>2 DEF Local, Ctx
  <2>4. m \in Local
    <3>1. [me[r].ctx EXCEPT !.model = "standby"] \in Ctx /\ << >> \in Rows
      BY <1>2 DEF Local, Ctx, Model, Rows
    <3> QED
      BY <1>2, <3>1 DEF Local
  <2>5. ~me[r].answered /\ ~me[r].degraded /\ Extra(me[r]) = 0 /\ Extra(m) = 1
    BY <1>2, <1>4, <2>3 DEF Fallback, Along, Extra
  <2> HIDE DEF m, s
  <2>6. Len(m.sent) = 1 /\ Len(m.rows) = 0
    BY <1>2, <2>3, <2>5 DEF Along
  <2>7. Along(s, m)
    BY <1>2, <2>2, <2>3, <2>5, <2>6 DEF Along
  <2>8. ~(UnitsOf[m.ctx.cand] > 0 /\ s \in Past)
    BY <2>2, <2>3 DEF Past
  <2> QED
    BY <1>1, <1>2, <1>3, <2>1, <2>2, <2>3, <2>4, <2>7, <2>8, GoesOn DEF files
<1>5. CASE ~Fallback(r)
  <2>1. Exit(r, "UNAVAILABLE") /\ "UNAVAILABLE" \in Out
    BY <1>5 DEF Lose, Out
  <2> QED
    BY <1>1, <1>3, <2>1, ExitInv DEF files
<1> QED
  BY <1>4, <1>5

\* The observation is there afterwards, the invocation's own or that of another.
LEMMA NegativeInv ==
  ASSUME RouteAssumption, RouteInv, NEW r \in Invocations, Negative(r)
  PROVE  RouteInv'
<1> DEFINE o == IF Taken(r) /\ ~Mine(r) THEN "UNVERIFIED" ELSE "BLOCKED"
<1>1. /\ step[r] = "negative" /\ Exit(r, o) /\ o \in Out
      /\ UNCHANGED <<checkpoint, archive, receipts, before, overlap>>
      /\ legacy' = (IF me[r].path = "legacy" /\ ~Taken(r) THEN me[r].ctx ELSE legacy)
      /\ history' = (IF me[r].path = "history" THEN history \cup {me[r].ctx} ELSE history)
  BY DEF Negative, Out
<1>2. /\ me[r] \in Local /\ me[r].ctx \in Ctx /\ me[r].ctx # Nothing
      /\ me[r].path \in {"legacy", "history"}
  <2>1. Along("negative", me[r])
    BY <1>1, UnderWay
  <2> QED
    BY <1>1, <2>1, UnderWay, Lengths DEF Past, Along
<1>3. legacy' \in Ctx \cup {Nothing} /\ history' \subseteq Ctx
  BY <1>1, <1>2 DEF RouteInv, Types
<1>4. Preserved \subseteq Preserved'
  BY <1>1 DEF Preserved, Taken
<1>5. o = "BLOCKED" => me[r].ctx \in Preserved'
  BY <1>1, <1>2 DEF Preserved, Taken, Mine
<1> HIDE DEF o
<1> QED
  BY <1>1, <1>3, <1>4, <1>5, ExitInv

LEMMA RecheckInv ==
  ASSUME RouteAssumption, RouteInv, NEW r \in Invocations, Recheck(r)
  PROVE  RouteInv'
<1>1. step[r] = "recheck" /\ UNCHANGED <<files, receipts, before, overlap>>
  BY DEF Recheck
<1>2. me[r] \in Local /\ Along("recheck", me[r]) /\ me[r].ctx # Nothing
  BY <1>1, UnderWay, Lengths
<1>3. /\ checkpoint' \in Checkpoint \cup {Nothing} /\ CheckpointFits' /\ archive' \subseteq Checkpoint
      /\ legacy' \in Ctx \cup {Nothing} /\ history' \subseteq Ctx /\ Preserved' = Preserved
  BY <1>1, FilesStay DEF RouteInv, Types, files
<1>4. CASE Taken(r) /\ Mine(r)
  <2>1. Exit(r, "BLOCKED") /\ "BLOCKED" \in Out
    BY <1>4 DEF Recheck, Out
  <2>2. me[r].ctx \in Preserved
    BY <1>2, <1>4 DEF Taken, Mine, Preserved
  <2> QED
    BY <1>1, <1>3, <2>1, <2>2, ExitInv DEF files
<1>5. CASE ~(Taken(r) /\ Mine(r))
  <2>1. Goto(r, "unlink") /\ UNCHANGED me /\ "unlink" \in Step /\ step[r] \in Past
    BY <1>1, <1>5 DEF Recheck, Step, Past
  <2>2. Along("unlink", me[r])
    BY <1>2 DEF Along
  <2> QED
    BY <1>1, <1>3, <2>1, <2>2, GotoInv DEF files
<1> QED
  BY <1>4, <1>5

LEMMA UnlinkInv ==
  ASSUME RouteAssumption, RouteInv, NEW r \in Invocations, Unlink(r)
  PROVE  RouteInv'
<1>1. /\ step[r] = "unlink" /\ Goto(r, "mint") /\ checkpoint' = Nothing
      /\ UNCHANGED <<archive, legacy, history, receipts, me, before, overlap>>
  BY DEF Unlink
<1>2. Along("unlink", me[r]) /\ "mint" \in Step /\ step[r] \in Past
  BY <1>1, UnderWay DEF Step, Past
<1>3. Along("mint", me[r])
  BY <1>2 DEF Along
<1>4. CheckpointFits' /\ archive' \subseteq Checkpoint
  BY <1>1 DEF CheckpointFits, RouteInv, Types
<1> QED
  BY <1>1, <1>2, <1>3, <1>4, GotoInv

LEMMA MintInv ==
  ASSUME RouteAssumption, RouteInv, NEW r \in Invocations, Mint(r)
  PROVE  RouteInv'
<1>1. step[r] = "mint" /\ UNCHANGED <<files, prompts, before, overlap>>
  BY DEF Mint
<1>2. /\ me[r] \in Local /\ Along("mint", me[r])
      /\ UnitsOf[me[r].ctx.cand] > 0 => me[r].ctx \notin before[r].preserved
  BY <1>1, UnderWay DEF Past
<1>3. /\ legacy' \in Ctx \cup {Nothing} /\ history' \subseteq Ctx /\ Preserved' = Preserved
  BY <1>1, FilesStay DEF RouteInv, Types, files
<1>4. "PASSED" \in Out /\ "UNVERIFIED" \in Out
  BY DEF Out
<1>5. CASE Shaped(r) /\ Bound(r) /\ Verified(r)
  <2>1. PICK x : /\ x = [ctx |-> me[r].ctx, by |-> r, sent |-> me[r].sent,
                         degraded |-> me[r].degraded, ledger |-> prompts]
                 /\ receipts' = receipts \cup {x} /\ Exit(r, "PASSED")
    BY <1>5 DEF Mint
  <2>2. /\ step'[r] = "over" /\ me'[r].sent = me[r].sent
    BY <2>1, <1>2 DEF Exit, Goto, RouteInv, Types, Local
  <2>3. Len(me[r].sent) <= UnitsOf[me[r].ctx.cand] + (IF me[r].degraded THEN 2 ELSE 1)
    <3>1. Len(me[r].sent) <= UnitsOf[me[r].ctx.cand] + 1 + Extra(me[r])
      BY <1>2 DEF Along
    <3> QED
      BY <1>2, <3>1, Lengths DEF Extra
  <2>4. /\ x.ctx = me[r].ctx /\ x.by = r /\ x.degraded = me[r].degraded
        /\ x.ledger = me[r].sent
    BY <1>5, <2>1 DEF Verified
  <2>5. \A n \in 1..Len(me[r].sent) : me[r].sent[n].cand = me[r].ctx.cand
    BY <1>2 DEF Along
  <2>6. Receipt(x)'
    BY <1>1, <1>2, <2>2, <2>3, <2>4, <2>5 DEF Receipt
  <2> QED
    BY <1>1, <1>3, <1>4, <2>1, <2>6, ExitInv DEF files
<1>6. CASE ~(Shaped(r) /\ Bound(r) /\ Verified(r))
  <2>1. Exit(r, "UNVERIFIED") /\ UNCHANGED receipts
    BY <1>6 DEF Mint
  <2> QED
    BY <1>1, <1>3, <1>4, <2>1, ExitInv DEF files
<1> QED
  BY <1>5, <1>6

LEMMA DieInv ==
  ASSUME RouteAssumption, RouteInv, NEW r \in Invocations, Die(r)
  PROVE  RouteInv'
<1>1. /\ step[r] \notin Ended /\ Goto(r, "dead")
      /\ UNCHANGED <<files, receipts, me, before, overlap>>
  BY DEF Die
<1>2. step[r] # "over" /\ "dead" \in Step /\ "dead" \notin Past
  BY <1>1 DEF Ended, Step, Past
<1>3. me[r].out = "none" /\ Along(step[r], me[r])
  BY <1>2, UnderWay
<1>4. Along("dead", me[r])
  BY <1>3 DEF Along
<1>5. /\ checkpoint' \in Checkpoint \cup {Nothing} /\ CheckpointFits' /\ archive' \subseteq Checkpoint
  BY <1>1, FilesStay DEF RouteInv, Types, files
<1> QED
  BY <1>1, <1>2, <1>4, <1>5, GotoInv DEF files

LEMMA AgeInv ==
  ASSUME RouteInv, Age
  PROVE  RouteInv'
<1>1. /\ checkpoint # Nothing /\ checkpoint' = [checkpoint EXCEPT !.fresh = FALSE]
      /\ UNCHANGED <<archive, legacy, history, receipts, step, me, before, overlap>>
  BY DEF Age
<1>2. /\ checkpoint' \in Checkpoint /\ checkpoint'.ctx = checkpoint.ctx
      /\ checkpoint'.rows = checkpoint.rows
  BY <1>1 DEF RouteInv, Types, Checkpoint
<1>3. Types'
  BY <1>1, <1>2 DEF RouteInv, Types
<1>4. CheckpointFits'
  BY <1>1, <1>2 DEF RouteInv, CheckpointFits
<1>5. \A r \in Invocations : Walk(r)' /\ Guarded(r)' /\ Blocked(r)'
  BY <1>1 DEF RouteInv, Walk, Guarded, Blocked, Units, Preserved
<1>6. \A x \in receipts' : Receipt(x)'
  BY <1>1 DEF RouteInv, Receipt
<1> QED
  BY <1>3, <1>4, <1>5, <1>6 DEF RouteInv

LEMMA RouteInit == RouteAssumption /\ Init => RouteInv
<1> SUFFICES ASSUME RouteAssumption, Init PROVE RouteInv
  OBVIOUS
<1> DEFINE first == CHOOSE x \in Cands : TRUE
<1> DEFINE m == Fresh(first)
<1>1. first \in Cands
  BY DEF RouteAssumption
<1> HIDE DEF first
<1>2. /\ m \in Local /\ m.ctx.cand = first /\ m.ctx.model = "primary" /\ m.rows = << >>
      /\ m.sent = << >> /\ ~m.answered /\ ~m.degraded /\ m.out = "none"
  BY <1>1 DEF Fresh, Context, Local, Ctx, Model, Rows, Out
<1>3. me = [r \in Invocations |-> m]
  BY DEF Init, first
<1> HIDE DEF m
<1>4. Types
  BY <1>2, <1>3 DEF Init, Types, Step, Ended
<1>5. CheckpointFits /\ receipts = {}
  BY DEF Init, CheckpointFits
<1>6. ASSUME NEW r \in Invocations
      PROVE  Walk(r) /\ Guarded(r) /\ Blocked(r)
  <2>1. me[r] = m /\ step[r] = "idle" /\ before[r].preserved = {}
    BY <1>3 DEF Init
  <2>2. UnitsOf[first] \in Nat
    BY <1>1 DEF RouteAssumption
  <2>3. Along("idle", m)
    BY <1>2, <2>2 DEF Along
  <2> QED
    BY <1>2, <2>1, <2>3 DEF Walk, Guarded, Blocked, Past
<1> QED
  BY <1>4, <1>5, <1>6 DEF RouteInv

LEMMA RouteStep == RouteAssumption /\ RouteInv /\ [Next]_vars => RouteInv'
<1> SUFFICES ASSUME RouteAssumption, RouteInv, [Next]_vars PROVE RouteInv'
  OBVIOUS
<1>1. CASE UNCHANGED vars
  <2>1. Types' /\ CheckpointFits'
    BY <1>1 DEF vars, RouteInv, Types, CheckpointFits
  <2>2. \A r \in Invocations : Walk(r)' /\ Guarded(r)' /\ Blocked(r)'
    BY <1>1 DEF vars, RouteInv, Walk, Guarded, Blocked, Units, Preserved
  <2>3. \A x \in receipts' : Receipt(x)'
    BY <1>1 DEF vars, RouteInv, Receipt
  <2> QED
    BY <2>1, <2>2, <2>3 DEF RouteInv
<1>2. ASSUME NEW r \in Invocations,
             \/ Start(r) \/ Guard(r) \/ Load(r) \/ Send(r) \/ AnswerUnit(r) \/ Save(r)
             \/ AnswerLast(r) \/ Lose(r) \/ Negative(r) \/ Recheck(r) \/ Unlink(r) \/ Mint(r)
             \/ Die(r)
      PROVE  RouteInv'
  BY <1>2, StartInv, GuardInv, LoadInv, SendInv, AnswerUnitInv, SaveInv, AnswerLastInv,
     LoseInv, NegativeInv, RecheckInv, UnlinkInv, MintInv, DieInv
<1> QED
  BY <1>1, <1>2, AgeInv DEF Next
-----------------------------------------------------------------------------
(* Invocations that do not overlap *)

LEMMA ExtendsSelf ==
  ASSUME NEW rows \in Rows PROVE Extends(rows, rows)
<1>1. SubSeq(rows, 1, Len(rows)) = rows /\ Len(rows) \in 0..Len(rows)
  BY SubSeqFull DEF Rows
<1> QED
  BY <1>1 DEF Extends

LEMMA ExtendsAppend ==
  ASSUME NEW rows \in Rows, NEW v \in {"clean", "finding"}, NEW k, Extends(k, rows)
  PROVE  Extends(k, Append(rows, v))
<1> DEFINE S == {"clean", "finding"}
<1>1. PICK n \in 0..Len(rows) : k = SubSeq(rows, 1, n)
  BY DEF Extends
<1>2. rows \in Seq(S) /\ <<v>> \in Seq(S) /\ v \in S /\ Len(rows) \in Nat
  BY DEF Rows
<1> HIDE DEF S
<1>3. Append(rows, v) = rows \o <<v>> /\ Len(Append(rows, v)) = Len(rows) + 1
  BY <1>2
<1>4. SubSeq(rows \o <<v>>, 1, n) = SubSeq(rows, 1, n)
  <2>1. CASE n = 0
    BY <2>1, SubSeqEmpty
  <2>2. CASE n \in 1..Len(rows)
    <3>1. 1 \in 1..Len(rows)
      BY <1>2, <2>2
    <3> QED
      BY <1>2, <2>2, <3>1, SubSeqOfConcat1
  <2> QED
    BY <1>2, <2>1, <2>2
<1>5. n \in 0..Len(Append(rows, v))
  BY <1>2, <1>3
<1> QED
  BY <1>1, <1>3, <1>4, <1>5 DEF Extends

\* What clean rows extend has no finding.
LEMMA CleanPrefix ==
  ASSUME NEW rows \in Rows, \A i \in 1..Len(rows) : rows[i] = "clean", NEW k, Extends(k, rows)
  PROVE  "finding" \notin {k[i] : i \in 1..Len(k)}
<1>1. PICK n \in 0..Len(rows) : k = SubSeq(rows, 1, n)
  BY DEF Extends
<1>2. Len(rows) \in Nat /\ n \in Nat /\ \A i \in 1..n : rows[i] \in {"clean"}
  BY DEF Rows
<1>3. /\ k \in Seq({"clean"})
  BY <1>1, <1>2, SubSeqProperties
<1> QED
  BY <1>3

\* While r runs without overlap, the other invocations do not.
LEMMA OthersEnded ==
  ASSUME AloneInv, NEW r \in Invocations, step[r] \notin Ended, ~overlap
  PROVE  \A q \in Invocations : q # r => step[q] \in Ended
BY DEF AloneInv, Alone

\* A step of a running invocation that extends the checkpoint or has archived it.
LEMMA KeepsOn ==
  ASSUME RouteInv, AloneInv, NEW r \in Invocations, step[r] \notin Ended, UNCHANGED overlap,
         \A q \in Invocations : q # r => step'[q] = step[q],
         Keeps(r)'
  PROVE  AloneInv'
<1> SUFFICES ASSUME ~overlap PROVE AloneInv'
  BY DEF AloneInv, Alone, Keeps
<1>1. \A q \in Invocations : q # r => step'[q] \in Ended
  BY OthersEnded
<1>2. Alone'
  BY <1>1 DEF Alone
<1>3. ASSUME NEW q \in Invocations, q # r
      PROVE  Keeps(q)'
  BY <1>1, <1>3 DEF Keeps, Ended
<1> QED
  BY <1>2, <1>3 DEF AloneInv

Keeping == {"send", "await", "save", "negative", "recheck", "unlink"}

\* A step to a place where nothing has to be kept.
LEMMA Leaves ==
  ASSUME RouteInv, AloneInv, NEW r \in Invocations, step[r] \notin Ended, UNCHANGED overlap,
         NEW s, Goto(r, s), s \in Step, s \notin Keeping \/ Units(r)' = 0
  PROVE  AloneInv'
<1>1. step'[r] = s /\ \A q \in Invocations : q # r => step'[q] = step[q]
  BY DEF Goto, RouteInv, Types
<1>2. Keeps(r)'
  BY <1>1 DEF Keeps, Keeping
<1> QED
  BY <1>1, <1>2, KeepsOn

LEMMA GotoOnce ==
  ASSUME RouteInv, NEW r \in Invocations, NEW s, NEW t, Goto(r, s), Goto(r, t)
  PROVE  s = t
BY DEF Goto, RouteInv, Types

LEMMA StartAlone ==
  ASSUME RouteInv, AloneInv, NEW r \in Invocations, Start(r)
  PROVE  AloneInv'
<1>1. PICK x \in Cands : me' = [me EXCEPT ![r] = Fresh(x)] /\ Goto(r, Begin(x))
  BY DEF Start
<1>2. /\ step[r] = "idle"
      /\ overlap' = (overlap \/ \E q \in Invocations : step[q] \notin Ended)
  BY DEF Start
<1>3. /\ step'[r] = Begin(x) /\ Units(r)' = UnitsOf[x]
      /\ \A q \in Invocations : q # r => step'[q] = step[q]
  BY <1>1 DEF Goto, RouteInv, Types, Units, Fresh, Context
<1> SUFFICES ASSUME ~overlap' PROVE AloneInv'
  BY DEF AloneInv, Alone, Keeps
<1>4. \A q \in Invocations : q # r => step'[q] \in Ended
  BY <1>2, <1>3
<1>5. Keeps(r)'
  BY <1>3 DEF Keeps, Begin
<1>6. ASSUME NEW q \in Invocations, q # r
      PROVE  Keeps(q)'
  BY <1>4, <1>6 DEF Keeps, Ended
<1>7. Alone'
  BY <1>4 DEF Alone
<1> QED
  BY <1>5, <1>6, <1>7 DEF AloneInv

LEMMA GuardAlone ==
  ASSUME RouteInv, AloneInv, NEW r \in Invocations, Guard(r)
  PROVE  AloneInv'
<1>1. step[r] \notin Ended /\ UNCHANGED overlap /\ (Goto(r, "over") \/ Goto(r, "load"))
  BY DEF Guard, Exit, Ended
<1>2. "over" \in Step /\ "over" \notin Keeping /\ "load" \in Step /\ "load" \notin Keeping
  BY DEF Step, Ended, Keeping
<1> QED
  BY <1>1, <1>2, Leaves

LEMMA LoadAlone ==
  ASSUME RouteAssumption, RouteInv, AloneInv, NEW r \in Invocations, Load(r)
  PROVE  AloneInv'
<1>1. step[r] \notin Ended /\ step[r] # "over" /\ UNCHANGED <<overlap, checkpoint>>
  BY DEF Load, Ended
<1>2. CASE Goto(r, "over")
  <2>1. "over" \in Step /\ "over" \notin Keeping
    BY DEF Step, Ended, Keeping
  <2> QED
    BY <1>1, <1>2, <2>1, Leaves
<1>3. CASE Goto(r, "send")
  <2>1. \A q \in Invocations : q # r => step'[q] = step[q]
    BY <1>3 DEF Goto, RouteInv, Types
  <2>2. CASE checkpoint = Nothing
    BY <1>1, <2>1, <2>2, KeepsOn DEF Keeps
  <2>3. CASE archive' = Archived(checkpoint)
    <3>1. Archives(checkpoint)'
      BY <1>1, <2>3 DEF Archives, Archived
    <3> QED
      BY <1>1, <2>1, <3>1, KeepsOn DEF Keeps
  <2>4. CASE /\ checkpoint # Nothing /\ checkpoint.ctx = me[r].ctx
             /\ me' = [me EXCEPT ![r].rows = checkpoint.rows]
    <3>1. checkpoint.rows \in Rows
      BY <2>4 DEF RouteInv, Types, Checkpoint
    <3>2. me'[r].ctx = me[r].ctx /\ me'[r].rows = checkpoint.rows
      BY <2>4 DEF RouteInv, Types, Local
    <3>3. Extends(checkpoint.rows, me'[r].rows)
      BY <3>1, <3>2, ExtendsSelf
    <3>4. Keeps(r)'
      BY <1>1, <2>4, <3>2, <3>3 DEF Keeps, Extends
    <3> QED
      BY <1>1, <2>1, <3>4, KeepsOn
  <2> QED
    BY <1>1, <1>3, <2>2, <2>3, <2>4, GotoOnce DEF Load, Exit
<1> QED
  BY <1>2, <1>3 DEF Load, Exit

\* A step within the route that takes the rows along.
LEMMA KeepsRows ==
  ASSUME RouteInv, AloneInv, NEW r \in Invocations, step[r] \in Keeping,
         NEW s, Goto(r, s), UNCHANGED <<checkpoint, archive, overlap>>,
         me'[r].ctx = me[r].ctx,
         \A k : Extends(k, me[r].rows) => Extends(k, me'[r].rows)
  PROVE  AloneInv'
<1>1. step[r] \notin Ended /\ step[r] \in {"send", "await", "save", "negative", "recheck", "unlink"}
  BY DEF Keeping, Ended
<1>2. step'[r] = s /\ \A q \in Invocations : q # r => step'[q] = step[q]
  BY DEF Goto, RouteInv, Types
<1>3. Keeps(r)
  BY DEF AloneInv
<1>4. Units(r)' = Units(r)
  BY DEF Units
<1>5. Archives(checkpoint)' = Archives(checkpoint)
  BY DEF Archives
<1>6. Keeps(r)'
  <2>1. \A k : Extends(k, me[r].rows) => Extends(k, me[r].rows)'
    BY DEF Extends
  <2>2. ~overlap /\ checkpoint # Nothing /\ Units(r) > 0 =>
          \/ Archives(checkpoint)
          \/ checkpoint.ctx = me[r].ctx /\ Extends(checkpoint.rows, me[r].rows)
    BY <1>1, <1>3 DEF Keeps
  <2>3. ~overlap' /\ checkpoint' # Nothing /\ Units(r)' > 0 =>
          \/ Archives(checkpoint)'
          \/ checkpoint'.ctx = me'[r].ctx /\ Extends(checkpoint.rows, me[r].rows)'
    <3>1. Extends(checkpoint.rows, me[r].rows) => Extends(checkpoint.rows, me[r].rows)'
      BY DEF Extends
    <3> QED
      BY <1>4, <1>5, <2>2, <3>1
  <2> QED
    BY <2>3 DEF Keeps
<1> QED
  BY <1>1, <1>2, <1>6, KeepsOn

LEMMA SendAlone ==
  ASSUME RouteInv, AloneInv, NEW r \in Invocations, Send(r)
  PROVE  AloneInv'
<1>1. /\ step[r] \in Keeping /\ Goto(r, "await") /\ UNCHANGED <<checkpoint, archive, overlap>>
      /\ me' = [me EXCEPT ![r].sent = Append(@, Prompt(r))]
  BY DEF Send, files, Keeping
<1>2. me'[r].ctx = me[r].ctx /\ me'[r].rows = me[r].rows
  BY <1>1 DEF RouteInv, Types, Local
<1> QED
  BY <1>1, <1>2, KeepsRows

LEMMA AnswerUnitAlone ==
  ASSUME RouteInv, AloneInv, NEW r \in Invocations, AnswerUnit(r)
  PROVE  AloneInv'
<1>1. /\ step[r] \in Keeping /\ Goto(r, "save") /\ UNCHANGED <<checkpoint, archive, overlap>>
  BY DEF AnswerUnit, files, Keeping
<1>2. PICK v \in {"clean", "finding"} :
        me' = [me EXCEPT ![r].rows = Append(@, v), ![r].answered = TRUE]
  BY DEF AnswerUnit
<1>3. /\ me'[r].ctx = me[r].ctx /\ me'[r].rows = Append(me[r].rows, v)
      /\ me[r].rows \in Rows
  BY <1>2 DEF RouteInv, Types, Local
<1>4. \A k : Extends(k, me[r].rows) => Extends(k, me'[r].rows)
  BY <1>3, ExtendsAppend
<1> QED
  BY <1>1, <1>3, <1>4, KeepsRows

LEMMA SaveAlone ==
  ASSUME RouteInv, AloneInv, NEW r \in Invocations, Save(r)
  PROVE  AloneInv'
<1>1. /\ step[r] \notin Ended /\ Goto(r, "send") /\ UNCHANGED <<me, archive, overlap>>
      /\ checkpoint' = [ctx |-> me[r].ctx, rows |-> me[r].rows, fresh |-> TRUE]
  BY DEF Save, Ended
<1>2. me[r].rows \in Rows /\ \A q \in Invocations : q # r => step'[q] = step[q]
  BY <1>1 DEF RouteInv, Types, Local, Goto
<1>3. checkpoint'.ctx = me[r].ctx /\ checkpoint'.rows = me[r].rows
  BY <1>1
<1>4. Extends(me[r].rows, me[r].rows)
  BY <1>2, ExtendsSelf
<1>5. Keeps(r)'
  BY <1>1, <1>3, <1>4 DEF Keeps, Extends
<1> QED
  BY <1>1, <1>2, <1>5, KeepsOn

LEMMA AnswerLastAlone ==
  ASSUME RouteInv, AloneInv, NEW r \in Invocations, AnswerLast(r)
  PROVE  AloneInv'
<1>1. /\ step[r] \in Keeping /\ step[r] \notin Ended
      /\ UNCHANGED <<checkpoint, archive, overlap>>
  BY DEF AnswerLast, files, Keeping, Ended
<1>2. CASE \E s : Goto(r, s) /\ me' = [me EXCEPT ![r].answered = TRUE]
  <2>1. me'[r].ctx = me[r].ctx /\ me'[r].rows = me[r].rows
    BY <1>2 DEF RouteInv, Types, Local
  <2> QED
    BY <1>1, <1>2, <2>1, KeepsRows
<1>3. CASE Goto(r, "over")
  <2>1. "over" \in Step /\ "over" \notin Keeping
    BY DEF Step, Ended, Keeping
  <2> QED
    BY <1>1, <1>3, <2>1, Leaves
<1> QED
  BY <1>2, <1>3 DEF AnswerLast, Exit

LEMMA LoseAlone ==
  ASSUME RouteAssumption, RouteInv, AloneInv, NEW r \in Invocations, Lose(r)
  PROVE  AloneInv'
<1>1. step[r] \notin Ended /\ UNCHANGED overlap
  BY DEF Lose, Ended
<1>2. "over" \in Step /\ "over" \notin Keeping /\ "guard" \in Step /\ "guard" \notin Keeping
      /\ "send" \in Step
  BY DEF Step, Ended, Keeping
<1>3. CASE Fallback(r)
  <2>1. /\ Goto(r, Begin(me[r].ctx.cand))
        /\ me' = [me EXCEPT ![r].ctx.model = "standby", ![r].rows = << >>,
                            ![r].degraded = TRUE, ![r].answered = FALSE]
    BY <1>3 DEF Lose
  <2>2. me'[r].ctx.cand = me[r].ctx.cand
    BY <2>1 DEF RouteInv, Types, Local, Ctx
  <2> QED
    BY <1>1, <1>2, <2>1, <2>2, Leaves DEF Begin, Units
<1>4. CASE ~Fallback(r)
  BY <1>1, <1>2, <1>4, Leaves DEF Lose, Exit
<1> QED
  BY <1>3, <1>4

LEMMA RecheckAlone ==
  ASSUME RouteInv, AloneInv, NEW r \in Invocations, Recheck(r)
  PROVE  AloneInv'
<1>1. /\ step[r] \in Keeping /\ step[r] \notin Ended
      /\ UNCHANGED <<checkpoint, archive, overlap>>
  BY DEF Recheck, files, Keeping, Ended
<1>2. CASE Goto(r, "unlink") /\ UNCHANGED me
  BY <1>1, <1>2, KeepsRows
<1>3. CASE Goto(r, "over")
  <2>1. "over" \in Step /\ "over" \notin Keeping
    BY DEF Step, Ended, Keeping
  <2> QED
    BY <1>1, <1>3, <2>1, Leaves
<1> QED
  BY <1>2, <1>3 DEF Recheck, Exit

\* The last steps, and a kill: nothing is left to keep.
LEMMA LastAlone ==
  ASSUME RouteInv, AloneInv, NEW r \in Invocations,
         Negative(r) \/ Unlink(r) \/ Mint(r) \/ Die(r)
  PROVE  AloneInv'
<1>1. step[r] \notin Ended /\ UNCHANGED overlap
  BY DEF Negative, Unlink, Mint, Die, Ended
<1>2. \E s \in {"over", "mint", "dead"} : Goto(r, s)
  BY DEF Negative, Unlink, Mint, Die, Exit
<1>3. \A s \in {"over", "mint", "dead"} : s \in Step /\ s \notin Keeping
  BY DEF Step, Ended, Keeping
<1> QED
  BY <1>1, <1>2, <1>3, Leaves

LEMMA AgeAlone ==
  ASSUME RouteInv, AloneInv, Age
  PROVE  AloneInv'
<1>1. /\ checkpoint # Nothing /\ checkpoint' = [checkpoint EXCEPT !.fresh = FALSE]
      /\ UNCHANGED <<archive, step, me, overlap>>
  BY DEF Age
<1>2. checkpoint'.ctx = checkpoint.ctx /\ checkpoint'.rows = checkpoint.rows
  BY <1>1 DEF RouteInv, Types, Checkpoint
<1>3. Archives(checkpoint)' = Archives(checkpoint)
  BY <1>1, <1>2 DEF Archives
<1>4. ASSUME NEW r \in Invocations
      PROVE  Keeps(r)'
  <2>1. Keeps(r)
    BY DEF AloneInv
  <2>2. Extends(checkpoint.rows, me[r].rows)' <=> Extends(checkpoint.rows, me[r].rows)
    BY <1>1, <1>2 DEF Extends
  <2> QED
    BY <1>1, <1>2, <1>3, <2>1, <2>2 DEF Keeps, Units
<1> QED
  BY <1>1, <1>4 DEF AloneInv, Alone

LEMMA AloneStep == RouteAssumption /\ RouteInv /\ AloneInv /\ [Next]_vars => AloneInv'
<1> SUFFICES ASSUME RouteAssumption, RouteInv, AloneInv, [Next]_vars PROVE AloneInv'
  OBVIOUS
<1>1. CASE UNCHANGED vars
  BY <1>1 DEF vars, AloneInv, Alone, Keeps, Archives, Units
<1>2. ASSUME NEW r \in Invocations,
             \/ Start(r) \/ Guard(r) \/ Load(r) \/ Send(r) \/ AnswerUnit(r) \/ Save(r)
             \/ AnswerLast(r) \/ Lose(r) \/ Negative(r) \/ Recheck(r) \/ Unlink(r) \/ Mint(r)
             \/ Die(r)
      PROVE  AloneInv'
  BY <1>2, StartAlone, GuardAlone, LoadAlone, SendAlone, AnswerUnitAlone, SaveAlone,
     AnswerLastAlone, LoseAlone, RecheckAlone, LastAlone
<1> QED
  BY <1>1, <1>2, AgeAlone DEF Next

-----------------------------------------------------------------------------
(* Theorems, for constants that satisfy RouteAssumption *)

\* Along every route the prompts sent are counted by the rows held, and past the
\* guard no preserved outcome of the context was there at the start.
THEOREM RouteInvariant == ASSUME RouteAssumption PROVE Spec => []RouteInv
<1> QED
  BY RouteInit, RouteStep, PTL DEF Spec

\* A negative outcome is preserved, and an invocation that finds it gets no receipt
\* for its context, though both places for it are shared and a fallback changes the
\* context under way.
THEOREM NegativesAreBinding == ASSUME RouteAssumption PROVE Spec => []NegativesBind
<1>1. RouteInv => NegativesBind
  BY DEF RouteInv, NegativesBind, PreservedBinds, BlockedIsPreserved, Receipt, Blocked
<1> QED
  BY <1>1, RouteInvariant, PTL

\* A receipt's ledger is what its invocation sent for its candidate, no more than a
\* prompt for each unit, one for the last call, and one for a primary given up.
THEOREM LedgersAreExact == ASSUME RouteAssumption PROVE Spec => []LedgerIsExact
<1>1. RouteInv => LedgerIsExact
  BY DEF RouteInv, LedgerIsExact, Receipt
<1> QED
  BY <1>1, RouteInvariant, PTL

\* As long as invocations do not overlap, a finding in the checkpoint stays there or
\* in the archive: only the owner of a context extends it, and whoever starts
\* another archives it first.
THEOREM FindingsStay == ASSUME RouteAssumption PROVE Spec => FindingsSurvive
<1> DEFINE HasFinding == "finding" \in {checkpoint.rows[n] : n \in 1..Len(checkpoint.rows)}
<1> DEFINE Stays == /\ checkpoint' # Nothing /\ checkpoint'.ctx = checkpoint.ctx
                    /\ Extends(checkpoint.rows, checkpoint'.rows)
<1> DEFINE Filed == \E k \in archive' : k.ctx = checkpoint.ctx /\ k.rows = checkpoint.rows
<1>1. Init => AloneInv
  BY DEF Init, AloneInv, Alone, Keeps, Ended
<1>2. ASSUME RouteAssumption, RouteInv, AloneInv, [Next]_vars, ~overlap',
             checkpoint # Nothing, HasFinding
      PROVE  Stays \/ Filed
  <2>1. /\ checkpoint \in Checkpoint /\ checkpoint.rows \in Rows
        /\ Extends(checkpoint.rows, checkpoint.rows)
    BY <1>2, ExtendsSelf DEF RouteInv, Types, Checkpoint
  <2>2. CASE UNCHANGED checkpoint
    BY <1>2, <2>1, <2>2
  <2>3. CASE Age
    <3>1. checkpoint' = [checkpoint EXCEPT !.fresh = FALSE]
      BY <2>3 DEF Age
    <3>2. /\ checkpoint' \in Checkpoint /\ checkpoint'.ctx = checkpoint.ctx
          /\ checkpoint'.rows = checkpoint.rows
      BY <2>1, <3>1 DEF Checkpoint
    <3>3. Nothing \notin Checkpoint
      BY <1>2 DEF RouteAssumption, Checkpoint, Ctx, Model, Rows
    <3> QED
      BY <2>1, <3>2, <3>3
  <2>4. ASSUME NEW r \in Invocations, Save(r) \/ Unlink(r)
        PROVE  Stays \/ Filed
    <3>1. /\ ~overlap /\ UNCHANGED <<archive, me>> /\ step[r] \in {"save", "unlink"}
      BY <1>2, <2>4 DEF Save, Unlink
    <3>2. me[r] \in Local /\ Along(step[r], me[r])
      BY <1>2, <3>1, UnderWay
    <3>3. Units(r) > 0
      BY <3>1, <3>2 DEF Along, Units
    <3>4. \/ Archives(checkpoint)
          \/ checkpoint.ctx = me[r].ctx /\ Extends(checkpoint.rows, me[r].rows)
      BY <1>2, <3>1, <3>3 DEF AloneInv, Keeps
    <3>5. CASE Archives(checkpoint)
      BY <3>1, <3>5 DEF Archives
    <3>6. CASE checkpoint.ctx = me[r].ctx /\ Extends(checkpoint.rows, me[r].rows) /\ Save(r)
      <4>1. checkpoint' = [ctx |-> me[r].ctx, rows |-> me[r].rows, fresh |-> TRUE]
        BY <3>6 DEF Save
      <4>2. checkpoint' \in Checkpoint /\ Nothing \notin Checkpoint
        BY <1>2, <3>2, <4>1 DEF Local, Checkpoint, RouteAssumption, Ctx, Model, Rows
      <4> QED
        BY <3>6, <4>1, <4>2
    <3>7. CASE Extends(checkpoint.rows, me[r].rows) /\ Unlink(r)
      <4>1. \A i \in 1..Len(me[r].rows) : me[r].rows[i] = "clean"
        BY <3>2, <3>7 DEF Unlink, Along
      <4>2. me[r].rows \in Rows
        BY <3>2 DEF Local
      <4> QED
        BY <1>2, <3>7, <4>1, <4>2, CleanPrefix
    <3> QED
      BY <2>4, <3>4, <3>5, <3>6, <3>7
  <2>5. CASE UNCHANGED vars
    BY <2>2, <2>5 DEF vars
  <2>6. ASSUME NEW r \in Invocations,
               \/ Start(r) \/ Guard(r) \/ Load(r) \/ Send(r) \/ AnswerUnit(r)
               \/ AnswerLast(r) \/ Lose(r) \/ Negative(r) \/ Recheck(r) \/ Mint(r) \/ Die(r)
        PROVE  UNCHANGED checkpoint
    BY <2>6 DEF Start, Guard, Load, Send, AnswerUnit, AnswerLast, Lose, Negative, Recheck,
                Mint, Die, files
  <2> QED
    BY <1>2, <2>2, <2>3, <2>4, <2>5, <2>6 DEF Next
<1>3. RouteAssumption /\ RouteInv /\ AloneInv /\ [Next]_vars =>
        [~overlap' /\ checkpoint # Nothing /\ HasFinding => Stays \/ Filed]_vars
  BY <1>2
<1> QED
  BY <1>1, <1>3, AloneStep, RouteInvariant, PTL DEF Spec, FindingsSurvive

-----------------------------------------------------------------------------
(* The rule that stops a series of reviews *)

CONSTANTS Keys, Unknown, Entries, Window, MaxRounds
VARIABLES kind, binding, rounds, groups
Series == INSTANCE StopRule

Named(r, gs) == Series!Mechanisms(r, gs)
\* Two rounds that both name a mechanism.
Again(rs, gs, i, j) == Named(rs[i], gs) \cap Named(rs[j], gs) # {}
Proven(rs, gs, i, j) == Series!ProvenRecurrence(rs, gs, i, j)

LEMMA SeriesCounts == ASSUME NEW S PROVE Series!Cardinality(S) = Cardinality(S)
  BY DEF Series!Cardinality, Cardinality

\* Induction over an initial part of the numbers.
LEMMA UpTo ==
  ASSUME NEW n \in Nat, NEW K, 0 \in K, \A k \in 0..(n - 1) : k \in K => k + 1 \in K
  PROVE  \A k \in 0..n : k \in K
<1> SUFFICES ASSUME NEW k \in 0..n, k \notin K PROVE FALSE
  OBVIOUS
<1> DEFINE Rest == {m \in 0..n : m \notin K}
<1>1. PICK m \in Rest : \A j \in Rest : ~(j < m)
  <2>1. Rest \subseteq Nat /\ k \in Rest
    OBVIOUS
  <2>2. PICK m \in Rest : \A j \in Rest : ~(<<j, m>> \in OpToRel(<, Nat))
    BY <2>1, NatLessThanWellFounded, WFMin
  <2> QED
    BY <2>1, <2>2 DEF OpToRel
<1>2. m \in 0..n /\ m # 0 /\ m - 1 \in 0..(n - 1) /\ m - 1 \notin Rest
  BY <1>1
<1> QED
  BY <1>1, <1>2

LEMMA TwoOrMore ==
  ASSUME NEW S, IsFiniteSet(S)
  PROVE  Cardinality(S) >= 2 <=> \E x, y \in S : x # y
<1>1. Cardinality(S) \in Nat
  BY FS_CardinalityType
<1>2. Cardinality(S) = 0 <=> S = {}
  BY FS_EmptySet
<1>3. Cardinality(S) = 1 <=> \E x : S = {x}
  BY FS_Singleton
<1>4. (S # {} /\ ~\E x : S = {x}) <=> \E x, y \in S : x # y
  <2>1. ASSUME NEW x \in S, NEW y \in S, x # y PROVE S # {} /\ ~\E z : S = {z}
    BY <2>1
  <2>2. ASSUME NEW x \in S, ~\E y \in S : x # y PROVE \E z : S = {z}
    BY <2>2
  <2> QED
    BY <2>1, <2>2
<1> QED
  BY <1>1, <1>2, <1>3, <1>4

\* The recursive function in Scan exists, so that Scan is its last value.
LEMMA ScanSteps ==
  ASSUME NEW rs, NEW gs, Len(rs) \in Nat
  PROVE  \E scan :
           /\ Series!Scan(rs, gs) = scan[Len(rs)] /\ scan[0] = Series!Start(gs)
           /\ \A n \in 1..Len(rs) : scan[n] = Series!Scanned(scan[n - 1], n, rs[n], gs)
<1> DEFINE Filled(f, k) ==
             f = [n \in 0..k |-> IF n = 0 THEN Series!Start(gs)
                                 ELSE Series!Scanned(f[n - 1], n, rs[n], gs)]
           Defined == {k \in Nat : \E f : Filled(f, k)}
<1>1. 0 \in Defined
  <2> DEFINE f == [n \in 0..0 |-> Series!Start(gs)]
  <2>1. Filled(f, 0)
    OBVIOUS
  <2> QED
    BY <2>1
<1>2. ASSUME NEW k \in Nat, k \in Defined PROVE k + 1 \in Defined
  <2>1. PICK f : Filled(f, k)
    BY <1>2
  <2> DEFINE g == [n \in 0..(k + 1) |-> IF n = k + 1 THEN Series!Scanned(f[k], n, rs[n], gs)
                                        ELSE f[n]]
  <2>2. \A n \in 0..k : f[n] = IF n = 0 THEN Series!Start(gs)
                               ELSE Series!Scanned(f[n - 1], n, rs[n], gs)
    BY <2>1
  <2>3. \A n \in 0..k : g[n] = f[n]
    OBVIOUS
  <2>4. \A n \in 0..(k + 1) : g[n] = IF n = 0 THEN Series!Start(gs)
                                     ELSE Series!Scanned(g[n - 1], n, rs[n], gs)
    <3> SUFFICES ASSUME NEW n \in 0..(k + 1)
                 PROVE  g[n] = IF n = 0 THEN Series!Start(gs)
                               ELSE Series!Scanned(g[n - 1], n, rs[n], gs)
      OBVIOUS
    <3>1. CASE n = k + 1
      <4>1. g[n] = Series!Scanned(f[k], n, rs[n], gs) /\ n - 1 = k /\ n # 0 /\ g[k] = f[k]
        BY <2>3, <3>1
      <4> QED
        BY <4>1
    <3>2. CASE n = 0
      BY <2>2, <2>3, <3>2
    <3>3. CASE n \in 1..k
      <4>1. g[n] = f[n] /\ g[n - 1] = f[n - 1] /\ n # 0 /\ n \in 0..k
        BY <2>3, <3>3
      <4> QED
        BY <2>2, <4>1
    <3> QED
      BY <3>1, <3>2, <3>3
  <2>5. Filled(g, k + 1)
    BY <2>4
  <2> HIDE DEF g
  <2>6. \E e : Filled(e, k + 1)
    BY <2>5
  <2> QED
    BY <2>6
<1>3. Len(rs) \in Defined
  <2> HIDE DEF Defined
  <2>1. \A k \in 0..(Len(rs) - 1) : k \in Defined => k + 1 \in Defined
    BY <1>2
  <2>2. \A k \in 0..Len(rs) : k \in Defined
    BY <1>1, <2>1, UpTo
  <2> QED
    BY <2>2
<1> DEFINE scan == CHOOSE scan : Filled(scan, Len(rs))
<1>4. Filled(scan, Len(rs))
  BY <1>3
<1>5. Series!Scan(rs, gs) = scan[Len(rs)]
  BY DEF Series!Scan
<1> HIDE DEF scan
<1>6. \A n \in 0..Len(rs) : scan[n] = IF n = 0 THEN Series!Start(gs)
                                      ELSE Series!Scanned(scan[n - 1], n, rs[n], gs)
  BY <1>4
<1> QED
  BY <1>5, <1>6

Identity == Cands \cup {Unknown}
Known(gs) == {Series!Mechanism(k, gs) : k \in Keys}
Naming(rs, gs, m, n) == {i \in 1..n : m \in Named(rs[i], gs)}

LEMMA NamedAreKnown ==
  ASSUME NEW r \in Series!Round, NEW gs
  PROVE  Named(r, gs) \subseteq Known(gs)
BY DEF Named, Known, Series!Mechanisms, Series!Live, Series!Round, Series!Finding

LEMMA TwoIdentities ==
  ASSUME NEW b \in Seq(Identity)
  PROVE  Cardinality(Series!Identities(b)) >= 2
           <=> \E x, y \in {b[n] : n \in 1..Len(b)} : x # Unknown /\ y # Unknown /\ x # y
<1> DEFINE All == {b[n] : n \in 1..Len(b)}
<1>1. IsFiniteSet(All)
  <2>1. Len(b) \in Nat /\ b \in [1..Len(b) -> Identity]
    OBVIOUS
  <2>2. b \in Surjection(1..Len(b), All)
    BY <2>1 DEF Surjection
  <2>3. IsFiniteSet(1..Len(b))
    BY <2>1, FS_Interval
  <2> QED
    BY <2>2, <2>3, FS_Surjection
<1>2. IsFiniteSet(Series!Identities(b))
  BY <1>1, FS_RemoveElement DEF Series!Identities
<1>3. \A x : x \in Series!Identities(b) <=> x \in All /\ x # Unknown
  BY DEF Series!Identities
<1> HIDE DEF All
<1>4. Cardinality(Series!Identities(b)) >= 2
        <=> \E x, y \in Series!Identities(b) : x # y
  BY <1>2, TwoOrMore
<1> QED
  BY <1>3, <1>4 DEF All

\* What the scan knows after n rounds.
Collected(st, rs, gs, n) ==
  /\ st.bucket \in [Known(gs) -> Seq(Identity)]
  /\ \A m \in Known(gs) :
       /\ {st.bucket[m][x] : x \in 1..Len(st.bucket[m])}
            = {rs[i].declared : i \in Naming(rs, gs, m, n)}
       /\ Len(st.bucket[m]) = 0 <=> Naming(rs, gs, m, n) = {}
Judged(st, rs, gs, n) ==
  /\ st.armed \in 0..n /\ st.doubt \in BOOLEAN
  /\ st.armed = 0 =>
       /\ \A i, j \in 1..n : i < j => ~Proven(rs, gs, i, j)
       /\ st.doubt <=> \E i, j \in 1..n : i < j /\ Again(rs, gs, i, j)
  /\ st.armed # 0 =>
       /\ \E i \in 1..(st.armed - 1) : Proven(rs, gs, i, st.armed)
       /\ \A i, j \in 1..(st.armed - 1) : i < j => ~Proven(rs, gs, i, j)

LEMMA AppendedValues ==
  ASSUME NEW b \in Seq(Identity), NEW d \in Identity
  PROVE  LET c == Append(b, d) IN
         /\ c \in Seq(Identity) /\ Len(c) = Len(b) + 1
         /\ {c[x] : x \in 1..Len(c)} = {b[x] : x \in 1..Len(b)} \cup {d}
<1> DEFINE c == Append(b, d)
<1>1. /\ c \in Seq(Identity) /\ Len(c) = Len(b) + 1 /\ Len(b) \in Nat
      /\ c[Len(b) + 1] = d /\ \A x \in 1..Len(b) : c[x] = b[x]
  OBVIOUS
<1> HIDE DEF c
<1>2. 1..Len(c) = 1..Len(b) \cup {Len(b) + 1}
  BY <1>1
<1>3. \A v : (\E x \in 1..Len(c) : v = c[x]) <=> (\E x \in 1..Len(b) : v = b[x]) \/ v = d
  BY <1>1, <1>2
<1>4. {c[x] : x \in 1..Len(c)} = {b[x] : x \in 1..Len(b)} \cup {d}
  BY <1>3
<1> QED
  BY <1>1, <1>4 DEF c

\* One round: the mechanisms that were named before, and those whose identities differ.
LEMMA CollectedStep ==
  ASSUME NEW rs \in Seq(Series!Round), NEW gs, NEW n \in Nat, n + 1 \in 1..Len(rs), NEW st,
         Collected(st, rs, gs, n)
  PROVE  Collected(Series!Scanned(st, n + 1, rs[n + 1], gs), rs, gs, n + 1)
<1> DEFINE r == rs[n + 1]
           here == Series!Mechanisms(r, gs)
           new == [m \in DOMAIN st.bucket |-> IF m \in here THEN Append(st.bucket[m], r.declared)
                                               ELSE st.bucket[m]]
<1>1. Series!Scanned(st, n + 1, r, gs).bucket = new
  BY DEF Series!Scanned
<1>2. r.declared \in Identity
  <2>1. r \in Series!Round
    OBVIOUS
  <2> HIDE DEF r
  <2> QED
    BY <2>1 DEF Series!Round, Identity
<1>3. DOMAIN st.bucket = Known(gs) /\ \A m \in Known(gs) : st.bucket[m] \in Seq(Identity)
  BY DEF Collected
<1>4. new \in [Known(gs) -> Seq(Identity)]
  BY <1>2, <1>3
<1>5. ASSUME NEW m \in Known(gs)
      PROVE  /\ {new[m][x] : x \in 1..Len(new[m])}
                  = {rs[i].declared : i \in Naming(rs, gs, m, n + 1)}
             /\ Len(new[m]) = 0 <=> Naming(rs, gs, m, n + 1) = {}
  <2> DEFINE b == st.bucket[m]
             past == Naming(rs, gs, m, n)
             values == {b[x] : x \in 1..Len(b)}
  <2>1. values = {rs[i].declared : i \in past} /\ (Len(b) = 0 <=> past = {})
    BY Zenon DEF Collected
  <2>2. b \in Seq(Identity) /\ Len(b) \in Nat
    BY <1>3
  <2>3. CASE m \in here
    <3>1. Naming(rs, gs, m, n + 1) = past \cup {n + 1}
      BY <2>3 DEF Naming, Named
    <3>2. new[m] = Append(b, r.declared)
      BY <1>3, <2>3
    <3> HIDE DEF b
    <3>3. Len(new[m]) = Len(b) + 1
          /\ {new[m][x] : x \in 1..Len(new[m])} = values \cup {r.declared}
      <4> DEFINE c == Append(b, r.declared)
      <4>1. Len(c) = Len(b) + 1 /\ {c[x] : x \in 1..Len(c)} = values \cup {r.declared}
        BY <1>2, <2>2, AppendedValues
      <4>2. new[m] = c
        BY <3>2
      <4> HIDE DEF c, new, values
      <4> QED
        BY <4>1, <4>2, Zenon
    <3>4. {rs[i].declared : i \in past \cup {n + 1}}
            = {rs[i].declared : i \in past} \cup {r.declared}
      <4> HIDE DEF past
      <4> QED
        OBVIOUS
    <3> HIDE DEF values, new, past
    <3>5. {new[m][x] : x \in 1..Len(new[m])} = {rs[i].declared : i \in past \cup {n + 1}}
      BY <2>1, <3>3, <3>4, Zenon
    <3>6. Len(new[m]) # 0 /\ past \cup {n + 1} # {}
      BY <2>2, <3>3
    <3> QED
      BY <3>1, <3>5, <3>6, Zenon
  <2>4. CASE m \notin here
    <3>1. Naming(rs, gs, m, n + 1) = past
      BY <2>4 DEF Naming, Named
    <3>2. new[m] = b
      BY <1>3, <2>4
    <3> QED
      BY <2>1, <3>1, <3>2, Zenon
  <2> QED
    BY <2>3, <2>4
<1> HIDE DEF new
<1> QED
  BY <1>1, <1>4, <1>5 DEF Collected

LEMMA JudgedStep ==
  ASSUME NEW rs \in Seq(Series!Round), NEW gs, NEW n \in Nat, n + 1 \in 1..Len(rs), NEW st,
         Collected(st, rs, gs, n), Judged(st, rs, gs, n)
  PROVE  Judged(Series!Scanned(st, n + 1, rs[n + 1], gs), rs, gs, n + 1)
<1> DEFINE r == rs[n + 1]
           here == Series!Mechanisms(r, gs)
           b == [m \in DOMAIN st.bucket |-> IF m \in here THEN Append(st.bucket[m], r.declared)
                                             ELSE st.bucket[m]]
           again == {m \in here : Len(b[m]) >= 2}
           changed == {m \in again : Cardinality(Series!Identities(b[m])) >= 2}
           new == Series!Scanned(st, n + 1, r, gs)
           doubts == st.doubt \/ (st.armed = 0 /\ again \ changed # {})
<1> SUFFICES Judged(new, rs, gs, n + 1)
  OBVIOUS
<1>1. /\ new.bucket = b /\ new.doubt = doubts
      /\ new.armed = IF st.armed = 0 /\ changed # {} THEN n + 1 ELSE st.armed
  <2> DEFINE armed == IF st.armed = 0 /\ changed # {} THEN n + 1 ELSE st.armed
  <2>1. new = [bucket |-> b, armed |-> armed, doubt |-> doubts]
    BY SeriesCounts DEF Series!Scanned
  <2> HIDE DEF new, b, again, changed, doubts, armed
  <2>2. new.bucket = b /\ new.armed = armed /\ new.doubt = doubts
    BY <2>1
  <2> QED
    BY <2>2 DEF armed
<1>2. r \in Series!Round /\ here \subseteq Known(gs)
  BY NamedAreKnown DEF Named
<1>3. Collected(new, rs, gs, n + 1)
  BY CollectedStep
<1>4. ASSUME NEW m \in here
      PROVE  m \in again <=> \E i \in 1..n : m \in Named(rs[i], gs)
  <2> DEFINE old == st.bucket[m]
  <2>1. old \in Seq(Identity) /\ m \in DOMAIN st.bucket
    BY <1>2 DEF Collected
  <2>2. Len(old) = 0 <=> ~\E i \in 1..n : m \in Named(rs[i], gs)
    <3>1. Len(old) = 0 <=> Naming(rs, gs, m, n) = {}
      BY <1>2, Zenon DEF Collected
    <3> QED
      BY <3>1 DEF Naming
  <2>3. b[m] = Append(old, r.declared)
    BY <2>1
  <2> HIDE DEF old
  <2>4. Len(b[m]) = Len(old) + 1 /\ Len(old) \in Nat
    BY <2>1, <2>3
  <2> QED
    BY <2>2, <2>4
<1>5. ASSUME NEW m \in again
      PROVE  m \in changed
               <=> \E i, k \in Naming(rs, gs, m, n + 1) :
                     /\ rs[i].declared # Unknown /\ rs[k].declared # Unknown
                     /\ rs[i].declared # rs[k].declared
  <2> DEFINE values == {b[m][x] : x \in 1..Len(b[m])}
  <2>1. b[m] \in Seq(Identity)
    BY <1>1, <1>2, <1>3 DEF Collected
  <2>2. m \in Known(gs)
    BY <1>2
  <2>3. values = {rs[i].declared : i \in Naming(rs, gs, m, n + 1)}
    <3> HIDE DEF b, new
    <3> QED
      BY <1>1, <1>3, <2>2, Zenon DEF Collected
  <2>4. m \in changed <=> \E x, y \in values : x # Unknown /\ y # Unknown /\ x # y
    <3> HIDE DEF b
    <3> QED
      BY <2>1, TwoIdentities
  <2> HIDE DEF values, changed
  <2> QED
    BY <2>3, <2>4
<1>6. doubts \in BOOLEAN /\ (st.armed = 0 => (doubts <=> st.doubt \/ again \ changed # {}))
  OBVIOUS
<1> HIDE DEF again, changed, b, new, doubts
<1>7. again # {} <=> \E i \in 1..n : Again(rs, gs, i, n + 1)
  <2>1. again \subseteq here
    BY DEF again
  <2> QED
    BY <1>4, <2>1 DEF Again, Named
<1>8. changed \subseteq again
  BY DEF changed
<1>9. ASSUME NEW i \in 1..n, Proven(rs, gs, i, n + 1) PROVE changed # {}
  <2>1. PICK m \in here : m \in Named(rs[i], gs)
    BY <1>9 DEF Proven, Series!ProvenRecurrence, Named
  <2>2. m \in again
    BY <1>4, <2>1
  <2>3. i \in Naming(rs, gs, m, n + 1) /\ n + 1 \in Naming(rs, gs, m, n + 1)
    BY <2>1 DEF Naming, Named
  <2>4. /\ rs[i].declared # Unknown /\ rs[n + 1].declared # Unknown
        /\ rs[i].declared # rs[n + 1].declared
    BY <1>9 DEF Proven, Series!ProvenRecurrence
  <2> QED
    BY <1>5, <2>2, <2>3, <2>4
<1>10. ASSUME NEW m \in changed
      PROVE  \E i, j \in 1..(n + 1) : i < j /\ Proven(rs, gs, i, j)
  <2>1. PICK i, k \in Naming(rs, gs, m, n + 1) :
                     /\ rs[i].declared # Unknown /\ rs[k].declared # Unknown
                     /\ rs[i].declared # rs[k].declared
    BY <1>5, <1>8
  <2>2. i \in 1..(n + 1) /\ k \in 1..(n + 1) /\ i # k
    BY <2>1 DEF Naming
  <2>3. Proven(rs, gs, i, k) /\ Proven(rs, gs, k, i)
    BY <2>1 DEF Naming, Named, Proven, Series!ProvenRecurrence
  <2> QED
    BY <2>2, <2>3
<1>11. st.armed \in 0..n /\ st.doubt \in BOOLEAN
  BY DEF Judged
<1>12. CASE st.armed # 0
  <2>1. new.armed = st.armed /\ new.doubt \in BOOLEAN
    BY <1>1, <1>6, <1>12
  <2> QED
    BY <1>11, <1>12, <2>1 DEF Judged
<1>13. CASE st.armed = 0 /\ changed # {}
  <2>1. new.armed = n + 1 /\ new.doubt \in BOOLEAN
    BY <1>1, <1>6, <1>13
  <2>2. \A i, j \in 1..n : i < j => ~Proven(rs, gs, i, j)
    BY <1>13 DEF Judged
  <2>3. PICK i, j \in 1..(n + 1) : i < j /\ Proven(rs, gs, i, j)
    BY <1>10, <1>13
  <2>4. j = n + 1 /\ i \in 1..n
    BY <2>2, <2>3
  <2> QED
    BY <2>1, <2>2, <2>3, <2>4 DEF Judged
<1>14. CASE st.armed = 0 /\ changed = {}
  <2>1. new.armed = 0 /\ (new.doubt <=> st.doubt \/ again # {})
    BY <1>1, <1>14, <1>6
  <2>2. \A i, j \in 1..n : i < j => ~Proven(rs, gs, i, j)
    BY <1>14 DEF Judged
  <2>3. \A i, j \in 1..(n + 1) : i < j => ~Proven(rs, gs, i, j)
    <3> SUFFICES ASSUME NEW i \in 1..(n + 1), NEW j \in 1..(n + 1), i < j
                 PROVE  ~Proven(rs, gs, i, j)
      OBVIOUS
    <3>1. CASE j = n + 1
      BY <1>9, <1>14, <3>1
    <3>2. CASE j \in 1..n
      BY <2>2, <3>2
    <3> QED
      BY <3>1, <3>2
  <2>4. st.doubt <=> \E i, j \in 1..n : i < j /\ Again(rs, gs, i, j)
    BY <1>14 DEF Judged
  <2>5. new.doubt <=> \E i, j \in 1..(n + 1) : i < j /\ Again(rs, gs, i, j)
    <3>1. ASSUME NEW i \in 1..(n + 1), NEW j \in 1..(n + 1), i < j, Again(rs, gs, i, j)
          PROVE  new.doubt
      <4>1. CASE j = n + 1
        BY <1>7, <2>1, <3>1, <4>1
      <4>2. CASE j \in 1..n
        BY <2>1, <2>4, <3>1, <4>2
      <4> QED
        BY <4>1, <4>2
    <3>2. ASSUME new.doubt
          PROVE  \E i, j \in 1..(n + 1) : i < j /\ Again(rs, gs, i, j)
      BY <1>7, <2>1, <2>4, <3>2
    <3> QED
      BY <3>1, <3>2
  <2>6. new.doubt \in BOOLEAN
    BY <1>1, <1>6
  <2> QED
    BY <2>1, <2>3, <2>5, <2>6 DEF Judged
<1> QED
  BY <1>12, <1>13, <1>14

\* The scan finds the first proven recurrence, and an unproven one where there is none.
LEMMA ScanFinds ==
  ASSUME NEW rs \in Seq(Series!Round), NEW gs
  PROVE  Judged(Series!Scan(rs, gs), rs, gs, Len(rs))
<1>1. Len(rs) \in Nat
  OBVIOUS
<1>2. PICK scan :
        /\ Series!Scan(rs, gs) = scan[Len(rs)] /\ scan[0] = Series!Start(gs)
        /\ \A n \in 1..Len(rs) : scan[n] = Series!Scanned(scan[n - 1], n, rs[n], gs)
  BY <1>1, ScanSteps
<1> DEFINE Good == {n \in 0..Len(rs) : /\ Collected(scan[n], rs, gs, n)
                                       /\ Judged(scan[n], rs, gs, n)}
<1>3. 0 \in Good
  <2> DEFINE st == Series!Start(gs)
             none == [m \in Known(gs) |-> << >>]
  <2>1. st.bucket = none /\ st.armed = 0 /\ st.doubt = FALSE
    BY DEF Series!Start, Known
  <2>2. none \in [Known(gs) -> Seq(Identity)]
    OBVIOUS
  <2>3. ASSUME NEW m \in Known(gs)
        PROVE  /\ {none[m][x] : x \in 1..Len(none[m])}
                    = {rs[i].declared : i \in Naming(rs, gs, m, 0)}
               /\ Len(none[m]) = 0 <=> Naming(rs, gs, m, 0) = {}
    <3>1. none[m] = << >> /\ Len(<< >>) = 0 /\ Naming(rs, gs, m, 0) = {}
      BY DEF Naming
    <3> HIDE DEF none
    <3> QED
      BY <3>1
  <2> HIDE DEF st, none
  <2>4. Collected(st, rs, gs, 0)
    BY <2>1, <2>2, <2>3 DEF Collected
  <2>5. Judged(st, rs, gs, 0)
    <3>1. st.armed \in 0..0 /\ 1..0 = {}
      BY <2>1
    <3> QED
      BY <2>1, <3>1, Zenon DEF Judged
  <2> QED
    BY <1>1, <1>2, <2>4, <2>5 DEF st
<1>4. ASSUME NEW n \in 0..(Len(rs) - 1), n \in Good PROVE n + 1 \in Good
  <2>1. n \in Nat /\ n + 1 \in 1..Len(rs) /\ n + 1 \in 0..Len(rs)
    BY <1>1
  <2>2. scan[n + 1] = Series!Scanned(scan[n], n + 1, rs[n + 1], gs)
    BY <1>2, <2>1
  <2>3. Collected(scan[n], rs, gs, n) /\ Judged(scan[n], rs, gs, n)
    BY <1>4
  <2>4. /\ Collected(scan[n + 1], rs, gs, n + 1)
        /\ Judged(scan[n + 1], rs, gs, n + 1)
    BY <2>1, <2>2, <2>3, CollectedStep, JudgedStep
  <2> QED
    BY <2>1, <2>4
<1>5. Len(rs) \in Good
  <2> HIDE DEF Good
  <2>1. \A n \in 0..Len(rs) : n \in Good
    BY <1>1, <1>3, <1>4, UpTo
  <2> QED
    BY <1>1, <2>1
<1> QED
  BY <1>2, <1>5

Green == {"SURFACE_TREADMILL", "ROUTE_REPAIR", "CLOSE", "CONTINUE"}
HasProof(rs, gs) == \E i, j \in 1..Len(rs) : i < j /\ Proven(rs, gs, i, j)
HasAgain(rs, gs) == \E i, j \in 1..Len(rs) : i < j /\ Again(rs, gs, i, j)

\* What decide answers, without its scan.
LEMMA DecisionIs ==
  ASSUME NEW rs \in Seq(Series!Round), NEW gs
  PROVE  LET t == Series!Decide(rs, gs) IN
         /\ Series!RouteDefect => t.terminal = "ROUTE_DEFECT"
         /\ ~Series!RouteDefect =>
              /\ HasProof(rs, gs) =>
                   /\ t.terminal = "REDESIGN_OR_DISCARD" /\ t.at \in 1..Len(rs)
                   /\ \E i \in 1..(t.at - 1) : Proven(rs, gs, i, t.at)
                   /\ \A i, j \in 1..(t.at - 1) : i < j => ~Proven(rs, gs, i, j)
              /\ ~HasProof(rs, gs) /\ HasAgain(rs, gs) => t.terminal = "RECURRENCE_UNCONFIRMED"
              /\ ~HasProof(rs, gs) /\ ~HasAgain(rs, gs) => t.terminal \in Green
         /\ t.terminal = "CLOSE" => rs[Len(rs)].verdict = "PASSED"
<1> DEFINE t == Series!Decide(rs, gs)
           s == Series!Scan(rs, gs)
           last == rs[Len(rs)]
<1>1. Judged(s, rs, gs, Len(rs)) /\ Len(rs) \in Nat
  BY ScanFinds
<1>2. \/ Series!RouteDefect /\ t.terminal = "ROUTE_DEFECT"
      \/ ~Series!RouteDefect /\ s.armed # 0 /\ t = [terminal |-> "REDESIGN_OR_DISCARD",
                                                    at |-> s.armed]
      \/ /\ ~Series!RouteDefect /\ s.armed = 0 /\ s.doubt
         /\ t.terminal = "RECURRENCE_UNCONFIRMED"
      \/ /\ ~Series!RouteDefect /\ s.armed = 0 /\ ~s.doubt /\ t.terminal \in Green
         /\ t.terminal = "CLOSE" => last.verdict = "PASSED"
  <2> HIDE DEF s
  <2> QED
    BY DEF Series!Decide, Green, s
<1> HIDE DEF t, s
<1>3. s.armed # 0 => HasProof(rs, gs)
  <2> SUFFICES ASSUME s.armed # 0 PROVE HasProof(rs, gs)
    OBVIOUS
  <2>1. PICK i \in 1..(s.armed - 1) : Proven(rs, gs, i, s.armed)
    BY <1>1 DEF Judged
  <2>2. s.armed \in 1..Len(rs)
    BY <1>1 DEF Judged
  <2> QED
    BY <2>1, <2>2 DEF HasProof
<1>4. s.armed = 0 => ~HasProof(rs, gs) /\ (s.doubt <=> HasAgain(rs, gs))
  BY <1>1 DEF Judged, HasProof, HasAgain
<1>5. s.armed # 0 => /\ s.armed \in 1..Len(rs)
                     /\ \E i \in 1..(s.armed - 1) : Proven(rs, gs, i, s.armed)
                     /\ \A i, j \in 1..(s.armed - 1) : i < j => ~Proven(rs, gs, i, j)
  BY <1>1 DEF Judged
<1>6. CASE Series!RouteDefect
  BY <1>2, <1>6 DEF t
<1>7. CASE ~Series!RouteDefect /\ s.armed # 0
  <2>1. t.terminal = "REDESIGN_OR_DISCARD" /\ t.at = s.armed
    BY <1>2, <1>7
  <2> QED
    BY <1>3, <1>5, <1>7, <2>1 DEF t
<1>8. CASE ~Series!RouteDefect /\ s.armed = 0
  <2>1. \/ s.doubt /\ t.terminal = "RECURRENCE_UNCONFIRMED"
        \/ ~s.doubt /\ t.terminal \in Green /\ (t.terminal = "CLOSE" => last.verdict = "PASSED")
    BY <1>2, <1>8
  <2> QED
    BY <1>4, <1>8, <2>1 DEF t, Green
<1> QED
  BY <1>6, <1>7, <1>8

\* With both rounds' identities proved by ledgers an open recurrence is one candidate.
LEMMA LedgersSettle ==
  ASSUME rounds \in Seq(Series!Round), \A n \in 1..Len(rounds) : Series!LedgerAgrees(rounds[n])
  PROVE  Series!LedgersDecide
<1> SUFFICES ASSUME \A n \in 1..Len(rounds) : rounds[n].proved # Unknown,
                    Series!Decide(rounds, groups).terminal = "RECURRENCE_UNCONFIRMED"
             PROVE  \E i, j \in 1..Len(rounds) : i < j /\ rounds[i].proved = rounds[j].proved
  BY DEF Series!LedgersDecide
<1>1. ~HasProof(rounds, groups) /\ HasAgain(rounds, groups)
  BY DecisionIs DEF Green
<1>2. PICK i, j \in 1..Len(rounds) : i < j /\ Again(rounds, groups, i, j)
  BY <1>1 DEF HasAgain
<1>3. ASSUME NEW n \in 1..Len(rounds), Named(rounds[n], groups) # {}
      PROVE  rounds[n].declared = rounds[n].proved
  <2>1. rounds[n].terminal = "verdict"
    BY <1>3 DEF Named, Series!Mechanisms, Series!Counted
  <2> QED
    BY <2>1 DEF Series!LedgerAgrees, Series!FromLedger
<1>4. rounds[i].declared = rounds[i].proved /\ rounds[j].declared = rounds[j].proved
  BY <1>2, <1>3 DEF Again
<1>5. ~Proven(rounds, groups, i, j)
  BY <1>1, <1>2 DEF HasProof
<1> QED
  BY <1>2, <1>4, <1>5 DEF Again, Named, Proven, Series!ProvenRecurrence

LEMMA StopsExactly ==
  ASSUME rounds \in Seq(Series!Round)
  PROVE  Series!StopsOnRecurrence
<1> DEFINE t == Series!Decide(rounds, groups)
           proof == {j \in 1..Len(rounds) : \E i \in 1..(j - 1) : Proven(rounds, groups, i, j)}
<1> SUFFICES ASSUME ~Series!RouteDefect
             PROVE  /\ (t.terminal = "REDESIGN_OR_DISCARD") = (proof # {})
                    /\ proof # {} => t.at \in proof /\ \A j \in proof : t.at <= j
                    /\ (t.terminal \in Green) = ~HasAgain(rounds, groups)
                    /\ t.terminal = "CLOSE" => rounds[Len(rounds)].verdict = "PASSED"
  BY DEF Series!StopsOnRecurrence, Proven, HasAgain, Series!Recurrence, Again, Named, Green
<1>1. Len(rounds) \in Nat
  OBVIOUS
<1>2. proof # {} <=> HasProof(rounds, groups)
  <2>1. ASSUME NEW i \in 1..Len(rounds), NEW j \in 1..Len(rounds), i < j,
               Proven(rounds, groups, i, j)
        PROVE  proof # {}
    <3>1. i \in 1..(j - 1)
      BY <2>1
    <3> QED
      BY <2>1, <3>1
  <2>2. ASSUME NEW j \in proof PROVE HasProof(rounds, groups)
    <3>1. PICK i \in 1..(j - 1) : Proven(rounds, groups, i, j)
      OBVIOUS
    <3> QED
      BY <1>1, <3>1 DEF HasProof
  <2> QED
    BY <2>1, <2>2 DEF HasProof
<1>3. HasProof(rounds, groups) => HasAgain(rounds, groups)
  BY DEF HasProof, HasAgain, Again, Named, Proven, Series!ProvenRecurrence
<1>4. /\ HasProof(rounds, groups) =>
           /\ t.terminal = "REDESIGN_OR_DISCARD" /\ t.at \in 1..Len(rounds)
           /\ \E i \in 1..(t.at - 1) : Proven(rounds, groups, i, t.at)
           /\ \A i, j \in 1..(t.at - 1) : i < j => ~Proven(rounds, groups, i, j)
      /\ ~HasProof(rounds, groups) /\ HasAgain(rounds, groups) =>
           t.terminal = "RECURRENCE_UNCONFIRMED"
      /\ ~HasProof(rounds, groups) /\ ~HasAgain(rounds, groups) => t.terminal \in Green
      /\ t.terminal = "CLOSE" => rounds[Len(rounds)].verdict = "PASSED"
  BY DecisionIs
<1> HIDE DEF t
<1>5. HasProof(rounds, groups) => t.at \in proof /\ \A j \in proof : t.at <= j
  <2> SUFFICES ASSUME HasProof(rounds, groups) PROVE t.at \in proof /\ \A j \in proof : t.at <= j
    OBVIOUS
  <2>1. t.at \in proof
    BY <1>4
  <2>2. ASSUME NEW j \in proof, ~(t.at <= j) PROVE FALSE
    <3>1. PICK i \in 1..(j - 1) : Proven(rounds, groups, i, j)
      OBVIOUS
    <3>2. j \in 1..(t.at - 1) /\ i \in 1..(t.at - 1) /\ i < j
      BY <1>4, <2>2, <3>1
    <3> QED
      BY <1>4, <3>1, <3>2
  <2> QED
    BY <2>1, <2>2
<1> HIDE DEF proof
<1> QED
  BY <1>2, <1>3, <1>4, <1>5 DEF Green

(* Nothing is taken back by another round, another order or a further merge *)

LEMMA StrengthIs ==
  ASSUME NEW rs \in Seq(Series!Round), NEW gs
  PROVE  Series!Strength(rs, gs) = IF Series!RouteDefect THEN 0
                                   ELSE IF HasProof(rs, gs) THEN 2
                                   ELSE IF HasAgain(rs, gs) THEN 1 ELSE 0
<1> DEFINE t == Series!Decide(rs, gs)
<1>1. /\ Series!RouteDefect => t.terminal = "ROUTE_DEFECT"
      /\ ~Series!RouteDefect =>
           /\ HasProof(rs, gs) => t.terminal = "REDESIGN_OR_DISCARD"
           /\ ~HasProof(rs, gs) /\ HasAgain(rs, gs) => t.terminal = "RECURRENCE_UNCONFIRMED"
           /\ ~HasProof(rs, gs) /\ ~HasAgain(rs, gs) => t.terminal \in Green
  BY DecisionIs
<1> QED
  BY <1>1 DEF Series!Strength, Green

\* Rounds that are found in another history, at places of their own, recur there.
LEMMA FoundElsewhere ==
  ASSUME NEW rs \in Seq(Series!Round), NEW tt \in Seq(Series!Round), NEW gs,
         NEW at \in [1..Len(rs) -> 1..Len(tt)],
         \A i \in 1..Len(rs) : rs[i] = tt[at[i]],
         \A i, j \in 1..Len(rs) : i # j => at[i] # at[j]
  PROVE  /\ HasProof(rs, gs) => HasProof(tt, gs)
         /\ HasAgain(rs, gs) => HasAgain(tt, gs)
<1>1. ASSUME NEW i \in 1..Len(rs), NEW j \in 1..Len(rs), i < j
      PROVE  \E k, l \in 1..Len(tt) : /\ k < l
                                      /\ Again(rs, gs, i, j) => Again(tt, gs, k, l)
                                      /\ Proven(rs, gs, i, j) => Proven(tt, gs, k, l)
  <2>1. /\ at[i] \in 1..Len(tt) /\ at[j] \in 1..Len(tt) /\ at[i] # at[j]
        /\ rs[i] = tt[at[i]] /\ rs[j] = tt[at[j]]
    BY <1>1
  <2>2. /\ Again(rs, gs, i, j) => Again(tt, gs, at[i], at[j]) /\ Again(tt, gs, at[j], at[i])
        /\ Proven(rs, gs, i, j) => Proven(tt, gs, at[i], at[j]) /\ Proven(tt, gs, at[j], at[i])
    BY <2>1 DEF Again, Proven, Series!ProvenRecurrence
  <2>3. CASE at[i] < at[j]
    BY <2>1, <2>2, <2>3
  <2>4. CASE at[j] < at[i]
    BY <2>1, <2>2, <2>4
  <2> QED
    BY <2>1, <2>3, <2>4
<1> QED
  BY <1>1 DEF HasProof, HasAgain

LEMMA PrefixIsWeaker ==
  ASSUME rounds \in Seq(Series!Round), NEW n \in 1..(Len(rounds) - 1)
  PROVE  Series!Strength(SubSeq(rounds, 1, n), groups) <= Series!Strength(rounds, groups)
<1> DEFINE rs == SubSeq(rounds, 1, n)
           at == [i \in 1..Len(rs) |-> i]
<1>1. rs \in Seq(Series!Round) /\ Len(rs) = n /\ \A i \in 1..n : rs[i] = rounds[i]
  OBVIOUS
<1>2. at \in [1..Len(rs) -> 1..Len(rounds)]
  BY <1>1
<1> HIDE DEF rs
<1>3. \A i \in 1..Len(rs) : rs[i] = rounds[at[i]]
  BY <1>1
<1>4. \A i, j \in 1..Len(rs) : i # j => at[i] # at[j]
  OBVIOUS
<1> HIDE DEF at
<1>5. /\ HasProof(rs, groups) => HasProof(rounds, groups)
      /\ HasAgain(rs, groups) => HasAgain(rounds, groups)
  BY <1>1, <1>2, <1>3, <1>4, FoundElsewhere
<1>6. Series!Strength(rs, groups) <= Series!Strength(rounds, groups)
  BY <1>1, <1>5, StrengthIs
<1> QED
  BY <1>6 DEF rs

LEMMA OrderIsNothing ==
  ASSUME rounds \in Seq(Series!Round), NEW n \in 1..(Len(rounds) - 1)
  PROVE  Series!Strength(Series!Swapped(n), groups) = Series!Strength(rounds, groups)
<1> DEFINE rs == Series!Swapped(n)
           at == [i \in 1..Len(rounds) |-> IF i = n THEN n + 1 ELSE IF i = n + 1 THEN n ELSE i]
<1>1. /\ rs \in Seq(Series!Round) /\ Len(rs) = Len(rounds)
      /\ \A i \in 1..Len(rounds) : rs[i] = IF i = n THEN rounds[n + 1]
                                           ELSE IF i = n + 1 THEN rounds[n] ELSE rounds[i]
  BY DEF Series!Swapped
<1>2. at \in [1..Len(rounds) -> 1..Len(rounds)]
  OBVIOUS
<1> HIDE DEF rs
<1>3. /\ \A i \in 1..Len(rounds) : rs[i] = rounds[at[i]] /\ rounds[i] = rs[at[i]]
      /\ \A i, j \in 1..Len(rounds) : i # j => at[i] # at[j]
  BY <1>1
<1> HIDE DEF at
<1>4. /\ at \in [1..Len(rs) -> 1..Len(rounds)] /\ \A i \in 1..Len(rs) : rs[i] = rounds[at[i]]
      /\ \A i, j \in 1..Len(rs) : i # j => at[i] # at[j]
  BY <1>1, <1>2, <1>3
<1>5. /\ HasProof(rs, groups) => HasProof(rounds, groups)
      /\ HasAgain(rs, groups) => HasAgain(rounds, groups)
  BY <1>1, <1>4, FoundElsewhere
<1>6. /\ HasProof(rounds, groups) => HasProof(rs, groups)
      /\ HasAgain(rounds, groups) => HasAgain(rs, groups)
  BY <1>1, <1>2, <1>3, FoundElsewhere
<1> QED
  BY <1>1, <1>5, <1>6, StrengthIs DEF rs

\* No key is in two groups.
Apart(gs) == \A g, h \in gs : g \cap h # {} => g = h

LEMMA MergedApart ==
  ASSUME NEW gs, NEW g, Apart(gs)
  PROVE  Apart(Series!Merged(gs, g))
<1> DEFINE met == {f \in gs : f \cap g # {}}
           big == (UNION met) \cup g
<1>1. ASSUME NEW h \in gs, h \cap g = {} PROVE h \cap big = {}
  <2> SUFFICES ASSUME NEW x \in h, x \in big PROVE FALSE
    OBVIOUS
  <2>1. x \notin g
    BY <1>1
  <2>2. PICK f \in met : x \in f
    BY <2>1
  <2>3. f = h
    BY <2>2 DEF Apart
  <2> QED
    BY <1>1, <2>2, <2>3
<1>2. Series!Merged(gs, g) = {h \in gs : h \cap g = {}} \cup {big}
  BY DEF Series!Merged
<1> HIDE DEF big
<1> QED
  BY <1>1, <1>2 DEF Apart

LEMMA MechanismIs ==
  ASSUME NEW gs, NEW k, Apart(gs)
  PROVE  /\ \A h \in gs : k \in h => Series!Mechanism(k, gs) = h
         /\ (~\E h \in gs : k \in h) => Series!Mechanism(k, gs) = {k}
         /\ k \in Series!Mechanism(k, gs)
BY DEF Apart, Series!Mechanism

\* A merge takes whole groups: two keys of one mechanism stay together.
LEMMA StayTogether ==
  ASSUME NEW gs, NEW g, NEW k, NEW l, Apart(gs),
         Series!Mechanism(k, gs) = Series!Mechanism(l, gs)
  PROVE  Series!Mechanism(k, Series!Merged(gs, g)) = Series!Mechanism(l, Series!Merged(gs, g))
<1>1. k = l \/ \E h \in gs : k \in h /\ l \in h
  BY MechanismIs
<1>2. ASSUME NEW h \in gs, k \in h, l \in h
      PROVE  \E m \in Series!Merged(gs, g) : k \in m /\ l \in m
  <2>1. CASE h \cap g = {}
    BY <1>2, <2>1 DEF Series!Merged
  <2>2. CASE h \cap g # {}
    <3> DEFINE big == (UNION {f \in gs : f \cap g # {}}) \cup g
    <3>1. k \in big /\ l \in big
      BY <1>2, <2>2
    <3> QED
      BY <3>1 DEF Series!Merged
  <2> QED
    BY <2>1, <2>2
<1>3. Apart(Series!Merged(gs, g))
  BY MergedApart
<1> QED
  BY <1>1, <1>2, <1>3, MechanismIs

LEMMA MergeIsStronger ==
  ASSUME rounds \in Seq(Series!Round), Apart(groups), NEW g
  PROVE  Series!Strength(rounds, Series!Merged(groups, g)) >= Series!Strength(rounds, groups)
<1> DEFINE gs == Series!Merged(groups, g)
<1>1. ASSUME NEW i \in 1..Len(rounds), NEW j \in 1..Len(rounds), Again(rounds, groups, i, j)
      PROVE  Again(rounds, gs, i, j)
  <2>1. PICK m : m \in Named(rounds[i], groups) /\ m \in Named(rounds[j], groups)
    BY <1>1 DEF Again
  <2>2. /\ Series!Counted(rounds[i]) /\ Series!Counted(rounds[j])
        /\ \E f \in Series!Live(rounds[i]) :
             f.key # Unknown /\ m = Series!Mechanism(f.key, groups)
        /\ \E f \in Series!Live(rounds[j]) :
             f.key # Unknown /\ m = Series!Mechanism(f.key, groups)
    BY <2>1 DEF Named, Series!Mechanisms
  <2>3. PICK e \in Series!Live(rounds[i]), f \in Series!Live(rounds[j]) :
             /\ e.key # Unknown /\ f.key # Unknown
             /\ Series!Mechanism(e.key, groups) = Series!Mechanism(f.key, groups)
    BY <2>2
  <2>4. Series!Mechanism(e.key, gs) = Series!Mechanism(f.key, gs)
    BY <2>3, StayTogether
  <2>5. /\ Series!Mechanism(e.key, gs) \in Named(rounds[i], gs)
        /\ Series!Mechanism(f.key, gs) \in Named(rounds[j], gs)
    BY <2>2, <2>3 DEF Named, Series!Mechanisms
  <2> QED
    BY <2>4, <2>5 DEF Again
<1>2. ASSUME NEW i \in 1..Len(rounds), NEW j \in 1..Len(rounds), Proven(rounds, groups, i, j)
      PROVE  Proven(rounds, gs, i, j)
  <2>1. Again(rounds, gs, i, j)
    BY <1>1, <1>2 DEF Proven, Series!ProvenRecurrence, Again, Named
  <2> QED
    BY <1>2, <2>1 DEF Proven, Series!ProvenRecurrence, Again, Named
<1> HIDE DEF gs
<1>3. /\ HasProof(rounds, groups) => HasProof(rounds, gs)
      /\ HasAgain(rounds, groups) => HasAgain(rounds, gs)
  BY <1>1, <1>2 DEF HasProof, HasAgain
<1> QED
  BY <1>3, StrengthIs DEF gs

(* The treadmill passes over none of the last verdicts *)

\* The recursive function in Picked exists, so that Picked is its last value.
Kept(some, rs, n, places) == IF n \in places THEN Append(some, rs[n]) ELSE some
LEMMA PickedSteps ==
  ASSUME NEW rs, NEW places, Len(rs) \in Nat
  PROVE  \E kept :
           /\ Picked(rs, places) = kept[Len(rs)] /\ kept[0] = << >>
           /\ \A n \in 1..Len(rs) : kept[n] = Kept(kept[n - 1], rs, n, places)
<1> DEFINE Filled(f, k) ==
             f = [n \in 0..k |-> IF n = 0 THEN << >> ELSE Kept(f[n - 1], rs, n, places)]
           Defined == {k \in Nat : \E f : Filled(f, k)}
<1>1. 0 \in Defined
  <2> DEFINE f == [n \in 0..0 |-> << >>]
  <2>1. Filled(f, 0)
    OBVIOUS
  <2> QED
    BY <2>1
<1>2. ASSUME NEW k \in Nat, k \in Defined PROVE k + 1 \in Defined
  <2>1. PICK f : Filled(f, k)
    BY <1>2
  <2> DEFINE g == [n \in 0..(k + 1) |-> IF n = k + 1 THEN Kept(f[k], rs, n, places) ELSE f[n]]
  <2>2. \A n \in 0..k : f[n] = IF n = 0 THEN << >> ELSE Kept(f[n - 1], rs, n, places)
    BY <2>1
  <2>3. \A n \in 0..k : g[n] = f[n]
    OBVIOUS
  <2>4. \A n \in 0..(k + 1) :
          g[n] = IF n = 0 THEN << >> ELSE Kept(g[n - 1], rs, n, places)
    <3> SUFFICES ASSUME NEW n \in 0..(k + 1)
                 PROVE  g[n] = IF n = 0 THEN << >> ELSE Kept(g[n - 1], rs, n, places)
      OBVIOUS
    <3>1. CASE n = k + 1
      <4>1. g[n] = Kept(f[k], rs, n, places) /\ n - 1 = k /\ n # 0 /\ g[k] = f[k]
        BY <2>3, <3>1
      <4> QED
        BY <4>1
    <3>2. CASE n = 0
      BY <2>2, <2>3, <3>2
    <3>3. CASE n \in 1..k
      <4>1. g[n] = f[n] /\ g[n - 1] = f[n - 1] /\ n # 0 /\ n \in 0..k
        BY <2>3, <3>3
      <4> QED
        BY <2>2, <4>1
    <3> QED
      BY <3>1, <3>2, <3>3
  <2>5. Filled(g, k + 1)
    BY <2>4
  <2> HIDE DEF g
  <2>6. \E e : Filled(e, k + 1)
    BY <2>5
  <2> QED
    BY <2>6
<1>3. Len(rs) \in Defined
  <2> HIDE DEF Defined
  <2>1. \A k \in 0..(Len(rs) - 1) : k \in Defined => k + 1 \in Defined
    BY <1>2
  <2>2. \A k \in 0..Len(rs) : k \in Defined
    BY <1>1, <2>1, UpTo
  <2> QED
    BY <2>2
<1> DEFINE kept == CHOOSE kept : Filled(kept, Len(rs))
<1>4. Filled(kept, Len(rs))
  BY <1>3
<1>5. Picked(rs, places) = kept[Len(rs)]
  BY DEF Picked, Kept
<1> HIDE DEF kept
<1>6. \A n \in 0..Len(rs) : kept[n] = IF n = 0 THEN << >>
                                      ELSE Kept(kept[n - 1], rs, n, places)
  BY <1>4
<1> QED
  BY <1>5, <1>6

\* A round at one of the places stands in Picked as far on as there are places earlier it.
Upto(places, n) == {k \in places : k <= n}
LEMMA PickedOnes ==
  ASSUME NEW S, NEW rs \in Seq(S), NEW places, \A k \in places : k \in 1..Len(rs)
  PROVE  /\ Picked(rs, places) \in Seq(S)
         /\ Len(Picked(rs, places)) = Cardinality(places)
         /\ \A k \in places : Picked(rs, places)[Cardinality(Upto(places, k))] = rs[k]
<1>1. PICK kept : /\ Picked(rs, places) = kept[Len(rs)] /\ kept[0] = << >>
                  /\ \A n \in 1..Len(rs) : kept[n] = Kept(kept[n - 1], rs, n, places)
  BY PickedSteps
<1>9. Len(rs) \in Nat /\ \A k \in places : k \in 1..Len(rs)
  OBVIOUS
<1> DEFINE Good == {n \in 0..Len(rs) :
             /\ kept[n] \in Seq(S) /\ Len(kept[n]) = Cardinality(Upto(places, n))
             /\ \A k \in Upto(places, n) : kept[n][Cardinality(Upto(places, k))] = rs[k]}
<1>0. \A n \in Nat : IsFiniteSet(Upto(places, n)) /\ Cardinality(Upto(places, n)) \in Nat
  <2> SUFFICES ASSUME NEW n \in Nat PROVE IsFiniteSet(Upto(places, n))
    BY FS_CardinalityType
  <2>1. IsFiniteSet(1..Len(rs)) /\ Upto(places, n) \subseteq 1..Len(rs)
    BY <1>9, FS_Interval DEF Upto
  <2> QED
    BY <2>1, FS_Subset
<1>2. 0 \in Good
  <2>1. Upto(places, 0) = {}
    BY <1>9 DEF Upto
  <2>2. << >> \in Seq(S) /\ Len(<< >>) = 0 /\ Cardinality({}) = 0
    BY FS_EmptySet
  <2>3. kept[0] \in Seq(S) /\ Len(kept[0]) = Cardinality(Upto(places, 0))
    BY <1>1, <2>1, <2>2
  <2>4. 0 \in 0..Len(rs) /\ \A k \in Upto(places, 0) : FALSE
    BY <1>9, <2>1
  <2> QED
    BY <2>3, <2>4
<1>3. ASSUME NEW n \in 0..(Len(rs) - 1), n \in Good PROVE n + 1 \in Good
  <2>1. n + 1 \in 1..Len(rs) /\ n + 1 \in 0..Len(rs) /\ (n + 1) - 1 = n /\ n \in Nat
    OBVIOUS
  <2>2. kept[n + 1] = Kept(kept[n], rs, n + 1, places)
    BY <1>1, <2>1
  <2>3. CASE n + 1 \notin places
    <3>1. Upto(places, n + 1) = Upto(places, n)
      BY <1>9, <2>1, <2>3 DEF Upto
    <3>2. kept[n + 1] = kept[n]
      BY <2>2, <2>3 DEF Kept
    <3> QED
      BY <1>3, <2>1, <3>1, <3>2
  <2>4. CASE n + 1 \in places
    <3>1. Upto(places, n + 1) = Upto(places, n) \cup {n + 1} /\ n + 1 \notin Upto(places, n)
      BY <1>9, <2>1, <2>4 DEF Upto
    <3>2. Cardinality(Upto(places, n + 1)) = Cardinality(Upto(places, n)) + 1
      BY <1>0, <2>1, <3>1, FS_AddElement
    <3>3. kept[n + 1] = Append(kept[n], rs[n + 1]) /\ rs[n + 1] \in S
      BY <2>1, <2>2, <2>4 DEF Kept
    <3>4. /\ kept[n + 1] \in Seq(S) /\ Len(kept[n + 1]) = Len(kept[n]) + 1
          /\ kept[n + 1][Len(kept[n]) + 1] = rs[n + 1]
          /\ \A i \in 1..Len(kept[n]) : kept[n + 1][i] = kept[n][i]
      BY <1>3, <3>3
    <3>5. ASSUME NEW k \in Upto(places, n)
          PROVE  kept[n + 1][Cardinality(Upto(places, k))] = rs[k]
      <4>1. k \in Nat /\ Upto(places, k) \subseteq Upto(places, n) /\ k \in Upto(places, k)
        BY <1>9, <2>1 DEF Upto
      <4>2. Cardinality(Upto(places, k)) \in 1..Len(kept[n])
        <5>1. Cardinality(Upto(places, k)) <= Cardinality(Upto(places, n))
          BY <1>0, <2>1, <4>1, FS_Subset
        <5>2. Cardinality(Upto(places, k)) # 0
          BY <1>0, <4>1, FS_EmptySet
        <5>3. Cardinality(Upto(places, k)) \in Nat /\ Len(kept[n]) = Cardinality(Upto(places, n))
              /\ Cardinality(Upto(places, n)) \in Nat
          BY <1>0, <1>3, <2>1, <4>1
        <5> QED
          BY <5>1, <5>2, <5>3
      <4> QED
        BY <1>3, <3>4, <4>2
    <3>6. kept[n + 1][Cardinality(Upto(places, n + 1))] = rs[n + 1]
      BY <1>3, <3>2, <3>4
    <3>7. Len(kept[n + 1]) = Cardinality(Upto(places, n + 1))
      BY <1>3, <3>2, <3>4
    <3>8. \A k \in Upto(places, n + 1) : kept[n + 1][Cardinality(Upto(places, k))] = rs[k]
      BY <3>1, <3>5, <3>6
    <3> QED
      BY <2>1, <3>4, <3>7, <3>8
  <2> QED
    BY <2>3, <2>4
<1>4. Len(rs) \in Good
  <2> HIDE DEF Good
  <2>1. \A n \in 0..Len(rs) : n \in Good
    BY <1>2, <1>3, UpTo
  <2> QED
    BY <2>1
<1>5. Upto(places, Len(rs)) = places
  BY <1>9 DEF Upto
<1> QED
  BY <1>1, <1>4, <1>5

LEMMA SeriesPicks ==
  ASSUME NEW rs, NEW places PROVE Series!Picked(rs, places) = Picked(rs, places)
BY DEF Series!Picked, Picked

\* The treadmill is read off the last Window verdicts and passes none of them over.
LEMMA TreadmillIs ==
  ASSUME Window \in Nat, NEW rs \in Seq(Series!Round), Series!Treadmill(rs),
         NEW n \in 1..Len(rs), rs[n].terminal = "verdict",
         Cardinality({k \in n..Len(rs) : rs[k].terminal = "verdict"}) <= Window
  PROVE  rs[n].verdict = "BLOCKED" /\ \A f \in Series!Live(rs[n]) : f.place = "added"
<1> DEFINE places == {k \in 1..Len(rs) : rs[k].terminal = "verdict"}
           v == Picked(rs, places)
           w == Series!LastVerdicts(rs)
           earlier == {k \in places : k < n}
           since == {k \in n..Len(rs) : rs[k].terminal = "verdict"}
           at == Cardinality(Upto(places, n))
<1>1. /\ v \in Seq(Series!Round) /\ Len(v) = Cardinality(places)
      /\ \A k \in places : v[Cardinality(Upto(places, k))] = rs[k]
  BY PickedOnes
<1>2. w = Series!LastOf(v)
  BY SeriesPicks DEF Series!LastVerdicts
<1>3. /\ IsFiniteSet(places) /\ IsFiniteSet(earlier) /\ IsFiniteSet(since)
      /\ IsFiniteSet(Upto(places, n))
  <2>1. /\ places \subseteq 1..Len(rs) /\ earlier \subseteq 1..Len(rs)
        /\ since \subseteq 1..Len(rs) /\ Upto(places, n) \subseteq 1..Len(rs)
    BY DEF Upto
  <2>2. IsFiniteSet(1..Len(rs))
    BY FS_Interval
  <2> QED
    BY <2>1, <2>2, FS_Subset
<1>4. Cardinality(places) = Cardinality(earlier) + Cardinality(since)
  <2>1. \A k : k \in places <=> k \in earlier \/ k \in since
    OBVIOUS
  <2>2. \A k : ~(k \in earlier /\ k \in since)
    OBVIOUS
  <2> HIDE DEF places, earlier, since
  <2>3. places = earlier \cup since /\ earlier \cap since = {}
    BY <2>1, <2>2
  <2>4. Cardinality(earlier \cup since)
          = Cardinality(earlier) + Cardinality(since) - Cardinality(earlier \cap since)
    BY <1>3, FS_Union
  <2>5. Cardinality(earlier \cap since) = 0
    BY <2>3, FS_EmptySet
  <2>6. Cardinality(earlier) \in Nat /\ Cardinality(since) \in Nat
    BY <1>3, FS_CardinalityType
  <2> QED
    BY <2>3, <2>4, <2>5, <2>6
<1>5. at = Cardinality(earlier) + 1
  <2>1. Upto(places, n) = earlier \cup {n} /\ n \notin earlier
    BY DEF Upto
  <2> QED
    BY <1>3, <2>1, FS_AddElement
<1>6. /\ Cardinality(places) \in Nat /\ Cardinality(earlier) \in Nat /\ Cardinality(since) \in Nat
      /\ Cardinality(since) # 0 /\ Cardinality(since) <= Window
  <2>1. n \in since /\ Cardinality(since) <= Window
    OBVIOUS
  <2> QED
    BY <1>3, <2>1, FS_CardinalityType, FS_EmptySet
<1>7. v[at] = rs[n]
  BY <1>1
<1> HIDE DEF places, v, earlier, since, at, w
<1>8. w # << >>
  BY DEF Series!Treadmill, w
<1>9. Len(v) >= Window /\ w = SubSeq(v, Len(v) - Window + 1, Len(v))
  <2>1. ~(Len(v) < Window) /\ w = SubSeq(v, Len(v) - Window + 1, Len(v))
    BY <1>2, <1>8, Zenon DEF Series!LastOf
  <2>2. Len(v) \in Nat
    BY <1>1, <1>6
  <2> QED
    BY <2>1, <2>2
<1>10. /\ Len(w) = Window
       /\ \A i \in 1..Window : w[i] = v[Len(v) - Window + i]
  BY <1>1, <1>6, <1>9
<1>11. at - (Len(v) - Window) \in 1..Len(w)
  <2>1. Window - Cardinality(since) + 1 \in 1..Window
    BY <1>6
  <2>2. at - (Len(v) - Window) = Window - Cardinality(since) + 1
    BY <1>1, <1>4, <1>5, <1>6
  <2> QED
    BY <1>10, <2>1, <2>2
<1>12. w[at - (Len(v) - Window)] = rs[n]
  BY <1>1, <1>5, <1>6, <1>7, <1>10, <1>11
<1>13. \A i \in 1..Len(w) : /\ w[i].verdict = "BLOCKED"
                            /\ \A f \in Series!Live(w[i]) : f.place = "added"
  BY DEF Series!Treadmill, w
<1> QED
  BY <1>11, <1>12, <1>13

LEMMA TreadmillsAreRecent ==
  ASSUME Window \in Nat, rounds \in Seq(Series!Round)
  PROVE  Series!TreadmillIsRecent
<1> SUFFICES ASSUME Series!Decide(rounds, groups).terminal = "SURFACE_TREADMILL",
                    NEW n \in 1..Len(rounds), rounds[n].terminal = "verdict",
                    Cardinality({k \in n..Len(rounds) : rounds[k].terminal = "verdict"})
                      \in 1..Window
             PROVE  rounds[n].verdict = "BLOCKED" /\ \A f \in Series!Live(rounds[n]) : f.place = "added"
  BY SeriesCounts DEF Series!TreadmillIsRecent
<1>1. Series!Treadmill(rounds)
  <2> DEFINE s == Series!Scan(rounds, groups)
  <2> HIDE DEF s
  <2> QED
    BY DEF Series!Decide, s
<1> QED
  BY <1>1, TreadmillIs

\* A series is stopped exactly for a proven recurrence, at the round that proves it; with
\* the ledgers at hand no recurrence is left open but of one candidate; another round,
\* another order of the rounds or a further merge takes no recurrence back; and the
\* treadmill stops a series only after Window blocks in a row, all on what it added. For
\* any reports, any number of rounds and any groups (decide, build_merge_map,
\* evaluate_surface_treadmill).
THEOREM SeriesStopsSoundly ==
  ASSUME Series!StopAssumption
  PROVE  Series!Spec => []Series!DecisionIsSound
<1> DEFINE Inv == /\ kind \in {"ledger", "tree"} /\ rounds \in Seq(Series!Round) /\ Apart(groups)
                  /\ kind = "ledger" =>
                       \A n \in 1..Len(rounds) : Series!LedgerAgrees(rounds[n])
<1>1. Series!Init => Inv
  BY DEF Series!Init, Apart
<1>2. Inv /\ [Series!Next]_Series!svars => Inv'
  <2> SUFFICES ASSUME Inv, [Series!Next]_Series!svars PROVE Inv'
    OBVIOUS
  <2>1. CASE UNCHANGED Series!svars
    BY <2>1 DEF Series!svars, Apart, Series!LedgerAgrees, Series!FromLedger
  <2>2. ASSUME NEW r \in Series!Rounds[kind], Series!AddRound(r) PROVE Inv'
    <3>1. r \in Series!Round /\ (kind = "ledger" => Series!LedgerAgrees(r))
      BY DEF Series!Rounds, Series!Admissible, Series!StopAssumption
    <3>2. /\ rounds' = Append(rounds, r) /\ kind' = kind /\ groups' = groups
      BY <2>2 DEF Series!AddRound
    <3>3. /\ rounds' \in Seq(Series!Round) /\ Len(rounds') = Len(rounds) + 1
          /\ \A n \in 1..Len(rounds) : rounds'[n] = rounds[n]
          /\ rounds'[Len(rounds) + 1] = r
      BY <3>1, <3>2
    <3>4. ASSUME kind = "ledger", NEW n \in 1..Len(rounds') PROVE Series!LedgerAgrees(rounds'[n])
      <4>1. n \in 1..Len(rounds) \/ n = Len(rounds) + 1
        BY <3>3
      <4> QED
        BY <3>1, <3>3, <3>4, <4>1
    <3> QED
      BY <3>2, <3>3, <3>4 DEF Apart, Series!LedgerAgrees, Series!FromLedger
  <2>3. ASSUME NEW n \in 1..Len(rounds), NEW f \in rounds[n].findings,
               NEW fate \in {"refuted", "regression"}, Series!Dispose(n, f, fate)
        PROVE  Inv'
    <3> DEFINE new == (rounds[n].findings \ {f}) \cup {[f EXCEPT !.fate = fate]}
               r == [rounds[n] EXCEPT !.findings = new]
    <3>1. rounds[n] \in Series!Round
      OBVIOUS
    <3>2. [f EXCEPT !.fate = fate] \in Series!Finding
      <4>1. f \in Series!Finding
        BY <3>1 DEF Series!Round
      <4> QED
        BY <4>1 DEF Series!Finding
    <3>3. new \in SUBSET Series!Finding
      BY <3>1, <3>2 DEF Series!Round
    <3> HIDE DEF new
    <3>4. /\ r \in Series!Round /\ r.proved = rounds[n].proved
          /\ r.declared = rounds[n].declared /\ r.terminal = rounds[n].terminal
      BY <3>1, <3>3 DEF Series!Round
    <3>5. rounds' = [rounds EXCEPT ![n] = r] /\ kind' = kind /\ groups' = groups
      BY <2>3 DEF Series!Dispose, new
    <3> HIDE DEF r
    <3>6. /\ rounds' \in Seq(Series!Round) /\ Len(rounds') = Len(rounds)
          /\ \A k \in 1..Len(rounds) : rounds'[k] = IF k = n THEN r ELSE rounds[k]
      BY <3>4, <3>5
    <3> QED
      BY <3>4, <3>5, <3>6 DEF Apart, Series!LedgerAgrees, Series!FromLedger
  <2>4. ASSUME NEW g \in SUBSET Keys, Series!Merge(g) PROVE Inv'
    <3>1. groups' = Series!Merged(groups, g) /\ kind' = kind /\ rounds' = rounds
      BY <2>4 DEF Series!Merge
    <3>2. Apart(groups')
      BY <3>1, MergedApart
    <3> QED
      BY <3>1, <3>2 DEF Series!LedgerAgrees, Series!FromLedger, Apart
  <2> QED
    BY <2>1, <2>2, <2>3, <2>4 DEF Series!Next
<1>3. Inv => Series!DecisionIsSound
  <2> SUFFICES ASSUME Inv PROVE Series!DecisionIsSound
    OBVIOUS
  <2>1. Series!StopsOnRecurrence
    BY StopsExactly
  <2>2. Series!LedgersDecide
    BY LedgersSettle DEF Series!LedgersDecide
  <2>3. Series!NothingIsTakenBack
    BY PrefixIsWeaker, OrderIsNothing, MergeIsStronger DEF Series!NothingIsTakenBack
  <2>4. Series!TreadmillIsRecent
    BY TreadmillsAreRecent DEF Series!StopAssumption
  <2> QED
    BY <2>1, <2>2, <2>3, <2>4 DEF Series!DecisionIsSound
<1> QED
  BY <1>1, <1>2, <1>3, PTL DEF Series!Spec

-----------------------------------------------------------------------------
(* The division of a paid review (HierarchicalReview) *)

CONSTANTS Comparisons, ApiCap, MaxFiles, MaxRaw, MaxWhole, MaxUnits, CallLimit, Verdicts
VARIABLES changed, stage, diff, units, evidence, calls
Paid == INSTANCE HierarchicalReview

\* A function defined by what it is at 0 and by a step from n - 1 to n exists, and its
\* values are where the steps lead.
Walkable(N, W, V, start, walk) ==
  /\ N \in Nat /\ V \in [0..N -> SUBSET W] /\ start \in V[0]
  /\ \A n \in 1..N : \A v \in V[n - 1] : walk[n][v] \in V[n]
IsWalk(f, N, W, V, start, walk) ==
  /\ f \in [0..N -> W] /\ f[0] = start
  /\ \A n \in 1..N : f[n] = walk[n][f[n - 1]]
  /\ \A n \in 0..N : f[n] \in V[n]
LEMMA Recursion ==
  ASSUME NEW N, NEW W, NEW V, NEW start, NEW walk, Walkable(N, W, V, start, walk)
  PROVE  \E f : IsWalk(f, N, W, V, start, walk)
<1>0. /\ N \in Nat /\ V \in [0..N -> SUBSET W] /\ start \in V[0]
      /\ \A n \in 1..N : \A v \in V[n - 1] : walk[n][v] \in V[n]
  BY DEF Walkable
<1> DEFINE Filled(f, k) == /\ f = [n \in 0..k |-> IF n = 0 THEN start ELSE walk[n][f[n - 1]]]
                           /\ \A n \in 0..k : f[n] \in V[n]
           Defined == {k \in 0..N : \E f : Filled(f, k)}
<1>1. 0 \in Defined
  <2> DEFINE f == [n \in 0..0 |-> start]
  <2>1. f = [n \in 0..0 |-> IF n = 0 THEN start ELSE walk[n][f[n - 1]]]
    OBVIOUS
  <2>2. \A n \in 0..0 : n = 0 /\ f[n] = start
    OBVIOUS
  <2> HIDE DEF f
  <2>3. Filled(f, 0)
    BY <1>0, <2>1, <2>2
  <2>4. 0 \in 0..N
    BY <1>0
  <2> QED
    BY <2>3, <2>4
<1>2. ASSUME NEW k \in 0..(N - 1), k \in Defined PROVE k + 1 \in Defined
  <2>1. PICK f : Filled(f, k)
    BY <1>2
  <2> DEFINE g == [n \in 0..(k + 1) |-> IF n = k + 1 THEN walk[n][f[k]] ELSE f[n]]
  <2>2. \A n \in 0..k : f[n] = (IF n = 0 THEN start ELSE walk[n][f[n - 1]]) /\ f[n] \in V[n]
    BY <2>1
  <2>3. \A n \in 0..k : g[n] = f[n]
    OBVIOUS
  <2>4. \A n \in 0..(k + 1) :
          g[n] = (IF n = 0 THEN start ELSE walk[n][g[n - 1]]) /\ g[n] \in V[n]
    <3> SUFFICES ASSUME NEW n \in 0..(k + 1)
                 PROVE  g[n] = (IF n = 0 THEN start ELSE walk[n][g[n - 1]]) /\ g[n] \in V[n]
      OBVIOUS
    <3>1. CASE n = k + 1
      <4>1. g[n] = walk[n][f[k]] /\ n - 1 = k /\ n # 0 /\ g[k] = f[k] /\ n \in 1..N
        BY <1>0, <2>3, <3>1
      <4>2. f[k] \in V[k]
        BY <2>2
      <4> QED
        BY <1>0, <4>1, <4>2
    <3>2. CASE n = 0
      BY <2>2, <2>3, <3>2
    <3>3. CASE n \in 1..k
      <4>1. g[n] = f[n] /\ g[n - 1] = f[n - 1] /\ n # 0 /\ n \in 0..k
        BY <2>3, <3>3
      <4> QED
        BY <2>2, <4>1
    <3> QED
      BY <3>1, <3>2, <3>3
  <2>5. Filled(g, k + 1)
    <3>1. g = [n \in 0..(k + 1) |-> IF n = 0 THEN start ELSE walk[n][g[n - 1]]]
      BY <2>4
    <3> HIDE DEF g
    <3> QED
      BY <2>4, <3>1
  <2> HIDE DEF g
  <2>6. \E e : Filled(e, k + 1)
    BY <2>5
  <2>7. k + 1 \in 0..N
    BY <1>0
  <2> HIDE DEF Filled
  <2> QED
    BY <2>6, <2>7
<1>3. N \in Defined
  <2> HIDE DEF Defined
  <2>1. \A k \in 0..N : k \in Defined
    BY <1>0, <1>1, <1>2, UpTo
  <2> QED
    BY <1>0, <2>1
<1>4. PICK f : Filled(f, N)
  BY <1>3
<1>5. \A n \in 0..N : f[n] = IF n = 0 THEN start ELSE walk[n][f[n - 1]]
  BY <1>4
<1>6. f \in [0..N -> W]
  <2>1. \A n \in 0..N : f[n] \in W
    BY <1>0, <1>4
  <2>2. f = [n \in 0..N |-> f[n]]
    BY <1>4
  <2> HIDE DEF Filled
  <2> QED
    BY <2>1, <2>2
<1>7. f[0] = start /\ \A n \in 1..N : f[n] = walk[n][f[n - 1]]
  BY <1>0, <1>5
<1>8. \A n \in 0..N : f[n] \in V[n]
  BY <1>4
<1> QED
  BY <1>6, <1>7, <1>8 DEF IsWalk

-----------------------------------------------------------------------------
(* Sums *)

\* Total is the last of the sums it goes through.
LEMMA TotalSteps ==
  ASSUME NEW s \in Seq(Nat)
  PROVE  \E sum \in [0..Len(s) -> Nat] :
           /\ Paid!Total(s) = sum[Len(s)] /\ sum[0] = 0
           /\ \A n \in 1..Len(s) : sum[n] = sum[n - 1] + s[n]
<1> DEFINE V == [n \in 0..Len(s) |-> Nat]
           walk == [n \in 1..Len(s) |-> [t \in Nat |-> t + s[n]]]
           Filled(f) == f = [n \in 0..Len(s) |-> IF n = 0 THEN 0 ELSE f[n - 1] + s[n]]
<1>1. Len(s) \in Nat /\ \A n \in 1..Len(s) : s[n] \in Nat
  OBVIOUS
<1>2. /\ 0 \in V[0] /\ V \in [0..Len(s) -> SUBSET Nat]
      /\ \A n \in 1..Len(s) : \A v \in V[n - 1] : walk[n][v] \in V[n]
  BY <1>1
<1>3. \A n \in 0..Len(s) : V[n] = Nat
  OBVIOUS
<1>4. \A n \in 1..Len(s) : \A t \in Nat : walk[n][t] = t + s[n]
  OBVIOUS
<1> HIDE DEF V, walk
<1>5. PICK f : IsWalk(f, Len(s), Nat, V, 0, walk)
  <2>1. Walkable(Len(s), Nat, V, 0, walk)
    BY <1>1, <1>2 DEF Walkable
  <2> QED
    BY <2>1, Recursion
<1>6. \A n \in 0..Len(s) : f[n] = (IF n = 0 THEN 0 ELSE f[n - 1] + s[n]) /\ f[n] \in Nat
  <2> SUFFICES ASSUME NEW n \in 0..Len(s)
               PROVE  f[n] = (IF n = 0 THEN 0 ELSE f[n - 1] + s[n]) /\ f[n] \in Nat
    OBVIOUS
  <2>1. (n = 0 => f[n] = 0) /\ (n # 0 => f[n] = walk[n][f[n - 1]])
    BY <1>1, <1>5 DEF IsWalk
  <2>2. n # 0 => n \in 1..Len(s) /\ n - 1 \in 0..Len(s)
    BY <1>1
  <2>3. f[n] \in Nat /\ (n # 0 => f[n - 1] \in Nat)
    BY <1>3, <1>5, <2>2 DEF IsWalk
  <2> QED
    BY <1>4, <2>1, <2>2, <2>3
<1>7. Filled(f)
  <2>1. f \in [0..Len(s) -> Nat]
    BY <1>5 DEF IsWalk
  <2> QED
    BY <1>6, <2>1
<1> DEFINE sum == CHOOSE g : Filled(g)
<1>8. Filled(sum)
  BY <1>7
<1>9. Paid!Total(s) = sum[Len(s)]
  BY DEF Paid!Total
<1> HIDE DEF sum
<1>10. \A n \in 0..Len(s) : sum[n] = IF n = 0 THEN 0 ELSE sum[n - 1] + s[n]
  BY <1>8
<1> DEFINE K == {n \in 0..Len(s) : sum[n] \in Nat}
<1>11. \A n \in 0..Len(s) : n \in K
  <2>1. 0 \in K
    BY <1>1, <1>10
  <2>2. ASSUME NEW n \in 0..(Len(s) - 1), n \in K PROVE n + 1 \in K
    <3>1. n + 1 \in 0..Len(s) /\ n + 1 \in 1..Len(s) /\ (n + 1) - 1 = n /\ n + 1 # 0
      BY <1>1
    <3>2. sum[n + 1] = sum[n] + s[n + 1]
      BY <1>10, <3>1
    <3> QED
      BY <1>1, <2>2, <3>1, <3>2
  <2> HIDE DEF K
  <2> QED
    BY <1>1, <2>1, <2>2, UpTo
<1>12. sum \in [0..Len(s) -> Nat]
  <2>1. sum = [n \in 0..Len(s) |-> sum[n]]
    BY <1>8
  <2> QED
    BY <1>11, <2>1
<1> QED
  BY <1>1, <1>9, <1>10, <1>12

\* The total of two lists laid together is that of the one and the other.
LEMMA TotalOfTwo ==
  ASSUME NEW s \in Seq(Nat), NEW t \in Seq(Nat)
  PROVE  Paid!Total(s \o t) = Paid!Total(s) + Paid!Total(t)
<1> DEFINE u == s \o t
<1>1. /\ Len(s) \in Nat /\ Len(t) \in Nat /\ u \in Seq(Nat) /\ Len(u) = Len(s) + Len(t)
      /\ \A n \in 1..Len(s) : u[n] = s[n]
      /\ \A n \in 1..Len(t) : u[Len(s) + n] = t[n]
      /\ \A n \in 1..Len(s) : s[n] \in Nat
      /\ \A n \in 1..Len(t) : t[n] \in Nat
  OBVIOUS
<1> HIDE DEF u
<1>2. PICK a \in [0..Len(u) -> Nat] :
        /\ Paid!Total(u) = a[Len(u)] /\ a[0] = 0
        /\ \A n \in 1..Len(u) : a[n] = a[n - 1] + u[n]
  BY <1>1, TotalSteps
<1>3. PICK b \in [0..Len(s) -> Nat] :
        /\ Paid!Total(s) = b[Len(s)] /\ b[0] = 0
        /\ \A n \in 1..Len(s) : b[n] = b[n - 1] + s[n]
  BY TotalSteps
<1>4. PICK c \in [0..Len(t) -> Nat] :
        /\ Paid!Total(t) = c[Len(t)] /\ c[0] = 0
        /\ \A n \in 1..Len(t) : c[n] = c[n - 1] + t[n]
  BY TotalSteps
<1> DEFINE K == {n \in 0..Len(s) : a[n] = b[n]}
<1>5. \A n \in 0..Len(s) : n \in K
  <2>1. 0 \in K
    BY <1>1, <1>2, <1>3
  <2>2. ASSUME NEW n \in 0..(Len(s) - 1), n \in K PROVE n + 1 \in K
    <3>1. /\ n + 1 \in 0..Len(s) /\ n + 1 \in 1..Len(s) /\ (n + 1) - 1 = n
          /\ n + 1 \in 1..Len(u)
      BY <1>1
    <3>2. a[n + 1] = a[n] + u[n + 1] /\ b[n + 1] = b[n] + s[n + 1] /\ u[n + 1] = s[n + 1]
      BY <1>1, <1>2, <1>3, <3>1
    <3> QED
      BY <2>2, <3>1, <3>2
  <2> HIDE DEF K
  <2> QED
    BY <1>1, <2>1, <2>2, UpTo
<1> DEFINE L == {n \in 0..Len(t) : a[Len(s) + n] = b[Len(s)] + c[n]}
<1>6. \A n \in 0..Len(t) : n \in L
  <2>1. 0 \in L
    <3>1. Len(s) \in K /\ Len(s) + 0 = Len(s) /\ b[Len(s)] \in Nat
      BY <1>1, <1>5
    <3> QED
      BY <1>1, <1>4, <3>1
  <2>2. ASSUME NEW n \in 0..(Len(t) - 1), n \in L PROVE n + 1 \in L
    <3>1. /\ n + 1 \in 0..Len(t) /\ n + 1 \in 1..Len(t) /\ (n + 1) - 1 = n
          /\ Len(s) + (n + 1) \in 1..Len(u) /\ (Len(s) + (n + 1)) - 1 = Len(s) + n
          /\ Len(s) \in 0..Len(s)
      BY <1>1
    <3>2. /\ a[Len(s) + (n + 1)] = a[Len(s) + n] + u[Len(s) + (n + 1)]
          /\ c[n + 1] = c[n] + t[n + 1] /\ u[Len(s) + (n + 1)] = t[n + 1]
      BY <1>1, <1>2, <1>4, <3>1
    <3>3. b[Len(s)] \in Nat /\ c[n] \in Nat /\ t[n + 1] \in Nat
      <4>1. b[Len(s)] \in Nat
        BY <3>1
      <4>2. n \in 0..Len(t)
        BY <1>1
      <4>3. c[n] \in Nat
        BY <4>2
      <4> QED
        BY <1>1, <3>1, <4>1, <4>3
    <3> QED
      BY <2>2, <3>1, <3>2, <3>3
  <2> HIDE DEF L
  <2> QED
    BY <1>1, <2>1, <2>2, UpTo
<1>7. a[Len(u)] = b[Len(s)] + c[Len(t)]
  <2>1. Len(t) \in L
    BY <1>1, <1>6
  <2> QED
    BY <1>1, <2>1
<1> QED
  BY <1>2, <1>3, <1>4, <1>7 DEF u

\* So are the bytes of two runs of lines.
LEMMA RawOfTwo ==
  ASSUME NEW s \in Seq(Paid!Line), NEW t \in Seq(Paid!Line)
  PROVE  Paid!Raw(s \o t) = Paid!Raw(s) + Paid!Raw(t)
<1>0. /\ Len(s) \in Nat /\ Len(t) \in Nat
      /\ DOMAIN s = 1..Len(s) /\ DOMAIN t = 1..Len(t)
      /\ DOMAIN (s \o t) = 1..(Len(s) + Len(t))
      /\ \A i \in 1..Len(s) : (s \o t)[i] = s[i]
      /\ \A i \in 1..(Len(s) + Len(t)) : ~(i \in 1..Len(s)) =>
           i - Len(s) \in 1..Len(t) /\ (s \o t)[i] = t[i - Len(s)]
  OBVIOUS
<1> DEFINE a == [i \in DOMAIN s |-> s[i].raw]
           b == [i \in DOMAIN t |-> t[i].raw]
           c == [i \in DOMAIN (s \o t) |-> (s \o t)[i].raw]
<1>1. /\ \A i \in 1..Len(s) : s[i].raw \in Nat
      /\ \A i \in 1..Len(t) : t[i].raw \in Nat
  <2>1. /\ \A i \in 1..Len(s) : s[i] \in Paid!Line
        /\ \A i \in 1..Len(t) : t[i] \in Paid!Line
    OBVIOUS
  <2>2. \A l \in Paid!Line : l.raw \in Nat
    BY DEF Paid!Line
  <2> QED
    BY <2>1, <2>2
<1>2. a \in Seq(Nat) /\ Len(a) = Len(s) /\ b \in Seq(Nat) /\ Len(b) = Len(t)
  <2>1. a = [i \in 1..Len(s) |-> s[i].raw] /\ b = [i \in 1..Len(t) |-> t[i].raw]
    BY <1>0
  <2> HIDE DEF a, b
  <2> QED
    BY <1>0, <1>1, <2>1
<1>3. c = a \o b
  <2>1. /\ c = [i \in 1..(Len(s) + Len(t)) |-> (s \o t)[i].raw]
        /\ \A i \in 1..Len(s) : a[i] = s[i].raw
        /\ \A i \in 1..Len(t) : b[i] = t[i].raw
    BY <1>0
  <2> HIDE DEF a, b, c
  <2>2. a \o b = [i \in 1..(Len(s) + Len(t)) |-> (a \o b)[i]]
    <3>1. a \in Seq(Nat) /\ b \in Seq(Nat) /\ Len(a) + Len(b) = Len(s) + Len(t)
      BY <1>2
    <3> HIDE <1>2
    <3>2. a \o b \in Seq(Nat)
      BY <3>1
    <3>3. Len(a \o b) = Len(a) + Len(b)
      BY <3>1
    <3>4. a \o b \in [1..Len(a \o b) -> Nat]
      BY <3>2, LenProperties
    <3>5. a \o b \in [1..(Len(s) + Len(t)) -> Nat]
      BY <3>1, <3>3, <3>4
    <3> QED
      BY <3>5
  <2>3. ASSUME NEW i \in 1..(Len(s) + Len(t)) PROVE c[i] = (a \o b)[i]
    <3>1. c[i] = (s \o t)[i].raw
      BY <2>1
    <3>2. CASE i \in 1..Len(s)
      BY <1>0, <1>2, <2>1, <3>1, <3>2
    <3>3. CASE i \notin 1..Len(s)
      <4>1. i - Len(s) \in 1..Len(t) /\ (a \o b)[i] = b[i - Len(s)]
        BY <1>0, <1>2, <3>3
      <4> QED
        BY <1>0, <2>1, <3>1, <3>3, <4>1
    <3> QED
      BY <3>2, <3>3
  <2> QED
    BY <2>1, <2>2, <2>3
<1> QED
  BY <1>2, <1>3, TotalOfTwo DEF Paid!Raw

\* A line is at least its line feed.
LEMMA RawIsSize ==
  ASSUME NEW s \in Seq(Paid!Line)
  PROVE  Paid!Raw(s) \in Nat /\ (s # << >> => Paid!Raw(s) >= 1) /\ (s = << >> => Paid!Raw(s) = 0)
<1> DEFINE a == [i \in DOMAIN s |-> s[i].raw]
<1>1. \A i \in 1..Len(s) : s[i].raw \in Nat /\ s[i].raw >= 1
  <2>1. \A i \in 1..Len(s) : s[i] \in Paid!Line
    OBVIOUS
  <2>2. \A l \in Paid!Line : l.raw \in Nat /\ l.raw >= 1
    BY DEF Paid!Line
  <2> QED
    BY <2>1, <2>2
<1>2. a \in Seq(Nat) /\ Len(a) = Len(s) /\ \A i \in 1..Len(s) : a[i] >= 1
  BY <1>1
<1> HIDE DEF a
<1>3. PICK sum \in [0..Len(a) -> Nat] :
        /\ Paid!Total(a) = sum[Len(a)] /\ sum[0] = 0
        /\ \A n \in 1..Len(a) : sum[n] = sum[n - 1] + a[n]
  BY <1>2, TotalSteps
<1>4. Paid!Raw(s) = sum[Len(s)] /\ Len(s) \in Nat
  BY <1>2, <1>3 DEF Paid!Raw, a
<1>5. CASE s = << >>
  BY <1>2, <1>3, <1>4, <1>5
<1>6. CASE s # << >>
  <2>1. Len(s) \in 1..Len(s) /\ Len(s) - 1 \in 0..Len(s)
    BY <1>4, <1>6
  <2>2. sum[Len(s)] = sum[Len(s) - 1] + a[Len(s)] /\ a[Len(s)] >= 1 /\ a[Len(s)] \in Nat
        /\ sum[Len(s) - 1] \in Nat
    BY <1>2, <1>3, <2>1
  <2> QED
    BY <1>4, <1>6, <2>2
<1> QED
  BY <1>5, <1>6

-----------------------------------------------------------------------------
(* Sequences of sequences *)

\* The recursive function in FlattenSeq exists, so that FlattenSeq is its last value.
LEMMA FlatSteps ==
  ASSUME NEW S, NEW s \in Seq(Seq(S)), s # << >>
  PROVE  \E flat :
           /\ Paid!FlattenSeq(s) = flat[Len(s)] /\ flat[1] = s[1]
           /\ \A n \in 1..(Len(s) - 1) : flat[n + 1] = flat[n] \o s[n + 1]
           /\ \A n \in 1..Len(s) : flat[n] \in Seq(S)
<1> DEFINE V == [n \in 0..Len(s) |-> Seq(S)]
           walk == [n \in 1..Len(s) |-> [t \in Seq(S) |-> IF n = 1 THEN s[1] ELSE t \o s[n]]]
           Filled(f) == f = [i \in 1..Len(s) |-> IF i = 1 THEN s[i] ELSE f[i - 1] \o s[i]]
<1>1. Len(s) \in Nat /\ Len(s) # 0 /\ \A n \in 1..Len(s) : s[n] \in Seq(S)
  BY EmptySeq, ElementOfSeq
<1>2. \A n \in 1..Len(s) : \A t \in Seq(S) :
        walk[n][t] = (IF n = 1 THEN s[1] ELSE t \o s[n]) /\ walk[n][t] \in Seq(S)
  <2> SUFFICES ASSUME NEW n \in 1..Len(s), NEW t \in Seq(S)
               PROVE  walk[n][t] = (IF n = 1 THEN s[1] ELSE t \o s[n]) /\ walk[n][t] \in Seq(S)
    OBVIOUS
  <2>1. walk[n][t] = IF n = 1 THEN s[1] ELSE t \o s[n]
    OBVIOUS
  <2>2. t \o s[n] \in Seq(S) /\ s[n] \in Seq(S)
    BY <1>1, ConcatProperties
  <2> HIDE DEF walk
  <2> QED
    BY <2>1, <2>2
<1>3. << >> \in V[0] /\ V \in [0..Len(s) -> SUBSET Seq(S)] /\ \A n \in 0..Len(s) : V[n] = Seq(S)
  BY <1>1, EmptySeq
<1> HIDE DEF V, walk
<1>4. Walkable(Len(s), Seq(S), V, << >>, walk)
  <2>1. \A n \in 1..Len(s) : \A v \in V[n - 1] : walk[n][v] \in V[n]
    <3> SUFFICES ASSUME NEW n \in 1..Len(s), NEW v \in V[n - 1] PROVE walk[n][v] \in V[n]
      OBVIOUS
    <3>1. n - 1 \in 0..Len(s) /\ n \in 0..Len(s)
      BY <1>1
    <3> QED
      BY <1>2, <1>3, <3>1
  <2> QED
    BY <1>1, <1>3, <2>1 DEF Walkable
<1>5. PICK f : IsWalk(f, Len(s), Seq(S), V, << >>, walk)
  BY <1>4, Recursion
<1> DEFINE g == [i \in 1..Len(s) |-> f[i]]
<1>6. \A i \in 1..Len(s) : g[i] = f[i] /\ f[i] \in Seq(S)
                           /\ f[i] = IF i = 1 THEN s[i] ELSE f[i - 1] \o s[i]
  <2> SUFFICES ASSUME NEW i \in 1..Len(s)
               PROVE  /\ g[i] = f[i] /\ f[i] \in Seq(S)
                      /\ f[i] = IF i = 1 THEN s[i] ELSE f[i - 1] \o s[i]
    OBVIOUS
  <2>1. i - 1 \in 0..Len(s) /\ i \in 0..Len(s)
    BY <1>1
  <2>2. f[i] = walk[i][f[i - 1]] /\ f[i - 1] \in Seq(S) /\ f[i] \in Seq(S)
    BY <1>3, <1>5, <2>1 DEF IsWalk
  <2>3. f[i] = IF i = 1 THEN s[1] ELSE f[i - 1] \o s[i]
    BY <1>2, <2>2
  <2> QED
    BY <2>2, <2>3
<1>7. Filled(g)
  <2>1. \A i \in 1..Len(s) : g[i] = IF i = 1 THEN s[i] ELSE g[i - 1] \o s[i]
    <3> SUFFICES ASSUME NEW i \in 1..Len(s)
                 PROVE  g[i] = IF i = 1 THEN s[i] ELSE g[i - 1] \o s[i]
      OBVIOUS
    <3>1. i # 1 => i - 1 \in 1..Len(s)
      BY <1>1
    <3> HIDE DEF g
    <3> QED
      BY <1>6, <3>1
  <2>2. g = [i \in 1..Len(s) |-> g[i]]
    BY <1>6
  <2> HIDE DEF g
  <2> QED
    BY <2>1, <2>2
<1> HIDE DEF g
<1> DEFINE flat == CHOOSE e : Filled(e)
<1>8. Filled(flat)
  BY <1>7
<1>9. Paid!FlattenSeq(s) = flat[Len(s)]
  <2>1. ~(Len(s) = 0)
    BY <1>1
  <2> QED
    BY <2>1, Zenon DEF Paid!FlattenSeq
<1> HIDE DEF flat
<1>10. \A i \in 1..Len(s) : flat[i] = IF i = 1 THEN s[i] ELSE flat[i - 1] \o s[i]
  BY <1>8
<1>11. flat[1] = s[1]
  BY <1>1, <1>10
<1>12. \A n \in 1..(Len(s) - 1) : flat[n + 1] = flat[n] \o s[n + 1]
  <2> SUFFICES ASSUME NEW n \in 1..(Len(s) - 1) PROVE flat[n + 1] = flat[n] \o s[n + 1]
    OBVIOUS
  <2>1. n + 1 \in 1..Len(s) /\ n + 1 # 1 /\ (n + 1) - 1 = n
    BY <1>1
  <2> QED
    BY <1>10, <2>1
<1> DEFINE K == {n \in 0..(Len(s) - 1) : flat[n + 1] \in Seq(S)}
<1>13. \A n \in 0..(Len(s) - 1) : n \in K
  <2>1. 0 \in K
    <3>1. 0 \in 0..(Len(s) - 1) /\ 0 + 1 = 1 /\ 1 \in 1..Len(s)
      BY <1>1
    <3>2. flat[0 + 1] \in Seq(S)
      BY <1>1, <1>11, <3>1
    <3> QED
      BY <3>1, <3>2
  <2>2. ASSUME NEW n \in 0..((Len(s) - 1) - 1), n \in K PROVE n + 1 \in K
    <3>1. n + 1 \in 1..(Len(s) - 1) /\ n + 1 \in 0..(Len(s) - 1) /\ (n + 1) + 1 \in 1..Len(s)
      BY <1>1
    <3>2. flat[(n + 1) + 1] = flat[n + 1] \o s[(n + 1) + 1]
      BY <1>12, <3>1
    <3>3. flat[(n + 1) + 1] \in Seq(S)
      BY <1>1, <2>2, <3>1, <3>2, ConcatProperties
    <3> QED
      BY <3>1, <3>3
  <2>3. Len(s) - 1 \in Nat
    BY <1>1
  <2> HIDE DEF K
  <2> QED
    BY <2>1, <2>2, <2>3, UpTo
<1>14. \A n \in 1..Len(s) : flat[n] \in Seq(S)
  <2> SUFFICES ASSUME NEW n \in 1..Len(s) PROVE flat[n] \in Seq(S)
    OBVIOUS
  <2>1. n - 1 \in 0..(Len(s) - 1) /\ (n - 1) + 1 = n
    BY <1>1
  <2>2. n - 1 \in K
    BY <1>13, <2>1
  <2> QED
    BY <2>1, <2>2
<1> QED
  BY <1>9, <1>11, <1>12, <1>14

\* The first k of them; FlattenSeq lays one after the other.
First(s, k) == [j \in 1..k |-> s[j]]
\* What the first k are.
LEMMA FirstOf ==
  ASSUME NEW T, NEW s \in Seq(T), NEW k \in 0..Len(s)
  PROVE  /\ First(s, k) \in Seq(T) /\ Len(First(s, k)) = k
         /\ \A j \in 1..k : First(s, k)[j] = s[j]
         /\ First(s, Len(s)) = s
<1>1. Len(s) \in Nat /\ \A j \in 1..Len(s) : s[j] \in T
  BY LenProperties, ElementOfSeq
<1>2. First(s, k) \in [1..k -> T] /\ \A j \in 1..k : First(s, k)[j] = s[j]
  BY <1>1 DEF First
<1>3. s = [j \in 1..Len(s) |-> s[j]]
  BY LenProperties
<1> QED
  BY <1>1, <1>2, <1>3 DEF First

\* FlattenSeq of one more lays this one behind what FlattenSeq was.
LEMMA FlatOfFirst ==
  ASSUME NEW S, NEW s \in Seq(Seq(S))
  PROVE  /\ Paid!FlattenSeq(First(s, 0)) = << >>
         /\ \A k \in 0..Len(s) : Paid!FlattenSeq(First(s, k)) \in Seq(S)
         /\ \A k \in 1..Len(s) :
              Paid!FlattenSeq(First(s, k)) = Paid!FlattenSeq(First(s, k - 1)) \o s[k]
<1>1. Len(s) \in Nat /\ \A n \in 1..Len(s) : s[n] \in Seq(S)
  BY LenProperties, ElementOfSeq
<1>2. Paid!FlattenSeq(First(s, 0)) = << >>
  <2>1. First(s, 0) = << >> /\ Len(First(s, 0)) = 0
    BY DEF First
  <2> QED
    BY <2>1 DEF Paid!FlattenSeq
<1>3. ASSUME NEW k \in 1..Len(s)
      PROVE  /\ Paid!FlattenSeq(First(s, k)) \in Seq(S)
             /\ Paid!FlattenSeq(First(s, k)) = Paid!FlattenSeq(First(s, k - 1)) \o s[k]
  <2> DEFINE p == First(s, k)
             q == First(s, k - 1)
  <2>1. /\ p \in Seq(Seq(S)) /\ Len(p) = k /\ \A j \in 1..k : p[j] = s[j]
        /\ q \in Seq(Seq(S)) /\ Len(q) = k - 1 /\ \A j \in 1..(k - 1) : q[j] = s[j]
    <3>1. k \in 0..Len(s) /\ k - 1 \in 0..Len(s)
      BY <1>1
    <3> QED
      BY <3>1, FirstOf
  <2>2. p # << >>
    BY <2>1
  <2> HIDE DEF p, q
  <2>3. PICK fp : /\ Paid!FlattenSeq(p) = fp[Len(p)] /\ fp[1] = p[1]
                  /\ \A n \in 1..(Len(p) - 1) : fp[n + 1] = fp[n] \o p[n + 1]
                  /\ \A n \in 1..Len(p) : fp[n] \in Seq(S)
    BY <2>1, <2>2, FlatSteps
  <2>4. Paid!FlattenSeq(p) \in Seq(S)
    BY <1>1, <2>1, <2>3
  <2>5. CASE k = 1
    <3>1. Paid!FlattenSeq(p) = s[1]
      BY <2>1, <2>3, <2>5
    <3>2. Paid!FlattenSeq(q) = << >>
      BY <1>2, <2>5 DEF q
    <3>3. << >> \o s[1] = s[1]
      BY <1>1, <2>5, ConcatEmptySeq
    <3> QED
      BY <2>4, <2>5, <3>1, <3>2, <3>3 DEF p, q
  <2>6. CASE k # 1
    <3>1. q # << >> /\ k - 1 \in 1..k /\ k - 1 \in Nat /\ k - 1 \in 1..(k - 1)
      BY <1>1, <2>1, <2>6
    <3>2. PICK fq : /\ Paid!FlattenSeq(q) = fq[Len(q)] /\ fq[1] = q[1]
                    /\ \A n \in 1..(Len(q) - 1) : fq[n + 1] = fq[n] \o q[n + 1]
                    /\ \A n \in 1..Len(q) : fq[n] \in Seq(S)
      BY <2>1, <3>1, FlatSteps
    <3> DEFINE K == {n \in 0..((k - 1) - 1) : fp[n + 1] = fq[n + 1]}
    <3>3. \A n \in 0..((k - 1) - 1) : n \in K
      <4>1. 0 \in K
        <5>1. 0 \in 0..((k - 1) - 1) /\ 0 + 1 = 1 /\ 1 \in 1..k /\ 1 \in 1..(k - 1)
          BY <3>1
        <5>2. fp[1] = fq[1]
          BY <2>1, <2>3, <3>2, <5>1
        <5> QED
          BY <5>1, <5>2
      <4>2. ASSUME NEW n \in 0..(((k - 1) - 1) - 1), n \in K PROVE n + 1 \in K
        <5>1. /\ n + 1 \in 0..((k - 1) - 1) /\ n + 1 \in 1..(Len(p) - 1)
              /\ n + 1 \in 1..(Len(q) - 1)
              /\ (n + 1) + 1 \in 1..k /\ (n + 1) + 1 \in 1..(k - 1)
          BY <2>1, <3>1
        <5>2. /\ fp[(n + 1) + 1] = fp[n + 1] \o p[(n + 1) + 1]
              /\ fq[(n + 1) + 1] = fq[n + 1] \o q[(n + 1) + 1]
          BY <2>3, <3>2, <5>1
        <5>3. p[(n + 1) + 1] = q[(n + 1) + 1]
          BY <2>1, <5>1
        <5> QED
          BY <4>2, <5>1, <5>2, <5>3
      <4>3. (k - 1) - 1 \in Nat
        BY <3>1
      <4> HIDE DEF K
      <4> QED
        BY <4>1, <4>2, <4>3, UpTo
    <3>4. fp[k - 1] = fq[k - 1]
      <4>1. (k - 1) - 1 \in 0..((k - 1) - 1) /\ ((k - 1) - 1) + 1 = k - 1
        BY <3>1
      <4>2. (k - 1) - 1 \in K
        BY <3>3, <4>1
      <4> QED
        BY <4>1, <4>2
    <3>5. fp[k] = fp[k - 1] \o p[k]
      <4>1. k - 1 \in 1..(Len(p) - 1) /\ (k - 1) + 1 = k
        BY <2>1, <3>1
      <4> QED
        BY <2>3, <4>1
    <3>6. Paid!FlattenSeq(p) = Paid!FlattenSeq(q) \o s[k]
      <4>1. Paid!FlattenSeq(p) = fp[k] /\ Paid!FlattenSeq(q) = fq[k - 1]
        BY <2>1, <2>3, <3>2
      <4>2. k \in 1..k
        BY <1>1
      <4>3. p[k] = s[k]
        BY <2>1, <4>2
      <4> QED
        BY <3>4, <3>5, <4>1, <4>3
    <3> QED
      BY <2>4, <3>6 DEF p, q
  <2> QED
    BY <2>5, <2>6
<1>4. \A k \in 0..Len(s) : Paid!FlattenSeq(First(s, k)) \in Seq(S)
  <2> SUFFICES ASSUME NEW k \in 0..Len(s) PROVE Paid!FlattenSeq(First(s, k)) \in Seq(S)
    OBVIOUS
  <2>1. CASE k = 0
    BY <1>2, <2>1, EmptySeq
  <2>2. CASE k \in 1..Len(s)
    BY <1>3, <2>2
  <2> QED
    BY <1>1, <2>1, <2>2
<1> QED
  BY <1>2, <1>3, <1>4

-----------------------------------------------------------------------------
(* Packings keep the order of the files *)

Chunk == [path : STRING, lines : Seq(Paid!Line) \ {<< >>}]
Part == Seq(Chunk) \ {<< >>}
Box == [closed : Seq(Part), open : Seq(Chunk)]
Distinct(chunks) == \A i, j \in 1..Len(chunks) : chunks[i].path = chunks[j].path => i = j

\* The files of a diff, each a chunk: the place of a path among them.  The chunks of a
\* unit stand in the order of their files, one for each, and no unit goes back behind the
\* last file of the one before it.
At(chunks, path) == CHOOSE n \in 1..Len(chunks) : chunks[n].path = path
Ordered(chunks, part, n) ==
  /\ \A j \in 1..Len(part) : /\ At(chunks, part[j].path) \in 1..n
                             /\ chunks[At(chunks, part[j].path)].path = part[j].path
  /\ \A i, j \in 1..Len(part) : i < j => At(chunks, part[i].path) < At(chunks, part[j].path)
NotAfter(chunks, part, next) ==
  \A i \in 1..Len(part) : \A j \in 1..Len(next) :
    At(chunks, part[i].path) <= At(chunks, next[j].path)
InOrder(chunks, parts, n) ==
  \A i \in 1..Len(parts) :
    /\ Ordered(chunks, parts[i], n)
    /\ \A h \in 1..Len(parts) : i < h => NotAfter(chunks, parts[i], parts[h])
Well(chunks, p, n) ==
  /\ p \in Box /\ InOrder(chunks, p.closed, n) /\ Ordered(chunks, p.open, n)
  /\ \A i \in 1..Len(p.closed) : NotAfter(chunks, p.closed[i], p.open)

\* In a diff without a path twice the n-th file has place n.
LEMMA AtPlace ==
  ASSUME NEW chunks, Distinct(chunks), NEW n \in 1..Len(chunks)
  PROVE  At(chunks, chunks[n].path) = n
<1> DEFINE m == At(chunks, chunks[n].path)
<1>1. m \in 1..Len(chunks) /\ chunks[m].path = chunks[n].path
  BY DEF At
<1> HIDE DEF m
<1> QED
  BY <1>1 DEF Distinct, m

\* A unit without chunks is in order.
LEMMA EmptyIsOrdered ==
  ASSUME NEW chunks, NEW n PROVE Ordered(chunks, << >>, n) /\ Len(<< >>) = 0
BY DEF Ordered

\* Closing the open unit keeps the order.
LEMMA FlushKeeps ==
  ASSUME NEW chunks, NEW n \in Nat, NEW p, Well(chunks, p, n)
  PROVE  /\ Well(chunks, Paid!Flush(p), n)
         /\ Paid!Flush(p).closed \in Seq(Part) /\ InOrder(chunks, Paid!Flush(p).closed, n)
<1>1. /\ p \in Box /\ p.closed \in Seq(Part) /\ p.open \in Seq(Chunk)
      /\ Len(p.closed) \in Nat
  <2>1. p \in Box
    BY DEF Well
  <2>2. p.closed \in Seq(Part) /\ p.open \in Seq(Chunk)
    BY <2>1 DEF Box
  <2> QED
    BY <2>1, <2>2, LenProperties
<1>2. CASE p.open = << >>
  <2>1. Paid!Flush(p) = p
    BY <1>2 DEF Paid!Flush
  <2> QED
    BY <1>1, <2>1 DEF Well
<1>3. CASE p.open # << >>
  <2> DEFINE c == Append(p.closed, p.open)
  <2>1. Paid!Flush(p) = [closed |-> c, open |-> << >>]
    BY <1>3 DEF Paid!Flush
  <2>2. p.open \in Part
    BY <1>1, <1>3 DEF Part
  <2>3. /\ c \in Seq(Part) /\ Len(c) = Len(p.closed) + 1
        /\ \A i \in 1..Len(p.closed) : c[i] = p.closed[i]
        /\ c[Len(p.closed) + 1] = p.open
    BY <1>1, <2>2, AppendProperties
  <2> HIDE DEF c
  <2>4. InOrder(chunks, c, n)
    <3> SUFFICES ASSUME NEW i \in 1..Len(c)
                 PROVE  /\ Ordered(chunks, c[i], n)
                        /\ \A h \in 1..Len(c) : i < h => NotAfter(chunks, c[i], c[h])
      BY DEF InOrder
    <3>1. CASE i = Len(p.closed) + 1
      <4>1. \A h \in 1..Len(c) : ~(i < h)
        BY <1>1, <2>3, <3>1
      <4> QED
        BY <2>3, <3>1, <4>1 DEF Well
    <3>2. CASE i # Len(p.closed) + 1
      <4>1. i \in 1..Len(p.closed) /\ c[i] = p.closed[i]
        BY <1>1, <2>3, <3>2
      <4>2. Ordered(chunks, c[i], n)
        BY <4>1 DEF Well, InOrder
      <4>3. ASSUME NEW h \in 1..Len(c), i < h PROVE NotAfter(chunks, c[i], c[h])
        <5>1. CASE h = Len(p.closed) + 1
          BY <2>3, <4>1, <5>1 DEF Well
        <5>2. CASE h # Len(p.closed) + 1
          <6>1. h \in 1..Len(p.closed) /\ c[h] = p.closed[h]
            BY <1>1, <2>3, <5>2
          <6> QED
            BY <4>1, <4>3, <6>1 DEF Well, InOrder
        <5> QED
          BY <5>1, <5>2
      <4> QED
        BY <4>2, <4>3
    <3> QED
      BY <3>1, <3>2
  <2>5. << >> \in Seq(Chunk)
    BY EmptySeq
  <2>6. Paid!Flush(p) \in Box
    BY <2>1, <2>3, <2>5 DEF Box
  <2>7. Paid!Flush(p).closed = c /\ Paid!Flush(p).open = << >>
    BY <2>1
  <2>8. \A i \in 1..Len(c) : NotAfter(chunks, c[i], << >>)
    BY EmptyIsOrdered DEF NotAfter
  <2> QED
    BY <2>3, <2>4, <2>6, <2>7, <2>8, EmptyIsOrdered DEF Well
<1> QED
  BY <1>2, <1>3

\* A chunk with other lines.
LEMMA LongerIs ==
  ASSUME NEW c \in Chunk, NEW lines
  PROVE  [c EXCEPT !.lines = lines] = [path |-> c.path, lines |-> lines]
BY DEF Chunk

\* Lines of file n are added to the chunk of that file, or as a chunk behind the others.
LEMMA ExtendKeeps ==
  ASSUME NEW chunks \in Seq(Chunk), Distinct(chunks), NEW n \in 1..Len(chunks),
         NEW part \in Seq(Chunk), Ordered(chunks, part, n),
         NEW lines \in Seq(Paid!Line) \ {<< >>},
         NEW e, e = Paid!Extend(part, chunks[n].path, lines)
  PROVE  /\ e \in Seq(Chunk) /\ Ordered(chunks, e, n)
         /\ \A u \in Seq(Chunk) :
              Ordered(chunks, u, n) /\ NotAfter(chunks, u, part)
                => NotAfter(chunks, u, e)
<1> DEFINE path == chunks[n].path
<1>1. /\ Len(part) \in Nat /\ n \in Nat /\ chunks[n] \in Chunk
      /\ \A i \in 1..Len(part) : part[i] \in Chunk
  <2>1. Len(chunks) \in Nat
    BY LenProperties
  <2> QED
    BY <2>1, LenProperties, ElementOfSeq
<1>2. path \in STRING /\ At(chunks, path) = n
  BY <1>1, AtPlace DEF Chunk
<1> HIDE DEF path
<1>3. CASE part # << >> /\ part[Len(part)].path = path
  <2> DEFINE k == Len(part)
             longer == [part[k] EXCEPT !.lines = part[k].lines \o lines]
  <2>1. k \in 1..Len(part)
    BY <1>1, <1>3, EmptySeq
  <2>2. longer \in Chunk /\ longer.path = part[k].path
    <3>1. part[k] \in Chunk
      BY <1>1, <2>1
    <3>2. part[k].lines \in Seq(Paid!Line) /\ part[k].lines # << >> /\ part[k].path \in STRING
      BY <3>1 DEF Chunk
    <3>3. part[k].lines \o lines \in Seq(Paid!Line) /\ part[k].lines \o lines # << >>
      <4>1. lines \in Seq(Paid!Line) /\ lines # << >>
        OBVIOUS
      <4>2. part[k].lines \o lines \in Seq(Paid!Line)
        BY <3>2, <4>1, ConcatProperties
      <4>3. part[k].lines \o lines = << >> => part[k].lines = << >>
        BY <3>2, <4>1, ConcatEqualIffEmpty
      <4> QED
        BY <3>2, <4>2, <4>3
    <3>4. longer = [path |-> part[k].path, lines |-> part[k].lines \o lines]
      BY <3>1, LongerIs
    <3> HIDE DEF longer
    <3>5. longer \in Chunk
      BY <3>2, <3>3, <3>4 DEF Chunk
    <3> QED
      BY <3>4, <3>5
  <2>3. e = [part EXCEPT ![k] = longer]
    <3>1. Paid!Last(part) = part[k]
      BY DEF Paid!Last
    <3> QED
      BY <1>3, <3>1 DEF Paid!Extend, path
  <2> HIDE DEF longer
  <2>4. /\ e \in Seq(Chunk) /\ Len(e) = Len(part)
        /\ \A j \in 1..Len(part) : e[j].path = part[j].path
    <3>1. /\ e \in Seq(Chunk) /\ Len(e) = Len(part)
          /\ \A j \in 1..Len(part) : e[j] = IF j = k THEN longer ELSE part[j]
      BY <2>1, <2>2, <2>3, ExceptSeq
    <3> QED
      BY <2>2, <3>1
  <2>5. Ordered(chunks, e, n)
    BY <2>4 DEF Ordered
  <2>6. \A u \in Seq(Chunk) : NotAfter(chunks, u, part) => NotAfter(chunks, u, e)
    BY <2>4 DEF NotAfter
  <2> QED
    BY <2>4, <2>5, <2>6
<1>4. CASE ~(part # << >> /\ part[Len(part)].path = path)
  <2> DEFINE chunk == [path |-> path, lines |-> lines]
  <2>1. chunk \in Chunk /\ chunk.path = path
    BY <1>2 DEF Chunk
  <2>2. e = Append(part, chunk)
    <3>1. Paid!Last(part) = part[Len(part)]
      BY DEF Paid!Last
    <3> QED
      BY <1>4, <3>1 DEF Paid!Extend, path
  <2> HIDE DEF chunk
  <2>3. /\ e \in Seq(Chunk) /\ Len(e) = Len(part) + 1
        /\ \A i \in 1..Len(part) : e[i] = part[i]
        /\ e[Len(part) + 1] = chunk
    BY <2>1, <2>2, AppendProperties
  <2>4. \A i \in 1..Len(part) : /\ At(chunks, part[i].path) \in 1..n
                                /\ chunks[At(chunks, part[i].path)].path = part[i].path
    BY DEF Ordered
  <2>5. ASSUME NEW i \in 1..Len(part) PROVE At(chunks, part[i].path) < n
    <3>1. Len(part) \in 1..Len(part) /\ part # << >>
      BY <1>1, EmptySeq
    <3>2. At(chunks, part[Len(part)].path) # n
      <4>1. part[Len(part)].path # chunks[n].path
        BY <1>4, <3>1 DEF path
      <4>2. chunks[At(chunks, part[Len(part)].path)].path = part[Len(part)].path
        BY <2>4, <3>1
      <4> QED
        BY <4>1, <4>2
    <3>3. At(chunks, part[Len(part)].path) < n
      <4>1. At(chunks, part[Len(part)].path) \in 1..n
        BY <2>4, <3>1
      <4> QED
        BY <1>1, <3>2, <4>1
    <3>4. i < Len(part) => At(chunks, part[i].path) < At(chunks, part[Len(part)].path)
      BY <3>1 DEF Ordered
    <3>5. i = Len(part) \/ i < Len(part)
      BY <1>1
    <3> QED
      BY <1>1, <2>4, <3>1, <3>3, <3>4, <3>5
  <2>6. \A i \in 1..Len(e) : i \in 1..Len(part) \/ i = Len(part) + 1
    BY <1>1, <2>3
  <2>7. Ordered(chunks, e, n)
    <3>1. ASSUME NEW j \in 1..Len(e)
          PROVE  At(chunks, e[j].path) \in 1..n /\ chunks[At(chunks, e[j].path)].path = e[j].path
      <4>1. CASE j \in 1..Len(part)
        BY <2>3, <2>4, <4>1
      <4>2. CASE j = Len(part) + 1
        <5>1. e[j].path = path /\ At(chunks, path) = n
          BY <1>2, <2>1, <2>3, <4>2
        <5> QED
          BY <1>1, <5>1 DEF path
      <4> QED
        BY <2>6, <4>1, <4>2
    <3>2. ASSUME NEW i \in 1..Len(e), NEW j \in 1..Len(e), i < j
          PROVE  At(chunks, e[i].path) < At(chunks, e[j].path)
      <4>1. i \in 1..Len(part) /\ e[i] = part[i]
        BY <1>1, <2>3, <3>2
      <4>2. CASE j \in 1..Len(part)
        <5>1. e[j] = part[j]
          BY <2>3, <4>2
        <5> QED
          BY <3>2, <4>1, <4>2, <5>1 DEF Ordered
      <4>3. CASE j = Len(part) + 1
        <5>1. At(chunks, e[j].path) = n
          BY <1>2, <2>1, <2>3, <4>3
        <5> QED
          BY <2>5, <4>1, <5>1
      <4> QED
        BY <2>6, <4>2, <4>3
    <3> QED
      BY <3>1, <3>2 DEF Ordered
  <2>8. ASSUME NEW u \in Seq(Chunk), Ordered(chunks, u, n), NotAfter(chunks, u, part)
        PROVE  NotAfter(chunks, u, e)
    <3> SUFFICES ASSUME NEW i \in 1..Len(u), NEW j \in 1..Len(e)
                 PROVE  At(chunks, u[i].path) <= At(chunks, e[j].path)
      BY DEF NotAfter
    <3>1. CASE j \in 1..Len(part)
      <4>1. e[j] = part[j]
        BY <2>3, <3>1
      <4> QED
        BY <2>8, <3>1, <4>1 DEF NotAfter
    <3>2. CASE j = Len(part) + 1
      <4>1. At(chunks, e[j].path) = n
        BY <1>2, <2>1, <2>3, <3>2
      <4>2. At(chunks, u[i].path) \in 1..n
        BY <2>8 DEF Ordered
      <4> QED
        BY <1>1, <4>1, <4>2
    <3> QED
      BY <2>6, <3>1, <3>2
  <2> QED
    BY <2>3, <2>7, <2>8
<1> QED
  BY <1>3, <1>4

\* So does putting lines of file n, behind those of the files up to n.
LEMMA PutKeeps ==
  ASSUME NEW chunks \in Seq(Chunk), Distinct(chunks), NEW n \in 1..Len(chunks),
         NEW p, Well(chunks, p, n), NEW lines \in Seq(Paid!Line) \ {<< >>}, NEW json
  PROVE  Well(chunks, Paid!Put(p, chunks[n].path, lines, json), n)
<1>1. n \in Nat
  BY LenProperties
<1> DEFINE q == IF p.open # << >> /\ ~Paid!Room(Paid!Lines(p.open) \o lines, json)
                THEN Paid!Flush(p) ELSE p
           e == Paid!Extend(q.open, chunks[n].path, lines)
           r == [q EXCEPT !.open = e]
<1>2. Well(chunks, q, n)
  BY <1>1, FlushKeeps
<1>3. Paid!Put(p, chunks[n].path, lines, json) = r
  BY DEF Paid!Put
<1> HIDE DEF q
<1>4. q \in Box /\ q.closed \in Seq(Part) /\ q.open \in Seq(Chunk)
  <2>1. q \in Box
    BY <1>2 DEF Well
  <2> QED
    BY <2>1 DEF Box
<1>5. /\ e \in Seq(Chunk) /\ Ordered(chunks, e, n)
      /\ \A u \in Seq(Chunk) : Ordered(chunks, u, n) /\ NotAfter(chunks, u, q.open)
                                => NotAfter(chunks, u, e)
  <2>1. Ordered(chunks, q.open, n)
    BY <1>2 DEF Well
  <2> HIDE DEF e
  <2>2. e = Paid!Extend(q.open, chunks[n].path, lines)
    BY DEF e
  <2> QED
    BY <1>4, <2>1, <2>2, ExtendKeeps
<1> HIDE DEF e
<1>6. r \in Box /\ r.closed = q.closed /\ r.open = e
  BY <1>4, <1>5 DEF Box
<1> HIDE DEF r
<1>7. ASSUME NEW i \in 1..Len(q.closed) PROVE NotAfter(chunks, q.closed[i], e)
  <2>1. q.closed[i] \in Seq(Chunk)
    BY <1>4, ElementOfSeq DEF Part
  <2>2. Ordered(chunks, q.closed[i], n) /\ NotAfter(chunks, q.closed[i], q.open)
    BY <1>2 DEF Well, InOrder
  <2> QED
    BY <1>5, <2>1, <2>2
<1>8. InOrder(chunks, q.closed, n)
  BY <1>2 DEF Well
<1>9. Well(chunks, r, n)
  BY <1>5, <1>6, <1>7, <1>8 DEF Well
<1> QED
  BY <1>3, <1>9

\* So does putting the lines of a file one by one.
LEMMA PutLinesKeeps ==
  ASSUME NEW chunks \in Seq(Chunk), Distinct(chunks), NEW n \in 1..Len(chunks),
         NEW p, Well(chunks, p, n), NEW json
  PROVE  Well(chunks, Paid!PutLines(p, chunks[n], json), n)
<1> DEFINE path == chunks[n].path
           lines == chunks[n].lines
           N == Len(lines)
           After(q, m) == Paid!Put(q, path, <<lines[m]>>, json)
           Filled(f) == f = [m \in 0..N |-> IF m = 0 THEN p ELSE After(f[m - 1], m)]
           W == {q \in Box : Well(chunks, q, n)}
           V == [m \in 0..N |-> W]
           walk == [m \in 1..N |-> [q \in W |-> After(q, m)]]
<1>1. N \in Nat /\ \A m \in 1..N : <<lines[m]>> \in Seq(Paid!Line) \ {<< >>}
  <2>1. chunks[n] \in Chunk
    BY ElementOfSeq
  <2>2. lines \in Seq(Paid!Line)
    BY <2>1 DEF Chunk
  <2>3. ASSUME NEW m \in 1..N PROVE <<lines[m]>> \in Seq(Paid!Line) \ {<< >>}
    <3>1. lines[m] \in Paid!Line
      BY <2>2, ElementOfSeq
    <3> QED
      BY <3>1
  <2> QED
    BY <2>2, <2>3, LenProperties
<1>2. \A m \in 1..N : \A q \in W : After(q, m) \in W
  <2> SUFFICES ASSUME NEW m \in 1..N, NEW q \in W PROVE After(q, m) \in W
    OBVIOUS
  <2>1. Well(chunks, After(q, m), n)
    BY <1>1, PutKeeps
  <2> QED
    BY <2>1 DEF Well
<1>3. p \in W
  BY DEF Well
<1> HIDE DEF After, W, N
<1>4. \A m \in 1..N : \A q \in W : walk[m][q] = After(q, m)
  OBVIOUS
<1>5. V \in [0..N -> SUBSET W] /\ \A m \in 0..N : V[m] = W
  OBVIOUS
<1> HIDE DEF V, walk
<1>6. Walkable(N, W, V, p, walk)
  <2>1. p \in V[0]
    BY <1>1, <1>3, <1>5
  <2>2. ASSUME NEW m \in 1..N, NEW q \in V[m - 1] PROVE walk[m][q] \in V[m]
    <3>1. m - 1 \in 0..N /\ m \in 0..N
      BY <1>1
    <3>2. q \in W
      BY <1>5, <3>1
    <3>3. walk[m][q] \in W
      BY <1>2, <1>4, <3>2
    <3> QED
      BY <1>5, <3>1, <3>3
  <2> QED
    BY <1>1, <1>5, <2>1, <2>2 DEF Walkable
<1>7. PICK f : IsWalk(f, N, W, V, p, walk)
  BY <1>6, Recursion
<1>8. \A m \in 0..N : f[m] = IF m = 0 THEN p ELSE After(f[m - 1], m)
  <2> SUFFICES ASSUME NEW m \in 0..N PROVE f[m] = IF m = 0 THEN p ELSE After(f[m - 1], m)
    OBVIOUS
  <2>1. CASE m = 0
    BY <1>7, <2>1 DEF IsWalk
  <2>2. CASE m # 0
    <3>1. m \in 1..N /\ m - 1 \in 0..N
      BY <1>1, <2>2
    <3>2. f[m - 1] \in W /\ f[m] = walk[m][f[m - 1]]
      BY <1>7, <3>1 DEF IsWalk
    <3>3. f[m] = After(f[m - 1], m)
      BY <1>4, <3>1, <3>2
    <3> QED
      BY <2>2, <3>3
  <2> QED
    BY <2>1, <2>2
<1>9. Filled(f)
  <2>1. f = [m \in 0..N |-> f[m]]
    BY <1>7 DEF IsWalk
  <2> QED
    BY <1>8, <2>1
<1> DEFINE put == CHOOSE g : Filled(g)
<1>10. Filled(put)
  BY <1>9
<1>11. Paid!PutLines(p, chunks[n], json) = put[N]
  BY DEF Paid!PutLines, After, N
<1> HIDE DEF put
<1>12. \A m \in 0..N : put[m] = IF m = 0 THEN p ELSE After(put[m - 1], m)
  BY <1>10
<1> DEFINE K == {m \in 0..N : put[m] \in W}
<1>13. \A m \in 0..N : m \in K
  <2>1. 0 \in K
    BY <1>1, <1>3, <1>12
  <2>2. ASSUME NEW m \in 0..(N - 1), m \in K PROVE m + 1 \in K
    <3>1. m + 1 \in 0..N /\ m + 1 \in 1..N /\ (m + 1) - 1 = m /\ m + 1 # 0
      BY <1>1
    <3>2. put[m + 1] = After(put[m], m + 1)
      BY <1>12, <3>1
    <3>3. put[m + 1] \in W
      BY <1>2, <2>2, <3>1, <3>2
    <3> QED
      BY <3>1, <3>3
  <2> HIDE DEF K
  <2> QED
    BY <1>1, <2>1, <2>2, UpTo
<1>14. put[N] \in W
  <2>1. N \in 0..N
    BY <1>1
  <2> QED
    BY <1>13, <2>1
<1> QED
  BY <1>11, <1>14 DEF W

\* So does putting the next file, whole or by its lines.
LEMMA PutFileKeeps ==
  ASSUME NEW chunks \in Seq(Chunk), Distinct(chunks), NEW n \in 1..Len(chunks),
         NEW p, Well(chunks, p, n - 1), NEW json
  PROVE  Well(chunks, Paid!PutFile(p, chunks[n], json), n)
<1>1. n \in Nat /\ Len(chunks) \in Nat
  BY LenProperties
<1>2. \A part : Ordered(chunks, part, n - 1) => Ordered(chunks, part, n)
  BY <1>1 DEF Ordered
<1>3. Well(chunks, p, n)
  BY <1>2 DEF Well, InOrder
<1>4. chunks[n].lines \in Seq(Paid!Line) \ {<< >>}
  <2>1. chunks[n] \in Chunk
    BY ElementOfSeq
  <2> QED
    BY <2>1 DEF Chunk
<1>5. Well(chunks, Paid!PutLines(p, chunks[n], json), n)
  BY <1>3, PutLinesKeeps
<1>6. Well(chunks, Paid!Put(p, chunks[n].path, chunks[n].lines, json), n)
  BY <1>3, <1>4, PutKeeps
<1> QED
  BY <1>5, <1>6 DEF Paid!PutFile

\* Both packings divide the chunks into units that keep their order.
LEMMA PackedKeeps ==
  ASSUME NEW chunks \in Seq(Chunk), Distinct(chunks), NEW json
  PROVE  /\ Paid!Packed(chunks, json) \in Seq(Part)
         /\ InOrder(chunks, Paid!Packed(chunks, json), Len(chunks))
<1> DEFINE N == Len(chunks)
           After(q, m) == Paid!PutFile(q, chunks[m], json)
           Filled(f) == f = [m \in 0..N |-> IF m = 0 THEN Paid!Empty ELSE After(f[m - 1], m)]
           V == [m \in 0..N |-> {q \in Box : Well(chunks, q, m)}]
           walk == [m \in 1..N |-> [q \in Box |-> After(q, m)]]
<1>1. N \in Nat
  BY LenProperties
<1>2. \A m \in 1..N : \A q : Well(chunks, q, m - 1) => Well(chunks, After(q, m), m)
  BY PutFileKeeps
<1>3. Well(chunks, Paid!Empty, 0)
  <2>1. Paid!Empty \in Box /\ Paid!Empty.closed = << >> /\ Paid!Empty.open = << >>
    BY EmptySeq DEF Paid!Empty, Box
  <2>2. Len(<< >>) = 0
    BY EmptySeq
  <2> QED
    BY <2>1, <2>2, EmptyIsOrdered DEF Well, InOrder
<1> HIDE DEF After, N
<1>4. \A m \in 1..N : \A q \in Box : walk[m][q] = After(q, m)
  OBVIOUS
<1>5. V \in [0..N -> SUBSET Box] /\ \A m \in 0..N : V[m] = {q \in Box : Well(chunks, q, m)}
  OBVIOUS
<1>6. \A q, m : Well(chunks, q, m) => q \in Box
  BY DEF Well
<1> HIDE DEF V, walk
<1>7. Walkable(N, Box, V, Paid!Empty, walk)
  <2>1. Paid!Empty \in V[0]
    BY <1>1, <1>3, <1>5, <1>6
  <2>2. ASSUME NEW m \in 1..N, NEW q \in V[m - 1] PROVE walk[m][q] \in V[m]
    <3>1. m - 1 \in 0..N /\ m \in 0..N
      BY <1>1
    <3>2. q \in Box /\ Well(chunks, q, m - 1)
      BY <1>5, <3>1
    <3>3. walk[m][q] = After(q, m) /\ Well(chunks, After(q, m), m)
      BY <1>2, <1>4, <3>2
    <3> QED
      BY <1>5, <1>6, <3>1, <3>3
  <2> QED
    BY <1>1, <1>5, <2>1, <2>2 DEF Walkable
<1>8. PICK f : IsWalk(f, N, Box, V, Paid!Empty, walk)
  BY <1>7, Recursion
<1>9. \A m \in 0..N : f[m] = IF m = 0 THEN Paid!Empty ELSE After(f[m - 1], m)
  <2> SUFFICES ASSUME NEW m \in 0..N
               PROVE  f[m] = IF m = 0 THEN Paid!Empty ELSE After(f[m - 1], m)
    OBVIOUS
  <2>1. CASE m = 0
    BY <1>8, <2>1 DEF IsWalk
  <2>2. CASE m # 0
    <3>1. m \in 1..N /\ m - 1 \in 0..N
      BY <1>1, <2>2
    <3>2. f[m - 1] \in Box /\ f[m] = walk[m][f[m - 1]]
      BY <1>8, <3>1 DEF IsWalk
    <3>3. f[m] = After(f[m - 1], m)
      BY <1>4, <3>1, <3>2
    <3> QED
      BY <2>2, <3>3
  <2> QED
    BY <2>1, <2>2
<1>10. Filled(f)
  <2>1. f = [m \in 0..N |-> f[m]]
    BY <1>8 DEF IsWalk
  <2> QED
    BY <1>9, <2>1
<1> DEFINE packed == CHOOSE g : Filled(g)
<1>11. Filled(packed)
  BY <1>10
<1>12. Paid!Packed(chunks, json) = Paid!Flush(packed[N]).closed
  BY DEF Paid!Packed, After, N
<1> HIDE DEF packed
<1>13. \A m \in 0..N : packed[m] = IF m = 0 THEN Paid!Empty ELSE After(packed[m - 1], m)
  BY <1>11
<1> DEFINE K == {m \in 0..N : Well(chunks, packed[m], m)}
<1>14. \A m \in 0..N : m \in K
  <2>1. 0 \in K
    BY <1>1, <1>3, <1>13
  <2>2. ASSUME NEW m \in 0..(N - 1), m \in K PROVE m + 1 \in K
    <3>1. m + 1 \in 0..N /\ m + 1 \in 1..N /\ (m + 1) - 1 = m /\ m + 1 # 0
      BY <1>1
    <3>2. packed[m + 1] = After(packed[m], m + 1)
      BY <1>13, <3>1
    <3>3. Well(chunks, packed[m], (m + 1) - 1)
      BY <2>2, <3>1
    <3>4. Well(chunks, packed[m + 1], m + 1)
      BY <1>2, <3>1, <3>2, <3>3
    <3> QED
      BY <3>1, <3>4
  <2> HIDE DEF K
  <2> QED
    BY <1>1, <2>1, <2>2, UpTo
<1>15. Well(chunks, packed[N], N)
  <2>1. N \in 0..N
    BY <1>1
  <2> QED
    BY <1>14, <2>1
<1> QED
  BY <1>1, <1>12, <1>15, FlushKeeps DEF N

\* The lines of a unit are lines, and some.
LEMMA PartHasLines ==
  ASSUME NEW part \in Seq(Chunk)
  PROVE  Paid!Lines(part) \in Seq(Paid!Line) /\ (part # << >> => Paid!Lines(part) # << >>)
<1> DEFINE s == [i \in DOMAIN part |-> part[i].lines]
<1>1. Len(part) \in Nat /\ DOMAIN part = 1..Len(part) /\ \A i \in 1..Len(part) : part[i] \in Chunk
  BY LenProperties, ElementOfSeq
<1>2. \A i \in 1..Len(part) : part[i].lines \in Seq(Paid!Line) /\ part[i].lines # << >>
  BY <1>1 DEF Chunk
<1>3. /\ s \in Seq(Seq(Paid!Line)) /\ Len(s) = Len(part)
      /\ \A i \in 1..Len(part) : s[i] = part[i].lines
  <2>1. s = [i \in 1..Len(part) |-> part[i].lines]
    BY <1>1
  <2> QED
    BY <1>1, <1>2, <2>1
<1>4. Paid!Lines(part) = Paid!FlattenSeq(s)
  BY DEF Paid!Lines
<1> HIDE DEF s
<1>5. First(s, Len(s)) = s
  <2>1. Len(s) \in 0..Len(s)
    BY <1>1, <1>3
  <2> QED
    BY <1>3, <2>1, FirstOf
<1>6. Paid!FlattenSeq(s) \in Seq(Paid!Line)
  <2>1. Len(s) \in 0..Len(s)
    BY <1>1, <1>3
  <2>2. Paid!FlattenSeq(First(s, Len(s))) \in Seq(Paid!Line)
    BY <1>3, <2>1, FlatOfFirst
  <2> QED
    BY <1>5, <2>2
<1>7. ASSUME part # << >> PROVE Paid!FlattenSeq(s) # << >>
  <2>1. Len(part) \in 1..Len(s) /\ Len(part) - 1 \in 0..Len(s)
    BY <1>1, <1>3, <1>7, EmptySeq
  <2> DEFINE t == Paid!FlattenSeq(First(s, Len(part) - 1))
  <2>2. Paid!FlattenSeq(First(s, Len(part))) = t \o s[Len(part)]
    BY <1>3, <2>1, FlatOfFirst
  <2>3. t \in Seq(Paid!Line)
    BY <1>3, <2>1, FlatOfFirst
  <2> HIDE DEF t
  <2>4. s[Len(part)] \in Seq(Paid!Line) /\ s[Len(part)] # << >>
    BY <1>2, <1>3, <2>1
  <2>5. t \o s[Len(part)] = << >> => s[Len(part)] = << >>
    BY <2>3, <2>4, ConcatEqualIffEmpty
  <2> QED
    BY <1>3, <1>5, <2>2, <2>4, <2>5
<1> QED
  BY <1>4, <1>6, <1>7

\* A file that is divided lies in units one behind the other.
LEMMA HoldingIsClosed ==
  ASSUME NEW chunks, NEW n, NEW parts \in Seq(Part), InOrder(chunks, parts, n), NEW path,
         NEW i \in Paid!Holding(parts, path), NEW h \in Paid!Holding(parts, path),
         NEW between \in i..h, n \in Nat
  PROVE  between \in Paid!Holding(parts, path)
<1>1. /\ Len(parts) \in Nat /\ DOMAIN parts = 1..Len(parts)
      /\ \A k \in 1..Len(parts) : parts[k] \in Seq(Chunk) /\ parts[k] # << >>
  <2>1. \A k \in 1..Len(parts) : parts[k] \in Part
    BY ElementOfSeq
  <2> QED
    BY <2>1, LenProperties DEF Part
<1>2. \A k \in 1..Len(parts) : Len(parts[k]) \in Nat /\ Len(parts[k]) # 0
                               /\ DOMAIN parts[k] = 1..Len(parts[k])
  BY <1>1, EmptySeq, LenProperties
<1>3. /\ i \in 1..Len(parts) /\ h \in 1..Len(parts) /\ between \in 1..Len(parts)
  BY <1>1 DEF Paid!Holding
<1>4. CASE between = i \/ between = h
  BY <1>4
<1>5. CASE between # i /\ between # h
  <2>1. i < between /\ between < h
    BY <1>3, <1>5
  <2>2. PICK a \in 1..Len(parts[i]) : parts[i][a].path = path
    BY <1>2, <1>3 DEF Paid!Holding
  <2>3. PICK b \in 1..Len(parts[h]) : parts[h][b].path = path
    BY <1>2, <1>3 DEF Paid!Holding
  <2>4. 1 \in 1..Len(parts[between])
    BY <1>2, <1>3
  <2> DEFINE c == parts[between][1]
  <2>5. At(chunks, path) <= At(chunks, c.path)
    BY <1>3, <2>1, <2>2, <2>4 DEF InOrder, NotAfter
  <2>6. At(chunks, c.path) <= At(chunks, path)
    BY <1>3, <2>1, <2>3, <2>4 DEF InOrder, NotAfter
  <2>7. At(chunks, path) \in 1..n /\ chunks[At(chunks, path)].path = path
    BY <1>3, <2>2 DEF InOrder, Ordered
  <2>8. At(chunks, c.path) \in 1..n /\ chunks[At(chunks, c.path)].path = c.path
    BY <1>3, <2>4 DEF InOrder, Ordered
  <2> HIDE DEF c
  <2>9. At(chunks, c.path) = At(chunks, path)
    BY <2>5, <2>6, <2>7, <2>8
  <2>10. c.path = path
    BY <2>7, <2>8, <2>9
  <2> QED
    BY <1>1, <1>2, <1>3, <2>4, <2>10 DEF c, Paid!Holding
<1> QED
  BY <1>4, <1>5

\* FlattenSeq leaves out none of what it lays together.
LEMMA NoneIsLost ==
  ASSUME NEW S, NEW s \in Seq(Seq(S)), NEW i \in 1..Len(s), NEW x \in 1..Len(s[i])
  PROVE  \E y \in 1..Len(Paid!FlattenSeq(s)) : Paid!FlattenSeq(s)[y] = s[i][x]
<1> DEFINE flat(k) == Paid!FlattenSeq(First(s, k))
           K == {k \in 0..Len(s) :
                  i <= k => \E y \in 1..Len(flat(k)) : flat(k)[y] = s[i][x]}
<1>1. Len(s) \in Nat /\ s[i] \in Seq(S) /\ Len(s[i]) \in Nat
  BY LenProperties, ElementOfSeq
<1>2. \A k \in 0..Len(s) : flat(k) \in Seq(S)
  BY FlatOfFirst
<1>3. \A k \in 1..Len(s) : flat(k) = flat(k - 1) \o s[k]
  BY FlatOfFirst
<1>4. First(s, Len(s)) = s
  <2>1. Len(s) \in 0..Len(s)
    BY <1>1
  <2> QED
    BY <2>1, FirstOf
<1>5. Paid!FlattenSeq(s) = flat(Len(s))
  BY <1>4
<1> HIDE DEF flat
<1>6. 0 \in K
  BY <1>1
<1>7. ASSUME NEW k \in 0..(Len(s) - 1), k \in K PROVE k + 1 \in K
  <2>1. k + 1 \in 0..Len(s) /\ k + 1 \in 1..Len(s) /\ (k + 1) - 1 = k /\ k \in 0..Len(s)
    BY <1>1
  <2>2. s[k + 1] \in Seq(S) /\ flat(k) \in Seq(S) /\ flat(k + 1) = flat(k) \o s[k + 1]
    BY <1>2, <1>3, <2>1, ElementOfSeq
  <2>3. /\ Len(flat(k)) \in Nat /\ Len(s[k + 1]) \in Nat
        /\ Len(flat(k + 1)) = Len(flat(k)) + Len(s[k + 1])
        /\ \A y \in 1..(Len(flat(k)) + Len(s[k + 1])) :
             flat(k + 1)[y] = IF y <= Len(flat(k)) THEN flat(k)[y] ELSE s[k + 1][y - Len(flat(k))]
    BY <2>2, ConcatProperties, LenProperties
  <2>4. ASSUME i <= k + 1 PROVE \E y \in 1..Len(flat(k + 1)) : flat(k + 1)[y] = s[i][x]
    <3>1. CASE i = k + 1
      <4> DEFINE y == Len(flat(k)) + x
      <4>1. y \in 1..Len(flat(k + 1)) /\ ~(y <= Len(flat(k))) /\ y - Len(flat(k)) = x
            /\ y \in 1..(Len(flat(k)) + Len(s[k + 1]))
        BY <1>1, <2>3, <3>1
      <4> HIDE DEF y
      <4>2. flat(k + 1)[y] = s[i][x]
        BY <2>3, <3>1, <4>1
      <4> QED
        BY <4>1, <4>2
    <3>2. CASE i # k + 1
      <4>1. i <= k
        BY <2>4, <3>2
      <4>2. PICK y \in 1..Len(flat(k)) : flat(k)[y] = s[i][x]
        BY <1>7, <4>1
      <4>3. y \in 1..Len(flat(k + 1)) /\ y \in 1..(Len(flat(k)) + Len(s[k + 1]))
            /\ y <= Len(flat(k))
        BY <2>3
      <4>4. flat(k + 1)[y] = flat(k)[y]
        BY <2>3, <4>3
      <4> QED
        BY <4>2, <4>3, <4>4
    <3> QED
      BY <3>1, <3>2
  <2> QED
    BY <2>1, <2>4
<1>8. Len(s) \in K
  <2> HIDE DEF K
  <2>1. \A k \in 0..Len(s) : k \in K
    BY <1>1, <1>6, <1>7, UpTo
  <2> QED
    BY <1>1, <2>1
<1> QED
  BY <1>1, <1>5, <1>8

\* The lines of the units, and where each unit begins.
Slices(parts) == [j \in 1..Len(parts) |-> Paid!Lines(parts[j])]
\* The slices of a packing are runs of lines.
LEMMA SlicesOf ==
  ASSUME NEW parts \in Seq(Part)
  PROVE  /\ Slices(parts) \in Seq(Seq(Paid!Line)) /\ Len(Slices(parts)) = Len(parts)
         /\ \A j \in 1..Len(parts) : Slices(parts)[j] = Paid!Lines(parts[j])
         /\ \A j \in 1..Len(parts) : Paid!Lines(parts[j]) \in Seq(Paid!Line)
         /\ \A j \in 1..Len(parts) : Paid!Lines(parts[j]) # << >>
         /\ Slices(parts) = [j \in DOMAIN parts |-> Paid!Lines(parts[j])]
<1>1. Len(parts) \in Nat /\ DOMAIN parts = 1..Len(parts) /\ \A j \in 1..Len(parts) : parts[j] \in Part
  BY LenProperties, ElementOfSeq
<1>2. \A j \in 1..Len(parts) : Paid!Lines(parts[j]) \in Seq(Paid!Line)
                               /\ Paid!Lines(parts[j]) # << >>
  BY <1>1, PartHasLines DEF Part
<1>3. Slices(parts) \in [1..Len(parts) -> Seq(Paid!Line)]
  BY <1>2 DEF Slices
<1> QED
  BY <1>1, <1>2, <1>3 DEF Slices

Starts(parts, i) == Paid!Raw(Paid!FlattenSeq([j \in 1..(i - 1) |-> Paid!Lines(parts[j])]))
\* Each unit begins where the one before it ends, and the last one ends with the diff.
LEMMA StartsFollow ==
  ASSUME NEW parts \in Seq(Part)
  PROVE  /\ Starts(parts, 1) = 0
         /\ \A i \in 1..(Len(parts) + 1) : Starts(parts, i) \in Nat
         /\ \A i \in 1..Len(parts) :
              Starts(parts, i + 1) = Starts(parts, i) + Paid!Raw(Paid!Lines(parts[i]))
         /\ Starts(parts, Len(parts) + 1) = Paid!Raw(Paid!FlattenSeq(Slices(parts)))
<1> DEFINE s == Slices(parts)
           flat(k) == Paid!FlattenSeq(First(s, k))
<1>1. /\ s \in Seq(Seq(Paid!Line)) /\ Len(s) = Len(parts) /\ Len(parts) \in Nat
      /\ \A j \in 1..Len(parts) : s[j] = Paid!Lines(parts[j])
  BY SlicesOf, LenProperties
<1> HIDE DEF s
<1>2. \A k \in 0..Len(parts) : flat(k) \in Seq(Paid!Line)
  BY <1>1, FlatOfFirst
<1>3. \A k \in 1..Len(parts) : flat(k) = flat(k - 1) \o s[k]
  BY <1>1, FlatOfFirst
<1>4. flat(0) = << >>
  BY <1>1, FlatOfFirst
<1>5. ASSUME NEW i \in 1..(Len(parts) + 1) PROVE Starts(parts, i) = Paid!Raw(flat(i - 1))
  <2>1. \A j \in 1..(i - 1) : s[j] = Paid!Lines(parts[j])
    BY <1>1
  <2>2. First(s, i - 1) = [j \in 1..(i - 1) |-> Paid!Lines(parts[j])]
    BY <2>1 DEF First
  <2> QED
    BY <2>2 DEF Starts
<1>6. First(s, Len(parts)) = s
  <2>1. Len(s) \in 0..Len(s)
    BY <1>1
  <2> QED
    BY <1>1, <2>1, FirstOf
<1>7. flat(Len(parts)) = Paid!FlattenSeq(s)
  BY <1>6
<1> HIDE DEF flat
<1>8. Starts(parts, 1) = 0
  <2>1. 1 \in 1..(Len(parts) + 1) /\ 1 - 1 = 0
    BY <1>1
  <2>2. << >> \in Seq(Paid!Line)
    BY EmptySeq
  <2> QED
    BY <1>4, <1>5, <2>1, <2>2, RawIsSize
<1>9. ASSUME NEW i \in 1..(Len(parts) + 1) PROVE Starts(parts, i) \in Nat
  <2>1. i - 1 \in 0..Len(parts)
    BY <1>1
  <2> QED
    BY <1>2, <1>5, <2>1, RawIsSize
<1>10. ASSUME NEW i \in 1..Len(parts)
       PROVE  Starts(parts, i + 1) = Starts(parts, i) + Paid!Raw(Paid!Lines(parts[i]))
  <2>1. /\ i + 1 \in 1..(Len(parts) + 1) /\ (i + 1) - 1 = i /\ i - 1 \in 0..Len(parts)
        /\ i \in 1..(Len(parts) + 1)
    BY <1>1
  <2>2. flat(i) = flat(i - 1) \o s[i] /\ flat(i - 1) \in Seq(Paid!Line) /\ s[i] \in Seq(Paid!Line)
    BY <1>1, <1>2, <1>3, <2>1, ElementOfSeq
  <2>3. Paid!Raw(flat(i)) = Paid!Raw(flat(i - 1)) + Paid!Raw(s[i])
    BY <2>2, RawOfTwo
  <2> QED
    BY <1>1, <1>5, <2>1, <2>3
<1>11. Starts(parts, Len(parts) + 1) = Paid!Raw(Paid!FlattenSeq(s))
  <2>1. Len(parts) + 1 \in 1..(Len(parts) + 1) /\ (Len(parts) + 1) - 1 = Len(parts)
    BY <1>1
  <2> QED
    BY <1>5, <1>7, <2>1
<1> QED
  BY <1>8, <1>9, <1>10, <1>11 DEF s

-----------------------------------------------------------------------------
(* The states of a paid review *)

Parts == IF Paid!Direct THEN <<diff>> ELSE Paid!Packing(diff)
\* The whole of a comparison whose chunks are all exact is the diff; what was admitted for
\* review is the diff in one part, or parts that cover it within every bound.
Built ==
  /\ changed \in Comparisons /\ changed # << >>
  /\ \A i \in 1..Len(changed) : changed[i].row = "exact"
  /\ diff = Paid!CanonicalDiff(changed)
Divided ==
  /\ units = [i \in DOMAIN Parts |-> Paid!UnitOf(Parts, i)]
  /\ \/ Paid!Direct
     \/ /\ Paid!Raw(Paid!Whole) <= MaxWhole /\ Paid!Coverage(Parts)
        /\ (IF Len(Parts) = 1 THEN 1 ELSE Len(Parts) + 1) <= CallLimit

\* The diff of an admitted candidate: not empty, no path twice, all of what changed.
LEMMA DiffIs ==
  ASSUME Paid!DivisionAssumption, Built
  PROVE  /\ diff \in Seq(Chunk) /\ diff # << >> /\ Distinct(diff)
         /\ Paid!Whole \in Seq(Paid!Line) /\ Paid!Whole # << >>
         /\ Paid!Lines(changed) = Paid!Whole
<1>1. changed \in Seq(Paid!File)
  BY DEF Paid!DivisionAssumption, Built
<1>2. /\ Len(changed) \in Nat /\ Len(changed) # 0 /\ DOMAIN changed = 1..Len(changed)
      /\ \A i \in 1..Len(changed) : changed[i] \in Paid!File
  <2>1. changed # << >>
    BY DEF Built
  <2> QED
    BY <1>1, <2>1, LenProperties, ElementOfSeq, EmptySeq
<1>3. \A i \in 1..Len(changed) :
        [path |-> changed[i].path, lines |-> changed[i].lines] \in Chunk
  <2>1. \A file \in Paid!File : [path |-> file.path, lines |-> file.lines] \in Chunk
    BY DEF Paid!File, Chunk
  <2> QED
    BY <1>2, <2>1
<1>4. diff = [i \in 1..Len(changed) |-> [path |-> changed[i].path, lines |-> changed[i].lines]]
  BY <1>2 DEF Built, Paid!CanonicalDiff
<1>5. diff \in Seq(Chunk) /\ Len(diff) = Len(changed) /\ DOMAIN diff = 1..Len(changed)
  <2>1. diff \in [1..Len(changed) -> Chunk]
    BY <1>3, <1>4
  <2> QED
    BY <1>2, <2>1
<1>6. \A i \in 1..Len(changed) : diff[i].path = changed[i].path /\ diff[i].lines = changed[i].lines
  BY <1>4
<1>7. diff # << >>
  BY <1>2, <1>5, EmptySeq
<1>8. Distinct(diff)
  <2>1. \A i, j \in 1..Len(changed) :
          changed[i].row = "exact" /\ changed[i].path = changed[j].path => i = j
    BY DEF Paid!DivisionAssumption, Built
  <2>2. \A i \in 1..Len(changed) : changed[i].row = "exact"
    BY DEF Built
  <2> QED
    BY <1>5, <1>6, <2>1, <2>2 DEF Distinct
<1>9. Paid!Lines(changed) = Paid!Whole
  <2>1. [i \in DOMAIN changed |-> changed[i].lines] = [i \in DOMAIN diff |-> diff[i].lines]
    BY <1>2, <1>5, <1>6
  <2> QED
    BY <2>1 DEF Paid!Whole, Paid!Lines
<1>10. Paid!Whole \in Seq(Paid!Line) /\ Paid!Whole # << >>
  BY <1>5, <1>7, PartHasLines DEF Paid!Whole
<1> QED
  BY <1>5, <1>7, <1>8, <1>9, <1>10

\* Its parts are in the order of the files, divided or not.
LEMMA PartsKeepOrder ==
  ASSUME Paid!DivisionAssumption, Built
  PROVE  Parts \in Seq(Part) /\ InOrder(diff, Parts, Len(diff))
<1>1. diff \in Seq(Chunk) /\ diff # << >> /\ Distinct(diff)
  BY DiffIs
<1>2. CASE ~Paid!Direct
  <2>1. Parts = Paid!ByFile(diff) \/ Parts = Paid!ByLine(diff)
    BY <1>2 DEF Parts, Paid!Packing
  <2>2. \E json : Parts = Paid!Packed(diff, json)
    BY <2>1 DEF Paid!ByFile, Paid!ByLine
  <2> QED
    BY <1>1, <2>2, PackedKeeps
<1>3. CASE Paid!Direct
  <2>1. Parts = <<diff>> /\ diff \in Part
    BY <1>1, <1>3 DEF Parts, Part
  <2>2. Parts \in Seq(Part) /\ Len(Parts) = 1 /\ Parts[1] = diff
    BY <2>1
  <2>3. Ordered(diff, diff, Len(diff))
    <3>1. \A n \in 1..Len(diff) : At(diff, diff[n].path) = n
      BY <1>1, AtPlace
    <3> QED
      BY <3>1 DEF Ordered
  <2>4. \A i \in 1..Len(Parts) : i = 1
    BY <2>2
  <2>5. \A i, h \in 1..Len(Parts) : ~(i < h)
    BY <2>4
  <2> QED
    BY <2>2, <2>3, <2>4, <2>5 DEF InOrder
<1> QED
  BY <1>2, <1>3

\* FlattenSeq of none and of one.
LEMMA FlatOfFew ==
  ASSUME NEW S, NEW s \in Seq(Seq(S))
  PROVE  /\ Len(s) = 0 => Paid!FlattenSeq(s) = << >>
         /\ Len(s) = 1 => Paid!FlattenSeq(s) = s[1]
<1>1. First(s, Len(s)) = s
  <2>1. Len(s) \in 0..Len(s)
    BY LenProperties
  <2> QED
    BY <2>1, FirstOf
<1>2. Paid!FlattenSeq(First(s, 0)) = << >>
  BY FlatOfFirst
<1>3. ASSUME Len(s) = 1 PROVE Paid!FlattenSeq(s) = s[1]
  <2>1. Paid!FlattenSeq(First(s, 1)) = Paid!FlattenSeq(First(s, 1 - 1)) \o s[1]
    <3>1. 1 \in 1..Len(s)
      BY <1>3
    <3>2. \A k \in 1..Len(s) :
            Paid!FlattenSeq(First(s, k)) = Paid!FlattenSeq(First(s, k - 1)) \o s[k]
      BY FlatOfFirst
    <3> QED
      BY <3>1, <3>2
  <2>2. 1 - 1 = 0 /\ s[1] \in Seq(S)
    BY <1>3, ElementOfSeq
  <2>3. << >> \o s[1] = s[1]
    BY <2>2, ConcatEmptySeq
  <2> QED
    BY <1>1, <1>2, <1>3, <2>1, <2>2, <2>3
<1> QED
  BY <1>1, <1>2, <1>3

\* What the division that was admitted is: one part that is the diff, or at least two.
LEMMA DivisionIs ==
  ASSUME Paid!DivisionAssumption, Built, Divided
  PROVE  /\ Len(Parts) \in Nat /\ DOMAIN Parts = 1..Len(Parts)
         /\ Len(units) = Len(Parts) /\ DOMAIN units = 1..Len(Parts)
         /\ \A i \in 1..Len(Parts) : units[i] = Paid!UnitOf(Parts, i)
         /\ \A i \in 1..Len(Parts) : Paid!Fits(Paid!Lines(Parts[i]))
         /\ Paid!FlattenSeq(Slices(Parts)) = Paid!Whole
         /\ Paid!Direct => Len(Parts) = 1
         /\ ~Paid!Direct => /\ Len(Parts) >= 2 /\ Len(Parts) + 1 <= CallLimit
                            /\ Paid!Raw(Paid!Whole) <= MaxWhole
<1>1. Parts \in Seq(Part) /\ Len(Parts) \in Nat /\ DOMAIN Parts = 1..Len(Parts)
  BY PartsKeepOrder, LenProperties
<1>2. units = [i \in 1..Len(Parts) |-> Paid!UnitOf(Parts, i)]
  BY <1>1 DEF Divided
<1>3. /\ Len(units) = Len(Parts) /\ DOMAIN units = 1..Len(Parts)
      /\ \A i \in 1..Len(Parts) : units[i] = Paid!UnitOf(Parts, i)
  BY <1>1, <1>2
<1>4. /\ Slices(Parts) \in Seq(Seq(Paid!Line)) /\ Len(Slices(Parts)) = Len(Parts)
      /\ \A j \in 1..Len(Parts) : Slices(Parts)[j] = Paid!Lines(Parts[j])
      /\ Slices(Parts) = [j \in DOMAIN Parts |-> Paid!Lines(Parts[j])]
  BY <1>1, SlicesOf
<1>5. CASE Paid!Direct
  <2>1. Len(Parts) = 1 /\ Parts[1] = diff
    BY <1>5 DEF Parts
  <2>2. \A i \in 1..Len(Parts) : i = 1
    BY <2>1
  <2>3. Paid!Fits(Paid!Lines(diff))
    BY <1>5 DEF Paid!Direct, Paid!Whole
  <2>4. Paid!FlattenSeq(Slices(Parts)) = Slices(Parts)[1]
    BY <1>4, <2>1, FlatOfFew
  <2>5. Slices(Parts)[1] = Paid!Whole
    BY <1>4, <2>1 DEF Paid!Whole
  <2> QED
    BY <1>1, <1>3, <1>5, <2>1, <2>2, <2>3, <2>4, <2>5
<1>6. CASE ~Paid!Direct
  <2>1. /\ Paid!Raw(Paid!Whole) <= MaxWhole /\ Paid!Coverage(Parts)
        /\ (IF Len(Parts) = 1 THEN 1 ELSE Len(Parts) + 1) <= CallLimit
    BY <1>6 DEF Divided
  <2>2. /\ Paid!FlattenSeq(Slices(Parts)) = Paid!Whole
        /\ \A i \in 1..Len(Parts) : Paid!Fits(Paid!Lines(Parts[i]))
    BY <1>1, <1>4, <2>1 DEF Paid!Coverage
  <2>3. Len(Parts) # 0
    BY <1>4, <2>2, FlatOfFew, DiffIs
  <2>4. Len(Parts) # 1
    <3> SUFFICES ASSUME Len(Parts) = 1 PROVE FALSE
      OBVIOUS
    <3>1. Paid!FlattenSeq(Slices(Parts)) = Slices(Parts)[1]
      BY <1>4, FlatOfFew
    <3>2. 1 \in 1..Len(Parts)
      OBVIOUS
    <3>3. Paid!Whole = Paid!Lines(Parts[1])
      BY <1>4, <2>2, <3>1, <3>2
    <3>4. Paid!Fits(Paid!Whole)
      BY <2>2, <3>2, <3>3
    <3> QED
      BY <1>6, <3>4 DEF Paid!Direct
  <2>5. Len(Parts) >= 2 /\ Len(Parts) + 1 <= CallLimit
    BY <1>1, <2>1, <2>3, <2>4
  <2> QED
    BY <1>1, <1>3, <1>6, <2>1, <2>2, <2>5
<1> QED
  BY <1>5, <1>6

-----------------------------------------------------------------------------
(* Its evidence *)

IsList(s) == \E S : s \in Seq(S)
\* Append to a list of anything.
LEMMA Listed ==
  ASSUME NEW s, IsList(s), NEW e
  PROVE  /\ Len(s) \in Nat /\ DOMAIN s = 1..Len(s)
         /\ IsList(Append(s, e)) /\ Len(Append(s, e)) = Len(s) + 1
         /\ \A k \in 1..Len(s) : Append(s, e)[k] = s[k]
         /\ Append(s, e)[Len(s) + 1] = e
<1>1. PICK S : s \in Seq(S)
  BY DEF IsList
<1>2. s \in Seq(S \cup {e})
  BY <1>1, SeqMonotonic
<1>3. /\ Append(s, e) \in Seq(S \cup {e}) /\ Len(Append(s, e)) = Len(s) + 1
      /\ \A k \in 1..Len(s) : Append(s, e)[k] = s[k]
      /\ Append(s, e)[Len(s) + 1] = e
  BY <1>2, AppendProperties
<1>4. Len(s) \in Nat /\ DOMAIN s = 1..Len(s)
  BY <1>1, LenProperties
<1> QED
  BY <1>3, <1>4 DEF IsList

\* Picked at the first n places are the first n.
LEMMA PickedFirst ==
  ASSUME NEW s, IsList(s), NEW n \in 0..Len(s)
  PROVE  Picked(s, 1..n) = First(s, n)
<1>1. PICK S : s \in Seq(S)
  BY DEF IsList
<1>2. Len(s) \in Nat /\ \A k \in 1..n : k \in 1..Len(s)
  BY <1>1, LenProperties
<1>3. /\ Picked(s, 1..n) \in Seq(S) /\ Len(Picked(s, 1..n)) = Cardinality(1..n)
      /\ \A k \in 1..n : Picked(s, 1..n)[Cardinality(Upto(1..n, k))] = s[k]
  BY <1>1, <1>2, PickedOnes
<1>4. ASSUME NEW k \in 1..n PROVE Cardinality(Upto(1..n, k)) = k
  <2>1. Upto(1..n, k) = 1..k /\ k \in Nat
    BY <1>2 DEF Upto
  <2>2. Cardinality(1..k) = k
    BY <2>1, FS_Interval
  <2> QED
    BY <2>1, <2>2
<1>5. Cardinality(1..n) = n
  BY <1>2, FS_Interval
<1>6. First(s, n) \in Seq(S) /\ Len(First(s, n)) = n /\ \A k \in 1..n : First(s, n)[k] = s[k]
  BY <1>1, FirstOf
<1>7. \A k \in 1..n : Picked(s, 1..n)[k] = First(s, n)[k]
  BY <1>3, <1>4, <1>6
<1> QED
  BY <1>3, <1>5, <1>6, <1>7, SeqEqual

\* The instance's operator is the module's.
LEMMA PaidPicks ==
  ASSUME NEW s, NEW places PROVE Paid!Picked(s, places) = Picked(s, places)
BY DEF Paid!Picked, Picked

-----------------------------------------------------------------------------
UnitsAnswered ==
  \A k \in 1..Len(evidence.verdicts) :
    /\ evidence.prompts[k] = Paid!UnitPrompt(k)
    /\ evidence.requests[k] = [kind |-> "unit", id |-> k, prompt |-> Paid!UnitPrompt(k),
                               verdict |-> evidence.verdicts[k]]
WholeAnswered ==
  LET m == Len(evidence.requests) IN
  m # Len(evidence.verdicts) =>
    /\ m = Len(evidence.verdicts) + 1
    /\ evidence.prompts[m] = Paid!IntegrationPrompt
    /\ evidence.requests[m] = [kind |-> "integration", id |-> 0,
                               prompt |-> Paid!IntegrationPrompt,
                               verdict |-> evidence.requests[m].verdict]
Evident ==
  /\ evidence = [prompts |-> evidence.prompts, requests |-> evidence.requests,
                 verdicts |-> evidence.verdicts]
  /\ IsList(evidence.prompts) /\ IsList(evidence.requests) /\ IsList(evidence.verdicts)
  /\ Len(evidence.prompts) = Len(evidence.requests) /\ calls = Len(evidence.requests)
  /\ Len(evidence.verdicts) <= Len(units)
  /\ UnitsAnswered /\ WholeAnswered

\* The lengths of what was collected.
LEMMA EvidenceHas ==
  ASSUME Evident
  PROVE  /\ Len(evidence.verdicts) \in Nat /\ Len(evidence.requests) \in Nat
         /\ Len(evidence.requests) \in {Len(evidence.verdicts), Len(evidence.verdicts) + 1}
         /\ Len(evidence.prompts) = Len(evidence.requests)
         /\ DOMAIN evidence.prompts = 1..Len(evidence.requests)
         /\ DOMAIN evidence.requests = 1..Len(evidence.requests)
         /\ DOMAIN evidence.verdicts = 1..Len(evidence.verdicts)
<1>1. /\ Len(evidence.prompts) = Len(evidence.requests)
      /\ IsList(evidence.prompts) /\ IsList(evidence.requests) /\ IsList(evidence.verdicts)
  BY DEF Evident
<1>2. Len(evidence.requests) \in {Len(evidence.verdicts), Len(evidence.verdicts) + 1}
  BY DEF Evident, WholeAnswered
<1> QED
  BY <1>1, <1>2, Listed

\* The prompts with a diff are those of the units, in order.
LEMMA UnitPromptsAre ==
  ASSUME Evident
  PROVE  Paid!UnitPrompts = [k \in 1..Len(evidence.verdicts) |-> Paid!UnitPrompt(k)]
<1> DEFINE n == Len(evidence.verdicts)
           m == Len(evidence.requests)
           places == {k \in DOMAIN evidence.prompts : "diff" \in DOMAIN evidence.prompts[k]}
<1>1. /\ n \in Nat /\ m \in Nat /\ m \in {n, n + 1} /\ Len(evidence.prompts) = m
      /\ DOMAIN evidence.prompts = 1..m /\ IsList(evidence.prompts)
  BY EvidenceHas DEF Evident
<1>2. \A k \in 1..n : evidence.prompts[k] = Paid!UnitPrompt(k)
  BY DEF Evident, UnitsAnswered
<1>3. m # n => evidence.prompts[m] = Paid!IntegrationPrompt
  BY DEF Evident, WholeAnswered
<1>4. \A k : "diff" \in DOMAIN Paid!UnitPrompt(k)
  BY DEF Paid!UnitPrompt
<1>5. "diff" \notin DOMAIN Paid!IntegrationPrompt
  BY DEF Paid!IntegrationPrompt
<1>6. Paid!UnitPrompts = Picked(evidence.prompts, places)
  BY PaidPicks DEF Paid!UnitPrompts
<1> HIDE DEF n, m
<1>7. places = 1..n
  <2>1. ASSUME NEW k \in 1..m PROVE "diff" \in DOMAIN evidence.prompts[k] <=> k \in 1..n
    <3>1. CASE k \in 1..n
      BY <1>2, <1>4, <3>1
    <3>2. CASE k \notin 1..n
      <4>1. k = m /\ m # n
        BY <1>1, <3>2
      <4> QED
        BY <1>3, <1>5, <3>2, <4>1
    <3> QED
      BY <3>1, <3>2
  <2>2. \A k \in 1..n : k \in 1..m
    BY <1>1
  <2> QED
    BY <1>1, <2>1, <2>2
<1>8. Picked(evidence.prompts, 1..n) = First(evidence.prompts, n)
  <2>1. n \in 0..Len(evidence.prompts)
    BY <1>1
  <2> QED
    BY <1>1, <2>1, PickedFirst
<1>9. First(evidence.prompts, n) = [k \in 1..n |-> Paid!UnitPrompt(k)]
  BY <1>2 DEF First
<1> QED
  BY <1>6, <1>7, <1>8, <1>9 DEF n

WholeWasReviewed ==
  /\ Paid!FlattenSeq([k \in DOMAIN Paid!UnitPrompts |-> Paid!UnitPrompts[k].diff])
       = Paid!Lines(changed)
  /\ \A k \in DOMAIN Paid!UnitPrompts : Paid!Fits(Paid!UnitPrompts[k].diff)
  /\ calls = IF Len(Paid!UnitPrompts) = 1 THEN 1 ELSE Len(Paid!UnitPrompts) + 1

\* Each holds the slice and the record of its unit.
LEMMA PromptsHold ==
  ASSUME Paid!DivisionAssumption, Built, Divided, Evident
  PROVE  /\ Len(Paid!UnitPrompts) = Len(evidence.verdicts)
         /\ DOMAIN Paid!UnitPrompts = 1..Len(evidence.verdicts)
         /\ Len(evidence.verdicts) \in 0..Len(Parts)
         /\ \A k \in 1..Len(evidence.verdicts) :
              /\ Paid!UnitPrompts[k].diff = Paid!Lines(Parts[k])
              /\ Paid!UnitPrompts[k].binding = Paid!UnitOf(Parts, k).record
<1> DEFINE n == Len(evidence.verdicts)
<1>1. n \in Nat /\ n <= Len(Parts) /\ Len(Parts) \in Nat
  BY EvidenceHas, DivisionIs DEF Evident
<1>2. Paid!UnitPrompts = [k \in 1..n |-> Paid!UnitPrompt(k)]
  BY UnitPromptsAre
<1>3. \A k \in 1..n : units[k] = Paid!UnitOf(Parts, k)
  BY <1>1, DivisionIs
<1>4. \A k \in 1..n : /\ Paid!UnitPrompt(k).diff = Paid!UnitOf(Parts, k).slice
                      /\ Paid!UnitPrompt(k).binding = Paid!UnitOf(Parts, k).record
  BY <1>3 DEF Paid!UnitPrompt
<1>5. \A k : Paid!UnitOf(Parts, k).slice = Paid!Lines(Parts[k])
  BY DEF Paid!UnitOf
<1> HIDE DEF n
<1>6. /\ Len(Paid!UnitPrompts) = n /\ DOMAIN Paid!UnitPrompts = 1..n
      /\ \A k \in 1..n : Paid!UnitPrompts[k] = Paid!UnitPrompt(k)
  BY <1>1, <1>2
<1>7. \A k \in 1..n : /\ Paid!UnitPrompts[k].diff = Paid!Lines(Parts[k])
                      /\ Paid!UnitPrompts[k].binding = Paid!UnitOf(Parts, k).record
  BY <1>4, <1>5, <1>6
<1> QED
  BY <1>1, <1>6, <1>7 DEF n

\* A complete review has read all that changed.
LEMMA AllIsReviewed ==
  ASSUME Paid!DivisionAssumption, Built, Divided, Evident,
         Len(evidence.verdicts) = Len(units),
         Paid!Direct <=> Len(evidence.requests) = Len(evidence.verdicts)
  PROVE  WholeWasReviewed
<1> DEFINE n == Len(Parts)
<1>1. /\ n \in Nat /\ Len(evidence.verdicts) = n
      /\ Len(Paid!UnitPrompts) = n /\ DOMAIN Paid!UnitPrompts = 1..n
      /\ \A k \in 1..n : Paid!UnitPrompts[k].diff = Paid!Lines(Parts[k])
  <2>1. Len(units) = n /\ n \in Nat
    BY DivisionIs
  <2> QED
    BY <2>1, PromptsHold
<1>2. [k \in DOMAIN Paid!UnitPrompts |-> Paid!UnitPrompts[k].diff] = Slices(Parts)
  BY <1>1 DEF Slices
<1>3. Paid!FlattenSeq(Slices(Parts)) = Paid!Lines(changed)
  BY DivisionIs, DiffIs
<1>4. \A k \in DOMAIN Paid!UnitPrompts : Paid!Fits(Paid!UnitPrompts[k].diff)
  <2>1. \A k \in 1..n : Paid!Fits(Paid!Lines(Parts[k]))
    BY DivisionIs
  <2> QED
    BY <1>1, <2>1
<1>5. calls = IF n = 1 THEN 1 ELSE n + 1
  <2>1. calls = Len(evidence.requests)
    BY DEF Evident
  <2>2. CASE Paid!Direct
    <3>1. n = 1
      BY <2>2, DivisionIs
    <3> QED
      BY <1>1, <2>1, <2>2, <3>1
  <2>3. CASE ~Paid!Direct
    <3>1. n >= 2
      BY <2>3, DivisionIs
    <3>2. Len(evidence.requests) = n + 1
      BY <1>1, <2>3, EvidenceHas
    <3>3. n # 1
      BY <1>1, <3>1
    <3> HIDE DEF n
    <3> QED
      BY <2>1, <3>2, <3>3
  <2> QED
    BY <2>2, <2>3
<1> QED
  BY <1>1, <1>2, <1>3, <1>4, <1>5 DEF WholeWasReviewed

\* What the record of a unit says of a path.
LEMMA RecordHas ==
  ASSUME Paid!DivisionAssumption, Built, Divided, NEW i \in 1..Len(Parts)
  PROVE  LET record == Paid!UnitOf(Parts, i).record IN
         /\ Len(Parts[i]) \in Nat /\ DOMAIN record.paths = 1..Len(Parts[i])
         /\ \A j \in 1..Len(Parts[i]) :
              /\ record.paths[j] = Parts[i][j].path
              /\ record.segments[j] = Paid!Segment(Parts, i, Parts[i][j].path)
<1>1. Parts[i] \in Seq(Chunk)
  BY PartsKeepOrder, ElementOfSeq DEF Part
<1>2. DOMAIN Parts[i] = 1..Len(Parts[i]) /\ Len(Parts[i]) \in Nat
  BY <1>1, LenProperties
<1>3. /\ Paid!UnitOf(Parts, i).record.paths = [j \in DOMAIN Parts[i] |-> Parts[i][j].path]
      /\ Paid!UnitOf(Parts, i).record.segments
           = [j \in DOMAIN Parts[i] |-> Paid!Segment(Parts, i, Parts[i][j].path)]
  BY DEF Paid!UnitOf
<1> QED
  BY <1>2, <1>3

\* The units whose record names a path are those that hold it.
LEMMA SeenAre ==
  ASSUME Paid!DivisionAssumption, Built, Divided, NEW path
  PROVE  {i \in 1..Len(Parts) : path \in Paid!ToSet(Paid!UnitOf(Parts, i).record.paths)}
           = Paid!Holding(Parts, path)
<1>1. DOMAIN Parts = 1..Len(Parts)
  BY DivisionIs
<1>2. ASSUME NEW i \in 1..Len(Parts)
      PROVE  path \in Paid!ToSet(Paid!UnitOf(Parts, i).record.paths)
               <=> \E j \in DOMAIN Parts[i] : Parts[i][j].path = path
  <2> DEFINE paths == Paid!UnitOf(Parts, i).record.paths
  <2>1. DOMAIN paths = DOMAIN Parts[i] /\ \A j \in DOMAIN Parts[i] : paths[j] = Parts[i][j].path
    BY DEF Paid!UnitOf
  <2> HIDE DEF paths
  <2>2. path \in Paid!ToSet(paths) <=> \E j \in DOMAIN paths : paths[j] = path
    BY DEF Paid!ToSet
  <2> QED
    BY <2>1, <2>2 DEF paths
<1> QED
  BY <1>1, <1>2 DEF Paid!Holding

\* The instance's Cardinality is the module's.
LEMMA PaidCounts ==
  ASSUME NEW S PROVE Paid!Cardinality(S) = Cardinality(S)
BY DEF Paid!Cardinality, Cardinality

\* What a prompt says of a path's segments is true.
LEMMA SegmentsAreTrue ==
  ASSUME Paid!DivisionAssumption, Built, Divided, Evident
  PROVE  Paid!SegmentsAreTold
<1> SUFFICES ASSUME NEW k \in DOMAIN Paid!UnitPrompts,
                    NEW j \in DOMAIN Paid!UnitPrompts[k].binding.paths
             PROVE  LET record == Paid!UnitPrompts[k].binding
                        seen == {i \in DOMAIN units :
                                   record.paths[j] \in Paid!ToSet(units[i].record.paths)} IN
                    /\ record.segments[j].count = Cardinality(seen)
                    /\ \A i \in seen : \A h \in seen : \A between \in i..h : between \in seen
  BY DEF Paid!SegmentsAreTold, Paid!Cardinality, Cardinality
<1> DEFINE record == Paid!UnitOf(Parts, k).record
           path == record.paths[j]
           seen == {i \in DOMAIN units : path \in Paid!ToSet(units[i].record.paths)}
<1>1. k \in 1..Len(Parts) /\ Paid!UnitPrompts[k].binding = record
  <2>1. k \in 1..Len(evidence.verdicts) /\ Len(evidence.verdicts) \in 0..Len(Parts)
        /\ Len(Parts) \in Nat
    BY PromptsHold, DivisionIs
  <2>2. k \in 1..Len(Parts)
    BY <2>1
  <2> QED
    BY <2>1, <2>2, PromptsHold
<1>2. /\ j \in 1..Len(Parts[k]) /\ record.paths[j] = Parts[k][j].path
      /\ record.segments[j] = Paid!Segment(Parts, k, Parts[k][j].path)
  BY <1>1, RecordHas
<1>3. seen = Paid!Holding(Parts, path)
  <2>1. DOMAIN units = 1..Len(Parts) /\ \A i \in 1..Len(Parts) : units[i] = Paid!UnitOf(Parts, i)
    BY DivisionIs
  <2> HIDE DEF path
  <2>2. seen = {i \in 1..Len(Parts) : path \in Paid!ToSet(Paid!UnitOf(Parts, i).record.paths)}
    BY <2>1
  <2> QED
    BY <2>2, SeenAre
<1>4. record.segments[j].count = Cardinality(Paid!Holding(Parts, path))
  <2>1. \A p, i, q : Paid!Segment(p, i, q).count = Cardinality(Paid!Holding(p, q))
    BY PaidCounts DEF Paid!Segment
  <2> HIDE DEF record
  <2>2. record.segments[j].count = Cardinality(Paid!Holding(Parts, Parts[k][j].path))
    BY <1>2, <2>1
  <2> QED
    BY <1>2, <2>2
<1> HIDE DEF record
<1>5. ASSUME NEW i \in seen, NEW h \in seen, NEW between \in i..h PROVE between \in seen
  <2>1. Parts \in Seq(Part) /\ InOrder(diff, Parts, Len(diff)) /\ Len(diff) \in Nat
    BY PartsKeepOrder, DiffIs, LenProperties
  <2> HIDE DEF path, seen
  <2> QED
    BY <1>3, <2>1, HoldingIsClosed
<1> QED
  BY <1>1, <1>3, <1>4, <1>5

RefusalKnown ==
  \/ Paid!Raw(Paid!Whole) <= MaxRaw
  \/ \E k \in DOMAIN Paid!Whole : Paid!Whole[k].separator
  \/ \E k \in DOMAIN evidence.verdicts : evidence.verdicts[k].separator

\* The records of the units, as _write_review reads them again.
LEMMA PlanHas ==
  ASSUME Paid!DivisionAssumption, Built, Divided
  PROVE  /\ Len(Paid!Plan.units) = Len(Parts) /\ DOMAIN Paid!Plan.units = 1..Len(Parts)
         /\ Paid!Plan.bytes = Paid!Raw(Paid!Whole)
         /\ \A i \in 1..Len(Parts) :
              LET record == Paid!Plan.units[i] IN
              /\ record = Paid!UnitOf(Parts, i).record
              /\ record.id = i /\ record.hash = Paid!Lines(Parts[i])
              /\ record.bytes = Paid!Raw(Paid!Lines(Parts[i]))
              /\ record.start = Starts(Parts, i)
              /\ record.end = Starts(Parts, i) + Paid!Raw(Paid!Lines(Parts[i]))
<1>1. /\ DOMAIN units = 1..Len(Parts) /\ Len(Parts) \in Nat
      /\ \A i \in 1..Len(Parts) : units[i] = Paid!UnitOf(Parts, i)
  BY DivisionIs
<1>2. Paid!Plan.units = [i \in 1..Len(Parts) |-> Paid!UnitOf(Parts, i).record]
      /\ Paid!Plan.bytes = Paid!Raw(Paid!Whole)
  BY <1>1 DEF Paid!Plan
<1>3. ASSUME NEW i
      PROVE  LET record == Paid!UnitOf(Parts, i).record IN
             /\ record.id = i /\ record.hash = Paid!Lines(Parts[i])
             /\ record.bytes = Paid!Raw(Paid!Lines(Parts[i]))
             /\ record.start = Starts(Parts, i)
             /\ record.end = Starts(Parts, i) + Paid!Raw(Paid!Lines(Parts[i]))
  BY DEF Paid!UnitOf, Starts
<1> QED
  BY <1>1, <1>2, <1>3

\* The first that _write_review derives again: units, bytes and paths.
LEMMA UnitsLieInLine ==
  ASSUME Paid!DivisionAssumption, Built, Divided, ~Paid!Direct
  PROVE  Paid!UnitsAreContiguous
<1> DEFINE N == Len(Parts)
<1>1. Parts \in Seq(Part) /\ N \in Nat /\ N >= 2 /\ InOrder(diff, Parts, Len(diff))
  BY DivisionIs, PartsKeepOrder
<1>2. diff \in Seq(Chunk) /\ Len(diff) \in Nat /\ DOMAIN diff = 1..Len(diff)
  BY DiffIs, LenProperties
<1>3. /\ Starts(Parts, 1) = 0
      /\ \A i \in 1..N : Starts(Parts, i + 1) = Starts(Parts, i) + Paid!Raw(Paid!Lines(Parts[i]))
      /\ Starts(Parts, N + 1) = Paid!Raw(Paid!Whole)
  BY <1>1, StartsFollow, DivisionIs
<1>4. ASSUME NEW i \in 1..N PROVE Paid!Raw(Paid!Lines(Parts[i])) \in 1..MaxRaw
  <2>1. Paid!Lines(Parts[i]) \in Seq(Paid!Line) /\ Paid!Lines(Parts[i]) # << >>
    BY <1>1, SlicesOf
  <2>2. Paid!Raw(Paid!Lines(Parts[i])) \in Nat /\ Paid!Raw(Paid!Lines(Parts[i])) >= 1
    BY <2>1, RawIsSize
  <2>3. Paid!Raw(Paid!Lines(Parts[i])) <= MaxRaw
    BY DivisionIs DEF Paid!Fits, Paid!Room
  <2>4. MaxRaw \in Nat
    BY DEF Paid!DivisionAssumption
  <2> QED
    BY <2>2, <2>3, <2>4
<1>5. ASSUME NEW i \in 1..N
      PROVE  LET record == Paid!Plan.units[i] IN
             /\ record.id = i /\ record.bytes \in 1..MaxRaw
             /\ record.start = IF i = 1 THEN 0 ELSE Paid!Plan.units[i - 1].end
             /\ record.end = record.start + record.bytes
  <2> DEFINE record == Paid!Plan.units[i]
  <2>1. /\ record.id = i /\ record.bytes = Paid!Raw(Paid!Lines(Parts[i]))
        /\ record.start = Starts(Parts, i)
        /\ record.end = Starts(Parts, i) + Paid!Raw(Paid!Lines(Parts[i]))
    BY PlanHas
  <2>2. record.start = IF i = 1 THEN 0 ELSE Paid!Plan.units[i - 1].end
    <3>1. CASE i = 1
      BY <1>3, <2>1, <3>1
    <3>2. CASE i # 1
      <4>1. i - 1 \in 1..N /\ (i - 1) + 1 = i
        BY <1>1, <3>2
      <4>2. Paid!Plan.units[i - 1].end = Starts(Parts, i - 1) + Paid!Raw(Paid!Lines(Parts[i - 1]))
        BY <4>1, PlanHas
      <4>3. Starts(Parts, i) = Starts(Parts, i - 1) + Paid!Raw(Paid!Lines(Parts[i - 1]))
        BY <1>3, <4>1
      <4> HIDE DEF record
      <4> QED
        BY <2>1, <3>2, <4>2, <4>3
    <3> QED
      BY <3>1, <3>2
  <2> HIDE DEF record
  <2>3. record.bytes \in 1..MaxRaw /\ record.end = record.start + record.bytes
    BY <1>4, <2>1
  <2> QED
    BY <2>1, <2>2, <2>3 DEF record
<1>6. ASSUME NEW i \in 1..N
      PROVE  LET paths == Paid!Plan.units[i].paths IN
             /\ Paid!IsInjective(paths)
             /\ \A j \in DOMAIN paths : \E k \in DOMAIN diff : diff[k].path = paths[j]
  <2> DEFINE paths == Paid!Plan.units[i].paths
             m == Len(Parts[i])
  <2>1. Paid!Plan.units[i] = Paid!UnitOf(Parts, i).record
    BY PlanHas
  <2>2. DOMAIN paths = 1..m /\ m \in Nat /\ \A j \in 1..m : paths[j] = Parts[i][j].path
    BY <2>1, RecordHas
  <2>3. Ordered(diff, Parts[i], Len(diff))
    BY <1>1 DEF InOrder
  <2> HIDE DEF paths
  <2>4. Paid!IsInjective(paths)
    <3>1. ASSUME NEW a \in 1..m, NEW b \in 1..m, paths[a] = paths[b] PROVE a = b
      <4>1. Parts[i][a].path = Parts[i][b].path
        BY <2>2, <3>1
      <4>2. ~(a < b) /\ ~(b < a)
        <5>1. At(diff, Parts[i][a].path) = At(diff, Parts[i][b].path)
              /\ At(diff, Parts[i][a].path) \in Nat
          BY <1>2, <2>3, <4>1 DEF Ordered
        <5> QED
          BY <2>3, <5>1 DEF Ordered
      <4> QED
        BY <2>2, <4>2
    <3> QED
      BY <2>2, <3>1 DEF Paid!IsInjective
  <2>5. ASSUME NEW j \in 1..m PROVE \E k \in DOMAIN diff : diff[k].path = paths[j]
    BY <1>2, <2>2, <2>3 DEF Ordered
  <2> QED
    BY <2>2, <2>4, <2>5 DEF paths
<1>7. Paid!Last(Paid!Plan.units).end = Paid!Plan.bytes
  <2>1. N \in 1..N
    BY <1>1
  <2>2. Paid!Last(Paid!Plan.units) = Paid!Plan.units[N]
    BY PlanHas DEF Paid!Last
  <2>3. Paid!Plan.units[N].end = Starts(Parts, N) + Paid!Raw(Paid!Lines(Parts[N]))
    BY <2>1, PlanHas
  <2>4. Starts(Parts, N + 1) = Starts(Parts, N) + Paid!Raw(Paid!Lines(Parts[N]))
    BY <1>3, <2>1
  <2> QED
    BY <1>3, <2>2, <2>3, <2>4, PlanHas
<1>8. DOMAIN Paid!Plan.units = 1..N
  BY PlanHas
<1> HIDE DEF N
<1> QED
  BY <1>5, <1>6, <1>7, <1>8 DEF Paid!UnitsAreContiguous

\* The second: the segments.
LEMMA SegmentsAreRight ==
  ASSUME Paid!DivisionAssumption, Built, Divided
  PROVE  Paid!SegmentsAreCounted
<1> DEFINE records == Paid!Plan.units
           holding(path) == {i \in DOMAIN records : path \in Paid!ToSet(records[i].paths)}
<1>1. /\ DOMAIN records = 1..Len(Parts)
      /\ \A i \in 1..Len(Parts) : records[i] = Paid!UnitOf(Parts, i).record
  BY PlanHas
<1> HIDE DEF records
<1>2. ASSUME NEW path PROVE holding(path) = Paid!Holding(Parts, path)
  <2>1. holding(path)
          = {i \in 1..Len(Parts) : path \in Paid!ToSet(Paid!UnitOf(Parts, i).record.paths)}
    BY <1>1
  <2> QED
    BY <2>1, SeenAre
<1> HIDE DEF holding
<1>3. ASSUME NEW i \in DOMAIN records, NEW j \in DOMAIN records[i].paths
      PROVE  records[i].segments[j] =
               [index |-> Cardinality({h \in holding(records[i].paths[j]) : h <= i}),
                count |-> Cardinality(holding(records[i].paths[j]))]
  <2> DEFINE path == records[i].paths[j]
  <2>1. i \in 1..Len(Parts) /\ records[i] = Paid!UnitOf(Parts, i).record
    BY <1>1
  <2>2. /\ path = Parts[i][j].path
        /\ records[i].segments[j] = Paid!Segment(Parts, i, Parts[i][j].path)
    BY <2>1, RecordHas
  <2> HIDE DEF path
  <2>3. records[i].segments[j] = Paid!Segment(Parts, i, path)
    BY <2>2
  <2>4. Paid!Segment(Parts, i, path)
          = [index |-> Cardinality({h \in Paid!Holding(Parts, path) : h <= i}),
             count |-> Cardinality(Paid!Holding(Parts, path))]
    BY PaidCounts DEF Paid!Segment
  <2>5. holding(path) = Paid!Holding(Parts, path)
    BY <1>2
  <2> QED
    BY <2>3, <2>4, <2>5 DEF path
<1> QED
  BY <1>3, PaidCounts DEF Paid!SegmentsAreCounted, records, holding

\* The third: requests, verdicts and prompts, these but for a line separator in the diff
\* or in a verdict.
LEMMA RequestsAgree ==
  ASSUME Paid!DivisionAssumption, Built, Divided, Evident, ~Paid!Direct,
         Len(evidence.verdicts) = Len(units),
         Len(evidence.requests) = Len(evidence.verdicts) + 1
  PROVE  /\ Paid!RequestsAreClosed /\ Paid!CoverageAgrees
         /\ ~RefusalKnown => Paid!PromptsAreBound
<1> DEFINE N == Len(Parts)
           requests == evidence.requests
           unitRequests == First(requests, N)
<1>1. /\ N \in Nat /\ N >= 2 /\ N + 1 <= CallLimit /\ CallLimit \in Nat
      /\ Len(evidence.verdicts) = N /\ Len(requests) = N + 1 /\ DOMAIN requests = 1..(N + 1)
      /\ Len(evidence.prompts) = N + 1 /\ DOMAIN evidence.verdicts = 1..N
  <2>1. N \in Nat /\ N >= 2 /\ N + 1 <= CallLimit /\ Len(units) = N
    BY DivisionIs
  <2>2. CallLimit \in Nat
    BY DEF Paid!DivisionAssumption
  <2> HIDE DEF N
  <2> QED
    BY <2>1, <2>2, EvidenceHas
<1>2. \A k \in 1..N :
        /\ evidence.prompts[k] = Paid!UnitPrompt(k)
        /\ requests[k] = [kind |-> "unit", id |-> k, prompt |-> Paid!UnitPrompt(k),
                          verdict |-> evidence.verdicts[k]]
  BY <1>1 DEF Evident, UnitsAnswered
<1>3. /\ evidence.prompts[N + 1] = Paid!IntegrationPrompt
      /\ requests[N + 1] = [kind |-> "integration", id |-> 0, prompt |-> Paid!IntegrationPrompt,
                            verdict |-> requests[N + 1].verdict]
  <2>1. Len(requests) = N + 1 /\ Len(requests) # Len(evidence.verdicts)
    BY <1>1
  <2> HIDE DEF N
  <2> QED
    BY <2>1 DEF Evident, WholeAnswered
<1>4. /\ \A k \in 1..N : /\ requests[k].kind = "unit" /\ requests[k].id = k
                         /\ requests[k].prompt = Paid!UnitPrompt(k)
                         /\ requests[k].verdict = evidence.verdicts[k]
      /\ requests[N + 1].kind = "integration"
      /\ requests[N + 1].prompt = Paid!IntegrationPrompt
  <2> HIDE DEF requests, N
  <2>1. ASSUME NEW k \in 1..N
        PROVE  /\ requests[k].kind = "unit" /\ requests[k].id = k
               /\ requests[k].prompt = Paid!UnitPrompt(k)
               /\ requests[k].verdict = evidence.verdicts[k]
    <3> DEFINE prompt == Paid!UnitPrompt(k)
               verdict == evidence.verdicts[k]
    <3>1. requests[k] = [kind |-> "unit", id |-> k, prompt |-> prompt, verdict |-> verdict]
      BY <1>2
    <3> HIDE DEF prompt, verdict
    <3>2. /\ requests[k].kind = "unit" /\ requests[k].id = k
          /\ requests[k].prompt = prompt /\ requests[k].verdict = verdict
      BY <3>1
    <3> QED
      BY <3>2 DEF prompt, verdict
  <2>2. requests[N + 1].kind = "integration" /\ requests[N + 1].prompt = Paid!IntegrationPrompt
    BY <1>3
  <2> QED
    BY <2>1, <2>2
<1>5. IsList(requests) /\ IsList(evidence.verdicts)
  BY DEF Evident
<1>6. /\ Len(Paid!Plan.units) = N /\ DOMAIN Paid!Plan.units = 1..N
      /\ \A i \in 1..N : /\ Paid!Plan.units[i] = Paid!UnitOf(Parts, i).record
                         /\ Paid!Plan.units[i].id = i
                         /\ Paid!Plan.units[i].hash = Paid!Lines(Parts[i])
  BY PlanHas
<1> HIDE DEF N, requests
<1>7. \A k \in 1..(N + 1) : k \in 1..N \/ (k = N + 1 /\ k \notin 1..N)
  BY <1>1
<1>8. Paid!UnitRequests = unitRequests
  <2>1. {k \in DOMAIN evidence.requests : evidence.requests[k].kind = "unit"} = 1..N
    <3>1. \A k \in 1..(N + 1) : requests[k].kind = "unit" <=> k \in 1..N
      BY <1>4, <1>7
    <3>2. \A k \in 1..N : k \in 1..(N + 1)
      BY <1>1
    <3> QED
      BY <1>1, <3>1, <3>2 DEF requests
  <2>2. N \in 0..Len(requests)
    BY <1>1
  <2>3. Picked(requests, 1..N) = First(requests, N)
    BY <1>5, <2>2, PickedFirst
  <2> QED
    BY <2>1, <2>3, PaidPicks DEF Paid!UnitRequests, requests
<1>9. DOMAIN unitRequests = 1..N /\ \A k \in 1..N : unitRequests[k] = requests[k]
  BY DEF First
<1> HIDE DEF unitRequests
<1>10. Paid!RequestsAreClosed
  <2>1. Len(requests) \in 2..CallLimit /\ Len(requests) = Len(Paid!Plan.units) + 1
    BY <1>1, <1>6
  <2>2. \A k \in DOMAIN requests : requests[k].kind = "integration" <=> k = Len(requests)
    BY <1>1, <1>4, <1>7
  <2> QED
    BY <2>1, <2>2 DEF Paid!RequestsAreClosed, requests
<1>11. Paid!CoverageAgrees
  <2>1. [k \in 1..N |-> unitRequests[k].id] = [i \in 1..N |-> Paid!Plan.units[i].id]
    BY <1>4, <1>6, <1>9
  <2>2. evidence.verdicts = [k \in 1..N |-> unitRequests[k].verdict]
    <3>1. evidence.verdicts = [k \in 1..N |-> evidence.verdicts[k]]
      <4>1. PICK S : evidence.verdicts \in Seq(S)
        BY <1>5 DEF IsList
      <4>2. evidence.verdicts = [k \in 1..Len(evidence.verdicts) |-> evidence.verdicts[k]]
        BY <4>1, LenProperties
      <4> QED
        BY <1>1, <4>2
    <3>2. \A k \in 1..N : unitRequests[k].verdict = evidence.verdicts[k]
      BY <1>4, <1>9
    <3>3. [k \in 1..N |-> unitRequests[k].verdict] = [k \in 1..N |-> evidence.verdicts[k]]
      BY <3>2
    <3> QED
      BY <3>1, <3>3
  <2> QED
    BY <1>1, <1>6, <1>8, <1>9, <2>1, <2>2 DEF Paid!CoverageAgrees, requests
<1>12. ASSUME ~RefusalKnown PROVE Paid!PromptsAreBound
  <2>1. ASSUME NEW k \in 1..N
        PROVE  /\ Paid!FieldIsReadable(Paid!UnitPrompt(k).diff)
               /\ Paid!UnitPrompt(k).binding = Paid!Plan.units[k]
               /\ Paid!UnitPrompt(k).diff = Paid!UnitPrompt(k).binding.hash
    <3>1. units[k] = Paid!UnitOf(Parts, k)
      BY DivisionIs DEF N
    <3>2. Paid!UnitOf(Parts, k).slice = Paid!Lines(Parts[k])
      BY DEF Paid!UnitOf
    <3>3. /\ Paid!UnitPrompt(k).diff = Paid!Lines(Parts[k])
          /\ Paid!UnitPrompt(k).binding = Paid!Plan.units[k]
      BY <1>6, <3>1, <3>2 DEF Paid!UnitPrompt
    <3>4. Paid!FieldIsReadable(Paid!Lines(Parts[k]))
      <4> DEFINE slice == Paid!Lines(Parts[k])
      <4>1. /\ Slices(Parts) \in Seq(Seq(Paid!Line)) /\ Len(Slices(Parts)) = N
            /\ Slices(Parts)[k] = slice /\ slice \in Seq(Paid!Line)
        BY PartsKeepOrder, SlicesOf DEF N
      <4> HIDE DEF slice
      <4>2. DOMAIN slice = 1..Len(slice) /\ DOMAIN Paid!Whole = 1..Len(Paid!Whole)
        BY <4>1, LenProperties, DiffIs
      <4>3. ASSUME NEW x \in 1..Len(slice) PROVE ~slice[x].separator
        <5>1. PICK y \in 1..Len(Paid!Whole) : Paid!Whole[y] = slice[x]
          <6>1. Paid!FlattenSeq(Slices(Parts)) = Paid!Whole
            BY DivisionIs
          <6>2. \E y \in 1..Len(Paid!FlattenSeq(Slices(Parts))) :
                  Paid!FlattenSeq(Slices(Parts))[y] = Slices(Parts)[k][x]
            BY <4>1, NoneIsLost
          <6> QED
            BY <4>1, <6>1, <6>2
        <5> QED
          BY <1>12, <4>2, <5>1 DEF RefusalKnown
      <4> QED
        BY <4>2, <4>3 DEF Paid!FieldIsReadable, slice
    <3> QED
      BY <1>6, <3>3, <3>4
  <2>2. /\ Paid!IntegrationPrompt = [plan |-> Paid!Plan, verdicts |-> evidence.verdicts]
        /\ Paid!FieldIsReadable(Paid!IntegrationPrompt.verdicts)
    <3>1. Paid!FieldIsReadable(evidence.verdicts)
      BY <1>12 DEF RefusalKnown, Paid!FieldIsReadable
    <3>2. Paid!IntegrationPrompt.verdicts = evidence.verdicts
      BY DEF Paid!IntegrationPrompt
    <3> QED
      BY <3>1, <3>2 DEF Paid!IntegrationPrompt
  <2>3. ASSUME NEW k \in DOMAIN evidence.requests
        PROVE  LET request == evidence.requests[k]
                   prompt == evidence.prompts[k] IN
               /\ request.prompt = prompt
               /\ IF request.kind = "unit"
                  THEN /\ Paid!FieldIsReadable(prompt.diff)
                       /\ prompt.binding = Paid!Plan.units[request.id]
                       /\ prompt.diff = prompt.binding.hash
                  ELSE /\ Paid!FieldIsReadable(prompt.verdicts)
                       /\ prompt = [plan |-> Paid!Plan, verdicts |-> evidence.verdicts]
    <3>1. CASE k \in 1..N
      <4>1. /\ evidence.requests[k].kind = "unit" /\ evidence.requests[k].id = k
            /\ evidence.requests[k].prompt = Paid!UnitPrompt(k)
            /\ evidence.prompts[k] = Paid!UnitPrompt(k)
        BY <1>2, <1>4, <3>1 DEF requests
      <4> QED
        BY <2>1, <3>1, <4>1
    <3>2. CASE k = N + 1
      <4>1. /\ evidence.requests[k].kind = "integration"
            /\ evidence.requests[k].prompt = Paid!IntegrationPrompt
            /\ evidence.prompts[k] = Paid!IntegrationPrompt
        BY <1>3, <1>4, <3>2 DEF requests
      <4> QED
        BY <2>2, <4>1
    <3> QED
      BY <1>1, <1>7, <3>1, <3>2 DEF requests
  <2> QED
    BY <2>3 DEF Paid!PromptsAreBound
<1> QED
  BY <1>10, <1>11, <1>12

\* Next to what is known, nothing of the evidence of a complete review is refused.
LEMMA EvidenceIsAdmitted ==
  ASSUME Paid!DivisionAssumption, Built, Divided, Evident, ~Paid!Direct,
         Len(evidence.verdicts) = Len(units),
         Len(evidence.requests) = Len(evidence.verdicts) + 1, ~Paid!EvidenceAgrees
  PROVE  RefusalKnown
<1> SUFFICES ASSUME ~RefusalKnown PROVE FALSE
  OBVIOUS
<1>1. Paid!RequestsAreClosed /\ Paid!CoverageAgrees /\ Paid!PromptsAreBound
  BY RequestsAgree
<1>2. Paid!PlanIsBound
  <2>1. Paid!Plan.bytes = Paid!Raw(Paid!Whole) /\ Paid!Raw(Paid!Whole) \in Nat
    BY PlanHas, DiffIs, RawIsSize
  <2>2. ~(Paid!Raw(Paid!Whole) <= MaxRaw)
    BY DEF RefusalKnown
  <2>3. Paid!Raw(Paid!Whole) <= MaxWhole
    BY DivisionIs
  <2>4. MaxRaw \in Nat
    BY DEF Paid!DivisionAssumption
  <2> QED
    BY <2>1, <2>2, <2>3, <2>4 DEF Paid!PlanIsBound
<1>3. Paid!UnitsAreContiguous /\ Paid!SegmentsAreCounted
  BY UnitsLieInLine, SegmentsAreRight
<1> QED
  BY <1>1, <1>2, <1>3 DEF Paid!EvidenceAgrees

-----------------------------------------------------------------------------
(* The invariant of a paid review *)

NoEvidence == [prompts |-> << >>, requests |-> << >>, verdicts |-> << >>]
Unsent == {"compare", "divide", "refused"}
Answered == {"record", "recorded", "unrecorded"}
PaidInv ==
  /\ changed \in Comparisons
  /\ stage \in Unsent \cup Answered \cup {"review", "integrate", "ambiguous", "unsent"}
  /\ stage \in Unsent => evidence = NoEvidence /\ calls = 0
  /\ stage \notin {"compare", "refused"} => Built
  /\ stage \notin Unsent => Divided /\ Evident
  /\ stage = "review" => /\ Len(evidence.requests) = Len(evidence.verdicts)
                         /\ Len(evidence.verdicts) < Len(units)
  /\ stage = "integrate" => /\ Len(evidence.requests) = Len(evidence.verdicts)
                            /\ Len(evidence.verdicts) = Len(units) /\ ~Paid!Direct
  /\ stage \in Answered => /\ Len(evidence.verdicts) = Len(units)
                           /\ Paid!Direct <=> Len(evidence.requests) = Len(evidence.verdicts)
  /\ stage = "unrecorded" => RefusalKnown

\* What is said of the division depends on the comparison and the diff only.
LEMMA DivisionStays ==
  ASSUME changed' = changed, diff' = diff
  PROVE  /\ Built' <=> Built
         /\ Parts' = Parts
         /\ Paid!Direct' <=> Paid!Direct
         /\ evidence' = evidence => (RefusalKnown' <=> RefusalKnown)
BY DEF Built, Parts, RefusalKnown, Paid!Direct, Paid!Whole

\* The prompts depend on the units too, and the last on the verdicts.
LEMMA PromptsStay ==
  ASSUME changed' = changed, diff' = diff, units' = units
  PROVE  /\ Divided' <=> Divided
         /\ \A k : Paid!UnitPrompt(k)' = Paid!UnitPrompt(k)
         /\ evidence'.verdicts = evidence.verdicts
              => Paid!IntegrationPrompt' = Paid!IntegrationPrompt
<1>1. Paid!Plan' = Paid!Plan
  BY DEF Paid!Plan, Paid!Whole
<1>2. Parts' = Parts /\ (Paid!Direct' <=> Paid!Direct)
  BY DivisionStays
<1>3. Paid!Whole' = Paid!Whole
  BY DEF Paid!Whole
<1>4. Divided' <=> Divided
  BY <1>2, <1>3 DEF Divided, Paid!Coverage
<1>5. \A k : Paid!UnitPrompt(k)' = Paid!UnitPrompt(k)
  BY <1>1 DEF Paid!UnitPrompt
<1> QED
  BY <1>1, <1>4, <1>5 DEF Paid!IntegrationPrompt

\* Evidence that is not touched stays as it is.
LEMMA EvidentStays ==
  ASSUME UNCHANGED <<changed, diff, units, evidence, calls>>, Evident
  PROVE  Evident'
<1>1. /\ \A k : Paid!UnitPrompt(k)' = Paid!UnitPrompt(k)
      /\ Paid!IntegrationPrompt' = Paid!IntegrationPrompt
  BY PromptsStay
<1>2. UnitsAnswered' /\ WholeAnswered'
  BY <1>1 DEF Evident, UnitsAnswered, WholeAnswered
<1> QED
  BY <1>2 DEF Evident

\* The invariant holds at first.
LEMMA PaidInit == ASSUME Paid!DivisionAssumption, Paid!Init PROVE PaidInv
BY DEF Paid!Init, PaidInv, NoEvidence, Unsent, Answered

\* Each step keeps it: none, the candidate, the division, the reviews, the record.
LEMMA PaidStutters ==
  ASSUME PaidInv, UNCHANGED Paid!vars
  PROVE  PaidInv'
<1>1. UNCHANGED <<changed, stage, diff, units, evidence, calls>>
  BY DEF Paid!vars
<1>2. /\ Built' <=> Built
      /\ Divided' <=> Divided
      /\ Paid!Direct' <=> Paid!Direct
      /\ RefusalKnown' <=> RefusalKnown
      /\ Evident => Evident'
  BY <1>1, DivisionStays, PromptsStay, EvidentStays
<1> QED
  BY <1>1, <1>2 DEF PaidInv

LEMMA BuildKeeps ==
  ASSUME Paid!DivisionAssumption, PaidInv, Paid!BuildCandidate
  PROVE  PaidInv'
<1>1. /\ stage = "compare" /\ UNCHANGED <<changed, units, evidence, calls>>
      /\ stage' \in {"divide", "refused"}
  BY DEF Paid!BuildCandidate
<1>2. evidence = NoEvidence /\ calls = 0 /\ changed \in Comparisons
  BY <1>1 DEF PaidInv, Unsent
<1>3. ASSUME stage' = "divide" PROVE Built'
  <2>1. /\ Paid!ListingIsComplete(Paid!Listed)
        /\ \A i \in DOMAIN Paid!Listed : Paid!RowIsExact(Paid!Listed[i])
                                          /\ Paid!IsClean(Paid!Listed[i])
        /\ diff' = Paid!CanonicalDiff(Paid!Listed)
    BY <1>1, <1>3 DEF Paid!BuildCandidate
  <2>2. changed \in Seq(Paid!File) /\ ApiCap \in Nat
    BY <1>2 DEF Paid!DivisionAssumption
  <2>3. Len(changed) \in Nat /\ DOMAIN changed = 1..Len(changed)
        /\ \A i \in 1..Len(changed) : changed[i] \in Paid!File
    BY <2>2, LenProperties, ElementOfSeq
  <2>4. Paid!Listed = changed
    <3>1. CASE Len(changed) < ApiCap
      <4>1. Paid!Listed = SubSeq(changed, 1, Len(changed))
        BY <3>1 DEF Paid!Listed
      <4> QED
        BY <2>2, <4>1, SubSeqFull
    <3>2. CASE ~(Len(changed) < ApiCap)
      <4>1. Paid!Listed = SubSeq(changed, 1, ApiCap)
        BY <3>2 DEF Paid!Listed
      <4>2. \A i \in 1..ApiCap : changed[i] \in Paid!File
        BY <2>2, <2>3, <3>2
      <4>3. Len(SubSeq(changed, 1, ApiCap)) = IF 1 <= ApiCap THEN ApiCap - 1 + 1 ELSE 0
        BY <2>2, <4>2, SubSeqProperties
      <4>4. Len(Paid!Listed) = ApiCap
        BY <2>2, <4>1, <4>3
      <4> QED
        BY <2>1, <2>2, <4>4 DEF Paid!ListingIsComplete
    <3> QED
      BY <3>1, <3>2
  <2>5. changed # << >>
    BY <2>1, <2>4 DEF Paid!ListingIsComplete
  <2>6. ASSUME NEW i \in 1..Len(changed) PROVE changed[i].row = "exact"
    <3>1. Paid!RowIsExact(changed[i]) /\ Paid!IsClean(changed[i]) /\ changed[i] \in Paid!File
      BY <2>1, <2>3, <2>4
    <3>2. changed[i].row \in {"exact", "incomplete", "opaque", "differs", "sensitive"}
      BY <3>1 DEF Paid!File
    <3> QED
      BY <3>1, <3>2 DEF Paid!RowIsExact, Paid!IsClean, Paid!BlobIsComplete, Paid!IsReadable
  <2> QED
    BY <1>1, <1>2, <2>1, <2>4, <2>5, <2>6 DEF Built
<1> QED
  BY <1>1, <1>2, <1>3 DEF PaidInv, Unsent, Answered

LEMMA DivideKeeps ==
  ASSUME Paid!DivisionAssumption, PaidInv, Paid!Divide
  PROVE  PaidInv'
<1>1. /\ stage = "divide" /\ UNCHANGED <<changed, diff, evidence, calls>>
      /\ stage' \in {"review", "refused"}
  BY DEF Paid!Divide
<1>2. evidence = NoEvidence /\ calls = 0 /\ changed \in Comparisons /\ Built
  BY <1>1 DEF PaidInv, Unsent
<1>3. /\ Built' /\ Parts' = Parts /\ (Paid!Direct' <=> Paid!Direct)
      /\ Paid!Whole' = Paid!Whole
  BY <1>1, <1>2, DivisionStays DEF Paid!Whole
<1>4. ASSUME stage' = "review" PROVE Divided' /\ Evident' /\ 0 < Len(units')
  <2>1. /\ \/ Paid!Direct
           \/ /\ Paid!Raw(Paid!Whole) <= MaxWhole /\ Paid!Coverage(Parts)
              /\ (IF Len(Parts) = 1 THEN 1 ELSE Len(Parts) + 1) <= CallLimit
        /\ units' = [i \in DOMAIN Parts |-> Paid!UnitOf(Parts, i)]
    BY <1>1, <1>4 DEF Paid!Divide, Parts
  <2>2. Divided'
    BY <1>3, <2>1 DEF Divided, Paid!Coverage
  <2>3. 0 < Len(units')
    <3>2. Len(Parts) \in Nat /\ DOMAIN Parts = 1..Len(Parts)
      BY <1>2, PartsKeepOrder, LenProperties
    <3>3. Len(units') = Len(Parts)
      BY <2>1, <3>2
    <3>4. Len(Parts) # 0
      <4>1. CASE Paid!Direct
        <5>1. Parts = <<diff>>
          BY <4>1 DEF Parts
        <5> QED
          BY <5>1
      <4>2. CASE ~Paid!Direct
        <5>1. Parts \in Seq(Part) /\ Paid!Whole # << >>
          BY <1>2, PartsKeepOrder, DiffIs
        <5>2. Paid!FlattenSeq(Slices(Parts)) = Paid!Whole
          BY <2>1, <4>2, <5>1, SlicesOf DEF Paid!Coverage
        <5>3. Slices(Parts) \in Seq(Seq(Paid!Line)) /\ Len(Slices(Parts)) = Len(Parts)
          BY <5>1, SlicesOf
        <5> QED
          BY <5>1, <5>2, <5>3, FlatOfFew
      <4> QED
        BY <4>1, <4>2
    <3> QED
      BY <3>2, <3>3, <3>4
  <2>4. evidence' = NoEvidence /\ calls' = 0
    BY <1>1, <1>2
  <2>5. /\ evidence'.prompts = << >> /\ evidence'.requests = << >> /\ evidence'.verdicts = << >>
        /\ Len(<< >>) = 0 /\ IsList(<< >>)
    <3>1. << >> \in Seq(Nat) /\ Len(<< >>) = 0
      BY EmptySeq
    <3> QED
      BY <2>4, <3>1 DEF NoEvidence, IsList
  <2>6. UnitsAnswered' /\ WholeAnswered'
    BY <2>5 DEF UnitsAnswered, WholeAnswered
  <2>7. Len(evidence'.verdicts) <= Len(units')
    <3>1. Len(units') \in Nat
      BY <2>1, <1>2, PartsKeepOrder, LenProperties
    <3> QED
      BY <2>3, <2>5, <3>1
  <2>8. Evident'
    BY <2>4, <2>5, <2>6, <2>7 DEF Evident, NoEvidence
  <2> QED
    BY <2>2, <2>3, <2>8
<1>5. stage' = "review" => /\ Len(evidence'.requests) = Len(evidence'.verdicts)
                           /\ Len(evidence'.verdicts) < Len(units')
  <2>1. Len(<< >>) = 0
    BY EmptySeq
  <2> QED
    BY <1>1, <1>2, <1>4, <2>1 DEF NoEvidence
<1>6. CASE stage' = "review"
  BY <1>1, <1>2, <1>3, <1>4, <1>5, <1>6 DEF PaidInv, Unsent, Answered
<1>7. CASE stage' = "refused"
  BY <1>1, <1>2, <1>3, <1>7 DEF PaidInv, Unsent, Answered
<1> QED
  BY <1>1, <1>6, <1>7

WithAnswer(i, v) ==
  [prompts |-> Append(evidence.prompts, Paid!UnitPrompt(i)),
   requests |-> Append(evidence.requests, [kind |-> "unit", id |-> i,
                                           prompt |-> Paid!UnitPrompt(i), verdict |-> v]),
   verdicts |-> Append(evidence.verdicts, v)]
\* A record of evidence with one field changed.
LEMMA FieldsChange ==
  ASSUME NEW e, e = [prompts |-> e.prompts, requests |-> e.requests, verdicts |-> e.verdicts],
         NEW x
  PROVE  /\ [e EXCEPT !.prompts = x]
              = [prompts |-> x, requests |-> e.requests, verdicts |-> e.verdicts]
         /\ [e EXCEPT !.requests = x]
              = [prompts |-> e.prompts, requests |-> x, verdicts |-> e.verdicts]
         /\ [e EXCEPT !.verdicts = x]
              = [prompts |-> e.prompts, requests |-> e.requests, verdicts |-> x]
<1>1. e \in [prompts : {e.prompts}, requests : {e.requests}, verdicts : {e.verdicts}]
  OBVIOUS
<1>2. PICK P, R, V : e \in [prompts : P, requests : R, verdicts : V]
  BY <1>1
<1> HIDE <1>1
<1> QED
  BY <1>2

\* The evidence with one more unit answered.
LEMMA AnswerIs ==
  ASSUME Evident, NEW v, NEW i
  PROVE  [Paid!Answered(Paid!UnitPrompt(i), "unit", i, v) EXCEPT !.verdicts = Append(@, v)]
           = WithAnswer(i, v)
<1> DEFINE p == Append(evidence.prompts, Paid!UnitPrompt(i))
           q == [kind |-> "unit", id |-> i, prompt |-> Paid!UnitPrompt(i), verdict |-> v]
           r == Append(evidence.requests, q)
           w == Append(evidence.verdicts, v)
           a == Paid!Answered(Paid!UnitPrompt(i), "unit", i, v)
           b == [evidence EXCEPT !.prompts = p]
<1>1. evidence = [prompts |-> evidence.prompts, requests |-> evidence.requests,
                  verdicts |-> evidence.verdicts]
  BY DEF Evident
<1>2. a = [b EXCEPT !.requests = r]
  BY Zenon DEF Paid!Answered
<1>3. WithAnswer(i, v) = [prompts |-> p, requests |-> r, verdicts |-> w]
  BY DEF WithAnswer
<1> HIDE DEF p, r, a
<1>4. b = [prompts |-> p, requests |-> evidence.requests, verdicts |-> evidence.verdicts]
  BY <1>1, FieldsChange, Zenon
<1> HIDE DEF b
<1>5. /\ b = [prompts |-> b.prompts, requests |-> b.requests, verdicts |-> b.verdicts]
      /\ b.prompts = p /\ b.verdicts = evidence.verdicts
  BY <1>4
<1>6. a = [prompts |-> p, requests |-> r, verdicts |-> evidence.verdicts]
  <2>1. [b EXCEPT !.requests = r] = [prompts |-> b.prompts, requests |-> r, verdicts |-> b.verdicts]
    BY <1>5, FieldsChange, Zenon
  <2> QED
    BY <1>2, <1>5, <2>1, Zenon
<1>7. /\ a = [prompts |-> a.prompts, requests |-> a.requests, verdicts |-> a.verdicts]
      /\ a.prompts = p /\ a.requests = r /\ a.verdicts = evidence.verdicts
  BY <1>6
<1>8. [a EXCEPT !.verdicts = w] = [prompts |-> p, requests |-> r, verdicts |-> w]
  <2>1. [a EXCEPT !.verdicts = w] = [prompts |-> a.prompts, requests |-> a.requests, verdicts |-> w]
    BY <1>7, FieldsChange, Zenon
  <2> QED
    BY <1>7, <2>1, Zenon
<1>9. [a EXCEPT !.verdicts = Append(@, v)] = [a EXCEPT !.verdicts = w]
  BY <1>7, Zenon
<1> QED
  BY <1>3, <1>8, <1>9, Zenon DEF a

\* The answer for the next unit keeps the evidence in line.
LEMMA AnswerKeeps ==
  ASSUME Evident, UNCHANGED <<changed, diff, units>>, NEW v, NEW i,
         i = Len(evidence.requests) + 1, Len(evidence.requests) = Len(evidence.verdicts),
         Len(evidence.verdicts) < Len(units), Len(units) \in Nat,
         evidence' = WithAnswer(i, v), calls' = calls + 1
  PROVE  /\ Evident'
         /\ Len(evidence'.requests) = i /\ Len(evidence'.verdicts) = i
<1> DEFINE request == [kind |-> "unit", id |-> i, prompt |-> Paid!UnitPrompt(i), verdict |-> v]
           ps == Append(evidence.prompts, Paid!UnitPrompt(i))
           rs == Append(evidence.requests, request)
           vs == Append(evidence.verdicts, v)
<1>1. evidence' = [prompts |-> ps, requests |-> rs, verdicts |-> vs]
  BY DEF WithAnswer
<1>2. /\ Len(evidence.verdicts) = i - 1 /\ Len(evidence.requests) = i - 1
      /\ Len(evidence.prompts) = i - 1 /\ i \in Nat /\ i >= 1 /\ i <= Len(units)
  BY EvidenceHas
<1>3. /\ IsList(ps) /\ Len(ps) = i /\ ps[i] = Paid!UnitPrompt(i)
      /\ \A k \in 1..(i - 1) : ps[k] = evidence.prompts[k]
  <2>1. IsList(evidence.prompts) /\ (i - 1) + 1 = i
    BY <1>2 DEF Evident
  <2> QED
    BY <1>2, <2>1, Listed
<1>4. /\ IsList(vs) /\ Len(vs) = i /\ vs[i] = v
      /\ \A k \in 1..(i - 1) : vs[k] = evidence.verdicts[k]
  <2>1. IsList(evidence.verdicts) /\ (i - 1) + 1 = i
    BY <1>2 DEF Evident
  <2>2. /\ IsList(vs) /\ Len(vs) = Len(evidence.verdicts) + 1
        /\ vs[Len(evidence.verdicts) + 1] = v
        /\ \A k \in 1..Len(evidence.verdicts) : vs[k] = evidence.verdicts[k]
    BY <2>1, Listed
  <2> HIDE DEF vs
  <2> QED
    BY <1>2, <2>1, <2>2
<1>5. /\ IsList(rs) /\ Len(rs) = i /\ rs[i] = request
      /\ \A k \in 1..(i - 1) : rs[k] = evidence.requests[k]
  <2>1. IsList(evidence.requests) /\ (i - 1) + 1 = i
    BY <1>2 DEF Evident
  <2> HIDE DEF request
  <2> QED
    BY <1>2, <2>1, Listed
<1>6. \A k \in 1..(i - 1) :
        /\ evidence.prompts[k] = Paid!UnitPrompt(k)
        /\ evidence.requests[k] = [kind |-> "unit", id |-> k, prompt |-> Paid!UnitPrompt(k),
                                   verdict |-> evidence.verdicts[k]]
  BY <1>2 DEF Evident, UnitsAnswered
<1> HIDE DEF ps, rs, vs
<1>7. \A k \in 1..i :
        /\ ps[k] = Paid!UnitPrompt(k)
        /\ rs[k] = [kind |-> "unit", id |-> k, prompt |-> Paid!UnitPrompt(k), verdict |-> vs[k]]
  <2>1. ASSUME NEW k \in 1..(i - 1)
        PROVE  /\ ps[k] = Paid!UnitPrompt(k)
               /\ rs[k] = [kind |-> "unit", id |-> k, prompt |-> Paid!UnitPrompt(k),
                           verdict |-> vs[k]]
    <3>1. ps[k] = evidence.prompts[k] /\ rs[k] = evidence.requests[k]
          /\ vs[k] = evidence.verdicts[k]
      BY <1>3, <1>4, <1>5
    <3> QED
      BY <1>6, <3>1
  <2>2. \A k \in 1..i : k \in 1..(i - 1) \/ k = i
    BY <1>2
  <2> QED
    BY <1>3, <1>4, <1>5, <2>1, <2>2
<1>8. \A k : Paid!UnitPrompt(k)' = Paid!UnitPrompt(k)
  BY PromptsStay
<1>9. evidence'.prompts = ps /\ evidence'.requests = rs /\ evidence'.verdicts = vs
  BY <1>1
<1>10. UnitsAnswered' /\ WholeAnswered'
  BY <1>4, <1>5, <1>7, <1>8, <1>9 DEF UnitsAnswered, WholeAnswered
<1>11. calls' = i
  BY <1>2 DEF Evident
<1>12. Evident'
  BY <1>1, <1>2, <1>3, <1>4, <1>5, <1>9, <1>10, <1>11 DEF Evident
<1> QED
  BY <1>4, <1>5, <1>9, <1>12

\* So does the answer for the whole.
LEMMA IntegrationKeeps ==
  ASSUME Evident, UNCHANGED <<changed, diff, units>>, NEW v,
         Len(evidence.requests) = Len(evidence.verdicts),
         evidence' = Paid!Answered(Paid!IntegrationPrompt, "integration", 0, v),
         calls' = calls + 1
  PROVE  /\ Evident'
         /\ Len(evidence'.requests) = Len(evidence.verdicts) + 1
         /\ Len(evidence'.verdicts) = Len(evidence.verdicts)
<1> DEFINE n == Len(evidence.verdicts)
           request == [kind |-> "integration", id |-> 0, prompt |-> Paid!IntegrationPrompt,
                       verdict |-> v]
           ps == Append(evidence.prompts, Paid!IntegrationPrompt)
           rs == Append(evidence.requests, request)
<1>1. evidence' = [prompts |-> ps, requests |-> rs, verdicts |-> evidence.verdicts]
  <2>1. evidence = [prompts |-> evidence.prompts, requests |-> evidence.requests,
                    verdicts |-> evidence.verdicts]
    BY DEF Evident
  <2> QED
    BY <2>1 DEF Paid!Answered
<1>2. n \in Nat /\ Len(evidence.requests) = n /\ Len(evidence.prompts) = n
  BY EvidenceHas
<1>3. /\ IsList(ps) /\ Len(ps) = n + 1 /\ ps[n + 1] = Paid!IntegrationPrompt
      /\ \A k \in 1..n : ps[k] = evidence.prompts[k]
  <2>1. IsList(evidence.prompts)
    BY DEF Evident
  <2> QED
    BY <1>2, <2>1, Listed
<1>4. /\ IsList(rs) /\ Len(rs) = n + 1 /\ rs[n + 1] = request
      /\ \A k \in 1..n : rs[k] = evidence.requests[k]
  <2>1. IsList(evidence.requests)
    BY DEF Evident
  <2> HIDE DEF request
  <2> QED
    BY <1>2, <2>1, Listed
<1> HIDE DEF ps, rs
<1>5. /\ evidence'.prompts = ps /\ evidence'.requests = rs
      /\ evidence'.verdicts = evidence.verdicts
  BY <1>1
<1>6. /\ \A k : Paid!UnitPrompt(k)' = Paid!UnitPrompt(k)
      /\ Paid!IntegrationPrompt' = Paid!IntegrationPrompt
  BY <1>5, PromptsStay
<1>7. UnitsAnswered'
  BY <1>3, <1>4, <1>5, <1>6 DEF Evident, UnitsAnswered
<1>8. WholeAnswered'
  BY <1>3, <1>4, <1>5, <1>6 DEF WholeAnswered
<1>9. calls' = n + 1
  BY <1>2 DEF Evident
<1>10. Len(evidence.verdicts) <= Len(units)
  BY DEF Evident
<1>11. IsList(evidence.verdicts)
  BY DEF Evident
<1>12. Evident'
  BY <1>1, <1>3, <1>4, <1>5, <1>7, <1>8, <1>9, <1>10, <1>11 DEF Evident
<1> QED
  BY <1>4, <1>5, <1>12

LEMMA ReviewUnitKeeps ==
  ASSUME Paid!DivisionAssumption, PaidInv, Paid!ReviewUnit
  PROVE  PaidInv'
<1> DEFINE i == Len(evidence.requests) + 1
<1>1. stage = "review" /\ UNCHANGED <<changed, diff, units>>
  BY DEF Paid!ReviewUnit
<1>2. /\ Built /\ Divided /\ Evident /\ changed \in Comparisons
      /\ Len(evidence.requests) = Len(evidence.verdicts)
      /\ Len(evidence.verdicts) < Len(units)
  BY <1>1 DEF PaidInv, Unsent
<1>3. /\ Built' /\ Divided' /\ (Paid!Direct' <=> Paid!Direct)
  BY <1>1, <1>2, DivisionStays, PromptsStay
<1>4. /\ Len(units) \in Nat /\ (Paid!Direct => Len(units) = 1)
      /\ Len(evidence.requests) \in Nat /\ i \in Nat /\ i >= 1
  BY <1>2, DivisionIs, EvidenceHas
<1>5. CASE Paid!GivesUp /\ UNCHANGED calls
  <2>1. stage' \in {"ambiguous", "unsent"} /\ UNCHANGED <<evidence, calls>>
    BY <1>5 DEF Paid!GivesUp
  <2>2. Evident'
    BY <1>1, <1>2, <2>1, EvidentStays
  <2> QED
    BY <1>1, <1>2, <1>3, <2>1, <2>2 DEF PaidInv, Unsent, Answered
<1>6. ASSUME NEW v \in Verdicts,
             evidence' = [Paid!Answered(Paid!UnitPrompt(i), "unit", i, v)
                            EXCEPT !.verdicts = Append(@, v)],
             stage' = IF Paid!Direct THEN "record"
                      ELSE IF i = Len(units) THEN "integrate" ELSE "review",
             calls' = calls + 1
      PROVE  PaidInv'
  <2> HIDE DEF i
  <2>1. /\ Evident' /\ Len(evidence'.requests) = i /\ Len(evidence'.verdicts) = i
    <3>1. evidence' = WithAnswer(i, v)
      BY <1>2, <1>6, AnswerIs, Zenon
    <3> QED
      BY <1>1, <1>2, <1>4, <1>6, <3>1, AnswerKeeps DEF i
  <2>2. i <= Len(units)
    BY <1>2, <1>4 DEF i
  <2>3. CASE Paid!Direct
    <3>1. stage' = "record" /\ i = Len(units)
      <4>1. stage' = "record"
        BY <1>6, <2>3
      <4>2. i = Len(units)
        <5>1. Len(units) = 1
          BY <1>4, <2>3
        <5>2. i \in Nat /\ i >= 1
          BY <1>4
        <5> QED
          BY <2>2, <5>1, <5>2
      <4> QED
        BY <4>1, <4>2
    <3> QED
      BY <1>1, <1>2, <1>3, <2>1, <2>3, <3>1 DEF PaidInv, Unsent, Answered
  <2>4. CASE ~Paid!Direct /\ i = Len(units)
    <3>1. stage' = "integrate"
      BY <1>6, <2>4
    <3> QED
      BY <1>1, <1>2, <1>3, <2>1, <2>4, <3>1 DEF PaidInv, Unsent, Answered
  <2>5. CASE ~Paid!Direct /\ i # Len(units)
    <3>1. stage' = "review" /\ i < Len(units)
      BY <1>4, <1>6, <2>2, <2>5
    <3> QED
      BY <1>1, <1>2, <1>3, <2>1, <3>1 DEF PaidInv, Unsent, Answered
  <2> QED
    BY <2>3, <2>4, <2>5
<1> QED
  BY <1>5, <1>6 DEF Paid!ReviewUnit

LEMMA IntegrateKeeps ==
  ASSUME Paid!DivisionAssumption, PaidInv, Paid!Integrate
  PROVE  PaidInv'
<1>1. stage = "integrate" /\ UNCHANGED <<changed, diff, units>>
  BY DEF Paid!Integrate
<1>2. /\ Built /\ Divided /\ Evident /\ changed \in Comparisons /\ ~Paid!Direct
      /\ Len(evidence.requests) = Len(evidence.verdicts)
      /\ Len(evidence.verdicts) = Len(units)
  BY <1>1 DEF PaidInv, Unsent
<1>3. /\ Built' /\ Divided' /\ ~Paid!Direct'
  BY <1>1, <1>2, DivisionStays, PromptsStay
<1>4. CASE Paid!GivesUp /\ UNCHANGED calls
  <2>1. stage' \in {"ambiguous", "unsent"} /\ UNCHANGED <<evidence, calls>>
    BY <1>4 DEF Paid!GivesUp
  <2>2. Evident'
    BY <1>1, <1>2, <2>1, EvidentStays
  <2> QED
    BY <1>1, <1>2, <1>3, <2>1, <2>2 DEF PaidInv, Unsent, Answered
<1>5. ASSUME NEW v \in Verdicts,
             evidence' = Paid!Answered(Paid!IntegrationPrompt, "integration", 0, v),
             stage' = "record", calls' = calls + 1
      PROVE  PaidInv'
  <2>1. /\ Evident' /\ Len(evidence'.requests) = Len(evidence.verdicts) + 1
        /\ Len(evidence'.verdicts) = Len(evidence.verdicts)
    BY <1>1, <1>2, <1>5, IntegrationKeeps
  <2>2. Len(evidence'.requests) # Len(evidence'.verdicts)
    BY <1>2, <2>1, EvidenceHas
  <2>3. Len(evidence'.verdicts) = Len(units')
    BY <1>1, <1>2, <2>1
  <2> QED
    BY <1>1, <1>2, <1>3, <1>5, <2>1, <2>2, <2>3 DEF PaidInv, Unsent, Answered
<1> QED
  BY <1>4, <1>5 DEF Paid!Integrate

LEMMA WriteKeeps ==
  ASSUME Paid!DivisionAssumption, PaidInv, Paid!WriteReview
  PROVE  PaidInv'
<1>1. /\ stage = "record" /\ UNCHANGED <<changed, diff, units, evidence, calls>>
      /\ stage' = IF Paid!Direct \/ Paid!EvidenceAgrees THEN "recorded" ELSE "unrecorded"
  BY DEF Paid!WriteReview
<1>2. /\ Built /\ Divided /\ Evident /\ changed \in Comparisons
      /\ Len(evidence.verdicts) = Len(units)
      /\ Paid!Direct <=> Len(evidence.requests) = Len(evidence.verdicts)
  BY <1>1 DEF PaidInv, Unsent, Answered
<1>3. /\ Built' /\ Divided' /\ Evident' /\ (Paid!Direct' <=> Paid!Direct)
      /\ RefusalKnown' <=> RefusalKnown
  BY <1>1, <1>2, DivisionStays, PromptsStay, EvidentStays
<1>4. ASSUME stage' = "unrecorded" PROVE RefusalKnown
  <2>1. ~Paid!Direct /\ ~Paid!EvidenceAgrees
    BY <1>1, <1>4
  <2>2. Len(evidence.requests) = Len(evidence.verdicts) + 1
    BY <1>2, <2>1, EvidenceHas
  <2> QED
    BY <1>2, <2>1, <2>2, EvidenceIsAdmitted
<1>5. stage' \in {"recorded", "unrecorded"}
  BY <1>1
<1> QED
  BY <1>1, <1>2, <1>3, <1>4, <1>5 DEF PaidInv, Unsent, Answered

\* A paid review reads every line of every changed file once, in order and within the
\* bounds, tells each unit truly how its files are divided, and is recorded unless the
\* refusal is one of the three known ones (a diff that is small itself, a line separator in
\* it, a line separator in a unit's verdict); for any comparison, bounds and verdicts
\* (build_candidate, _review_units, ReviewerAdapter.review, _write_review).
THEOREM PaidReviewIsWhole ==
  ASSUME Paid!DivisionAssumption
  PROVE  Paid!Spec => []Paid!ReviewIsWhole
<1>1. Paid!Init => PaidInv
  BY PaidInit
<1>2. PaidInv /\ [Paid!Next]_(Paid!vars) => PaidInv'
  BY BuildKeeps, DivideKeeps, ReviewUnitKeeps, IntegrateKeeps, WriteKeeps, PaidStutters
  DEF Paid!Next
<1>3. PaidInv => Paid!ReviewIsWhole
  <2> SUFFICES ASSUME PaidInv PROVE Paid!ReviewIsWhole
    OBVIOUS
  <2>1. Paid!WholeIsReviewed
    <3>1. stage \in Answered =>
            /\ Built /\ Divided /\ Evident /\ Len(evidence.verdicts) = Len(units)
            /\ Paid!Direct <=> Len(evidence.requests) = Len(evidence.verdicts)
      BY DEF PaidInv, Unsent, Answered
    <3>2. stage \in Answered => WholeWasReviewed
      BY <3>1, AllIsReviewed
    <3> QED
      BY <3>2 DEF Paid!WholeIsReviewed, WholeWasReviewed, Answered
  <2>2. Paid!SegmentsAreTold
    <3>1. CASE stage \in Unsent
      <4>1. evidence = NoEvidence
        BY <3>1 DEF PaidInv
      <4>2. Paid!UnitPrompts = << >>
        <5>1. evidence.prompts = << >>
          BY <4>1 DEF NoEvidence
        <5>2. IsList(<< >>) /\ Len(<< >>) = 0
          <6>1. << >> \in Seq(Nat) /\ Len(<< >>) = 0
            BY EmptySeq
          <6> QED
            BY <6>1 DEF IsList
        <5>3. {k \in DOMAIN << >> : "diff" \in DOMAIN << >>[k]} = 1..0
          OBVIOUS
        <5>4. Picked(<< >>, 1..0) = << >>
          <6>1. Picked(<< >>, 1..0) = First(<< >>, 0)
            BY <5>2, PickedFirst
          <6>2. First(<< >>, 0) = << >>
            BY DEF First
          <6> QED
            BY <6>1, <6>2
        <5> QED
          BY <5>1, <5>3, <5>4, PaidPicks DEF Paid!UnitPrompts
      <4>3. \A k \in DOMAIN << >> : FALSE
        OBVIOUS
      <4> QED
        BY <4>2, <4>3 DEF Paid!SegmentsAreTold
    <3>2. CASE stage \notin Unsent
      <4>1. Built /\ Divided /\ Evident
        BY <3>2 DEF PaidInv, Unsent
      <4> QED
        BY <4>1, SegmentsAreTrue
    <3> QED
      BY <3>1, <3>2
  <2>3. Paid!RefusalIsKnown
    BY DEF PaidInv, RefusalKnown, Paid!RefusalIsKnown
  <2> QED
    BY <2>1, <2>2, <2>3 DEF Paid!ReviewIsWhole
<1> QED
  BY <1>1, <1>2, <1>3, PTL DEF Paid!Spec
=============================================================================
