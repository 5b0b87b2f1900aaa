----------------------------- MODULE FreeReview -----------------------------
(***************************************************************************)
(* The keyless review route of the free reviewer producer.                 *)
(*                                                                         *)
(* One invocation reviews a frozen candidate, directly or unit by unit     *)
(* with a final integration call, and mints a signed phase-one receipt if  *)
(* everything came back clean.  Every prompt is appended to a ledger       *)
(* before it is sent.  Unit verdicts survive in a signed checkpoint,       *)
(* negative outcomes in immutable observation files, and a transport that  *)
(* never answered may be replaced once by a standby model.  Invocations    *)
(* with the same output paths share all these files, one after another or  *)
(* at once, and may die at any point.                                      *)
(***************************************************************************)
EXTENDS Naturals, Sequences, FiniteSets

CONSTANTS
  Cands,        \* frozen candidates
  UnitsOf,      \* UnitsOf[c]: how many units c's review has; 0: a direct review
  Invocations,
  Nothing,      \* no file
  MaxLosses,    \* bound: transports that do not answer
  MaxKills      \* bound: invocations that die

\* A file that is missing is told from one that is there.
RouteAssumption ==
  /\ Cands # {} /\ UnitsOf \in [Cands -> Nat]
  /\ MaxLosses \in Nat /\ MaxKills \in Nat
  /\ Nothing \notin [cand : Cands, model : {"primary", "standby"}]
  /\ Nothing \notin [ctx : [cand : Cands, model : {"primary", "standby"}],
                      rows : Seq({"clean", "finding"}), fresh : BOOLEAN]

VARIABLES
  checkpoint,   \* the live route checkpoint, or nothing
  archive,      \* foreign checkpoints, kept by content
  legacy,       \* the context the first negative observation names, or nothing
  history,      \* contexts with a negative observation of their own
  prompts,      \* the prompt ledger file
  receipts,     \* phase-one receipts minted
  step, me,     \* each invocation: where it stands and what it holds
  before,       \* history: the checkpoint, archive and observations it found
  overlap,      \* history: two invocations have run at once
  losses, killed

files == <<checkpoint, archive, legacy, history>>
vars == <<checkpoint, archive, legacy, history, prompts, receipts, step, me, before,
          overlap, losses, killed>>

\* The reviewer is the primary model or the standby; a context is what the
\* checkpoint and the observations are bound to.
Context(c, model) == [cand |-> c, model |-> model]
Preserved == history \cup (IF legacy = Nothing THEN {} ELSE {legacy})

Fresh(c) == [ctx |-> Context(c, "primary"), rows |-> << >>, answered |-> FALSE,
             degraded |-> FALSE, path |-> "none", sent |-> << >>, out |-> "none"]
Ended == {"idle", "over", "dead"}

Init ==
  /\ checkpoint = Nothing /\ archive = {} /\ legacy = Nothing /\ history = {}
  /\ prompts = << >> /\ receipts = {}
  /\ step = [r \in Invocations |-> "idle"]
  /\ me = [r \in Invocations |-> Fresh(CHOOSE c \in Cands : TRUE)]
  /\ before = [r \in Invocations |-> [checkpoint |-> Nothing, archive |-> {}, preserved |-> {}]]
  /\ overlap = FALSE /\ losses = 0 /\ killed = 0

Goto(r, s) == step' = [step EXCEPT ![r] = s]
Exit(r, o) == Goto(r, "over") /\ me' = [me EXCEPT ![r].out = o]
Units(r) == UnitsOf[me[r].ctx.cand]
Begin(c) == IF UnitsOf[c] = 0 THEN "send" ELSE "guard"

\* A new invocation empties the prompt ledger.
Start(r) ==
  /\ step[r] = "idle"
  /\ \E c \in Cands : me' = [me EXCEPT ![r] = Fresh(c)] /\ Goto(r, Begin(c))
  /\ prompts' = << >>
  /\ before' = [before EXCEPT ![r] = [checkpoint |-> checkpoint, archive |-> archive,
                                      preserved |-> Preserved]]
  /\ overlap' = (overlap \/ \E q \in Invocations : step[q] \notin Ended)
  /\ UNCHANGED <<files, receipts, losses, killed>>

\* _guard_negative_observation: a preserved outcome of this very context refuses
\* the route; otherwise the place of a new one is chosen.
Guard(r) ==
  /\ step[r] = "guard"
  /\ IF me[r].ctx \in Preserved
     THEN Exit(r, "BLOCKED")
     ELSE /\ Goto(r, "load")
          /\ me' = [me EXCEPT ![r].path = IF legacy = Nothing THEN "legacy" ELSE "history"]
  /\ UNCHANGED <<files, prompts, receipts, before, overlap, losses, killed>>

\* Mutant: a foreign checkpoint is passed over without a copy.
LoadForgets(r) ==
  /\ step[r] = "load" /\ Goto(r, "send")
  /\ me' = [me EXCEPT ![r].rows = IF checkpoint # Nothing /\ checkpoint.ctx = me[r].ctx
                                  THEN checkpoint.rows ELSE << >>]
  /\ UNCHANGED <<files, prompts, receipts, before, overlap, losses, killed>>

\* _archive_foreign_route_checkpoint: kept by content, created once.
Archived(k) == archive \cup {k}
\* _validate_foreign_route_checkpoint and the checks that follow for this context.
Restorable(k, ctx) == k.ctx = ctx /\ k.fresh

\* _load_route_checkpoint: units of this context are restored; a checkpoint of
\* another is archived; a stale one is left in place and refused.
Load(r) ==
  /\ step[r] = "load"
  /\ \/ /\ checkpoint = Nothing
        /\ Goto(r, "send") /\ UNCHANGED <<me, archive>>
     \/ /\ checkpoint # Nothing /\ checkpoint.ctx # me[r].ctx
        /\ archive' = Archived(checkpoint)
        /\ Goto(r, "send") /\ UNCHANGED me
     \/ /\ checkpoint # Nothing /\ checkpoint.ctx = me[r].ctx
        /\ IF Restorable(checkpoint, me[r].ctx)
           THEN Goto(r, "send") /\ me' = [me EXCEPT ![r].rows = checkpoint.rows]
           ELSE Exit(r, "UNVERIFIED")
        /\ UNCHANGED archive
  /\ UNCHANGED <<checkpoint, legacy, history, prompts, receipts, before, overlap,
                 losses, killed>>

-----------------------------------------------------------------------------
(* Sending and answers *)

\* A unit's prompt does not depend on the reviewer; the integration prompt names
\* every unit report.
UnitPrompt(c, n) == [cand |-> c, call |-> n, reports |-> << >>]
IntegrationPrompt(c, rows) == [cand |-> c, call |-> 0, reports |-> rows]
Prompt(r) ==
  IF Len(me[r].rows) < Units(r)
  THEN UnitPrompt(me[r].ctx.cand, Len(me[r].rows) + 1)
  ELSE IntegrationPrompt(me[r].ctx.cand, me[r].rows)

\* PromptLedger.record: durable before the transport sees it.
Send(r) ==
  /\ step[r] = "send"
  /\ prompts' = Append(prompts, Prompt(r))
  /\ me' = [me EXCEPT ![r].sent = Append(@, Prompt(r))]
  /\ Goto(r, "await")
  /\ UNCHANGED <<files, receipts, before, overlap, losses, killed>>

\* The verdict of a unit.
AnswerUnit(r) ==
  /\ step[r] = "await" /\ Len(me[r].rows) < Units(r)
  /\ \E v \in {"clean", "finding"} :
       me' = [me EXCEPT ![r].rows = Append(@, v), ![r].answered = TRUE]
  /\ Goto(r, "save")
  /\ UNCHANGED <<files, prompts, receipts, before, overlap, losses, killed>>

\* _write_route_checkpoint: the file is replaced, whosever it was.
Save(r) ==
  /\ step[r] = "save"
  /\ checkpoint' = [ctx |-> me[r].ctx, rows |-> me[r].rows, fresh |-> TRUE]
  /\ Goto(r, "send")
  /\ UNCHANGED <<archive, legacy, history, prompts, receipts, me, before, overlap,
                 losses, killed>>

\* _aggregate_hierarchical_report: every finding of a unit stays.
Aggregate(rows, v) ==
  IF v = "clean" /\ \A n \in 1..Len(rows) : rows[n] = "clean" THEN "PASSED" ELSE "BLOCKED"

\* The verdict of the direct or the integration call.
AnswerLast(r) ==
  /\ step[r] = "await" /\ Len(me[r].rows) = Units(r)
  /\ \E v \in {"clean", "finding"} :
       LET passed == Aggregate(me[r].rows, v) = "PASSED" IN
         IF Units(r) = 0
         THEN IF passed THEN Goto(r, "mint") /\ me' = [me EXCEPT ![r].answered = TRUE]
                        ELSE Exit(r, "BLOCKED")
         ELSE /\ Goto(r, IF passed THEN "recheck" ELSE "negative")
              /\ me' = [me EXCEPT ![r].answered = TRUE]
  /\ UNCHANGED <<files, prompts, receipts, before, overlap, losses, killed>>

\* transport_fallback_permitted: only a primary that has given no verdict in this
\* attempt is replaced.
Fallback(r) == me[r].ctx.model = "primary" /\ ~me[r].answered

\* Mutant: the standby's attempt takes over the guard of the primary's.
LoseUnguarded(r) ==
  /\ step[r] = "await" /\ losses < MaxLosses /\ losses' = losses + 1
  /\ IF Fallback(r)
     THEN /\ me' = [me EXCEPT ![r].ctx.model = "standby", ![r].rows = << >>,
                              ![r].degraded = TRUE, ![r].answered = FALSE]
          /\ Goto(r, IF Units(r) = 0 THEN "send" ELSE "load")
     ELSE Exit(r, "UNAVAILABLE")
  /\ UNCHANGED <<files, prompts, receipts, before, overlap, killed>>

\* The transport does not answer: the standby starts its own attempt, or the
\* invocation ends UNAVAILABLE.
Lose(r) ==
  /\ step[r] = "await" /\ losses < MaxLosses /\ losses' = losses + 1
  /\ IF Fallback(r)
     THEN /\ me' = [me EXCEPT ![r].ctx.model = "standby", ![r].rows = << >>,
                              ![r].degraded = TRUE, ![r].answered = FALSE]
          /\ Goto(r, Begin(me[r].ctx.cand))
     ELSE Exit(r, "UNAVAILABLE")
  /\ UNCHANGED <<files, prompts, receipts, before, overlap, killed>>

-----------------------------------------------------------------------------
(* The end of a route *)

Taken(r) == IF me[r].path = "legacy" THEN legacy # Nothing ELSE me[r].ctx \in history
Mine(r) == IF me[r].path = "legacy" THEN legacy = me[r].ctx ELSE me[r].ctx \in history

\* Mutant: the observation replaces one that another invocation put there.
NegativeReplaces(r) ==
  /\ step[r] = "negative"
  /\ legacy' = IF me[r].path = "legacy" THEN me[r].ctx ELSE legacy
  /\ history' = IF me[r].path = "history" THEN history \cup {me[r].ctx} ELSE history
  /\ Exit(r, "BLOCKED")
  /\ UNCHANGED <<checkpoint, archive, prompts, receipts, before, overlap, losses, killed>>

\* _write_negative_observation: created once at the place chosen by the guard; if
\* another context has taken it meanwhile, the route is UNVERIFIED.
Negative(r) ==
  /\ step[r] = "negative"
  /\ legacy' = IF me[r].path = "legacy" /\ ~Taken(r) THEN me[r].ctx ELSE legacy
  /\ history' = IF me[r].path = "history" THEN history \cup {me[r].ctx} ELSE history
  /\ Exit(r, IF Taken(r) /\ ~Mine(r) THEN "UNVERIFIED" ELSE "BLOCKED")
  /\ UNCHANGED <<checkpoint, archive, prompts, receipts, before, overlap, losses, killed>>

\* A clean route looks once more at the place chosen by the guard.
Recheck(r) ==
  /\ step[r] = "recheck"
  /\ IF Taken(r) /\ Mine(r) THEN Exit(r, "BLOCKED") ELSE Goto(r, "unlink") /\ UNCHANGED me
  /\ UNCHANGED <<files, prompts, receipts, before, overlap, losses, killed>>

\* The live checkpoint is unlinked, whosever it is.
Unlink(r) ==
  /\ step[r] = "unlink"
  /\ checkpoint' = Nothing
  /\ Goto(r, "mint")
  /\ UNCHANGED <<archive, legacy, history, prompts, receipts, me, before, overlap,
                 losses, killed>>

\* _prompt_ledger_binding: of a direct review, one entry, or two if degraded.
Shaped(r) == Units(r) = 0 => Len(me[r].sent) = IF me[r].degraded THEN 2 ELSE 1
\* _bind_prompt_ledger: every entry is a prompt of the artifact that is signed.
Bound(r) ==
  \A n \in 1..Len(me[r].sent) :
    me[r].sent[n].call = 0 => me[r].sent[n] = IntegrationPrompt(me[r].ctx.cand, me[r].rows)
\* verify_prompt_ledger, on the file as it is now.
Verified(r) == prompts = me[r].sent

\* Mutant: the receipt is not compared with the ledger on disk.
MintUnverified(r) ==
  /\ step[r] = "mint"
  /\ receipts' = receipts \cup {[ctx |-> me[r].ctx, by |-> r, sent |-> me[r].sent,
                                 degraded |-> me[r].degraded, ledger |-> prompts]}
  /\ Exit(r, "PASSED")
  /\ UNCHANGED <<files, prompts, before, overlap, losses, killed>>

\* phase_one_receipt and the self-check of the ledger before publication.
Mint(r) ==
  /\ step[r] = "mint"
  /\ IF Shaped(r) /\ Bound(r) /\ Verified(r)
     THEN /\ receipts' = receipts \cup {[ctx |-> me[r].ctx, by |-> r, sent |-> me[r].sent,
                                         degraded |-> me[r].degraded, ledger |-> prompts]}
          /\ Exit(r, "PASSED")
     ELSE Exit(r, "UNVERIFIED") /\ UNCHANGED receipts
  /\ UNCHANGED <<files, prompts, before, overlap, losses, killed>>

Die(r) ==
  /\ step[r] \notin Ended /\ killed < MaxKills /\ killed' = killed + 1
  /\ Goto(r, "dead")
  /\ UNCHANGED <<files, prompts, receipts, me, before, overlap, losses>>

\* MAX_ROUTE_CHECKPOINT_AGE passes.
Age ==
  /\ checkpoint # Nothing /\ checkpoint.fresh
  /\ checkpoint' = [checkpoint EXCEPT !.fresh = FALSE]
  /\ UNCHANGED <<archive, legacy, history, prompts, receipts, step, me, before, overlap,
                 losses, killed>>

Next ==
  \/ Age
  \/ \E r \in Invocations :
       \/ Start(r) \/ Guard(r) \/ Load(r) \/ Send(r) \/ AnswerUnit(r) \/ Save(r)
       \/ AnswerLast(r) \/ Lose(r) \/ Negative(r) \/ Recheck(r) \/ Unlink(r) \/ Mint(r)
       \/ Die(r)

Spec == Init /\ [][Next]_vars

-----------------------------------------------------------------------------
(* What the route promises *)

\* A candidate whose negative outcome under some reviewer was on the disk when an
\* invocation began gets no receipt from that invocation under that reviewer, nor
\* after a fallback, in whatever order contexts took the two places.
PreservedBinds ==
  \A x \in receipts : UnitsOf[x.ctx.cand] > 0 => x.ctx \notin before[x.by].preserved

\* An invocation that ended BLOCKED on a hierarchical route has left, or found, the
\* observation of exactly its context, and no later or concurrent one removes it.
BlockedIsPreserved ==
  \A r \in Invocations :
    me[r].out = "BLOCKED" /\ Units(r) > 0 => me[r].ctx \in Preserved

\* A negative outcome is preserved and binds every later invocation.
NegativesBind == PreservedBinds /\ BlockedIsPreserved

\* A receipt's ledger holds exactly the prompts this invocation sent, though
\* invocations share and truncate the file: one for each unit that was not restored,
\* the last call's, and the only one of a primary that was given up.
LedgerIsExact ==
  \A x \in receipts :
    /\ x.ledger = me[x.by].sent
    /\ \A n \in 1..Len(x.ledger) : x.ledger[n].cand = x.ctx.cand
    /\ Len(x.ledger) <= UnitsOf[x.ctx.cand] + (IF x.degraded THEN 2 ELSE 1)

Extends(k, rows) == \E n \in 0..Len(rows) : k = SubSeq(rows, 1, n)
\* As long as invocations do not overlap, a finding that reached the checkpoint is
\* never lost: it stays there or in the archive, over crashes, fallbacks, changed
\* candidates and age.
FindingsSurvive ==
  [][~overlap' /\ checkpoint # Nothing /\ "finding" \in {checkpoint.rows[n] : n \in 1..Len(checkpoint.rows)}
     => \/ checkpoint' # Nothing /\ checkpoint'.ctx = checkpoint.ctx
             /\ Extends(checkpoint.rows, checkpoint'.rows)
        \/ \E k \in archive' : k.ctx = checkpoint.ctx /\ k.rows = checkpoint.rows]_vars

\* transport_fallback_permitted: "The swap is a transport remedy, never a second
\* opinion: a returned verdict - BLOCKED included - closes the leg on the model
\* that issued it, so the route can never shop for a friendlier reviewer."
NoSecondOpinion ==
  \A x \in receipts :
    x.ctx.model = "standby" =>
      LET k == before[x.by].checkpoint IN
        ~(k # Nothing /\ k.ctx = Context(x.ctx.cand, "primary")
            /\ "finding" \in {k.rows[n] : n \in 1..Len(k.rows)})
=============================================================================
