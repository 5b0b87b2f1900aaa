---------------------------- MODULE GateDoctor ----------------------------
(***************************************************************************)
(* The gate registry and its doctor (skills/_shared/itd_gate_control.py and *)
(* the `itd gate` commands of scripts/itd.py).  gates.json is one file that *)
(* register, register-profile, adopt and unregister read, change and        *)
(* replace without a lock; the doctor takes one snapshot of it and probes,  *)
(* one read after another, the checkout, the protected base, the installed  *)
(* version, the ruleset, the signing key, the broker and the local review   *)
(* of every row, while each of them breaks and is repaired, and reports one *)
(* claim for all of them.                                                   *)
(*                                                                         *)
(* A fact is what one probe reads; the validations behind it (every field   *)
(* of a ruleset, of the contract, of the broker's answer) decide whether it *)
(* holds.                                                                   *)
(***************************************************************************)
EXTENDS Naturals, Sequences, FiniteSets

CONSTANTS Repos,      \* repositories, each under one identity whatever its spelling
          Requests,   \* the rows register and register-profile are asked to write
          Commands,   \* concurrent command-line processes that change the registry
          Nothing,
          MaxChanges  \* bound: facts that break or are repaired, repositories created

VARIABLES registry, writer, broken, inventory, doctor, never, changes
vars == <<registry, writer, broken, inventory, doctor, never, changes>>

Protections == {"local-review", "app-check", "organization-workflow"}
\* register and register-profile know these three.
RequestAssumption == \A r \in Requests : r.protection \in Protections
ClaimOf == [p \in Protections |->
  CASE p = "local-review" -> "LOCAL_REVIEWED" [] p = "app-check" -> "APP_CHECK_ENFORCED"
    [] p = "organization-workflow" -> "PROTECTED"]
ClaimOrder == [s \in {"UNVERIFIED", "LOCAL_REVIEWED", "APP_CHECK_ENFORCED", "PROTECTED"} |->
  CASE s = "UNVERIFIED" -> 0 [] s = "LOCAL_REVIEWED" -> 1 [] s = "APP_CHECK_ENFORCED" -> 2
    [] s = "PROTECTED" -> 3]

-----------------------------------------------------------------------------
(* The registry                                                            *)

\* validate_profile_registry for one row.  "evidence" is what the row carries: that of
\* a local review, that of an App, or both; "workflow" the pinned machine workflow.
LocalRow(r) == r.protection = "local-review" /\ r.deployment = "local-submission" /\ r.evidence = {"local"}
AppRow(r) ==
  /\ r.protection # "local-review" /\ r.deployment \in {"self-hosted-app", "managed-app"}
  /\ r.evidence = {"app"} /\ (r.deployment = "managed-app" => r.visibility = "public")
  /\ r.protection = "app-check" => ~r.workflow
  /\ r.protection = "organization-workflow" =>
       r.owner = "organization" /\ r.scope = "organization" /\ r.workflow
\* _validate_legacy_registry: version 1 knows the organization workflow only.
LegacyRow(r) == r.protection = "organization-workflow" /\ r.scope = "organization"
                /\ r.workflow /\ r.evidence = {"app"}
ValidRow(version, r) == IF version = 1 THEN LegacyRow(r) ELSE LocalRow(r) \/ AppRow(r)
OnePerIdentity(rows) == \A r, q \in rows : r.repository = q.repository => r = q
ValidRegistry(g) == OnePerIdentity(g.rows) /\ \A r \in g.rows : ValidRow(g.version, r)

\* persist_registry_row and persist_profile_registry_row: a new row replaces the one of
\* the same identity; a registry of the other version is refused.
With(rows, r) == {q \in rows : q.repository # r.repository} \cup {r}
Without(rows, repository) == {q \in rows : q.repository # repository}

Idle == [pc |-> "idle"]
Init ==
  /\ registry \in {Nothing, [version |-> 1, rows |-> {}], [version |-> 2, rows |-> {}]}
  /\ writer = [c \in Commands |-> Idle]
  /\ broken \in {{}} \cup {{<<s, f>>} : s \in Repos, f \in {"review", "broker"}}
  /\ inventory = {} /\ doctor = Idle /\ never = {} /\ changes = 0

Untouched == UNCHANGED <<broken, inventory, doctor, never, changes>>
\* A command reads the registry when its file exists ...
Register(c, version, r) ==
  /\ writer[c] = Idle /\ ValidRow(version, r)
  /\ registry # Nothing => registry.version = version
  /\ LET rows == IF registry = Nothing THEN {} ELSE registry.rows
     IN writer' = [writer EXCEPT ![c] = [pc |-> "write", version |-> version, rows |-> With(rows, r)]]
  /\ UNCHANGED registry /\ Untouched
Unregister(c, repository) ==
  /\ writer[c] = Idle /\ registry # Nothing /\ \E q \in registry.rows : q.repository = repository
  /\ writer' = [writer EXCEPT ![c] = [pc |-> "write", version |-> registry.version,
                                      rows |-> Without(registry.rows, repository)]]
  /\ UNCHANGED registry /\ Untouched
\* ... and save_registry validates what it made of it and replaces the file whole.
Save(c) ==
  /\ writer[c].pc = "write"
  /\ LET made == [version |-> writer[c].version, rows |-> writer[c].rows]
     IN registry' = IF ValidRegistry(made) THEN made ELSE registry
  /\ writer' = [writer EXCEPT ![c] = Idle] /\ Untouched
Killed(c) ==
  /\ writer[c].pc = "write" /\ writer' = [writer EXCEPT ![c] = Idle]
  /\ UNCHANGED registry /\ Untouched

-----------------------------------------------------------------------------
(* The world the doctor reads                                              *)

\* The probes of a row in their order: profile_doctor_entry, and doctor_entry for the
\* organization workflow, which alone reads the protected base.  The broker's answer
\* carries its readiness and the enrollment receipt.
Probes == [p \in Protections |->
  CASE p = "local-review" -> <<"version", "review">>
    [] p = "app-check" -> <<"contract", "version", "ruleset", "key", "broker">>
    [] p = "organization-workflow" -> <<"contract", "base", "version", "ruleset", "key", "broker">>]
Subject(repository, fact) == IF fact = "version" THEN <<"host", fact>> ELSE <<repository, fact>>
Subjects == {Subject(r.repository, Probes[r.protection][i]) :
              r \in Requests, i \in 1..2} \cup {<<s, f>> : s \in Repos, f \in {"ruleset", "key", "broker"}}

Change ==
  /\ changes < MaxChanges /\ changes' = changes + 1 /\ UNCHANGED <<registry, writer, doctor>>
Breaks == Change /\ \E s \in Subjects \ broken : broken' = broken \cup {s}
                 /\ UNCHANGED <<inventory, never>>
Repaired == Change /\ \E s \in broken : broken' = broken \ {s} /\ never' = never \ {s}
                   /\ UNCHANGED inventory
RepositoryCreated == Change /\ \E s \in Repos \ inventory : inventory' = inventory \cup {s}
                            /\ UNCHANGED <<broken, never>>

-----------------------------------------------------------------------------
(* The doctor                                                              *)

Quiet == UNCHANGED <<registry, writer, broken, inventory, changes>>
\* load_registry and the selection: one repository or all of them.  What a command still
\* has to write makes no difference to a snapshot already taken.
DoctorStarts(all, selected) ==
  /\ doctor = Idle /\ registry # Nothing /\ \A c \in Commands : writer[c] = Idle
  /\ LET rows == {r \in registry.rows : all \/ r.repository = selected}
     IN /\ rows # {} \/ all
        /\ doctor' = [pc |-> "rows", all |-> all, version |-> registry.version, rows |-> registry.rows,
                      todo |-> rows, selected |-> rows, row |-> Nothing, at |-> 1, drift |-> FALSE,
                      status |-> {}]
  /\ never' = broken /\ Quiet

NextRow ==
  /\ doctor.pc = "rows" /\ doctor.todo # {}
  /\ \E r \in doctor.todo :
       doctor' = [doctor EXCEPT !.pc = "probe", !.todo = @ \ {r}, !.row = r, !.at = 1, !.drift = FALSE]
  /\ UNCHANGED never /\ Quiet
\* One probe.  A drift never stops the inspection: every later probe still runs, except
\* that the broker is not asked without a readable signing key.
ProbeOf(row) == Probes[row.protection]
Probe ==
  /\ doctor.pc = "probe" /\ doctor.at <= Len(ProbeOf(doctor.row))
  /\ LET fails == Subject(doctor.row.repository, ProbeOf(doctor.row)[doctor.at]) \in broken
     IN doctor' = [doctor EXCEPT !.at = @ + 1, !.drift = @ \/ fails]
  /\ UNCHANGED never /\ Quiet
\* The status of a row is the claim of its own profile or nothing.
RowStatus(row, drift) == IF drift THEN "UNVERIFIED" ELSE ClaimOf[row.protection]
RowDone ==
  /\ doctor.pc = "probe" /\ doctor.at > Len(ProbeOf(doctor.row))
  /\ doctor' = [doctor EXCEPT !.pc = "rows", !.status = @ \cup {RowStatus(doctor.row, doctor.drift)}]
  /\ UNCHANGED never /\ Quiet

\* Mutant: the strongest status speaks for all.
Strongest(statuses) == CHOOSE s \in statuses : \A q \in statuses : ClaimOrder[s] >= ClaimOrder[q]
\* aggregate_claim: the weakest status; for a version 1 registry all or nothing.
Weakest(statuses) == CHOOSE s \in statuses : \A q \in statuses : ClaimOrder[s] <= ClaimOrder[q]
Aggregate(version, statuses) ==
  IF version = 2 THEN Weakest(statuses)
  ELSE IF statuses = {"PROTECTED"} THEN "PROTECTED" ELSE "UNVERIFIED"
\* With --all the inventory of every organization under a protected workflow is read
\* last: a repository the snapshot does not know is a row of its own, unverified.
Report ==
  /\ doctor.pc = "rows" /\ doctor.todo = {}
  /\ LET owned == doctor.all /\ \E r \in doctor.rows : r.protection = "organization-workflow"
         unknown == {s \in inventory : owned /\ \A r \in doctor.rows : r.repository # s}
         statuses == doctor.status \cup {"UNVERIFIED" : s \in unknown}
     IN doctor' = IF statuses = {} THEN [doctor EXCEPT !.pc = "FAILED"]
                  ELSE [doctor EXCEPT !.pc = Aggregate(doctor.version, statuses)]
  /\ UNCHANGED never /\ Quiet

Reported == doctor.pc \in DOMAIN ClaimOrder
Next ==
  \/ doctor = Idle   \* its snapshot taken, the doctor never reads the registry again
     /\ \/ \E c \in Commands, r \in Requests, version \in {1, 2} : Register(c, version, r)
        \/ \E c \in Commands, s \in Repos : Unregister(c, s)
        \/ \E c \in Commands : Save(c) \/ Killed(c)
  \/ doctor.pc \in {"rows", "probe"} /\ (Breaks \/ Repaired \/ RepositoryCreated)
  \/ \E all \in BOOLEAN, s \in Repos : DoctorStarts(all, s)
  \/ NextRow \/ Probe \/ RowDone \/ Report

Spec == Init /\ [][Next]_vars

-----------------------------------------------------------------------------
\* However its changes overlap, the registry stays one the doctor and the pre-push hook
\* accept: one row per repository, every row whole for its profile, and a row that
\* promises a protected workflow belongs to an organization ruleset.
RegistryStaysValid ==
  registry # Nothing =>
    /\ ValidRegistry(registry)
    /\ \A r \in registry.rows : ClaimOf[r.protection] = "PROTECTED" => r.scope = "organization" /\ r.workflow

\* The reported claim is never stronger than that of any row it covers, rests for every
\* row on facts each of which held at some moment of the inspection, and covers every
\* repository of the snapshot that was asked for.
ClaimIsEarned ==
  Reported =>
    \A r \in doctor.selected :
      /\ ClaimOrder[doctor.pc] <= ClaimOrder[ClaimOf[r.protection]]
      /\ doctor.pc # "UNVERIFIED" =>
           \A i \in 1..Len(ProbeOf(r)) : Subject(r.repository, ProbeOf(r)[i]) \notin never

\* The two together: what the doctor reports of the registered gates is so.
DoctorIsHonest == RegistryStaysValid /\ ClaimIsEarned
=============================================================================
