-------------------------- MODULE ReviewTransport --------------------------
(***************************************************************************)
(* One call of a reviewer's command line client.                           *)
(*                                                                         *)
(* The pinned executable and the subscription credentials are read once,   *)
(* checked, and copied into a private directory; the copy is run with a    *)
(* deadline and a bound on its output; what it wrote becomes a report only *)
(* if the stream shows one session, the model asked for and no tool.       *)
(* Files change and the client writes, fails, hangs and floods as it will. *)
(***************************************************************************)
EXTENDS Naturals, Sequences, FiniteSets, SequencesExt

CONSTANTS
  Vendors,      \* the clients there is a transport for
  MaxEvents,    \* bound: events a client writes
  MaxOutput     \* events that fit in the output bound

\* What a stream must show is known for these.
VendorAssumption == Vendors \subseteq {"codex", "claude", "gemini", "antigravity", "copilot"}

VARIABLES
  vendor,
  binary,       \* the installed executable: pinned or other
  auth,         \* the credentials: closed (of the expected form), open or absent
  private,      \* the copies: [binary, auth]
  output,       \* the events the client has written
  drained,      \* how many were read from the pipe
  overflow,     \* a reader met the bound
  child,        \* none, running, done, failed (nonzero) or killed
  step, answer

vars == <<vendor, binary, auth, private, output, drained, overflow, child, step, answer>>

\* session: the client's own session is announced, with its model; foreign: another
\* session (Copilot: another prompt); drift: another model is named; failure: the
\* turn failed; junk: no event.
Kinds == {"session", "foreign", "tool", "drift", "failure", "report", "junk"}
Seen == SubSeq(output, 1, drained)

Init ==
  /\ vendor \in Vendors
  /\ binary \in {"pinned", "other", "absent"} /\ auth \in {"closed", "open", "absent"}
  /\ private = [binary |-> "none", auth |-> "none"]
  /\ output = << >> /\ drained = 0 /\ overflow = FALSE /\ child = "none"
  /\ step = "pin" /\ answer = "none"

End(a) == answer' = a /\ step' = "over"
Process == <<output, drained, overflow, child>>

-----------------------------------------------------------------------------
(* Preparation *)

\* Somebody upgrades the client or logs in again.
Replace ==
  /\ step \notin {"over", "run"}
  /\ \/ binary' = "other" /\ binary # "other" /\ UNCHANGED auth
     \/ auth' = "open" /\ auth # "open" /\ UNCHANGED binary
  /\ UNCHANGED <<vendor, private, Process, step, answer>>

\* trusted_executable: the bytes are read once and compared with the pin.
Pin ==
  /\ step = "pin"
  /\ CASE binary = "pinned" -> private' = [private EXCEPT !.binary = binary]
                               /\ step' = "home" /\ UNCHANGED answer
       [] binary = "other" -> End("UNVERIFIED") /\ UNCHANGED private
       [] binary = "absent" -> End("UNAVAILABLE") /\ UNCHANGED private
  /\ UNCHANGED <<vendor, binary, auth, Process>>

\* Whose credentials are a file; the others' stay in the system's keyring.
HasFile(v) == v \in {"codex", "claude", "gemini"}
\* transport_home and its kin: validated bytes are what is copied.
Home ==
  /\ step = "home"
  /\ CASE ~HasFile(vendor) -> step' = "start" /\ UNCHANGED <<private, answer>>
       [] HasFile(vendor) /\ auth = "closed" ->
            private' = [private EXCEPT !.auth = auth] /\ step' = "start" /\ UNCHANGED answer
       [] HasFile(vendor) /\ auth = "open" -> End("UNVERIFIED") /\ UNCHANGED private
       [] HasFile(vendor) /\ auth = "absent" -> End("UNAVAILABLE") /\ UNCHANGED private
  /\ UNCHANGED <<vendor, binary, auth, Process>>

\* Where the arguments are not pinned with the version, the client's help must name them.
HasSmoke(v) == v \in {"gemini", "antigravity", "copilot"}
Start ==
  /\ step = "start"
  /\ \/ child' = "running" /\ step' = "run" /\ UNCHANGED answer
     \/ HasSmoke(vendor) /\ End("UNVERIFIED") /\ UNCHANGED child
     \/ HasSmoke(vendor) /\ End("UNAVAILABLE") /\ UNCHANGED child
  /\ UNCHANGED <<vendor, binary, auth, private, output, drained, overflow>>

-----------------------------------------------------------------------------
(* run_bounded_process, its streams *)

Write ==
  /\ child = "running" /\ Len(output) < MaxEvents
  /\ \E k \in Kinds : output' = Append(output, k)
  /\ UNCHANGED <<vendor, binary, auth, private, drained, overflow, child, step, answer>>
Exit ==
  /\ child = "running" /\ child' \in {"done", "failed"}
  /\ UNCHANGED <<vendor, binary, auth, private, output, drained, overflow, step, answer>>

\* A reader keeps what fits and stops at the first byte beyond.
Drain ==
  /\ step \in {"run", "join"} /\ drained < Len(output) /\ ~overflow
  /\ IF drained < MaxOutput
     THEN drained' = drained + 1 /\ UNCHANGED overflow
     ELSE overflow' = TRUE /\ UNCHANGED drained
  /\ UNCHANGED <<vendor, binary, auth, private, output, child, step, answer>>

\* The wait: the child has ended, the bound is met, or the deadline is; in the
\* last two cases it is killed.
Kill == child' = IF child = "running" THEN "killed" ELSE child
Poll ==
  /\ step = "run"
  /\ \/ child # "running" /\ step' = "join" /\ UNCHANGED <<child, answer>>
     \/ overflow /\ Kill /\ step' = "join" /\ UNCHANGED answer
     \/ Kill /\ End("UNAVAILABLE")
  /\ UNCHANGED <<vendor, binary, auth, private, output, drained, overflow>>

\* Mutant: an output that met the bound leaves the return code alone.
FloodPasses == child = "done"

\* The return code: 125 if the child succeeded but its output was cut.
Succeeded == child = "done" /\ ~overflow

-----------------------------------------------------------------------------
(* What each client's stream must show *)

Once(k, s) == Cardinality({i \in DOMAIN s : s[i] = k}) = 1
\* The last session event, if any, decides which session Codex reports.
LastSession(s) ==
  LET marks == {i \in DOMAIN s : s[i] \in {"session", "foreign"}} IN
    IF marks = {} THEN "none" ELSE s[CHOOSE i \in marks : \A j \in marks : j <= i]

NoTool(s) == ~Contains(s, "tool")
\* run_codex_review: lines that are no events are passed over; session and model
\* are compared with the one rollout file.
CodexShows(s) ==
  /\ NoTool(s) /\ ~Contains(s, "failure")
  /\ LastSession(s) = "session" /\ ~Contains(s, "drift") /\ Contains(s, "report")
\* run_claude_review: one object, no denied call, one model used.
ClaudeShows(s) ==
  /\ NoTool(s) /\ ~Contains(s, "failure") /\ ~Contains(s, "junk") /\ ~Contains(s, "drift")
  /\ Contains(s, "session") /\ Contains(s, "report")
\* _gemini_stream_report: the one init event bears the session that was given.
GeminiShows(s) ==
  /\ NoTool(s) /\ ~Contains(s, "failure") /\ ~Contains(s, "junk")
  /\ Once("session", s) /\ ~Contains(s, "foreign") /\ Contains(s, "report")
\* _antigravity_stream_report: neither session nor model may change.
AntigravityShows(s) ==
  /\ NoTool(s) /\ ~Contains(s, "failure") /\ ~Contains(s, "junk") /\ ~Contains(s, "drift")
  /\ Contains(s, "session") /\ ~Contains(s, "foreign") /\ Contains(s, "report")
\* _copilot_stream_report: one prompt, one answer, one model throughout.
CopilotShows(s) ==
  /\ NoTool(s) /\ ~Contains(s, "failure") /\ ~Contains(s, "junk") /\ ~Contains(s, "drift")
  /\ Once("session", s) /\ ~Contains(s, "foreign") /\ Once("report", s)
Shows(s) == CASE vendor = "codex" -> CodexShows(s)
              [] vendor = "claude" -> ClaudeShows(s)
              [] vendor = "gemini" -> GeminiShows(s)
              [] vendor = "antigravity" -> AntigravityShows(s)
              [] vendor = "copilot" -> CopilotShows(s)

\* classify_cli_failure: an outage is told by words in the output; anything else,
\* and anything too long, is unverified.
Classify == {"UNVERIFIED"} \cup (IF overflow THEN {} ELSE {"UNAVAILABLE"})

\* A failure event of Codex is classified too; so is Gemini's missing model.
Verdicts(s) ==
  IF Shows(s) THEN {"report"}
  ELSE {"UNVERIFIED"} \cup
       (IF \/ (vendor = "codex" /\ Contains(s, "failure"))
           \/ (vendor = "gemini" /\ ~Contains(s, "session"))
        THEN {"UNAVAILABLE"} ELSE {})

\* Once the readers are through, the output is judged.
Judge ==
  /\ step = "join" /\ (overflow \/ drained = Len(output))
  /\ IF Succeeded
     THEN \E a \in Verdicts(Seen) : End(a)
     ELSE \E a \in Classify : End(a)
  /\ UNCHANGED <<vendor, binary, auth, private, Process>>

Next == \/ Replace \/ Pin \/ Home \/ Start \/ Write \/ Exit \/ Drain \/ Poll \/ Judge
Spec == Init /\ [][Next]_vars

-----------------------------------------------------------------------------
\* A report is the whole answer of a client that ended by itself: nothing it wrote,
\* read or cut, was a tool call or a failure of the turn, the session it shows is
\* the call's own, and the bytes that ran are the pinned ones though the installed
\* file may have been replaced meanwhile.
ReportIsClean ==
  answer = "report" =>
    /\ child = "done" /\ private.binary = "pinned"
    /\ HasFile(vendor) => private.auth = "closed"
    /\ NoTool(output) /\ ~Contains(output, "failure") /\ Contains(output, "session")
=============================================================================
