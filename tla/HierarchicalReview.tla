------------------------ MODULE HierarchicalReview ------------------------
(***************************************************************************)
(* From a comparison of two commits to the recorded evidence of a paid     *)
(* review: build_candidate reads the changed files from GitHub, and         *)
(* _review_units divides their canonical diff when it is too large for one  *)
(* request.  ReviewerAdapter.review has every unit and then the whole       *)
(* judged.  _write_review admits the evidence to the store only when plan,  *)
(* prompts, requests and verdicts agree.                                    *)
(*                                                                          *)
(* A diff is a sequence of files, a file a path and its lines.  A line has  *)
(* its size, the size it has inside a JSON string, and whether it contains  *)
(* one of the line separators that JSON leaves alone (U+0085, U+2028,       *)
(* U+2029); a verdict has its status, and whether its text contains one.    *)
(* A path stands in the header of its file's diff, so one with a separator  *)
(* is a line with a separator.  A hash is the value it is taken of.         *)
(***************************************************************************)
EXTENDS Naturals, Sequences, FiniteSets, SequencesExt, ListWalks

CONSTANTS
  Comparisons,  \* sequences of changed files: [path, row, lines]; row is "exact", or what
                \* is wrong with the file
  ApiCap,       \* COMPARE_FILES_API_CAP: rows GitHub returns at most
  MaxFiles,     \* candidate.maxFiles
  MaxRaw,       \* candidate.maxRawDiffBytes, the bound of a unit
  MaxWhole,     \* candidate.maxHierarchicalRawDiffBytes
  MaxUnits,     \* candidate.maxReviewUnits
  CallLimit,    \* budget.maxHierarchicalProviderCalls
  Verdicts      \* what a reviewer may answer: [verdict, separator]

VARIABLES
  changed,   \* GitHub: what the two commits differ in
  stage,     \* "compare", "review", "integrate", "record"; ends "refused", ...
  diff,      \* the canonical diff: [path, lines] of every file
  units,     \* the units: [record, slice]
  evidence,  \* what review collects: [prompts, requests, verdicts]
  calls      \* history: provider calls answered
vars == <<changed, stage, diff, units, evidence, calls>>

\* A line ends with its line feed, and a file's diff has its header: neither is empty.
Line == [raw : Nat \ {0}, encoded : Nat, separator : BOOLEAN]
File ==
  [path : STRING, row : {"exact", "incomplete", "opaque", "differs", "sensitive"},
   lines : Seq(Line) \ {<<>>}]
\* A path that is listed twice is one of the things wrong with a row.
DivisionAssumption ==
  /\ {ApiCap, MaxFiles, MaxRaw, MaxWhole, MaxUnits, CallLimit} \subseteq Nat
  /\ Comparisons \subseteq Seq(File)
  /\ Verdicts \subseteq [verdict : STRING, separator : BOOLEAN]
  /\ \A rows \in Comparisons :
       \A i, j \in 1..Len(rows) : rows[i].row = "exact" /\ rows[i].path = rows[j].path => i = j

Raw(lines) == Total([i \in DOMAIN lines |-> lines[i].raw])
Encoded(lines) == Total([i \in DOMAIN lines |-> lines[i].encoded])
Lines(chunks) == FlattenSeq([i \in DOMAIN chunks |-> chunks[i].lines])
\* One unit has room for these lines: for their bytes, and as JSON if that is looked at.
Room(lines, json) == Raw(lines) <= MaxRaw /\ (json => Encoded(lines) <= MaxRaw)
Fits(lines) == Room(lines, TRUE)

Init ==
  /\ changed \in Comparisons
  /\ stage = "compare" /\ diff = <<>> /\ units = <<>>
  /\ evidence = [prompts |-> <<>>, requests |-> <<>>, verdicts |-> <<>>]
  /\ calls = 0

-----------------------------------------------------------------------------
(* _compare_files, build_candidate *)

Listed == SubSeq(changed, 1, IF Len(changed) < ApiCap THEN Len(changed) ELSE ApiCap)
\* Mutant: a full page of files is taken for the whole list.
FewEnough(rows) == rows # <<>> /\ Len(rows) <= ApiCap
\* A list shorter than the API's limit is complete.
ListingIsComplete(rows) == rows # <<>> /\ Len(rows) < ApiCap /\ Len(rows) <= MaxFiles
\* Size and Git hash of the decoded blob are those GitHub states.
BlobIsComplete(file) == file.row # "incomplete"
\* Text, or a gzip of JSON lines, which is reviewed unpacked.
IsReadable(file) == file.row # "opaque"
\* A known status, a path of its own, and blobs that are those of the comparison.
RowIsExact(file) == BlobIsComplete(file) /\ IsReadable(file) /\ file.row # "differs"
\* scrub would change nothing: no candidate with a secret in it leaves the broker.
IsClean(file) == file.row # "sensitive"
CanonicalDiff(rows) == [i \in DOMAIN rows |-> [path |-> rows[i].path, lines |-> rows[i].lines]]

BuildCandidate ==
  /\ stage = "compare"
  /\ IF /\ ListingIsComplete(Listed)
        /\ \A i \in DOMAIN Listed : RowIsExact(Listed[i]) /\ IsClean(Listed[i])
     THEN stage' = "divide" /\ diff' = CanonicalDiff(Listed)
     ELSE stage' = "refused" /\ UNCHANGED diff
  /\ UNCHANGED <<changed, units, evidence, calls>>

-----------------------------------------------------------------------------
(* _review_units *)

\* A packing: the units closed so far, and the open one as chunks of files.
Empty == [closed |-> <<>>, open |-> <<>>]
Flush(p) == IF p.open = <<>> THEN p ELSE [closed |-> Append(p.closed, p.open), open |-> <<>>]
Extend(chunks, path, lines) ==
  IF chunks # <<>> /\ Last(chunks).path = path
  THEN [chunks EXCEPT ![Len(chunks)].lines = @ \o lines]
  ELSE Append(chunks, [path |-> path, lines |-> lines])
Put(p, path, lines, json) ==
  LET q == IF p.open # <<>> /\ ~ Room(Lines(p.open) \o lines, json) THEN Flush(p) ELSE p IN
  [q EXCEPT !.open = Extend(@, path, lines)]
PutLines(p, file, json) ==
  LET put[n \in 0..Len(file.lines)] ==
        IF n = 0 THEN p ELSE Put(put[n - 1], file.path, <<file.lines[n]>>, json)
  IN put[Len(file.lines)]
PutFile(p, file, json) ==
  IF ~ json /\ Room(file.lines, json) THEN Put(p, file.path, file.lines, json)
  ELSE PutLines(p, file, json)
Packed(files, json) ==
  LET packed[n \in 0..Len(files)] ==
        IF n = 0 THEN Empty ELSE PutFile(packed[n - 1], files[n], json)
  IN Flush(packed[Len(files)]).closed

\* Complete files while they fit, the lines of a file that fits no unit.
ByFile(files) == Packed(files, FALSE)
\* Line by line, when some unit of the first packing is too large as JSON.
ByLine(files) == Packed(files, TRUE)
Packing(files) ==
  IF \A i \in DOMAIN ByFile(files) : Fits(Lines(ByFile(files)[i]))
  THEN ByFile(files) ELSE ByLine(files)

\* Which segment of its path unit i holds, of how many.
Holding(packing, path) ==
  {i \in DOMAIN packing : \E j \in DOMAIN packing[i] : packing[i][j].path = path}
Segment(packing, i, path) ==
  LET holding == Holding(packing, path) IN
  [index |-> Cardinality({j \in holding : j <= i}), count |-> Cardinality(holding)]
UnitOf(packing, i) ==
  LET chunks == packing[i]
      start == Raw(FlattenSeq([j \in 1..i - 1 |-> Lines(packing[j])])) IN
  [slice |-> Lines(chunks),
   record |-> [id |-> i, hash |-> Lines(chunks), bytes |-> Raw(Lines(chunks)),
               start |-> start, end |-> start + Raw(Lines(chunks)),
               paths |-> [j \in DOMAIN chunks |-> chunks[j].path],
               segments |-> [j \in DOMAIN chunks |-> Segment(packing, i, chunks[j].path)]]]

Whole == Lines(diff)
\* Sent as one request: small as it is, and small as JSON.
Direct == Fits(Whole)
Coverage(packing) ==
  /\ Len(packing) <= MaxUnits
  /\ FlattenSeq([i \in DOMAIN packing |-> Lines(packing[i])]) = Whole
  /\ \A i \in DOMAIN packing : Fits(Lines(packing[i]))

\* planned_provider_calls is asked before anything is reserved.
Divide ==
  /\ stage = "divide"
  /\ LET packing == IF Direct THEN <<diff>> ELSE Packing(diff)
         planned == IF Len(packing) = 1 THEN 1 ELSE Len(packing) + 1 IN
     IF Direct \/ (Raw(Whole) <= MaxWhole /\ Coverage(packing) /\ planned <= CallLimit)
     THEN stage' = "review" /\ units' = [i \in DOMAIN packing |-> UnitOf(packing, i)]
     ELSE stage' = "refused" /\ UNCHANGED units
  /\ UNCHANGED <<changed, diff, evidence, calls>>

-----------------------------------------------------------------------------
(* ReviewerAdapter.review *)

Plan == [bytes |-> Raw(Whole), units |-> [i \in DOMAIN units |-> units[i].record]]
UnitPrompt(i) == [binding |-> units[i].record, plan |-> Plan, diff |-> units[i].slice]
IntegrationPrompt == [plan |-> Plan, verdicts |-> evidence.verdicts]
Answered(prompt, kind, id, verdict) ==
  [evidence EXCEPT !.prompts = Append(@, prompt),
                   !.requests = Append(@, [kind |-> kind, id |-> id, prompt |-> prompt,
                                           verdict |-> verdict])]

\* Next to an answer, a call ends the review unanswered (AmbiguousReviewerError), or a
\* request too large or too dear is never sent; process settles either one (Budget).
GivesUp ==
  /\ stage' \in {"ambiguous", "unsent"}
  /\ UNCHANGED evidence

ReviewUnit ==
  LET i == Len(evidence.requests) + 1 IN
  /\ stage = "review"
  /\ \/ /\ \E v \in Verdicts :
             evidence' = [Answered(UnitPrompt(i), "unit", i, v) EXCEPT !.verdicts = Append(@, v)]
        /\ stage' = IF Direct THEN "record"
                    ELSE IF i = Len(units) THEN "integrate" ELSE "review"
        /\ calls' = calls + 1
     \/ GivesUp /\ UNCHANGED calls
  /\ UNCHANGED <<changed, diff, units>>

Integrate ==
  /\ stage = "integrate"
  /\ \/ /\ \E v \in Verdicts :
             evidence' = Answered(IntegrationPrompt, "integration", 0, v)
        /\ stage' = "record"
        /\ calls' = calls + 1
     \/ GivesUp /\ UNCHANGED calls
  /\ UNCHANGED <<changed, diff, units>>

-----------------------------------------------------------------------------
(* _write_review *)

UnitRequests ==
  Picked(evidence.requests,
         {k \in DOMAIN evidence.requests : evidence.requests[k].kind = "unit"})
\* One request for each unit, then one integration.
RequestsAreClosed ==
  LET requests == evidence.requests IN
  /\ Len(requests) \in 2..CallLimit
  /\ \A k \in DOMAIN requests : requests[k].kind = "integration" <=> k = Len(requests)
  /\ Len(requests) = Len(Plan.units) + 1
PlanIsBound == MaxRaw < Plan.bytes /\ Plan.bytes <= MaxWhole
\* The units lie one behind the other, and cover the whole.
UnitsAreContiguous ==
  LET records == Plan.units IN
  /\ \A i \in DOMAIN records :
       /\ records[i].id = i /\ records[i].bytes \in 1..MaxRaw
       /\ records[i].start = IF i = 1 THEN 0 ELSE records[i - 1].end
       /\ records[i].end = records[i].start + records[i].bytes
       /\ IsInjective(records[i].paths)
       /\ \A j \in DOMAIN records[i].paths :
            \E k \in DOMAIN diff : diff[k].path = records[i].paths[j]
  /\ Last(records).end = Plan.bytes
SegmentsAreCounted ==
  LET records == Plan.units
      holding(path) == {i \in DOMAIN records : path \in ToSet(records[i].paths)} IN
  \A i \in DOMAIN records : \A j \in DOMAIN records[i].paths :
    LET path == records[i].paths[j] IN
    records[i].segments[j] =
      [index |-> Cardinality({h \in holding(path) : h <= i}), count |-> Cardinality(holding(path))]
CoverageAgrees ==
  /\ [k \in DOMAIN UnitRequests |-> UnitRequests[k].id] = [i \in DOMAIN Plan.units |-> Plan.units[i].id]
  /\ Len(evidence.prompts) = Len(evidence.requests)
  /\ evidence.verdicts = [k \in DOMAIN UnitRequests |-> UnitRequests[k].verdict]
\* prompt_field splits the stored prompt into lines at every separator Python knows,
\* so a separator in a slice, or in one of the verdicts, breaks the field that holds it.
FieldIsReadable(texts) == \A k \in DOMAIN texts : ~ texts[k].separator
PromptsAreBound ==
  \A k \in DOMAIN evidence.requests :
    LET request == evidence.requests[k]
        prompt == evidence.prompts[k] IN
    /\ request.prompt = prompt
    /\ IF request.kind = "unit"
       THEN /\ FieldIsReadable(prompt.diff)
            /\ prompt.binding = Plan.units[request.id]
            /\ prompt.diff = prompt.binding.hash
       ELSE /\ FieldIsReadable(prompt.verdicts)
            /\ prompt = [plan |-> Plan, verdicts |-> evidence.verdicts]
EvidenceAgrees ==
  /\ RequestsAreClosed /\ PlanIsBound /\ UnitsAreContiguous /\ SegmentsAreCounted
  /\ CoverageAgrees /\ PromptsAreBound

WriteReview ==
  /\ stage = "record"
  /\ stage' = IF Direct \/ EvidenceAgrees THEN "recorded" ELSE "unrecorded"
  /\ UNCHANGED <<changed, diff, units, evidence, calls>>

Next == BuildCandidate \/ Divide \/ ReviewUnit \/ Integrate \/ WriteReview
Spec == Init /\ [][Next]_vars

-----------------------------------------------------------------------------
(* What a paid review has to be *)

UnitPrompts ==
  Picked(evidence.prompts,
         {k \in DOMAIN evidence.prompts : "diff" \in DOMAIN evidence.prompts[k]})
\* Every line of every file the two commits differ in was read by the reviewer, once,
\* in order, in a request within the bounds, and one integration read all verdicts:
\* neither the API's page limit nor the division loses any of it.
WholeIsReviewed ==
  stage \in {"record", "recorded", "unrecorded"} =>
    /\ FlattenSeq([k \in DOMAIN UnitPrompts |-> UnitPrompts[k].diff]) = Lines(changed)
    /\ \A k \in DOMAIN UnitPrompts : Fits(UnitPrompts[k].diff)
    /\ calls = IF Len(UnitPrompts) = 1 THEN 1 ELSE Len(UnitPrompts) + 1
\* A prompt tells of each path in how many segments, and which, the units divide it: the
\* reviewer of one is told truly that the others are read beside it.
SegmentsAreTold ==
  \A k \in DOMAIN UnitPrompts :
    LET record == UnitPrompts[k].binding IN
    \A j \in DOMAIN record.paths :
      LET seen == {i \in DOMAIN units : record.paths[j] \in ToSet(units[i].record.paths)} IN
      /\ record.segments[j].count = Cardinality(seen)
      /\ \A i \in seen : \A h \in seen : \A between \in i..h : between \in seen
\* What _write_review refuses after every call is paid is known: a diff that was divided
\* because its JSON exceeds the bound of a unit though the diff itself does not (the
\* policy's hierarchicalReview.activation names only the size of the diff), a line of the
\* diff that contains a Unicode line separator, and a unit's verdict whose text contains
\* one (_validate_unit refuses control characters only).  Any other answered review is
\* recorded.
RefusalIsKnown ==
  stage = "unrecorded" =>
    \/ Raw(Whole) <= MaxRaw
    \/ \E k \in DOMAIN Whole : Whole[k].separator
    \/ \E k \in DOMAIN evidence.verdicts : evidence.verdicts[k].separator
ReviewIsWhole == WholeIsReviewed /\ SegmentsAreTold /\ RefusalIsKnown
=============================================================================
