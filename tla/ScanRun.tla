------------------------------ MODULE ScanRun ------------------------------
(***************************************************************************)
(* One scan from its analyzers to its report: run_scan (app/pipeline.py),  *)
(* the analyzers under gather (app/static/runner.py), and the review       *)
(* session (app/review/session.py) whose requests run concurrently up to a *)
(* limit.  What the stages compute is in Ingestion, Preprocessing,         *)
(* Analyzers, StaticAnalysis, Planner, Answers, Merge and Report; how a    *)
(* model is found is Router's, and what happens to an event that is        *)
(* emitted EventLog's.                                                     *)
(*                                                                         *)
(* A step is what happens between two awaits.  The main task emits what is *)
(* in its outbox, one event after the other, before it goes on.            *)
(***************************************************************************)
EXTENDS Analyzers, Answers, Ingestion, Merge, Preprocessing, Report, StaticAnalysis, ScanStore

CONSTANTS
  Outputs(_, _),  \* Outputs(t, files): how analyzer t may end with these files
  Contents,       \* Contents[f]: the lines and the top-level nodes of file f
  MinConfidence,  \* below it, findings of models alone are not reported
  Scans,          \* what is scanned: an upload and the depth the user asks for
  MaxCalls,       \* max_review_calls
  Concurrency,    \* options.concurrency
  MaxShown,       \* MAX_STATIC_FINDINGS
  Replies(_, _),  \* how a review or style request for a chunk may be answered
  Verdicts,       \* how a request to verify may be answered
  Endings,        \* how the request for a summary may be answered
  MaxDecided      \* bound: how many findings a reviewer decides on

\* A reply is the attempts of the router, each a model and a status, and an answer
\* of the last of these models, or none.
ASSUME RunAssumption ==
  /\ Concurrency \in Nat \ {0}
  /\ MaxCalls \in Nat
  /\ \A s \in Scans : s.depth \in DOMAIN VerifyFrom

\* A file is a number, and so many lines and nodes of a syntax tree.
ASSUME ContentsAssumption ==
  /\ DOMAIN Contents \subseteq Int
  /\ \A f \in DOMAIN Contents :
       /\ IsList(Contents[f].lines) /\ \A line \in Range(Contents[f].lines) : IsLine(line)
       /\ IsList(Contents[f].nodes) /\ Range(Contents[f].nodes) \subseteq Nodes
       /\ InSourceOrder(Contents[f].nodes)

\* Every entry is a file of its own.  An archive calls an entry a folder by its name; what
\* is uploaded as a single file does not grow any more; and in a directory there is one
\* entry of each path, with others below it only if it is a folder.
ASSUME UploadAssumption ==
  \A s \in Scans :
    LET entries == s.upload.entries
        Path(i) == PathOf(entries[i].name)
    IN  /\ s.upload.kind \in {"archive", "file", "directory"}
        /\ IsList(entries)
        /\ \A e \in Range(entries) : IsEntry(e) /\ e.file \in DOMAIN Contents
        /\ \A i, j \in 1..Len(entries) : entries[i].file = entries[j].file => i = j
        /\ s.upload.kind = "archive" =>
             \A e \in Range(entries) : e.kind # "special" /\ (e.kind = "folder" => e.name.folder)
        /\ s.upload.kind = "file" =>
             Len(entries) = 1 /\ entries[1].kind = "file" /\ entries[1].actual <= entries[1].size
        /\ s.upload.kind = "directory" =>
             \A i, j \in 1..Len(entries) :
               /\ Path(i) = Path(j) => i = j
               /\ Path(i) \in Parents(Path(j)) => entries[i].kind = "folder"

VARIABLES
  scan,      \* what is scanned, a member of Scans
  source,    \* what ingestion left in the source directory
  chunks,    \* the chunks of its files, in the order of the code
  at,        \* where the main task stands
  outbox,    \* what it emits before it goes on
  tools,     \* what each analyzer is doing, and its result
  static,    \* the static findings
  sources,   \* session._sources: the lines of every reviewed file, secrets masked
  findings,  \* the findings as they are now
  requests,  \* the requests of this stage, in the order of the plan
  stats,     \* ReviewStats
  calls,     \* session._calls
  browser,   \* what a browser shows that follows the scan
  report     \* the report, once there is one

vars == <<scan, source, chunks, at, outbox, tools, static, sources, findings, requests, stats, calls,
          browser, report>>

depth == scan.depth
Ended == {"done", "failed", "cancelled"}

Stage(s) == [kind |-> "stage", stage |-> s]
ToolEvent(t, s, n) == [kind |-> "tool", tool |-> t, state |-> s, count |-> n]
FindingEvents(fs) == [i \in DOMAIN fs |-> [kind |-> "finding", finding |-> fs[i]]]

NoStats == [chunks |-> 0, skipped |-> 0, failed |-> 0, found |-> 0, discarded |-> 0,
            judgements |-> 0, verified |-> 0, disputed |-> 0, unverified |-> 0]

Init ==
  /\ scan \in Scans
  /\ source = Nothing
  /\ chunks = <<>>
  /\ at = "ingesting"
  /\ outbox = <<Stage("ingesting")>>
  /\ tools = [t \in Range(Analyzers) |-> [state |-> "ready", result |-> NoResult]]
  /\ static = <<>>
  /\ sources = <<>>
  /\ findings = <<>>
  /\ requests = <<>>
  /\ stats = NoStats
  /\ calls = <<>>
  /\ browser = EmptyStore
  /\ report = Null

Emit ==
  /\ outbox # <<>>
  /\ browser' = Apply(browser, Head(outbox))
  /\ outbox' = Tail(outbox)
  /\ UNCHANGED <<scan, source, chunks, at, tools, static, sources, findings, requests, stats, calls, report>>

\* The main task goes from one place to the next and emits these events there.
Go(from, to, events) ==
  /\ at = from
  /\ outbox = <<>>
  /\ at' = to
  /\ outbox' = events
  /\ UNCHANGED <<scan, browser>>

-----------------------------------------------------------------------------
(* Up to the static findings.                                              *)

Extracted == [u \in {s.upload : s \in Scans} |-> Ingested(u)]

Ingest ==
  /\ at = "ingesting"
  /\ source' = Extracted[scan.upload]
  /\ IF Extracted[scan.upload].rejected = "none"
     THEN Go("ingesting", "preprocessing", <<Stage("preprocessing")>>)
     ELSE Go("ingesting", "failed", <<>>)
  /\ UNCHANGED <<chunks, tools, static, sources, findings, requests, stats, calls, report>>

\* The files of the source directory, and those in a language that is reviewed, in
\* the order of their paths.
FilesIn(dir) == {f.entry.file : f \in Range(dir.files)}
ReviewedIn(dir) ==
  Arranged({f.entry.file : f \in {f \in Range(dir.files) : Language(f) # NoLanguage}},
           LAMBDA f, g : f < g)
Files == FilesIn(source)
Reviewed == ReviewedIn(source)

\* preprocess_source
ChunksOf ==
  [f \in DOMAIN Contents |->
     LET code == Contents[f]
         count == Len(code.lines)
     IN  BuildChunks(f, SegmentFile(code.nodes, count), HeaderRanges(code.nodes),
                     PartialRegions(code.nodes, count), {n \in 1..count : code.lines[n].size = 0})]

ChunksIn(dir) == FlattenSeq([i \in DOMAIN ReviewedIn(dir) |-> ChunksOf[ReviewedIn(dir)[i]]])

\* What comes from outside has the form that the code reads it in: a tool's output, and
\* the reply to a request, which comes from the model of its last attempt.
ReplyOf(reply) ==
  /\ IsList(reply.attempts) /\ \A i \in 1..Len(reply.attempts) : reply.attempts[i].by \in Models
  /\ reply.answer # Null => Len(reply.attempts) > 0

ASSUME OutputAssumption ==
  \A s \in Scans, t \in Range(Analyzers) :
    \A output \in Outputs(t, FilesIn(Extracted[s.upload])) : OutputOf(t, output)
ASSUME ReplyAssumption ==
  /\ \A s \in Scans, task \in {"review", "style"} :
       \A c \in Range(ChunksIn(Extracted[s.upload])) : \A reply \in Replies(task, c) :
         ReplyOf(reply) /\ (reply.answer # Null => AnswerOf(reply.answer))
  /\ \A reply \in Verdicts :
       /\ ReplyOf(reply)
       /\ reply.answer # Null => /\ reply.answer.corrected \in Severities \cup {NoSeverity}
                                 /\ reply.answer.confidence \in 0..10
  /\ \A reply \in Endings : ReplyOf(reply)

Preprocess ==
  /\ Go("preprocessing", "analyzing", <<Stage("analyzing")>>)
  /\ chunks' = ChunksIn(source)
  /\ UNCHANGED <<source, tools, static, sources, findings, requests, stats, calls, report>>

\* The languages that names in the source directory say.
Languages == {NameLanguage(f) : f \in Range(source.files)}

\* _run_analyzer, each task in its turn: the analyzers that apply run concurrently.
StartTool(t) ==
  /\ at = "analyzing" /\ outbox = <<>>
  /\ tools[t].state = "ready"
  /\ \E i \in DOMAIN Analyzers :
       /\ Analyzers[i] = t
       /\ \A j \in 1..(i - 1) : tools[Analyzers[j]].state # "ready"
  /\ \/ /\ AppliesTo(t, Languages)
        /\ tools' = [tools EXCEPT ![t].state = "running"]
        /\ browser' = Apply(browser, ToolEvent(t, "started", 0))
     \/ /\ ~ AppliesTo(t, Languages)
        /\ tools' = [tools EXCEPT ![t].state = "over"]
        /\ browser' = Apply(browser, ToolEvent(t, "skipped", 0))
  /\ UNCHANGED <<scan, source, chunks, at, outbox, static, sources, findings, requests, stats, calls, report>>

\* It is done, has timed out, is not installed or has failed.
EndTool(t) ==
  /\ tools[t].state = "running"
  /\ \E output \in Outputs(t, Files) : \E result \in {Result(t, output)} :
       /\ tools' = [tools EXCEPT ![t] = [state |-> "over", result |-> result]]
       /\ browser' = Apply(browser, ToolEvent(t, Status(t, output), Len(result.findings)))
  /\ UNCHANGED <<scan, source, chunks, at, outbox, static, sources, findings, requests, stats, calls, report>>

Values == UNION {tools[t].result.values : t \in Range(Analyzers)}

\* All analyzers are over.
Analyze ==
  /\ at = "analyzing"
  /\ \A t \in Range(Analyzers) : tools[t].state = "over"
  /\ \E found \in {Combined([i \in DOMAIN Analyzers |-> tools[Analyzers[i]].result.findings],
                           Values, [f \in Files |-> Contents[f].lines])} :
       /\ Go("analyzing", "analyzed", FindingEvents(found))
       /\ static' = found
       /\ findings' = found
  /\ UNCHANGED <<source, chunks, tools, sources, requests, stats, calls, report>>

-----------------------------------------------------------------------------
(* Requests of the review session.                                         *)

Request(task, about) ==
  [task |-> task, about |-> about, state |-> "waiting", records |-> <<>>, reply |-> Null]

Calling == {i \in DOMAIN requests : requests[i].state = "calling"}

\* A plausible slip: a request that no provider could answer keeps its slot.
OccupiedForEver ==
  Calling \cup {i \in DOMAIN requests :
                  requests[i].state \in {"emitting", "over"} /\ requests[i].reply.answer = Null}

\* Who holds the session's semaphore.
Occupied == Calling

\* _limited: in the order of the plan, as slots become free.
StartRequest(i) ==
  /\ outbox = <<>>
  /\ requests[i].state = "waiting"
  /\ \A j \in 1..(i - 1) : requests[j].state # "waiting"
  /\ Cardinality(Occupied) < Concurrency
  /\ requests' = [requests EXCEPT ![i].state = "calling"]
  /\ UNCHANGED <<scan, source, chunks, at, outbox, tools, static, sources, findings, stats, calls, browser, report>>

ShownTo(r) == Shown(r.about, r.task, static, MaxShown)

\* The model that answered.
By(reply) == Last(reply.attempts).by

\* What review_chunk or verify_finding makes of the reply.
ResultOf(i) ==
  LET r == requests[i]
      answer == r.reply.answer
  IN  CASE answer = Null /\ r.task = "verify" -> NotVerified(r.about)
        [] answer = Null /\ r.task # "verify" -> NoReview
        [] answer # Null /\ r.task = "verify" -> ApplyVerdict(r.about, answer, By(r.reply))
        [] OTHER -> ReviewOf(answer, i, r.task, r.about, sources[r.about.file], ShownTo(r), By(r.reply))

Results == [i \in DOMAIN requests |-> ResultOf(i)]

\* A plausible slip: the reporters are not excluded.
AnybodyMayAnswer(r) ==
  CASE r.task \in {"review", "style"} -> Replies(r.task, r.about)
    [] r.task = "verify" -> Verdicts
    [] r.task = "summarize" -> Endings

\* What the router may do: a request to verify excludes the finding's reporters, and
\* an answer the validator rejects is an attempt that failed.
MayAnswer(r) ==
  CASE r.task \in {"review", "style"} ->
         {reply \in Replies(r.task, r.about) : reply.answer # Null => Usable(reply.answer)}
    [] r.task = "verify" ->
         {reply \in Verdicts : \A i \in DOMAIN reply.attempts :
                                 reply.attempts[i].by \notin r.about.sources}
    [] r.task = "summarize" -> Endings

\* The call record of an attempt.
CallRecord(i, attempt) ==
  [task |-> requests[i].task, place |-> i, by |-> attempt.by, status |-> attempt.status]

\* A request is over: it frees its slot, and its records join the session's.
EndRequest(i) ==
  /\ requests[i].state = "calling"
  /\ \E reply \in MayAnswer(requests[i]) :
       LET records == [n \in DOMAIN reply.attempts |-> CallRecord(i, reply.attempts[n])]
       IN  /\ requests' = [requests EXCEPT
                ![i] = [@ EXCEPT !.state = IF records = <<>> THEN "over" ELSE "emitting",
                                 !.records = records,
                                 !.reply = reply]]
           /\ calls' = calls \o records
  /\ UNCHANGED <<scan, source, chunks, at, outbox, tools, static, sources, findings, stats, browser, report>>

\* Its records are emitted one by one, while other requests end and emit theirs.
EmitCall(i) ==
  /\ requests[i].state = "emitting"
  /\ browser' = Apply(browser, [kind |-> "llm_call", call |-> Head(requests[i].records)])
  /\ LET r == requests[i]
     IN  requests' = [requests EXCEPT
           ![i] = [r EXCEPT !.records = Tail(r.records),
                            !.state = IF Len(r.records) = 1 THEN "over" ELSE "emitting"]]
  /\ UNCHANGED <<scan, source, chunks, at, outbox, tools, static, sources, findings, stats, calls, report>>

\* gather has all results.
AllOver == \A i \in DOMAIN requests : requests[i].state = "over"

-----------------------------------------------------------------------------
(* Stages of the session, and the end.                                     *)

\* What the report is made from, see Report.
Project ==
  LET measured == UNION {tools[t].result.measured : t \in Range(Analyzers)}
  IN  [files |-> {[file |-> f, lines |-> Len(Contents[f].lines),
                   source |-> Max({0} \cup {m.source : m \in {m \in measured : m.file = f}})] :
                     f \in Range(Reviewed)},
       min |-> MinConfidence,
       functions |-> UNION {tools[t].result.functions : t \in Range(Analyzers)}]

Plan == PlanReview(chunks, static, Project.functions, depth, MaxCalls)

\* The pipeline skips the review of a static scan.  Otherwise the plan is announced
\* and its requests begin, reviews before style.
Finish(from) ==
  /\ Go(from, "finishing", <<Stage("done")>>)
  /\ requests' = <<>>

StaticOnly ==
  /\ depth = "static"
  /\ Finish("analyzed")
  /\ UNCHANGED <<source, chunks, tools, static, sources, findings, stats, calls, report>>

BeginReview ==
  /\ depth # "static"
  /\ Go("analyzed", "reviewing",
        <<Stage("reviewing"),
          [kind |-> "review_plan",
           plan |-> [review |-> Len(Plan.review), style |-> Len(Plan.style),
                     skipped |-> Plan.skipped]]>>)
  /\ requests' = [i \in DOMAIN Plan.review |-> Request("review", Plan.review[i])]
                   \o [i \in DOMAIN Plan.style |-> Request("style", Plan.style[i])]
  /\ sources' = [f \in {c.file : c \in Range(Plan.review \o Plan.style)} |->
                   MaskLines(SecretIndex(static, Values), f, Contents[f].lines)]
  /\ UNCHANGED <<source, chunks, tools, static, findings, stats, calls, report>>

\* All that the requests found, in the order of the plan.
Judgements(results) == FlattenSeq([i \in DOMAIN results |-> results[i].judgements])
AiFindings(results) == FlattenSeq([i \in DOMAIN results |-> results[i].findings])

\* _emit_changed: those that are new or not as they were.
Changed(before, after) == Kept(after, LAMBDA f : f \notin Range(before))

Count(results, Test(_)) == Cardinality({i \in DOMAIN results : Test(results[i])})

MergeReviews ==
  /\ AllOver
  /\ at = "reviewing"
  /\ \E results \in {Results} :
     \E judged \in {Judgements(results)}, new \in {AiFindings(results)} :
     \E reviewed \in {MergeFindings(ApplyJudgements(static, judged), new)} :
       /\ Go("reviewing", "reviewed", FindingEvents(Changed(static, reviewed)))
       /\ findings' = reviewed
       /\ stats' = [stats EXCEPT
            !.chunks = Cardinality({requests[i].about : i \in DOMAIN requests}),
            !.skipped = Plan.skipped,
            !.failed = Count(results, LAMBDA r : r.failed),
            !.found = Len(new),
            !.discarded = MapThenSumSet(LAMBDA i : results[i].discarded, DOMAIN results),
            !.judgements = Len(judged)]
  /\ UNCHANGED <<source, chunks, tools, static, sources, requests, calls, report>>

\* The findings that a second model checks, in files that were read.
Targets ==
  Kept(findings, LAMBDA f :
    NeedsVerification(f, VerifyFrom[depth]) /\ f.file \in DOMAIN sources)

BeginVerification ==
  /\ Go("reviewed", "verifying", <<Stage("verifying")>>)
  /\ requests' = [i \in DOMAIN Targets |-> Request("verify", Targets[i])]
  /\ UNCHANGED <<source, chunks, tools, static, sources, findings, stats, calls, report>>

\* A plausible slip: a finding is announced only if it was confirmed.
AnnouncedIfConfirmed(results) == SelectSeq(results, LAMBDA f : f.verified # {})

Announced(results) == results

\* The finding, as its verification left it.
Updated(f, results) ==
  IF \E i \in DOMAIN results : results[i].id = f.id
  THEN results[CHOOSE i \in DOMAIN results : results[i].id = f.id]
  ELSE f

EndVerification ==
  /\ AllOver
  /\ at = "verifying"
  /\ \E results \in {Results} :
       /\ Go("verifying", "verified", FindingEvents(Announced(results)))
       /\ findings' = [i \in DOMAIN findings |-> Updated(findings[i], results)]
       /\ stats' = [stats EXCEPT
            !.verified = Count(results, LAMBDA f : f.verified # {}),
            !.disputed = Count(results, LAMBDA f : f.status = "needs_review"),
            !.unverified = Count(results, LAMBDA f : f.note = "unverified")]
  /\ UNCHANGED <<source, chunks, tools, static, sources, requests, calls, report>>

BeginSummary ==
  /\ Go("verified", "summarizing", <<Stage("summarizing")>>)
  /\ requests' = <<Request("summarize", Null)>>
  /\ UNCHANGED <<source, chunks, tools, static, sources, findings, stats, calls, report>>

\* result: most severe first.
EndReview ==
  /\ AllOver
  /\ Finish("summarizing")
  /\ findings' = Ordered(findings)
  /\ UNCHANGED <<source, chunks, tools, static, sources, stats, calls, report>>

\* ScanManager._run makes the report of what run_scan returns.
MakeReport ==
  /\ Go("finishing", "done", <<>>)
  /\ \E project \in {Project} : report' = BuildReport(findings, project)
  /\ UNCHANGED <<source, chunks, tools, static, sources, findings, requests, stats, calls>>

\* The scan is cancelled: gather cancels what it waits for, and all they know is lost.
Cancel ==
  /\ at \notin Ended
  /\ at' = "cancelled"
  /\ outbox' = <<>> /\ requests' = <<>> /\ calls' = <<>>
  /\ static' = <<>> /\ sources' = <<>> /\ findings' = <<>> /\ stats' = NoStats
  /\ tools' = [t \in DOMAIN tools |-> [state |-> "over", result |-> NoResult]]
  /\ UNCHANGED <<scan, source, chunks, browser, report>>

\* Findings whose status is a reviewer's.
Decided == {j \in DOMAIN findings : report.findings[j].status # findings[j].status}

\* A reviewer decides on a finding of the finished scan; to decide the same again
\* changes nothing.
Decide(i, status) ==
  /\ at = "done"
  /\ report.findings[i].status # status
  /\ Cardinality(Decided \cup {i}) <= MaxDecided
  /\ report' = SetFindingStatus(report, report.findings[i].id, status, Project)
  /\ UNCHANGED <<scan, source, chunks, at, outbox, tools, static, sources, findings, requests, stats, calls, browser>>

MainStep ==
  \/ Emit \/ Ingest \/ Preprocess \/ Analyze \/ StaticOnly \/ BeginReview
  \/ MergeReviews \/ BeginVerification \/ EndVerification \/ BeginSummary \/ EndReview
  \/ MakeReport

ToolStep(t) == StartTool(t) \/ EndTool(t)
RequestStep(i) == StartRequest(i) \/ EndRequest(i) \/ EmitCall(i)
AnyRequest == \E i \in DOMAIN requests : RequestStep(i)

Next ==
  \/ MainStep
  \/ \E t \in Range(Analyzers) : ToolStep(t)
  \/ AnyRequest
  \/ Cancel
  \/ \E status \in ReviewerStatuses :
       at = "done" /\ \E i \in DOMAIN report.findings : Decide(i, status)

\* The event loop runs every task that can go on; analyzers are stopped when their
\* time is up, and so is every call of the router.
Fairness ==
  /\ WF_vars(MainStep)
  /\ WF_vars(AnyRequest)
  /\ \A t \in Range(Analyzers) : WF_vars(ToolStep(t))

Spec == Init /\ [][Next]_vars /\ Fairness

-----------------------------------------------------------------------------
(* Properties.                                                             *)

Places == {"ingesting", "preprocessing", "analyzing", "analyzed", "reviewing", "reviewed",
           "verifying", "verified", "summarizing", "finishing", "done", "failed", "cancelled"}

IsFinding(f) ==
  /\ f.first <= f.last
  /\ f.category \in Categories
  /\ f.severity \in Severities
  /\ f.status \in FindingStatuses
  /\ f.sources # {}
  /\ f.confidence \in 0..10

\* The state has the shape of the code's, no two findings have the same id, and the
\* browser keeps no more activity than it means to.
TypeOK ==
  /\ at \in Places
  /\ \A t \in DOMAIN tools : tools[t].state \in {"ready", "running", "over"}
  /\ \A fs \in {static, findings} :
       /\ \A f \in Range(fs) : IsFinding(f)
       /\ Cardinality({f.id : f \in Range(fs)}) = Len(fs)
  /\ \A i \in DOMAIN requests :
       requests[i].state \in {"waiting", "calling", "emitting", "over"}
  /\ stats \in [DOMAIN NoStats -> Nat]
  /\ Len(browser.activity) <= ActivityLimit

\* zipsafe.py:1-9, directory.py:66-73: whatever an upload claims, what ingestion leaves
\* on disk are regular files under distinct names inside the directory - for an archive,
\* names that no system takes for one another -, within the limits; nothing of an
\* archive that is rejected; and of what is accepted, every file or the reason it was skipped.
IngestSafe ==
  LET Path(i) == source.files[i].path
      Name(i) == IF scan.upload.kind = "archive" THEN Key(Path(i)) ELSE Path(i)
      files == DOMAIN source.files
      Place(e) == PathOf(IF scan.upload.kind = "file" THEN BaseName(e.name) ELSE e.name)
      Visited(e) == \A i \in DOMAIN source.skipped :
                      source.skipped[i].path \notin Parents(Place(e))
  IN  /\ source.rejected # "none" /\ scan.upload.kind = "archive" => files = {}
      /\ Cardinality(files) <= Limits.files
      /\ scan.upload.kind # "file" => Written(source) <= Limits.total
      /\ \A i \in files :
           /\ source.files[i].entry.kind = "file"
           /\ source.files[i].entry.actual <= Limits.file
           /\ Path(i) # <<>> /\ Range(Path(i)) \cap {"..", "", "."} = {}
           /\ \A j \in files \ {i} : Name(j) \notin Parents(Name(i)) \cup {Name(i)}
      /\ source # Nothing /\ source.rejected = "none" =>
           \A e \in Range(scan.upload.entries) :
             e.kind = "file" /\ Visited(e) =>
               (\E i \in files : source.files[i].entry.file = e.file)
                 # (\E i \in DOMAIN source.skipped : source.skipped[i].path = Place(e))

\* structure.py:1-13, chunker.py: every line with code is in the body of exactly one
\* chunk, no body is too long, what is shown above it comes before it, within the
\* limit, and the lines of a body that failed to parse are marked, the last line for
\* what is missing behind it.
CodeCovered ==
  at = "analyzing" =>
    \A f \in Range(Reviewed) :
      LET own == {i \in DOMAIN chunks : chunks[i].file = f}
          lines == Contents[f].lines
          LinesOf(ranges) == UNION {r.first..r.last : r \in Range(ranges)}
          broken == {Smaller(n, Len(lines)) : n \in LinesOf(Errors(Contents[f].nodes))}
      IN  /\ \A n \in DOMAIN lines : lines[n].size > 0 =>
               Cardinality({i \in own : n \in chunks[i].first..chunks[i].last}) = 1
          /\ \A i \in own :
               LET c == chunks[i]
               IN  /\ Length(c) <= MaxLines
                   /\ \A n \in LinesOf(c.context) : n \in 1..(c.first - 1)
                   /\ Cardinality(LinesOf(c.context)) <= MaxContextLines
                   /\ LinesOf(c.partial) = broken \cap c.first..c.last

\* What detectors say is secret of a file: lines that one reported, and lines that hold a
\* value that one detected.
ToolReports == UNION {Range(tools[t].result.findings) : t \in Range(Analyzers)}
SecretLines(f, values, reported) ==
  {n \in DOMAIN Contents[f].lines :
     \/ Contents[f].lines[n].secret \in values
     \/ \E r \in reported : r.redacted /\ r.file = f /\ n \in r.first..r.last}

\* The inside of the first key block of a file.
KeyLines(f) ==
  {n \in DOMAIN Contents[f].lines :
     \E b \in Larger(1, n - MaxKeyBlock)..(n - 1) :
       /\ Contents[f].lines[b].key = "begin"
       /\ \A m \in 1..n : m = b \/ Contents[f].lines[m].key = "no"}

\* What is legible in these texts is what other lines of the file say.
Hides(f, hidden, texts) ==
  {t \in texts : t > 0} \subseteq
    {Contents[f].lines[n].says : n \in DOMAIN Contents[f].lines \ hidden}

\* findings.py:79, "Never contains a detected secret", and redaction.py:1-13: all that
\* is legible in the evidence of a finding or in code that models see is what lines of
\* that file say that no detector reported and that hold no value that one detected,
\* in code nor the inside of the first key block.
SecretsHidden ==
  \E values \in {Values}, reported \in {ToolReports} :
    /\ \A f \in Range(findings) :
         Hides(f.file, SecretLines(f.file, values, reported), f.evidence)
    /\ \A f \in DOMAIN sources :
         Hides(f, SecretLines(f, values, reported) \cup KeyLines(f),
               {line.says : line \in Range(sources[f])})

Reviews(task) == {requests[i].about : i \in {i \in DOMAIN requests : requests[i].task = task}}

\* planner.py:93-113 and session.py:113: never more calls in flight than allowed nor
\* more review calls than the budget, which goes to the riskiest chunks, and to
\* style only what reviews leave of it.
BudgetKept ==
  /\ Cardinality(Calling) <= Concurrency
  /\ at = "reviewing" =>
       /\ Len(requests) <= MaxCalls
       /\ \A c \in Reviews("review"), d \in Range(chunks) \ Reviews("review") :
            Risk(c, static, Project.functions) >= Risk(d, static, Project.functions)
       /\ Reviews("style") # {} => Reviews("review") = Range(chunks)
       /\ Thorough(depth) /\ Len(requests) < MaxCalls => Reviews("style") = Range(chunks)

\* docs/review.md:91: a model alone neither dismisses a serious security finding
\* of a tool nor lowers its severity, whatever several models say in whatever order.
SeriousStays ==
  \A f \in Range(static) : Protected(f) =>
    \A g \in Range(findings) : g.id = f.id =>
      g.severity >= f.severity /\ g.status # "dismissed_by_ai"

\* docs/review.md:90-92: what a tool reported stays in the list, and every grounded
\* issue of a model is there too, on its own or in a finding of the same place and
\* kind that names the model, that is not dismissed and, unless a tool rated it,
\* no less severe.
NothingLost ==
  at \in {"reviewed", "verified", "done"} =>
    /\ \A f \in Range(static) : \E g \in Range(findings) :
         g.id = f.id /\ f.sources \subseteq g.sources
    /\ at = "reviewed" =>
         \A new \in Range(AiFindings(Results)) : \E g \in Range(findings) :
           /\ SameIssue(g, new)
           /\ new.sources \subseteq g.sources
           /\ g.status # "dismissed_by_ai"
           /\ AiOnly(g) => g.severity >= new.severity

\* docs/review.md, verification: a model never vouches for what it reported itself,
\* and a serious issue that only models reported has been checked by another one,
\* or says that it could not be.
CrossChecked ==
  at = "done" /\ depth # "static" =>
    \A f \in Range(findings) :
      /\ f.verified \cap f.sources = {}
      /\ AiOnly(f) /\ f.status = "open" /\ f.severity >= VerifyFrom[depth] =>
           f.verified # {} \/ f.note # "none"

StageOrder ==
  <<"ingesting", "preprocessing", "analyzing">>
    \o (IF depth = "static" THEN <<>> ELSE <<"reviewing", "verifying", "summarizing">>)

\* events.py:71, "A later event with the same id replaces it", and scan-store.ts: when
\* the last event is there, the browser shows the findings of the result, every
\* call the session recorded, every analyzer once and the stages in order.
ShownIsResult ==
  at \in {"finishing", "done"} /\ outbox = <<>> =>
    LET store == browser
    IN  /\ Range(store.findings) = Range(findings)
        /\ Range(store.calls) = Range(calls) /\ Len(store.calls) = Len(calls)
        /\ {e.tool : e \in Range(store.tools)} = Range(Analyzers)
        /\ Len(store.tools) = Len(Analyzers)
        /\ \A e \in Range(store.tools) :
             e.state # "started" /\ e.count = Len(tools[e.tool].result.findings)
        /\ store.finished = StageOrder /\ store.stage = "done"
        /\ depth # "static" => store.plan.skipped = stats.skipped

SumOver(S, f) == MapThenSumSet(LAMBDA x : f[x], S)

\* document.py:166-195: through every decision the counts of the report are those of
\* its findings, each of which is reported or counted under exactly one reason.
ReportAddsUp ==
  report # Null =>
    LET c == report.counts
    IN  /\ c.findings + c.dismissed + c.rejected + c.below = Len(report.findings)
        /\ c.findings = SumOver(Severities, c.severity)
        /\ c.findings = SumOver(Categories, c.category)
        /\ c.rejected = Cardinality({i \in DOMAIN report.findings :
                                      report.findings[i].status = "rejected"})
        /\ report.score \in 0..100
        /\ c.findings = 0 /\ Project.functions = {} => report.score = 100

\* Every scan ends, however its analyzers and requests end.
EveryScanEnds == <>(at \in Ended)

=============================================================================
