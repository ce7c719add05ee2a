---------------------------- MODULE EvaluationRun ----------------------------
(***************************************************************************)
(* Evaluation runs: each scans the files of a labelled dataset one by one, *)
(* several at a time, appends what it did to a log, stops for any reason   *)
(* and resumes from the log (evaluation/runner.py).  Afterwards the logs   *)
(* are scored, or a sample of their findings is rated by people.           *)
(*                                                                         *)
(* The scan and the review of a file are those of ScanRun; here they are   *)
(* what they may come to.  One evaluation command runs at a time, and      *)
(* names each file once.                                                   *)
(***************************************************************************)
EXTENDS EvaluationReport, Planner

CONSTANTS
  Idle,         \* no command is running
  Datasets,     \* the datasets there may be
  Providers,    \* PROVIDER_MODEL_SETTINGS: the names of the providers
  Asked,        \* the runs people ask for, some of which make no sense
  StaticFindings,  \* StaticFindings[f]: what the tools find in a file
  Reviewed,     \* Reviewed[f][static, style]: what a review of it may come to
  Verdicts,     \* how a model may answer a request to verify
  Concurrency,  \* files scanned at once
  MaxRounds,    \* bound: passes of a command
  Histories,    \* the logs there may be at first, and the commands that follow
  Sampled,      \* the configurations that are sampled
  SampleSize,   \* findings on the sheet
  Raters, Ratings   \* bounds: the people who rate, and how they may

VARIABLES
  dataset,
  logs,      \* logs[run]: its records, and whether the last line was cut short
  commands,  \* bound: how many more runs are started
  next,      \* what is done with the logs in the end: "score" or "rate"
  command,   \* the run being executed, or Idle
  results,   \* scores.json: the results, and those of the models in common
  sheet,     \* the findings to rate, in order
  ratings    \* ratings[rater][item]: one score of an item

vars == <<dataset, logs, commands, next, command, results, sheet, ratings>>

-----------------------------------------------------------------------------
(* What is run.                                                            *)

\* RunSpec accepts it.  A provider or a base that is not given is "".
ValidSpec(spec) ==
  /\ spec.kind \in {"model", "verify"} => spec.provider # ""
  /\ spec.kind \in {"static", "hybrid"} => spec.provider = ""
  /\ spec.provider \in Providers \cup {""}
  /\ (spec.kind = "verify") = (spec.base # "")

\* name: a base is given by its provider.
RunName(spec) ==
  CASE spec.kind = "verify" -> <<"verify", spec.base, spec.provider>>
    [] spec.kind # "verify" /\ spec.provider # "" -> <<spec.kind, spec.provider>>
    [] OTHER -> <<spec.kind>>

ReviewOnly(spec) == spec.kind = "model" \/ (spec.kind = "llm-only" /\ spec.provider # "")

Variants(spec) ==
  CASE spec.kind = "static" -> <<<<"A">>>>
    [] spec.kind = "llm-only" -> IF spec.provider = "" THEN <<<<"B">>>> ELSE <<<<"B", spec.provider>>>>
    [] spec.kind = "hybrid" -> <<<<"D">>, <<"E">>>>
    [] spec.kind = "verify" -> <<<<"E", spec.base, spec.provider>>>>
    [] OTHER -> <<<<"F", spec.provider>>>>

BaseRun(spec) == <<"model", spec.base>>
BaseVariant(spec) == <<"F", spec.base>>

\* run_for_variant
RunForVariant(variant) ==
  CASE variant[1] = "A" -> <<"static">>
    [] variant[1] = "B" -> <<"llm-only">> \o Tail(variant)
    [] variant[1] = "F" -> <<"model", variant[2]>>
    [] OTHER -> IF Len(variant) = 3 THEN <<"verify", variant[2], variant[3]>> ELSE <<"hybrid">>

Runs == {RunName(s) : s \in {s \in Asked : ValidSpec(s)}}
EmptyLog == [records |-> <<>>, torn |-> FALSE]
LogOf(run) == IF run \in DOMAIN logs THEN logs[run] ELSE EmptyLog

\* A plausible slip: the first record of a file wins.
OldestWins(records) ==
  [f \in {r.file : r \in Range(records)} |->
     records[FirstOf({i \in DOMAIN records : records[i].file = f})]]

\* load_records: the newest record of a file wins.
Newest(records) ==
  [f \in {r.file : r \in Range(records)} |->
     records[Max({i \in DOMAIN records : records[i].file = f})]]

\* A line that was cut short makes the log unreadable.
Readable(run) == ~ LogOf(run).torn

CompleteIn(run) ==
  LET newest == Newest(LogOf(run).records)
  IN  {f \in DOMAIN newest : newest[f].complete}

-----------------------------------------------------------------------------
(* What becomes of one file.                                               *)

Record(f, complete, variants, calls, stats) ==
  [file |-> f, complete |-> complete, variants |-> variants, calls |-> calls,
   failed |-> stats.failed, discarded |-> stats.discarded]
NoStats == [failed |-> 0, discarded |-> 0]

\* scan_file: what was raised is recorded.
Broken(f) == Record(f, FALSE, <<>>, <<>>, NoStats)

\* run_settings: the providers that are not disabled.
Enabled(spec) == IF spec.provider = "" THEN Providers ELSE {spec.provider}

Depth(spec) == IF spec.kind = "verify" THEN "deep" ELSE "standard"

\* The findings a verification may leave behind for f, and the call for it.
Checked(f, spec) ==
  IF ~ NeedsVerification(f, VerifyFrom[Depth(spec)]) THEN {<<f, <<>>>>}
  ELSE {<<NotVerified(f), <<>>>>}
         \cup {<<ApplyVerdict(f, v, p),
                 <<[provider |-> p, task |-> "verify", status |-> "ok", tokens |-> 1]>>>> :
                 v \in Verdicts, p \in Enabled(spec) \ f.sources}

\* ReviewSession.verify: what it may make of the findings, and its calls.
Verifications(findings, spec) ==
  LET all == UNION {Checked(f, spec) : f \in Range(findings)}
      Outcome(s) == [findings |-> [i \in DOMAIN s |-> s[i][1]],
                     calls    |-> FlattenSeq([i \in DOMAIN s |-> s[i][2]]),
                     unverified |-> Cardinality({i \in DOMAIN s : 
                        /\ NeedsVerification(findings[i], VerifyFrom[Depth(spec)])
                        /\ s[i][1].note = "unverified"})]
  IN  {Outcome(s) : s \in {s \in [DOMAIN findings -> all] :
                             \A i \in DOMAIN s : s[i] \in Checked(findings[i], spec)}}

StaticRecords(f) == {Record(f, TRUE, <<"A">> :> StaticFindings[f], <<>>, NoStats)}

\* _verify: a finding that nobody could check makes the file incomplete.
VerifyRecords(f, spec, base) ==
  {Record(f, v.unverified = 0, Variants(spec)[1] :> v.findings, v.calls, NoStats) :
     v \in Verifications(base[f], spec)}

\* What the review of the file may come to, with its tasks and its context.
ReviewsOf(f, spec) ==
  Reviewed[f][[static |-> spec.kind # "llm-only", style |-> ~ ReviewOnly(spec)]][Enabled(spec)]

ReviewRecords(f, spec) ==
  IF spec.kind = "hybrid"
  THEN UNION {{Record(f, r.failed = 0, (<<"D">> :> r.findings) @@ (<<"E">> :> v.findings),
                      r.calls \o v.calls, r) : v \in Verifications(r.findings, spec)} :
                r \in ReviewsOf(f, spec)}
  ELSE {Record(f, r.failed = 0, Variants(spec)[1] :> r.findings, r.calls, r) : r \in ReviewsOf(f, spec)}

\* _scan
ScanRecords(f, spec, base) ==
  CASE spec.kind = "static" -> StaticRecords(f)
    [] spec.kind = "verify" -> VerifyRecords(f, spec, base)
    [] OTHER -> ReviewRecords(f, spec)

-----------------------------------------------------------------------------
(* A command.                                                              *)

Init ==
  /\ dataset \in Datasets
  /\ \E h \in Histories : logs = h.logs /\ commands = h.commands /\ next = h.next
  /\ command = Idle
  /\ results = <<>>
  /\ sheet = <<>>
  /\ ratings = [r \in Raters |-> <<>>]

AnalysisUnchanged == UNCHANGED <<dataset, next, results, sheet, ratings>>

\* run_command and run, until the first pass.
Start(spec, files, fresh, rounds) ==
  /\ commands > 0
  /\ command = Idle
  /\ ValidSpec(spec)
  /\ Loads(dataset)
  /\ logs' = IF fresh THEN [logs EXCEPT ![RunName(spec)] = EmptyLog] ELSE logs
  /\ commands' = commands - 1
  /\ command' = [spec |-> spec, files |-> files, rounds |-> rounds, at |-> "between",
                 base |-> <<>>, pending |-> {}, scanning |-> {}, allComplete |-> TRUE,
                 failed |-> FALSE]
  /\ AnalysisUnchanged

\* The end of the command, whatever it comes to.
Ended == command' = Idle
Running == command # Idle
Run == RunName(command.spec)
Verifying == command.spec.kind = "verify"

\* _run_pass, until its files are scanned; without any, it is complete.
BeginPass ==
  LET readable == Readable(Run) /\ (Verifying => Readable(BaseRun(command.spec)))
      base == IF Verifying
              THEN LET run == BaseRun(command.spec)
                   IN  [f \in CompleteIn(run) |->
                          Newest(LogOf(run).records)[f].variants[BaseVariant(command.spec)]]
              ELSE <<>>
      pending == {f \in command.files \ CompleteIn(Run) : Verifying => f \in DOMAIN base}
  IN  /\ Running
      /\ command.at = "between"
      /\ IF readable /\ pending # {}
         THEN command' = [command EXCEPT !.at = "pass", !.base = base, !.pending = pending,
                                         !.allComplete = TRUE, !.rounds = @ - 1]
         ELSE Ended
      /\ UNCHANGED <<logs, commands>>
      /\ AnalysisUnchanged

InPass == Running /\ command.at = "pass"

\* The files take the semaphore in their order.
BeginScan(f) ==
  /\ InPass
  /\ command.pending # {} /\ f = FirstOf(command.pending)
  /\ Cardinality(command.scanning) < Concurrency
  /\ command' = [command EXCEPT !.pending = @ \ {f}, !.scanning = @ \cup {f}]
  /\ UNCHANGED <<logs, commands>>
  /\ AnalysisUnchanged

\* The record is appended in one step: nothing is awaited while the log is open.
\* After a line that was cut short, it is lost in that line.
EndScan(f) ==
  /\ InPass
  /\ f \in command.scanning
  /\ \E r \in ScanRecords(f, command.spec, command.base) \cup {Broken(f)} :
       /\ logs' = [logs EXCEPT ![Run].records = IF LogOf(Run).torn THEN @ ELSE Append(@, r)]
       /\ command' = [command EXCEPT !.scanning = @ \ {f}, !.allComplete = @ /\ r.complete]
  /\ UNCHANGED commands
  /\ AnalysisUnchanged

\* The disk is full: nothing or part of a line is written, and gather raises.
FailToWrite(f) ==
  /\ InPass
  /\ f \in command.scanning
  /\ \E torn \in BOOLEAN : logs' = [logs EXCEPT ![Run].torn = @ \/ torn]
  /\ command' = [command EXCEPT !.scanning = @ \ {f}, !.failed = TRUE]
  /\ UNCHANGED commands
  /\ AnalysisUnchanged

\* The pass is over; another follows unless all is complete or no round is left.
EndPass ==
  /\ InPass
  /\ command.pending = {} /\ command.scanning = {}
  /\ ~ command.failed
  /\ IF command.allComplete \/ command.rounds = 0 THEN Ended
     ELSE command' = [command EXCEPT !.at = "between"]
  /\ UNCHANGED <<logs, commands>>
  /\ AnalysisUnchanged

\* The command fails, is interrupted or dies; what is being scanned is lost.
Stop ==
  /\ Running
  /\ Ended
  /\ UNCHANGED <<logs, commands>>
  /\ AnalysisUnchanged

-----------------------------------------------------------------------------
(* What is made of the logs.  Bound: it is done once, in the end.          *)

LoadedLogs == [run \in DOMAIN logs |-> Newest(logs[run].records)]

Analysing(what) ==
  /\ command = Idle
  /\ next = what
  /\ Loads(dataset)
  /\ next' = "done"
  /\ commands' = 0
  /\ UNCHANGED <<dataset, logs, command, ratings>>

\* score_command
ScoreLogs ==
  /\ Analysing("score")
  /\ \A run \in DOMAIN logs : Readable(run)
  /\ results' = <<Evaluate(dataset, LoadedLogs, Files(dataset)),
                  CommonModelResults(dataset, LoadedLogs)>>
  /\ UNCHANGED sheet

\* sample_command
Sample ==
  /\ Analysing("rate")
  /\ \A v \in Sampled : Readable(RunForVariant(v))
  /\ sheet' \in Samples([v \in Sampled |-> Newest(LogOf(RunForVariant(v)).records)], SampleSize)
  /\ UNCHANGED results

\* A person fills in the sheet, or some of it, and read_ratings accepts it.
Rate(r) ==
  /\ ratings[r] = <<>>
  /\ \E items \in SUBSET DOMAIN sheet \ {{}} :
       \E scores \in [items -> Ratings] :
         /\ Range(scores) \subseteq Scale
         /\ ratings' = [ratings EXCEPT ![r] = scores]
  /\ UNCHANGED <<dataset, logs, commands, next, command, results, sheet>>

Next ==
  \/ \E spec \in Asked, files \in SUBSET Files(dataset) \ {{}}, fresh \in BOOLEAN, rounds \in 1..MaxRounds :
       Start(spec, files, fresh, rounds)
  \/ BeginPass \/ EndPass \/ Stop
  \/ \E f \in Files(dataset) : BeginScan(f) \/ EndScan(f) \/ FailToWrite(f)
  \/ ScoreLogs \/ Sample
  \/ \E r \in Raters : Rate(r)

Spec == Init /\ [][Next]_vars

-----------------------------------------------------------------------------
(* Properties.                                                             *)

\* A file that was completed is not scanned again, whatever stopped the run.
DoneStaysDone ==
  \A run \in DOMAIN logs :
    LET records == logs[run].records
    IN  \A i, j \in DOMAIN records :
          i < j /\ records[i].file = records[j].file => ~ records[i].complete

\* A reference for the matching: the most labels that findings can be paired with,
\* no finding with two of them.
MostPaired(found, labels, Match(_, _)) ==
  LET Pairable(L) == \E pair \in [L -> DOMAIN found] :
        /\ IsInjective(pair)
        /\ \A l \in L : Match(found[pair[l]], labels[l])
  IN  Max({Cardinality(L) : L \in {L \in SUBSET DOMAIN labels : Pairable(L)}})

SumOf(counts, field(_)) == MapThenSumSet(LAMBDA k : field(counts[k]), DOMAIN counts)

\* The scores of one configuration are those of the files it completed, whatever
\* else was recorded, and the ways to split them agree.
AddsUp(variant, result) ==
  LET records == LogOf(RunForVariant(variant)).records
      done == {f \in Files(dataset) : \E i \in DOMAIN records :
                 /\ records[i].file = f /\ records[i].complete
                 /\ variant \in DOMAIN records[i].variants}
      labels == SelectSeq(Located(dataset), LAMBDA l : l.file \in done)
      reported == Gathered(done, LAMBDA f :
        SelectSeq(Newest(records)[f].variants[variant],
                  LAMBDA x : IsReported(x, DefaultMinConfidence)))
      card == result.card
      all == card.overall
      AtMost(a, b) == a.num * b.den <= b.num * a.den
      Between(f, a, b) == (AtMost(a, f) /\ AtMost(f, b)) \/ (AtMost(b, f) /\ AtMost(f, a))
  IN  /\ result.covered = done
      /\ all.predictions = Len(reported)
      /\ all.labels = Len(labels)
      /\ all.found = MostPaired(reported, labels, Matches)
      /\ card.location.found = MostPaired(reported, labels, Nearby)
      /\ all.found = Cardinality({i \in DOMAIN dataset.labels :
                                  Mark(dataset.labels[i], result) = "found"})
      /\ all.found <= all.correct
      /\ all.correct + card.cleanFile <= all.predictions
      /\ all.found = SumOf(card.categories, LAMBDA c : c.found)
      /\ all.correct = SumOf(card.categories, LAMBDA c : c.correct)
      /\ all.predictions = SumOf(card.categories, LAMBDA c : c.predictions)
      /\ all.found = SumOf(card.detection, LAMBDA c : c.found)
      /\ F1(all).den > 0 => Between(F1(all), Precision(all), Recall(all))
      /\ card.macro.num <= card.macro.den
      /\ result.modelCard.overall.found <= all.found
      /\ \A v \in result.verification :
           /\ v.confirmedReal <= v.confirmed
           /\ v.ifHidden.num \in 0..v.ifHidden.den

\* Models are compared on the files that all of them completed, and the two steps of
\* the hybrid run on the same files, at the cost that each of them has.
ComparedAlike(all, common) ==
  /\ \A v, w \in DOMAIN common : common[v].covered = common[w].covered
  /\ {<<"D">>, <<"E">>} \subseteq DOMAIN all =>
       LET reviewed == all[<<"D">>]
           verified == all[<<"E">>]
           checks == MapThenSumSet(LAMBDA f : Len(SelectSeq(
             Newest(LogOf(<<"hybrid">>).records)[f].calls, LAMBDA c : c.task = "verify")), verified.covered)
           Made(result) == SumOf(result.calls, LAMBDA c : SumOf(c, LAMBDA n : n))
       IN  /\ reviewed.covered = verified.covered
           /\ Made(verified) = Made(reviewed) + checks
           /\ reviewed.tokens <= verified.tokens

\* Raters who agree in everything are in perfect agreement, and only they are; how
\* far two agree does not depend on who is named first.
AgreementIsFair ==
  LET Perfect(kappa) == kappa.num = kappa.den
      Alike(shared, raters) ==
        \A r, s \in raters : AtPlaces(ratings[r], shared) = AtPlaces(ratings[s], shared)
      Fair(raters, kappa) ==
        LET shared == SharedItems(ratings, raters)
        IN  shared # <<>> => kappa.num <= kappa.den /\ (Perfect(kappa) <=> Alike(shared, raters))
  IN  /\ \A r, s \in Raters : SharedItems(ratings, {r, s}) # <<>> =>
           /\ Fair({r, s}, PairKappa(ratings, r, s))
           /\ PairKappa(ratings, r, s) = PairKappa(ratings, s, r)
      /\ SharedItems(ratings, Raters) # <<>> => Fair(Raters, AllKappa(ratings))

\* What is rated was reported by a model in a file that was completed.
SheetIsOfDoneWork ==
  \A i \in DOMAIN sheet : \E v \in Sampled :
    \E n \in DOMAIN LogOf(RunForVariant(v)).records :
      LET record == LogOf(RunForVariant(v)).records[n]
      IN  record.complete /\ sheet[i] \in Range(record.variants[v])

\* What is scored and rated is exactly the work that was completed, which is never
\* done again: a run that stops resumes where it left off, and the scores, however
\* they are split, are those of the completed files (evaluation/runner.py, report.py).
ScoredFromCompleteWork ==
  /\ DoneStaysDone
  /\ results # <<>> =>
       /\ \A variant \in DOMAIN results[1] : AddsUp(variant, results[1][variant])
       /\ ComparedAlike(results[1], results[2])
  /\ SheetIsOfDoneWork
  /\ AgreementIsFair

=============================================================================
