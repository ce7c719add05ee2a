# Margin in TLA+

Margin is a code-review assistant: a web API, a command line and a GitHub action
run uploaded code through static analyzers and language models and report
findings. This directory models the parts of it where concurrency, time, failure
and restarts meet, and the decisions taken between them, checks them with TLC and proves what matters most with TLAPS.
Paths are relative to the repository; `app/` is `src/backend/app/`.

## The system

The backend is one asynchronous Python process: tasks share memory and change
hands only at an `await`; file operations and parsing run in threads that a
cancelled task leaves behind. Everything is kept in the files of a scan's
workspace, nothing in a database.

| Component | State it keeps | Operations | Talks to | What is hard | What makes it correct |
|---|---|---|---|---|---|
| Rate limiter `app/llm/limits.py` | slots of the minute and day windows, level and time of the token bucket | wait_time, reserve, cancel, settle | called by the router | slots booked in the future, cancellation out of order, debt, clipped refunds | no window overbooked, no tokens from nowhere, a request that is due is paid for |
| Circuit breaker `app/llm/breaker.py` | failures, rate limits, end of the pause, end of the probe's slot | allows, record_*, open_for, open_until | called by the router | outcomes of concurrent calls in any order, probes that never report | pauses honoured, one unanswered probe, never closed for ever |
| Router `app/llm/router.py` | a limiter, a breaker and slots for each provider; the cache | complete | review, verification, summary; provider clients | everything decided before a wait is stale after it; slots, timeouts, cancellation | consent and exclusions respected, slots returned, no needless failure |
| Response cache `app/llm/cache.py` | recent answers, least recently used first | get, put | router | an answer from a provider the request forbids | at most the newest entries; permission checked on every hit |
| Event log `app/scans/event_log.py` | events in memory, lines on disk, closed | emit, close, follow, load | pipeline and manager write, browsers follow | concurrent writers, lost connections, cancelled writes, restarts | nothing skipped or repeated, what was seen is on disk, streams end |
| Scan manager `app/scans/manager.py` | scans in memory, their runs, the semaphore | new_workspace, submit, info, report, set_finding_status, delete, purge_expired, close | API, storage, pipeline, event log | loading against deleting, cancelled writes, crashes between two files | scans found until deleted, decisions kept, deletion stops the run, runs end |
| Scan storage `app/ingest/storage.py` | one directory per scan | create, delete, purge_expired | manager | rmtree against writers | what is deleted is gone |
| Pipeline `app/pipeline.py`, static analysis `app/static/runner.py` | none between scans | run_scan, run_static_analysis | event log, analyzers, review | tasks under `gather` that outlive a failure | stages in order, a missing tool is no failure |
| Ingestion `app/ingest/` | none | extract an archive, copy a directory or a file | manager, command line | limits on what is declared and on what is read, names that clash or leave the directory | what is extracted is within the limits, inside the directory and complete |
| Preprocessing `app/preprocess/` | none | segment, pack, split | pipeline | boundaries of nested code, sizes at the limit | every line of code is in exactly one chunk of bounded size |
| Analyzers and redaction `app/static/analyzers/`, `app/redaction.py` | none | entries of eight tools to findings; lines to masked lines | static analysis, review | what one tool detects is hidden from every other reader | no detected secret is legible |
| Review session `app/review/session.py` with planner, answers, grounding, merge, verifier | call records, masked sources, statistics | review, verify, summarize | router, event log | several requests at once, judgements of several models in any order, answers that do not count | budget kept, no finding lost or belittled, no model vouches for itself |
| Report `app/report/document.py`, `score.py` | decisions on findings | count, score, decide | manager, command line | counts are computed again after every decision | the numbers are those of the findings |
| Web client `src/frontend/` | the store of a scan's progress | apply event, start | API, event stream | updates of findings already shown, a bounded log | it ends with the result |
| Evaluation `src/backend/evaluation/` | records of runs in JSON lines | run, resume, score, compare, sample, rate | pipeline, review session | a run stopped anywhere and resumed, lines cut short, shares of nothing | complete work is done once and scored as it is |

`PROJECT.json` lists every component with its status, and under `hazards` the
lines of the code where these difficulties bite and the properties aimed at them.

## Modules

| Module | Models | Uses |
|---|---|---|
| `SlidingWindow` | the arithmetic of one request window: pruning, the next slot, booking, cancelling | |
| `RateLimiter` | one provider's limiter under the router's calls | `SlidingWindow` |
| `MCRateLimiter` | a small instance of it | `RateLimiter` |
| `CircuitBreaker` | one provider's breaker under concurrent calls | |
| `Failover` | abstract: what the router promises for each request | |
| `Router` | concurrent requests over several providers: cache, candidates, reservations, slots, calls | implements `Failover` |
| `MCRouter` | a small instance of it | `Router` |
| `EventLog` | one scan's log, its writers and its followers | |
| `ScanManager` | the scans of the server: memory, disk, runs, requests, purge | |
| `Lists` | ranges of lines, and a few operators on sequences | |
| `Findings` | a finding, and what every stage asks of it | `Lists` |
| `Ingestion` | from an upload to the files of a scan | `Lists` |
| `Preprocessing` | from a syntax tree to chunks | `Lists` |
| `Analyzers` | from the output of eight tools to findings | `Findings` |
| `Redaction` | which lines are hidden | `Findings` |
| `StaticAnalysis` | the findings of all tools in one list | `Redaction` |
| `Planner` | which chunks are reviewed, with which findings | `Findings` |
| `Answers` | what a model's answer must be to count | `Planner`, `Redaction` |
| `Merge` | what answers do to findings | `Findings` |
| `Report` | counts, score, decisions | `Findings` |
| `ScanStore` | the browser's store | |
| `ScanRun` | one scan from the upload to the decisions on its report, with concurrent tools and model requests | the twelve above |
| `MCScanRun` | a small instance of it | `ScanRun` |
| `Scoring` | a labelled dataset, and how findings match its labels | `Findings` |
| `EvaluationReport` | scores, samples, agreement | `Scoring`, `Merge` |
| `EvaluationRun` | evaluation commands and their logs | `EvaluationReport`, `Planner` |
| `MCEvaluationRun` | a small instance of it | `EvaluationRun` |
| `Queue_proofs` | lemmas about sequences that the proofs below share | |
| `RateLimiter_proofs`, `CircuitBreaker_proofs`, `Router_proofs`, `EventLog_proofs`, `ScanManager_proofs` | theorems and their proofs | the module they are named after |
| `ScanStages_proofs` | lemmas about what each stage of a scan computes | `ScanRun`, `Queue_proofs` |
| `ScanRun_proofs` | lemmas about how files are split into chunks; theorems about a scan and their proofs | `ScanStages_proofs` |

**RateLimiter.** A variable for each field of the code (`slots`, `bucket`) and
for what a request holds (`calls`). The router asks `wait_time` and calls
`reserve` without an await between them, so `Reserve` does both; `Refuse` is a
wait that is too long. `Send` may come any time after the wait, since a
concurrency slot may have to be waited for; `Cancel` gives a reservation back,
`Settle` corrects the tokens, `Abandon` is a cancelled task. Time and tokens are
integers, in units in which one tick refills one token; that is a scaling of the
code's floats, without their rounding. `booked` and `spent` are history: what was
booked including what the window has forgotten, and the tokens taken.

**CircuitBreaker.** The code keeps absolute times; the model keeps the time that
is left, so that the clock needs no bound. Every method is an operator
(`RecordFailure`, `OpenFor`, ...) and every outcome of a call an action. `Start`
is the router asking `allows` and calling in the same step. `promised`, `probes`
and `unanswered` are history.

**Router.** `asked` is what a request wants, `at` how far the generator `_candidates` has come,
`pc` where the task awaits. `Begin` and `Serve` are `complete` up to the first candidate,
`Skip` and `Reserve` the first half of `_attempt`, `TakeSlot`, `Queue`, `Resume` and `GiveUp` the
wait for a slot, `Answer`, `Reject`, `Unavailable` and `RefusedCall` the outcomes of
`_call`. `sem` is `asyncio.Semaphore`: a released slot is handed to the first task in line, which
may still be cancelled or give up before it runs. The numbers stay in the modules above:
any reservation may have to wait or be too long a wait, and any failure may open a closed
breaker. `cost` is what a provider's limiter still counts for a request: its estimate, what it
used, only its place in the request windows, or nothing; that two providers may share a
limiter makes no difference to it. `Failover` is the same for a reader who does not care how: a request
tries providers it permits, each once, until one gives a usable answer or none is left,
or gets the answer of an equal request.

**EventLog.** The run of `ScanManager` is one task and the pipeline's tasks under
`gather` are others. An emit is four steps: wait for the write lock (`queue`, first
come first served), hand the line to a thread, publish when the thread is done, and
wake the followers. The thread's write is its own step (`Land`), since it happens even
if the task was cancelled. A follower reads, sleeps on the condition, loses its
connection and resumes after the last id it received. The scan's first event,
`queued`, comes before the run and is left out.

**ScanManager.** `objects` are the `_Scan` instances, `memory` is `_scans`: a scan that
is loaded again is another object with another lock and another report, which is
what makes decisions and deletions hard. `tasks` is where each upload and then its run
stands; `requests` is where each client's request stands in `_find`, `_load`,
`set_finding_status` and `delete`. Writes that are awaited are one step, the write of a
cancelled run is a stray that lands later or finds no directory. `rmtree`
empties a directory and then removes it if it is still empty; the purge removes
directories first and forgets their scans one by one. A write fails because its
directory is gone or, up to a bound, because the disk refuses it. Which scans
have expired is left open: any scan that was accepted may be purged.
What a report contains is reduced to the decisions made on it. The locks
`_loading` and `scan.lock` are read off the requests that are between taking and
releasing them.

**ScanRun.** `scan` is what was uploaded and the depth asked for; `source`, `chunks`, `static`
and `findings` are what the stages have made of it. `at` is where the main task of `run_scan`
awaits, `outbox` the events it has still to emit there: it emits one at a time
(`Emit`) before it goes on, and each emit is an await. `tools[t]` is the task of an analyzer under
`gather`, `requests[i]` a request of the review session, which waits for the session's semaphore
(`StartRequest`), ends with the attempts the router made (`EndRequest`), and emits their records
(`EmitCall`) while others do the same. `calls` are the session's call records, `stats` its counts,
`browser` is the store of the web client, which is given each event, and `report` what a reviewer
decides on (`Decide`). `Cancel` is a scan that is deleted or a server that stops.
The stages between the awaits are operators of the modules below; here they are applied to the
results that are there when the code applies them. `Router` says how a request finds
a model, so a reply is only its attempts and an answer; `EventLog` says what becomes of an event.

**The stages.** `Ingested` walks an archive or a directory entry by entry, with names, limits and
reasons to skip or refuse in the order of the code. `SegmentFile` and `BuildChunks` are the
descent over a syntax tree and the packing of its segments; the tree itself is an input,
since tree-sitter builds it. Where the code recurses into a tree, with a limit on the depth, or
walks it with a stack, the model repeats one round so many times (`Repeated`): `SegmentFile` splits all pieces
one level further in each round, which comes to the same pieces in the same order, and `Errors`
takes one node from the stack. Sorting and filtering are said by place
(`Ranked`, `Arranged`, `Kept`): a member of a strict order stands behind as many others as come before it. `Analyzers!Result` is what each adapter makes of an entry
of its tool; command lines and parsing are left out. `Combined` merges what several tools report
at one place, and drops formatting. `MaskLines` hides lines that detectors reported, lines with a
value that one detected, and key blocks. `PlanReview` spends the budget by risk.
`ReviewOf` parses, validates and grounds an answer. `ApplyJudgements`, `MergeIssues` and
`ApplyVerdict` change findings; `BuildReport` and its operators count and score them.
Data are reduced to what these decisions tell apart: a line is what it says, its size and the secret it
holds; a name is a sequence of segments; an answer is a sequence of pieces with the
items it lists.

**EvaluationRun.** `logs` are the JSON-lines files with the line that a full disk may have cut
(`torn`), `command` the one evaluation command that runs: which files are left, which are
being scanned, what has stopped it. `BeginPass` reads the log and skips the files it has complete records for,
`BeginScan` and `EndScan` are `_scan_file` under the semaphore, `FailToWrite` is the disk, `EndPass` decides
whether another pass is worth it, `Stop` is a person or a crash. `ScoreLogs` and `Sample` analyse
what is there, `Rate` is a person with a rating sheet. What a scan of a file may come to is
an input here, because `ScanRun` has the scan.

## Runs

| Run | Shows | Bounds |
|---|---|---|
| `limiter` | `NeverOverbooked`, `NoTokensMinted`, `PaidWhenDue` | two windows, of 2 ticks for 2 requests and 3 ticks for 3, and a bucket of 2 tokens. With four requests both windows fill, slots lie in the future and the bucket is in debt. Requests are interchangeable, hence the symmetry. |
| `breaker` | `PausesHonoured`, `OneUnansweredProbe`, `ProbeSlotEndsWithRecovery`, `EventuallyAsked` | three calls of up to 3 ticks and pauses of 0 to 4: a call can outlive a pause, two can be late while a third probes. |
| `router` | `SlotsConserved`, `CostsMatchRecords`, `PausedProvidersRest`, `ImplementsFailover`, `EveryRequestEnds` | a hosted provider with one slot and a local one with two; three requests: a batch review with consent, an interactive one without, and either a second batch review or a verification that excludes the hosted provider and names one outside its route; answers that only some validators accept; one cache entry for two keys. There is no symmetry, since the requests differ and the run checks liveness. That a slot stays free while others wait in line needs four requests for a provider with two slots; no run has them. |
| `event_log` | `SeenIsOnDisk`, `ResumesExactly`, `NothingAfterVerdict`, `EndedMeansComplete`, `FollowersReleased` | two emitters of two events each, two lost connections, one refused write, one restart. |
| `scans` | `AcceptedIsFound`, `DecisionsKept`, `DeleteStops`, `ReportOnlyWhenDone` | one scan, two clients with any number of requests, one refused write, one restart: the conflicts of this run are about one scan. |
| `scan_queue` | `RunningLimit`, `EveryRunEnds` | two scans for one slot, one client. |
| `scan_run` | `IngestSafe`, `CodeCovered`, `SecretsHidden`, `BudgetKept`, `SeriousStays`, `NothingLost`, `CrossChecked`, `ShownIsResult`, `ReportAddsUp`, `EveryScanEnds` | 151 scans. The one that is reviewed is an archive with a file of eight lines and two chunks, on which all eight analyzers report (a secret that is on two lines, of which one was reported; rules that two tools share; a finding outside the upload) and bandit may be too late, and at most three requests, two at a time, by three models that do not answer, are rejected, disagree, quote a masked line or a line of another chunk. The others are static: 17 archives and four directories, with a bad name, link, size or ratio each, and 128 files of different structure. Limits are a few units, so that each is met and exceeded by one. A reviewer decides on one finding at a time. |
| `evaluation` | `ScoredFromCompleteWork` | a file with three labels, of which two compete for a finding, and a clean file; two providers; six runs that make sense and three that do not; two passes. Histories: no logs and any one command, logs of earlier runs (a file refused by the quota and then completed, a failure, a file not reached) and any one command, the same with a cut line, and a rating session of three people with three of the five ratings. Six datasets, of which five must not load. |
| `limiter_due` | violation of `DueWithinCapacity` | see below |
| `breaker_probe` | violation of `SingleProbe` | |
| `event_log_verdict` | violation of `StreamEndsWithVerdict` | |
| `scan_deleted` | violation of `DeletedIsGone` | |

Deadlock is not checked where the system may come to rest: all requests are done
and the clock has reached its bound, the log is closed and its browsers have gone,
every scan is over, every request has ended, the logs have been analysed. The breaker never rests and is checked for it.

Bounds of the models are constants of their own: `MaxTime`, `MaxEvents`,
`MaxFailures`, `MaxRestarts`, `MaxDrops`, `MaxDecided`, `MaxRounds`, `MaxNodes` (how many nodes of a tree `Errors` takes
from its stack, more than any tree of the run has), `Raters`, `Ratings`. `MaxWait`, `MaxEntries`, `MaxExponent`, `MaxBackoff`,
`MaxConcurrent` and `MaxPending` are the code's.

### What the violations show

* **Sends bunch up** (`limiter_due`). `SlidingWindow.reserve` books the time at which
  its own window is free, but the request is sent when the longest of all its waits is
  over. A request the token bucket delays is sent later than it was booked, together
  with requests that were booked for that time, so more than `capacity` requests
  may be sent within one window. What holds, and is proved, is that the bookings
  are spaced (`NeverOverbooked`).
* **A second probe** (`breaker_probe`). A call that began before a pause and is refused
  during the recovery clears the probe slot that another call holds. What
  holds, and is proved, is that two probes never overlap without some report in
  between (`OneUnansweredProbe`).
* **No last word** (`event_log_verdict`). A scan that the server's stop interrupts is
  marked failed in `scan.json`, but its log has no `failed` event, so the stream that
  is replayed ends without one. The browser's `EventSource` takes that for a lost
  connection and asks again.
* **A deleted scan comes back** (`scan_deleted`). While `delete` waits for the run to end
  and the files to go, another request may load the scan from the files that
  are left and store it in `_scans` after the deletion has been answered.

Other disagreements the runs exclude by a condition, so that the rest of the property
is checked: a scan can be failed and still serve a report, after a crash between
`report.json` and `scan.json` or when the second write fails (`ReportOnlyWhenDone`
holds otherwise); tasks that a failed `gather` leaves behind may emit after the
scan's `failed` (`NothingAfterVerdict`); a cancelled write leaves an event on disk
whose number is used again (`ResumesExactly` across a restart).

## Fairness

* `CircuitBreaker`: time passes, and a call whose time is up fails, because
  `Router._call` runs it under `asyncio.timeout`. No outcome is promised to be good:
  `EventuallyAsked` holds even if every call fails.
* `Router`: the task of a request that can go on does, since waits are bounded by `max_wait_seconds`
  and calls by `asyncio.timeout`. Pauses need not end, and calls need not succeed.
* `EventLog`: the event loop runs every ready task, threads finish, pipeline tasks end
  since tools and model calls have timeouts, and a stream that can yield or end does. Emitters
  need not emit, and browsers need not connect, read on or stay.
* `ScanManager`: each run's next step happens. A run that waits for a slot gets it if slots become
  free: there are finitely many scans, so the order in which
  `asyncio.Semaphore` serves them does not matter. Nothing is assumed of
  clients, the purge or the disk.
* `ScanRun`: the main task goes on when it can, some request of the session does (its semaphore
  is first come first served and the requests are finitely many), and so does every analyzer, because tools
  run under a timeout and model calls end, as `Router` shows. Nobody needs to cancel or decide.

`RateLimiter` and `EvaluationRun` have no fairness and no liveness property: the limiter's waits are
bounded by the router, and a person may stop an evaluation and never resume it.

## Proofs

The theorems hold for every value of the constants that satisfies the named assumptions. These
say that lengths, capacities and counts are (positive) natural numbers; for the `Router` also that no provider
is twice among the names or on a route, and that what a request asks for is one of the
kinds of requests; for the `EventLog` that the run is not one of its children; and for the
`ScanManager` that `None` is none of the values it stands in for. `ScanStore` assumes that no stage is `Null` (`StoreAssumption`). `ScanRun` names more, about what comes from
outside: syntax trees are closed under going down, a node ends no earlier than it begins, and the nodes below one are listed
as they stand in the source (`TreeAssumption`), as tree-sitter lists them; files are numbers with lists of
lines, of which nothing is masked yet, and of nodes, these too in the order of the source (`ContentsAssumption`), the limits of ingestion are natural numbers and admit a file
(`LimitAssumption`), every entry of an upload is a file of its own, and what file systems and archives guarantee of
them (`UploadAssumption`): an archive marks a folder in its name and has no devices, a single file that was
received does not grow any more, and a directory has one entry per path, with others below it only if it is a
folder; sizes that are declared may be wrong. Every rule an analyzer gives has a place in the
order of rules and no analyzer is called like a model (`RuleAssumption`, `SourceAssumption`),
what a tool puts out and what a model replies has the fields the code reads (`OutputAssumption`,
`ReplyAssumption`), in the ranges that their parsers and schemas admit, and a blank line that is quoted says nothing - not that it is right, and an answer may still be rejected -, and reviews
go one at least at a time (`RunAssumption`). TLC evaluates them all in `scan_run`. Each module proves an inductive invariant
`IInv` (theorem `Invariant`), which TLC checked first, and the theorems follow from it.

* `RateLimiter_proofs` proves first what the operators of `SlidingWindow` guarantee: inserting into a sorted
  list keeps it sorted and spaced when the new slot is late enough
  (`BookedSlotFits`), and the slot `NextSlot` chooses is (`NextSlotLate`). The key is that only the
  slots of the last window matter: a slot pruned long ago is a whole window before anything that
  can still be booked. `PruneKeepsWindow`, `TickKeepsWindow`,
  `BookKeepsWindow` and `CancelKeepsWindow` say that each operation preserves this `WindowInv`.
  Then the limiter: `IInv` is the type, `WindowInv` of each window, and for the bucket
  that level and tokens taken stay within one bucket plus the refill.
  `NeverOverbooked` alone is not inductive, since a booking depends on what the list
  has forgotten; `WindowInv` adds that the list is the end of the history and that what
  was forgotten is old. Theorems: `TypeCorrect`, `WindowsNeverOverbooked`,
  `BucketMintsNothing`, `ReservationsArePaidWhenDue`.
* `CircuitBreaker_proofs`: `IInv` adds to the properties that every unanswered probe's
  remaining time is covered by the probe slot, which is what makes a second one
  impossible. Theorems: `TypeCorrect`, `PausesAreHonoured`,
  `AtMostOneUnansweredProbe`, `ProbeSlotBelongsToRecovery`.
* `Router_proofs`: to `SlotsConserved`, `IInv` adds that the tasks in a semaphore's line are exactly the requests
  that queue for its provider, each once, and that no more slots are handed over than there are tasks in line;
  otherwise a task that gives up could take a slot along. For the refinement it adds where a request stands among its candidates:
  it has a record of each candidate before that one and of no other provider (`WellPlaced`), so that the last one failing means
  that all were tried; and that what is cached was somebody's answer to the same question (`CacheInv`). For `PausedProvidersRest` it
  adds that the breaker of a provider that rests is open. Every step of the router moves one request in one of six ways
  (`TaskMove`: it begins, is served, waits, goes on to the next candidate, is answered, is cancelled), which
  `StepMoves` proves once; that types, places and costs are kept is proved about moves and
  not about each action. `StepKeepsPromise` maps a move to a step of `Failover` or to a stutter. Theorems:
  `TypeCorrect`, `SlotsAreConserved`, `CostsAreRecorded`, `PauseIsKept`, `RouterImplementsFailover`.
* `EventLog_proofs`: `LockInv` says who is in the line of the write lock and that only its first task
  writes, which gives event ids their order; `DiskInv` that what is published, received or about to be published is on disk or in
  a thread that will put it there (`SeenIsOnDisk`); `FollowInv` that ids are places and that a
  browser stands right behind what it has (`ResumesExactly`, `EndedMeansComplete`), until a restart; `Verdict` that the last
  status is asked for when nobody else writes any more (`NothingAfterVerdict`), while no write fails. Theorems: `TypeCorrect`, `SeenStaysOnDisk`,
  `ReconnectsExactly`, `VerdictIsLast`, `EndedIsComplete`.
* `ScanManager_proofs`: `DecisionsKept` is about a report that several requests read, change and save; it needs that
  a decision is made on the object that is served while its scan is not being deleted (`LifeInv`), that no two requests save the same object at a time
  and each saves that object's report with its decision added (`SaversInv`, the effect of `scan.lock`), and that what was read for an
  interrupted scan is still what the disk has (`InterruptedInv`, the effect of `_loading`). `DeleteStops` needs
  that objects belong to one scan each (`OwnershipInv`), `RunningLimit` that whoever is shown as running is
  counted by the semaphore (`StatusInv`, `HoldersInv`), `AcceptedIsFound` that what is accepted is on disk until
  its deletion begins (`DiskInv`). Theorems: `TypeCorrect`, `DecisionsStay`, `AcceptedStaysFound`, `DeletionStops`,
  `RunningIsLimited`, `ReportWhenDone`.
* `ScanStages_proofs` is about lists: it proves what the operators return that the stages of a scan are
  built from: `FlattenSeq`, folds, ranges merged, what `Ranked` puts where (`ArrangedLess`,
  `KeptElements`: exactly the elements that pass, in their order). A fold is replaced by the
  function of its intermediate values, which exists for each length since the lengths for which it does include 0 and with
  each one the next (`PlacedTrace` and the like, by `UpTo`); what every step of a fold keeps then holds at its end. The
  rest proves what each stage makes of its input: `Combined` keeps of every finding of a tool one with its
  id and sources, an answer that counts becomes findings of that model about that chunk, `PlanReview` takes the
  chunks of the highest risk within the budget (`Planned`), `MergeIssues` and
  `ApplyJudgements` keep what stood there and add what is new (`Merging`), `ApplyVerdict` marks what a second
  model has looked at, and counting every finding once makes counts that add up, with a score between 0 and 100.
  Of ingestion it proves what holds after each entry (`Tidy`): every file on disk is an entry that was
  accepted, under a path of its own, every skipped path is another one's, no entry is forgotten, and no more bytes are
  written than were allowed for. In a directory the limits hold at each entry (`InDirectory`); an
  archive has no more files and bytes than its members declare, since extraction stops at the first
  that has more (`InArchive`), and what they declare was within the limits before anything was
  written. Sums over lists that grow or agree up to a place (`SameSums`, `MoreTotal`) relate the two.
* `ScanRun_proofs` proves `IInv`: `Standing` says that every static finding stands
  among the findings, with its sources and, if protected, no lower, which is more than
  `SeriousStays` says and what each stage needs of the one before; `Requests`, `AboutChunks` and `OnReview` that a
  request is about a chunk or finding of this scan and its reply one that the request may
  have, in whatever order they end; `InBudget` that the requests of a review
  are those of a plan, which is what `BudgetKept` is about; `Slots` that the semaphore limits the calls; `AfterMerge`,
  `OnVerification` and `AfterVerification` carry what the models found from the merge through the verification to
  the report: at the end each finding of models alone that matters has been checked, or has the note that it was not.
  `NotChanged`, `SourceRead` and `ChunksRead` say that what a stage reads is
  what the one before it wrote. Theorems: `BudgetIsKept`, `SeriousIsKept`, `NothingIsLost`, `IsCrossChecked`.
  The directory of a scan is empty or as ingestion left it (`Formed`), so that what ingestion leaves on disk
  is safe in every state (`IngestionIsSafe`). `IngestSafe` is about each kind of upload as the code treats it: only in an archive are
  names told apart as the least capable system does (`Key`), a directory is copied with the names it has; a
  single file has its own limit and not the total, and stands under its base name.

  The first half of the module is about `CodeCovered` (`CodeIsCovered`), which needs little of `IInv` but all of preprocessing.
  The boundaries of a region rise, because nodes come in the order of the source, and lie inside it; so they divide its
  lines into sections, of which each is a segment, is cut into windows, or is divided in the same way in the next round. Hence the
  segments of a file divide its lines, one behind the other and none longer than `MaxLines`, to whatever depth a tree is
  followed, and so do the groups they are packed into, as the condition to start a new group bounds a group by `TargetLines`
  unless it is one segment (`FileSegmented`, `PackedAll`, `FileChunks`). That a group of blank lines is dropped loses no code. A context is what is left of lines before
  the body when those taken already are cut out, as much as there is room for (`SelectContext`), so that no line of it is
  counted twice; merging ranges keeps the lines and only joins them (`MergeRanges`). The regions of a chunk that failed to parse are those of
  the file cut to its body. Files of a scan are distinct, so that no line is reviewed again under another chunk (`ScanChunks`).

  On `IInv` stand three more invariants. `View` relates the browser to the scan at every moment, not only at the end, where
  `ShownIsResult` does: what the browser shows together with what is still to be emitted is what the scan
  has. Still to be emitted are the events in the main task's `outbox` and the records of calls that requests have not
  got to yet. A finding is shown as it is now or its newest state is in the outbox; the calls of the session are as
  many as are shown and left, so that none is shown twice however the tasks take turns; an analyzer has one line, which
  says that it is running until it is over; the stages entered are those shown and the one to be
  announced. When the scan is done nothing is left, which is the property (`ViewIsKept`, `ShownIsTheResult`).
  `Formed` says that every finding has all its fields in their ranges and that counts are numbers, which each stage
  passes on; with the distinct ids of `Standing` it gives `TypeOK` (`TypeIsKept`). `ReportMade` says that a report is the one that `BuildReport`
  makes of its own findings, after any number of decisions: a decision changes one finding and
  counts anew. So the numbers are those of the findings shown with them (`ReportIsKept`).

  `SecretsHidden` compares what is legible anywhere with what the analyzers reported, several stages before (`SecretsAreHidden`). Its
  invariant, `Hidden`, says that nothing is found and no code is shown until all analyzers are over, since a
  later report could make secret what is legible by then; that from then on the static findings, though fewer than the reports, cover
  every line of a report that is to be hidden (`Hiding`); and that every finding is `Decent`: of its file it
  shows only what other lines say. Merging reports of one issue keeps the cover, as they begin on the same
  line and the result reaches as far as the longest and is redacted if one is (`JoinedBucket`, `DeduplicatedFindings`). Masking carries a key block from line to
  line, and each line is masked or neither sensitive nor in the first block (`MaskedTo`, `NextMasked`, `MaskedLines`). What a model finds
  is decent because its answer has to quote lines as it was shown them (`ReviewDecent`), and judging, merging,
  verifying and sorting change nothing of what a finding shows (`ChangeShows`).

Only model-checked:

* `EventuallyAsked`, `EveryRequestEnds`, `FollowersReleased`, `EveryRunEnds` and
  `EveryScanEnds`: liveness under fairness is out of the prover's reach.
* `ScoredFromCompleteWork`: `Scoring` looks for augmenting paths with a recursive operator, and what that computes
  for every input is induction over data; `EvaluationReport` and `EvaluationRun` extend it.

## Not modelled

`PROJECT.json` gives the status of each component, and the reason where it is not modelled.

* Bytes and wording: parsing of archives and answers, prompts, HTTP, the titles and messages of
  findings, HTML and SARIF, digests of cache keys, ids.
* Other programs: analyzers, tree-sitter, providers. What they may answer is an input; how their
  clients are built and how they classify HTTP errors is not modelled, the outcomes are.
* Settings, the command line and the wiring of the server, which run one of the modelled parts
  in sequence.
* Of the evaluation: latencies and times, tables, `robustness.py` (changes to source text),
  `routing_sim.py` (a simulation of what `Router` models) and the benchmark of other repositories.

Simplifications of the models that a reader should know:

* `ScanRun` extracts the upload itself, as the command line does; the server has extracted it before
  the run, and `ScanManager` has that part. Extraction is one step: a thread that a cancelled
  task leaves behind (`app/pipeline.py:100`) writes into a directory that nobody reads any more.
* A directory is copied to a place that tells the same names apart as the place it is copied from; what happens to
  two names that differ only in case there is not modelled (`IngestSafe` speaks of paths there).
* The store is fed each event once. An `EventSource` that reconnects replays the events it has missed, which is
  `ResumesExactly`; a replay from the start, after a stream that ended without a verdict, is not
  modelled.
* A literal that a detector reported is assumed to be found in its line and masked. The
  evidence of findings is masked line by line, without the memory for key blocks that source code gets, and
  `SecretsHidden` demands no more of it.
* The syntax tree, whether a pattern excludes a path and whether a file is a test are inputs.
* An evaluation command names each file once, and datasets are flat, as the one in the repository is: a
  file is scanned under its base name. In a `verify` run a provider never checks what it reported itself, so a run that
  verifies a provider by itself has no complete record.
* A record of an evaluation names neither the base record nor the version of the dataset it was
  made from, so a log from before a change of either is resumed and scored without notice
  (`evaluation/runner.py:249`, listed under `hazards`).

## Plan

Done: every module above and its runs, and the proofs of the limiter, the breaker, the router, the event log, the
scan manager and of a scan: what ingestion leaves on disk, which chunks are reviewed, what happens to findings, what
stays hidden, what the browser shows, and the report. What is left to prove:

1. `EvaluationRun`: a file that was completed is not scanned again (`DoneStaysDone`), which needs that what is
   pending or being scanned has no complete record, and `Augment` without recursion.
