---------------------------- MODULE ScanManager ----------------------------
(***************************************************************************)
(* The life of the API's scans (app/scans/manager.py over                  *)
(* app/ingest/storage.py): uploads become scans, a semaphore lets a few    *)
(* run at once, requests find them in memory or load them from disk,       *)
(* reviewers decide on findings, scans are deleted or purged, and the      *)
(* server may stop at any time.                                            *)
(*                                                                         *)
(* The code is asynchronous and has one thread of control: an action is    *)
(* what happens between two awaits that may suspend.  A file operation     *)
(* runs in a thread, which goes on when the task that waits for it is      *)
(* cancelled.  A scan's events are EventLog's, the content of its report   *)
(* is the set of findings a reviewer has decided on, and shutdown's close  *)
(* is the first half of Restart.                                           *)
(***************************************************************************)
EXTENDS Integers, Sequences, FiniteSets

CONSTANTS
  Scans,          \* scan ids
  Requests,       \* clients; each decides on a finding of its own
  None,           \* no file, or no report
  MaxConcurrent,  \* MAX_CONCURRENT_SCANS
  MaxPending,     \* max_concurrent * PENDING_PER_RUNNING
  MaxFailures,    \* bound of the model: writes that the disk refuses
  MaxRestarts     \* bound of the model: times the server stops

ASSUME ManagerAssumption ==
  /\ MaxConcurrent \in Nat \ {0}
  /\ MaxPending \in Nat \ {0}
  /\ MaxFailures \in Nat
  /\ MaxRestarts \in Nat
  /\ None \notin {"queued", "running", "done", "failed"}
  /\ \A report \in SUBSET Requests : report # None

VARIABLES
  objects,   \* every _Scan made: its info's status and its report
  memory,    \* _scans: the object each id is found as, 0 when it is not there
  own,       \* the object that submit made, whose task the run is
  tasks,     \* what the request that uploads a scan, then its run, is doing
  disk,      \* each workspace: whether it exists, its scan.json, its report.json
  strays,    \* writes of cancelled runs, still in their threads
  requests,  \* what each client's request is doing
  purge,     \* workspaces the purge has removed and whose scans it has not
  acked,     \* decisions answered with 200, per scan
  deletes,   \* how far the deletion of each scan has come
  failures,  \* writes refused so far
  restarts   \* times the server stopped so far

store == <<objects, memory, own>>
vars == <<objects, memory, own, tasks, disk, strays, requests, purge, acked,
          deletes, failures, restarts>>

Queued == "queued"
Running == "running"
Done == "done"
Failed == "failed"
Statuses == {Queued, Running, Done, Failed}
Unfinished == {Queued, Running}

Uploading == {"none", "creating", "uploading", "queueing", "rejected"}
Active == {"waiting", "starting", "working", "saving", "finishing", "failing"}

Idle == [pc |-> "idle", kind |-> None, scan |-> None, object |-> 0, value |-> None]

NoFiles == [exists |-> FALSE, info |-> None, report |-> None]
NewObject(status, report) == [status |-> status, report |-> report]

Status(s) == objects[memory[s]].status
InMemory(s) == memory[s] # 0
Accepted(s) == tasks[s] \notin Uploading

\* A plausible slip: a semaphore that finished scans never release.
HoldingForEver(s) == tasks[s] \notin Uploading \cup {"waiting"}

\* A plausible slip: a semaphore around the pipeline only.
HoldingAtWork(s) == tasks[s] = "working"

\* The semaphore is released before the except clause of _run.
Holding(s) == tasks[s] \in {"starting", "working", "saving", "finishing"}

\* A write that the disk refuses, or that finds its directory gone.
MayFail(s) ==
  \/ ~ disk[s].exists /\ failures' = failures
  \/ failures < MaxFailures /\ failures' = failures + 1

Step(s, pc) == tasks' = [tasks EXCEPT ![s] = pc]
Put(s, file, value) ==
  /\ disk[s].exists
  /\ disk' = [disk EXCEPT ![s] = [@ EXCEPT ![file] = value]]

-----------------------------------------------------------------------------

Init ==
  /\ objects = <<>>
  /\ memory = [s \in Scans |-> 0]
  /\ own = [s \in Scans |-> 0]
  /\ tasks = [s \in Scans |-> "none"]
  /\ disk = [s \in Scans |-> NoFiles]
  /\ strays = {}
  /\ requests = [r \in Requests |-> Idle]
  /\ purge = {}
  /\ acked = [s \in Scans |-> {}]
  /\ deletes = [s \in Scans |-> "no"]
  /\ failures = 0
  /\ restarts = 0

-----------------------------------------------------------------------------
(* Uploads: create_scan, new_workspace, submit and discard.                *)

Pending == {s \in Scans : InMemory(s) /\ Status(s) \in Unfinished}

\* new_workspace counts what is pending, then creates the directory in a
\* thread; the upload and its extraction follow.
NewWorkspace(s) ==
  /\ tasks[s] = "none"
  /\ Cardinality(Pending) < MaxPending
  /\ Step(s, "creating")
  /\ UNCHANGED <<store, disk, strays, requests, purge, acked, deletes, failures, restarts>>

Create(s) ==
  /\ tasks[s] = "creating"
  /\ Step(s, "uploading")
  /\ disk' = [disk EXCEPT ![s] = [NoFiles EXCEPT !.exists = TRUE]]
  /\ UNCHANGED <<store, strays, requests, purge, acked, deletes, failures, restarts>>

\* The upload breaks off or is refused, and discard removes the workspace.
Reject(s) ==
  /\ tasks[s] = "uploading"
  /\ Step(s, "rejected")
  /\ disk' = [disk EXCEPT ![s] = NoFiles]
  /\ UNCHANGED <<store, strays, requests, purge, acked, deletes, failures, restarts>>

\* submit, up to the write of scan.json.
Submit(s) ==
  /\ tasks[s] = "uploading"
  /\ objects' = Append(objects, NewObject(Queued, None))
  /\ memory' = [memory EXCEPT ![s] = Len(objects')]
  /\ own' = [own EXCEPT ![s] = Len(objects')]
  /\ Step(s, "queueing")
  /\ UNCHANGED <<disk, strays, requests, purge, acked, deletes, failures, restarts>>

\* A plausible slip: giving the id out before the scan is on disk.
AcceptUnsaved(s) ==
  /\ tasks[s] = "queueing"
  /\ Step(s, "waiting")
  /\ UNCHANGED <<store, disk, strays, requests, purge, acked, deletes, failures, restarts>>

\* submit's second half: the run is created and the client gets the id.
Accept(s) ==
  /\ tasks[s] = "queueing"
  /\ Put(s, "info", Queued)
  /\ Step(s, "waiting")
  /\ UNCHANGED <<store, strays, requests, purge, acked, deletes, failures, restarts>>

\* The write fails: the client gets an error, the scan stays in _scans.
RefuseQueued(s) ==
  /\ tasks[s] = "queueing"
  /\ MayFail(s)
  /\ Step(s, "rejected")
  /\ UNCHANGED <<store, disk, strays, requests, purge, acked, deletes, restarts>>

-----------------------------------------------------------------------------
(* _run.                                                                   *)

SetObject(s, status, report) ==
  objects' = [objects EXCEPT ![own[s]] = NewObject(status, report)]

Holders == {s \in Scans : Holding(s)}

Start(s) ==
  /\ tasks[s] = "waiting"
  /\ Cardinality(Holders) < MaxConcurrent
  /\ SetObject(s, Running, None)
  /\ Step(s, "starting")
  /\ UNCHANGED <<memory, own, disk, strays, requests, purge, acked, deletes, failures, restarts>>

Started(s) ==
  /\ tasks[s] = "starting"
  /\ Put(s, "info", Running)
  /\ Step(s, "working")
  /\ UNCHANGED <<store, strays, requests, purge, acked, deletes, failures, restarts>>

\* run_scan and build_report return.
Finish(s) ==
  /\ tasks[s] = "working"
  /\ Step(s, "saving")
  /\ UNCHANGED <<store, disk, strays, requests, purge, acked, deletes, failures, restarts>>

\* A plausible slip: serving the report before the scan is done.
SaveReportEarly(s) ==
  /\ tasks[s] = "saving"
  /\ Put(s, "report", {})
  /\ SetObject(s, Running, {})
  /\ Step(s, "finishing")
  /\ UNCHANGED <<memory, own, strays, requests, purge, acked, deletes, failures, restarts>>

\* report.json is written; the report and the status done are set at once.
SaveReport(s) ==
  /\ tasks[s] = "saving"
  /\ Put(s, "report", {})
  /\ SetObject(s, Done, {})
  /\ Step(s, "finishing")
  /\ UNCHANGED <<memory, own, strays, requests, purge, acked, deletes, failures, restarts>>

SaveDone(s) ==
  /\ tasks[s] = "finishing"
  /\ Put(s, "info", Done)
  /\ Step(s, "over")
  /\ UNCHANGED <<store, strays, requests, purge, acked, deletes, failures, restarts>>

\* The except clause: the pipeline raises, or a write fails.
Fail(s) ==
  /\ \/ tasks[s] = "working" /\ UNCHANGED failures
     \/ tasks[s] \in {"starting", "saving", "finishing"} /\ MayFail(s)
  /\ SetObject(s, Failed, objects[own[s]].report)
  /\ Step(s, "failing")
  /\ UNCHANGED <<memory, own, disk, strays, requests, purge, acked, deletes, restarts>>

SaveFailed(s) ==
  /\ tasks[s] = "failing"
  /\ \/ Put(s, "info", Failed) /\ UNCHANGED failures
     \/ MayFail(s) /\ UNCHANGED disk
  /\ Step(s, "over")
  /\ UNCHANGED <<store, strays, requests, purge, acked, deletes, restarts>>

RunStep(s) ==
  \/ Start(s) \/ Started(s) \/ Finish(s) \/ SaveReport(s) \/ SaveDone(s)
  \/ Fail(s) \/ SaveFailed(s)

-----------------------------------------------------------------------------
(* Cancelled runs.                                                         *)

\* What the thread of a run is writing.
Stray(s) ==
  CASE tasks[s] = "starting"  -> {[scan |-> s, file |-> "info", value |-> Running]}
    [] tasks[s] = "saving"    -> {[scan |-> s, file |-> "report", value |-> {}]}
    [] tasks[s] = "finishing" -> {[scan |-> s, file |-> "info", value |-> Done]}
    [] tasks[s] = "failing"   -> {[scan |-> s, file |-> "info", value |-> Failed]}
    [] OTHER                  -> {}

\* A plausible slip: forgetting the scan without stopping its run.
LeaveRunning(s, o) == UNCHANGED <<tasks, strays>>

\* _cancel of object o of scan s; an object that was loaded has no task.
Stop(s, o) ==
  IF o = own[s] /\ tasks[s] \in Active
  THEN Step(s, "over") /\ strays' = strays \cup Stray(s)
  ELSE UNCHANGED <<tasks, strays>>

\* A write of a cancelled run happens, or finds nowhere to happen.
Land(w) ==
  /\ w \in strays
  /\ strays' = strays \ {w}
  /\ \/ Put(w.scan, w.file, w.value)
     \/ ~ disk[w.scan].exists /\ UNCHANGED disk
  /\ UNCHANGED <<store, tasks, requests, purge, acked, deletes, failures, restarts>>

-----------------------------------------------------------------------------
(* Requests: _find and _load, then what was asked for.                     *)

Request(r, pc) == requests' = [requests EXCEPT ![r].pc = pc]
Answer(r) == requests' = [requests EXCEPT ![r] = Idle]

\* What follows at once when request r of the given kind has found scan s as
\* object o.
Proceed(r, kind, s, o) ==
  \/ /\ kind = "read"
     /\ Answer(r)
     /\ memory' = [memory EXCEPT ![s] = o]
     /\ UNCHANGED <<tasks, strays, deletes>>
  \/ /\ kind = "decide"
     /\ requests' = [requests EXCEPT ![r] =
          [Idle EXCEPT !.pc = "deciding", !.kind = kind, !.scan = s, !.object = o]]
     /\ memory' = [memory EXCEPT ![s] = o]
     /\ UNCHANGED <<tasks, strays, deletes>>
  \/ /\ kind = "delete"
     /\ requests' = [requests EXCEPT ![r] =
          [Idle EXCEPT !.pc = "removing", !.kind = kind, !.scan = s]]
     /\ memory' = [memory EXCEPT ![s] = 0]
     /\ Stop(s, o)
     /\ deletes' = [deletes EXCEPT ![s] = IF @ = "no" THEN "begun" ELSE @]

\* A request for a scan whose id the client has been given.
Ask(r, kind, s) ==
  /\ requests[r] = Idle
  /\ Accepted(s)
  /\ \/ /\ InMemory(s)
        /\ Proceed(r, kind, s, memory[s])
     \/ /\ ~ InMemory(s)
        /\ requests' = [requests EXCEPT ![r] =
             [Idle EXCEPT !.pc = "waiting", !.kind = kind, !.scan = s]]
        /\ UNCHANGED <<memory, tasks, strays, deletes>>
  /\ UNCHANGED <<objects, own, disk, purge, acked, failures, restarts>>

Loading == {r \in Requests : requests[r].pc \in {"reading", "reading report", "failing"}}

\* A plausible slip: loading what was loaded while waiting for the lock.
LoadAnyway(s) == FALSE

\* _find's second look, once it holds _loading.
FoundMeanwhile(s) == InMemory(s)

LockLoading(r) ==
  LET s == requests[r].scan IN
  /\ requests[r].pc = "waiting"
  /\ Loading = {}
  /\ \/ /\ FoundMeanwhile(s)
        /\ Proceed(r, requests[r].kind, s, memory[s])
     \/ /\ ~ FoundMeanwhile(s)
        /\ Request(r, "reading")
        /\ UNCHANGED <<memory, tasks, strays, deletes>>
  /\ UNCHANGED <<objects, own, disk, purge, acked, failures, restarts>>

\* _load reads scan.json; without one there is no such scan.
ReadInfo(r) ==
  LET s == requests[r].scan IN
  /\ requests[r].pc = "reading"
  /\ IF disk[s].info = None
     THEN Answer(r)
     ELSE requests' = [requests EXCEPT ![r].pc = "reading report",
                                       ![r].value = disk[s].info]
  /\ UNCHANGED <<store, tasks, disk, strays, purge, acked, deletes, failures, restarts>>

\* A loaded scan goes into _scans and the request goes on.
Loaded(r, status, report) ==
  /\ objects' = Append(objects, NewObject(status, report))
  /\ Proceed(r, requests[r].kind, requests[r].scan, Len(objects'))

\* _load reads report.json; a scan that was not finished is one that the
\* server's stop interrupted, and must be saved as failed first.
ReadReport(r) ==
  LET s == requests[r].scan
      status == requests[r].value IN
  /\ requests[r].pc = "reading report"
  /\ IF status \in Unfinished
     THEN /\ requests' = [requests EXCEPT ![r].pc = "failing",
                                          ![r].value = disk[s].report]
          /\ UNCHANGED <<objects, memory, tasks, strays, deletes>>
     ELSE Loaded(r, status, disk[s].report)
  /\ UNCHANGED <<own, disk, purge, acked, failures, restarts>>

SaveInterrupted(r) ==
  LET s == requests[r].scan IN
  /\ requests[r].pc = "failing"
  /\ \/ /\ Put(s, "info", Failed)
        /\ Loaded(r, Failed, requests[r].value)
        /\ UNCHANGED failures
     \/ /\ MayFail(s)
        /\ Answer(r)
        /\ UNCHANGED <<objects, memory, tasks, strays, disk, deletes>>
  /\ UNCHANGED <<own, purge, acked, restarts>>

-----------------------------------------------------------------------------
(* set_finding_status, after _find.                                        *)

\* A plausible slip: deciding without the scan's lock.
NobodyCares(o) == TRUE

\* scan.lock of object o is free.
Unlocked(o) == \A q \in Requests : requests[q].pc = "saving" => requests[q].object # o

Decide(r) ==
  LET o == requests[r].object IN
  /\ requests[r].pc = "deciding"
  /\ Unlocked(o)
  /\ IF objects[o].report = None
     THEN Answer(r)
     ELSE requests' = [requests EXCEPT ![r].pc = "saving",
                                       ![r].value = objects[o].report \cup {r}]
  /\ UNCHANGED <<store, tasks, disk, strays, purge, acked, deletes, failures, restarts>>

SaveDecision(r) ==
  LET s == requests[r].scan
      o == requests[r].object IN
  /\ requests[r].pc = "saving"
  /\ \/ /\ Put(s, "report", requests[r].value)
        /\ objects' = [objects EXCEPT ![o].report = requests[r].value]
        /\ acked' = [acked EXCEPT ![s] = @ \cup {r}]
        /\ UNCHANGED failures
     \/ /\ MayFail(s)
        /\ UNCHANGED <<disk, objects, acked>>
  /\ Answer(r)
  /\ UNCHANGED <<memory, own, tasks, strays, purge, deletes, restarts>>

-----------------------------------------------------------------------------
(* delete, after _find, and purge_expired.  rmtree empties a directory,    *)
(* then removes it unless something has been written to it meanwhile.      *)

Emptied(files) == [files EXCEPT !.info = None, !.report = None]

\* A plausible slip: taking a directory for empty that is written to meanwhile.
RemovedAnyway(files) == [files EXCEPT !.exists = FALSE]

Removed(files) == IF files = Emptied(files) THEN NoFiles ELSE files

Empty(r) ==
  LET s == requests[r].scan IN
  /\ requests[r].pc = "removing"
  /\ disk' = [disk EXCEPT ![s] = Emptied(@)]
  /\ Request(r, "emptied")
  /\ UNCHANGED <<store, tasks, strays, purge, acked, deletes, failures, restarts>>

Remove(r) ==
  LET s == requests[r].scan IN
  /\ requests[r].pc = "emptied"
  /\ disk' = [disk EXCEPT ![s] = Removed(@)]
  /\ Answer(r)
  /\ deletes' = [deletes EXCEPT ![s] = "answered"]
  /\ UNCHANGED <<store, tasks, strays, purge, acked, failures, restarts>>

RequestStep(r) ==
  \/ LockLoading(r) \/ ReadInfo(r) \/ ReadReport(r) \/ SaveInterrupted(r)
  \/ Decide(r) \/ SaveDecision(r) \/ Empty(r) \/ Remove(r)

\* The purge removes workspaces that have grown old, from one whose upload
\* has long ended: a workspace is a day old when it expires.
Purge ==
  /\ purge = {}
  /\ \E old \in SUBSET {s \in Scans : Accepted(s) /\ disk[s].exists} \ {{}} :
       /\ purge' = old
       /\ disk' = [s \in Scans |-> IF s \in old THEN NoFiles ELSE disk[s]]
       /\ deletes' = [s \in Scans |-> IF s \in old /\ deletes[s] = "no"
                                      THEN "begun" ELSE deletes[s]]
  /\ UNCHANGED <<store, tasks, strays, requests, acked, failures, restarts>>

Forget(s) ==
  /\ s \in purge
  /\ purge' = purge \ {s}
  /\ memory' = [memory EXCEPT ![s] = 0]
  /\ IF InMemory(s) THEN Stop(s, memory[s]) ELSE UNCHANGED <<tasks, strays>>
  /\ UNCHANGED <<objects, own, disk, requests, acked, deletes, failures, restarts>>

-----------------------------------------------------------------------------

\* The server stops, by a crash or by close() and the end of its threads, and
\* starts again with nothing in memory.  An upload that was under way stays on
\* disk until it is purged.
Restart ==
  /\ restarts < MaxRestarts
  /\ restarts' = restarts + 1
  /\ objects' = <<>>
  /\ memory' = [s \in Scans |-> 0]
  /\ own' = [s \in Scans |-> 0]
  /\ tasks' = [s \in Scans |-> IF tasks[s] = "none" THEN "none"
                               ELSE IF Accepted(s) THEN "over" ELSE "rejected"]
  /\ strays' = {}
  /\ requests' = [r \in Requests |-> Idle]
  /\ purge' = {}
  /\ UNCHANGED <<disk, acked, deletes, failures>>

Next ==
  \/ \E s \in Scans : \/ NewWorkspace(s) \/ Create(s) \/ Reject(s) \/ Submit(s)
                      \/ Accept(s) \/ RefuseQueued(s) \/ RunStep(s) \/ Forget(s)
  \/ \E w \in strays : Land(w)
  \/ \E r \in Requests :
       \/ \E s \in Scans, kind \in {"read", "decide", "delete"} : Ask(r, kind, s)
       \/ RequestStep(r)
  \/ Purge
  \/ Restart

\* The event loop runs every ready task and threads end; the pipeline ends,
\* since its tools and model calls have timeouts.
Fairness ==
  \A s \in Scans : WF_vars(RunStep(s))

Spec == Init /\ [][Next]_vars /\ Fairness

-----------------------------------------------------------------------------
(* Properties.                                                             *)

Reports == {None} \cup SUBSET Requests

\* Every part of the state has the shape of the code's; _scans and the tasks
\* refer to objects that exist, and a run's object is that of its scan.
TypeOK ==
  /\ objects \in Seq([status : Statuses, report : Reports])
  /\ memory \in [Scans -> 0..Len(objects)]
  /\ own \in [Scans -> 0..Len(objects)]
  /\ tasks \in [Scans -> Uploading \cup Active \cup {"over"}]
  /\ \A s \in Scans : tasks[s] \in Active \cup {"queueing"} => own[s] # 0
  /\ disk \in [Scans -> [exists : BOOLEAN, info : {None} \cup Statuses, report : Reports]]
  /\ \A s \in Scans : ~ disk[s].exists => disk[s] = NoFiles
  /\ \A w \in strays : w.scan \in Scans /\ w.file \in {"info", "report"}
  /\ \A r \in Requests : requests[r].object \in 0..Len(objects)
  /\ purge \subseteq Scans
  /\ acked \in [Scans -> SUBSET Requests]
  /\ deletes \in [Scans -> {"no", "begun", "answered"}]

\* docs/api.md:57: at most MAX_CONCURRENT_SCANS scans are shown as running.
RunningLimit ==
  Cardinality({s \in Scans : InMemory(s) /\ Status(s) = Running}) =< MaxConcurrent

\* docs/api.md:113: a scan whose id a client was given is found until it is
\* deleted, whenever the server stops.
AcceptedIsFound ==
  \A s \in Scans : Accepted(s) /\ deletes[s] = "no" => InMemory(s) \/ disk[s].info # None

\* manager.py:200-217: a decision that was answered stays, in the report that
\* is served and in the one on disk, through concurrent decisions, other loads
\* of the scan, failed writes and restarts.
DecisionsKept ==
  \A s \in Scans : deletes[s] = "no" /\ acked[s] # {} =>
    /\ disk[s].report # None /\ acked[s] \subseteq disk[s].report
    /\ InMemory(s) => /\ objects[memory[s]].report # None
                      /\ acked[s] \subseteq objects[memory[s]].report

\* manager.py:235-246: once a scan is being deleted, nothing of it runs.
DeleteStops ==
  \A s \in Scans : deletes[s] # "no" /\ s \notin purge => tasks[s] = "over"

\* docs/api.md:85 and :97: a report is served only of a scan that is done,
\* when no write has failed and the server has not stopped.
ReportOnlyWhenDone ==
  failures = 0 /\ restarts = 0 =>
    \A s \in Scans : InMemory(s) /\ deletes[s] = "no" /\ objects[memory[s]].report # None
                       => Status(s) = Done

\* manager.py:265-303: a scan that was accepted ends: no run waits for ever.
EveryRunEnds == \A s \in Scans : tasks[s] = "waiting" ~> tasks[s] = "over"

\* docs/api.md:113, "DELETE removes one immediately, so uploaded code and
\* everything derived from it disappear together".
DeletedIsGone == \A s \in Scans : deletes[s] = "answered" => ~ InMemory(s)

=============================================================================
