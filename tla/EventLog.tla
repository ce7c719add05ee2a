------------------------------ MODULE EventLog ------------------------------
(***************************************************************************)
(* One scan's EventLog (app/scans/event_log.py) with the tasks that write  *)
(* to it and the browsers that follow it.                                  *)
(*                                                                         *)
(* ScanManager._run waits for the pipeline, whose tasks emit concurrently  *)
(* under asyncio.gather, then emits the scan's last status and closes the  *)
(* log.  An emit holds the write lock while a thread appends the line; the *)
(* thread goes on when the task that waits for it is cancelled.  A browser *)
(* may lose its connection at any time and resumes after the last id it    *)
(* received; the server may stop at any time and reads the log back.       *)
(***************************************************************************)
EXTENDS Integers, SequencesExt

CONSTANTS
  Children,      \* tasks of the pipeline that emit events
  Run,           \* the task of ScanManager._run
  Clients,       \* browsers that follow the log
  MaxEvents,     \* bound of the model: events a child emits
  MaxFailures,   \* bound of the model: writes that the disk refuses
  MaxRestarts,   \* bound of the model: times the server stops
  MaxDrops       \* bound of the model: connections that are lost

ASSUME LogAssumption ==
  /\ Run \notin Children
  /\ MaxEvents \in Nat
  /\ MaxFailures \in Nat
  /\ MaxRestarts \in Nat
  /\ MaxDrops \in Nat

VARIABLES
  events,    \* _events: what is published, each event with its id
  file,      \* the lines of events.jsonl
  closed,    \* _closed
  queue,     \* _write_lock: who waits for it, in order; the first one holds it
  tasks,     \* what each task is doing, and with which of its events
  writes,    \* appends handed to threads that have not happened yet
  failures,  \* writes refused so far
  restarts,  \* times the server stopped so far
  drops,     \* connections lost so far
  clients,   \* what each browser's follow() is doing, and its position
  got        \* the stored events each browser has received

log == <<events, file, closed>>
vars == <<events, file, closed, queue, tasks, writes, failures, restarts,
          drops, clients, got>>

Tasks == Children \cup {Run}

\* The run's events are the scan's statuses.  The log starts after queued,
\* which submit emits before there is a run.
Running == 0
Done == 1
Failed == 2
Event(t) == [by |-> t, n |-> tasks[t].n]
Terminal(event) == event.by = Run /\ event.n # Running

\* t is in line for the lock.  (To treat that as holding it is a plausible slip.)
Waits(t) == t \in ToSet(queue)

HoldsLock(t) == queue # <<>> /\ Head(queue) = t
Place(t) == CHOOSE i \in DOMAIN queue : queue[i] = t
WithoutRun == IF Waits(Run) THEN RemoveAt(queue, Place(Run)) ELSE queue

Doing(pcs) == {t \in Tasks : tasks[t].pc \in pcs}
Becomes(t, pc) == tasks' = [tasks EXCEPT ![t].pc = pc]

-----------------------------------------------------------------------------

Init ==
  /\ events = <<>>
  /\ file = <<>>
  /\ closed = FALSE
  /\ queue = <<Run>>
  /\ tasks = [t \in Tasks |-> IF t = Run THEN [pc |-> "asking", n |-> Running]
                                         ELSE [pc |-> "waiting", n |-> 0]]
  /\ writes = {}
  /\ failures = 0
  /\ restarts = 0
  /\ drops = 0
  /\ clients = [c \in Clients |-> [pc |-> "off", position |-> 0]]
  /\ got = [c \in Clients |-> <<>>]

\* emit: ask for the write lock.
Ask(t, n) ==
  /\ tasks' = [tasks EXCEPT ![t] = [pc |-> "asking", n |-> n]]
  /\ queue' = Append(queue, t)
  /\ UNCHANGED <<log, writes, failures, restarts, drops, clients, got>>

EmitNext(c) ==
  /\ tasks[c].pc = "busy"
  /\ tasks[c].n < MaxEvents
  /\ Ask(c, tasks[c].n + 1)

Finish(c) ==
  /\ tasks[c].pc = "busy"
  /\ Becomes(c, "over")
  /\ UNCHANGED <<log, queue, writes, failures, restarts, drops, clients, got>>

\* A plausible slip: going on when the first child is over.
OneOver == Children \cap Doing({"over"}) # {}

AllOver == Children \subseteq Doing({"over"})

\* gather returns when every child is over and raises as soon as one fails;
\* the others then go on by themselves.
EndRun ==
  /\ tasks[Run].pc = "busy"
  /\ \/ AllOver /\ Ask(Run, Done)
     \/ Children \cap Doing({"failed"}) # {} /\ Ask(Run, Failed)

\* emit's check, once the lock is held.
Open == ~ closed

\* With the lock: number the event and hand the line to a thread.
Write(t) ==
  /\ tasks[t].pc = "asking"
  /\ HoldsLock(t)
  /\ Open
  /\ writes' = writes \cup {[id |-> Len(events) + 1, event |-> Event(t)]}
  /\ Becomes(t, "writing")
  /\ UNCHANGED <<log, queue, failures, restarts, drops, clients, got>>

\* With the lock of a closed log: the event is ignored.
Ignore(t) ==
  /\ tasks[t].pc = "asking"
  /\ HoldsLock(t)
  /\ ~ Open
  /\ Becomes(t, "busy")
  /\ queue' = Tail(queue)
  /\ UNCHANGED <<log, writes, failures, restarts, drops, clients, got>>

\* The thread appends its line.
Land(w) ==
  /\ w \in writes
  /\ file' = Append(file, w)
  /\ writes' = writes \ {w}
  /\ UNCHANGED <<events, closed, queue, tasks, failures, restarts, drops, clients, got>>

\* A plausible slip: publishing before the line is on disk.
IsBeingWritten(t) == TRUE

\* to_thread has returned: the line is on disk.
IsWritten(t) == \A w \in writes : w.event # Event(t)

\* The event is published and the lock released.
Store(t) ==
  /\ tasks[t].pc = "writing"
  /\ IsWritten(t)
  /\ events' = Append(events, [id |-> Len(events) + 1, event |-> Event(t)])
  /\ queue' = Tail(queue)
  /\ Becomes(t, "notifying")
  /\ UNCHANGED <<file, closed, writes, failures, restarts, drops, clients, got>>

\* The disk refuses the line.  A child's failure is the pipeline's; the run,
\* when it cannot say running or done, says failed, and when it cannot say that, closes.
Refuse(t) ==
  /\ failures < MaxFailures
  /\ tasks[t].pc = "writing"
  /\ ~ IsWritten(t)
  /\ failures' = failures + 1
  /\ writes' = {w \in writes : w.event # Event(t)}
  /\ IF t # Run
     THEN Becomes(t, "failed") /\ queue' = Tail(queue)
     ELSE /\ tasks' = [tasks EXCEPT ![Run] =
                IF @.n = Failed THEN [pc |-> "closing", n |-> Failed]
                                ELSE [pc |-> "asking", n |-> Failed]]
          /\ queue' = Append(Tail(queue), Run)
  /\ UNCHANGED <<log, restarts, drops, clients, got>>

\* The second half of emit: wake the followers.  The run then starts the
\* pipeline, or closes the log.
Wake == [c \in Clients |->
           IF clients[c].pc = "asleep" THEN [clients[c] EXCEPT !.pc = "reading"]
                                       ELSE clients[c]]

Notify(t) ==
  /\ tasks[t].pc = "notifying"
  /\ clients' = Wake
  /\ \/ /\ t = Run /\ tasks[t].n = Running
        /\ tasks' = [s \in Tasks |-> [tasks[s] EXCEPT !.pc = "busy"]]
        /\ UNCHANGED queue
     \/ /\ t = Run /\ tasks[t].n # Running
        /\ Becomes(t, "closing")
        /\ queue' = Append(queue, t)
     \/ /\ t # Run
        /\ Becomes(t, "busy")
        /\ UNCHANGED queue
  /\ UNCHANGED <<log, writes, failures, restarts, drops, got>>

Close ==
  /\ tasks[Run].pc = "closing"
  /\ HoldsLock(Run)
  /\ closed' = TRUE
  /\ queue' = Tail(queue)
  /\ Becomes(Run, "releasing")
  /\ UNCHANGED <<events, file, writes, failures, restarts, drops, clients, got>>

\* A plausible slip: closing the log without a word to those who wait.
ReleaseNobody == clients

\* The second half of close.
Released == Wake

Release ==
  /\ tasks[Run].pc = "releasing"
  /\ clients' = Released
  /\ Becomes(Run, "over")
  /\ UNCHANGED <<log, queue, writes, failures, restarts, drops, got>>

\* Shutdown or deletion cancels the run.  gather, unless it has raised, cancels
\* the children with it, which are the only ones in line; threads are not cancelled.
\* The log is closed next.
Cancel ==
  /\ tasks[Run].pc \in {"busy", "asking", "writing", "notifying"}
  /\ LET gathering == tasks[Run].pc = "busy" /\ Doing({"failed"}) = {}
         stopped == IF gathering THEN Children ELSE {} IN
       /\ tasks' = [t \in Tasks |->
                      IF t = Run THEN [tasks[t] EXCEPT !.pc = "closing"]
                      ELSE IF t \in stopped THEN [tasks[t] EXCEPT !.pc = "over"]
                      ELSE tasks[t]]
       /\ queue' = IF gathering THEN <<Run>> ELSE Append(WithoutRun, Run)
  /\ UNCHANGED <<log, writes, failures, restarts, drops, clients, got>>

\* The server stops and starts again; EventLog.load makes a closed log of the
\* lines that were written.  A line half written is one that load skips.
Restart ==
  /\ restarts < MaxRestarts
  /\ restarts' = restarts + 1
  /\ events' = file
  /\ closed' = TRUE
  /\ queue' = <<>>
  /\ writes' = {}
  /\ tasks' = [t \in Tasks |-> [tasks[t] EXCEPT !.pc = "over"]]
  /\ clients' = [c \in Clients |-> [pc |-> "off", position |-> 0]]
  /\ UNCHANGED <<file, failures, drops, got>>

-----------------------------------------------------------------------------
(* follow().                                                               *)

\* A plausible slip: resuming at the last id instead of after it.
BeforeLastId(c) == IF got[c] = <<>> THEN 0 ELSE Last(got[c]).id - 1

\* Last-Event-ID is the id of the last event received.
LastId(c) == IF got[c] = <<>> THEN 0 ELSE Last(got[c]).id

Connect(c) ==
  /\ clients[c].pc = "off"
  /\ clients' = [clients EXCEPT ![c] = [pc |-> "reading", position |-> LastId(c)]]
  /\ UNCHANGED <<log, queue, tasks, writes, failures, restarts, drops, got>>

Deliver(c) ==
  /\ clients[c].pc = "reading"
  /\ clients[c].position < Len(events)
  /\ got' = [got EXCEPT ![c] = Append(@, events[clients[c].position + 1])]
  /\ clients' = [clients EXCEPT ![c].position = @ + 1]
  /\ UNCHANGED <<log, queue, tasks, writes, failures, restarts, drops>>

\* A plausible slip: ending the stream of a closed log before it is read out.
ReadEnough(c) == TRUE

\* The inner loop has nothing left to yield.
ReadOut(c) == clients[c].position >= Len(events)

EndStream(c) ==
  /\ clients[c].pc = "reading"
  /\ ReadOut(c)
  /\ closed
  /\ clients' = [clients EXCEPT ![c].pc = "ended"]
  /\ UNCHANGED <<log, queue, tasks, writes, failures, restarts, drops, got>>

\* wait_for asks _has_more_than again before it sleeps.
Sleep(c) ==
  /\ clients[c].pc = "reading"
  /\ clients[c].position >= Len(events)
  /\ ~ closed
  /\ clients' = [clients EXCEPT ![c].pc = "asleep"]
  /\ UNCHANGED <<log, queue, tasks, writes, failures, restarts, drops, got>>

\* The connection is lost.
Drop(c) ==
  /\ drops < MaxDrops
  /\ clients[c].pc \in {"reading", "asleep"}
  /\ drops' = drops + 1
  /\ clients' = [clients EXCEPT ![c].pc = "off"]
  /\ UNCHANGED <<log, queue, tasks, writes, failures, restarts, got>>

-----------------------------------------------------------------------------

TaskStep(t) ==
  \/ Write(t) \/ Ignore(t) \/ Store(t) \/ Notify(t)
  \/ t = Run /\ (EndRun \/ Close \/ Release)
  \/ t # Run /\ Finish(t)

Next ==
  \/ \E t \in Tasks : TaskStep(t) \/ Refuse(t)
  \/ \E c \in Children : EmitNext(c)
  \/ \E w \in writes : Land(w)
  \/ Cancel
  \/ Restart
  \/ \E c \in Clients : Connect(c) \/ Deliver(c) \/ EndStream(c) \/ Sleep(c) \/ Drop(c)

\* The event loop runs every ready task, threads finish their writes, and
\* pipeline tasks end (their tool and model calls have timeouts).  Browsers
\* need not read, but a stream that can yield or end does.
Fairness ==
  /\ \A t \in Tasks : WF_vars(TaskStep(t))
  /\ WF_vars(\E w \in writes : Land(w))
  /\ \A c \in Clients : WF_vars(Deliver(c) \/ EndStream(c))

Spec == Init /\ [][Next]_vars /\ Fairness

-----------------------------------------------------------------------------
(* Properties.                                                             *)

Stored == [id : Nat \ {0}, event : [by : Tasks, n : Nat]]

\* The state has the shape of the code's; the lock has one holder, and only
\* its holder is writing.
TypeOK ==
  /\ events \in Seq(Stored) /\ file \in Seq(Stored)
  /\ closed \in BOOLEAN
  /\ queue \in Seq(Tasks) /\ IsInjective(queue)
  /\ tasks \in [Tasks -> [pc : {"waiting", "busy", "asking", "writing", "notifying", "failed",
                                "closing", "releasing", "over"}, n : Nat]]
  /\ \A t \in Tasks : tasks[t].pc = "writing" => Head(queue) = t
  /\ writes \subseteq Stored
  /\ clients \in [Clients -> [pc : {"off", "reading", "asleep", "ended"}, position : Nat]]
  /\ got \in [Clients -> Seq(Stored)]

\* event_log.py:1-7: what a browser has seen is on disk, so that a replay after
\* a restart has it.
SeenIsOnDisk == \A c \in Clients : ToSet(got[c]) \subseteq ToSet(file)

\* event_log.py:3-4: however often a browser reconnects, it receives every
\* event once and in order.
ResumesExactly ==
  restarts = 0 => \A c \in Clients : IsPrefix(got[c], events)

\* event_log.py:6-7: a stream that ends has delivered everything there will
\* ever be.
EndedMeansComplete ==
  [][\A c \in Clients : clients[c].pc = "ended" /\ restarts' = 0 =>
       got[c] = events /\ events' = events]_vars

\* event_log.py:73-78: no browser is left waiting for ever.
FollowersReleased ==
  \A c \in Clients : clients[c].pc = "asleep" ~> clients[c].pc # "asleep"

\* events.py:90, docs/api.md:68: nothing follows the scan's last status.  Once
\* a write has failed, gather leaves tasks behind that may emit after it.
NothingAfterVerdict ==
  failures = 0 => \A i \in DOMAIN events : Terminal(events[i].event) => i = Len(events)

\* docs/api.md:68, "`done` or `failed` is always last": a browser whose stream
\* has ended knows how the scan ended.
StreamEndsWithVerdict ==
  \A c \in Clients : clients[c].pc = "ended" =>
    got[c] # <<>> /\ Terminal(Last(got[c]).event)

=============================================================================
