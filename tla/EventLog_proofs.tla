--------------------------- MODULE EventLog_proofs ---------------------------
(***************************************************************************)
(* What EventLog guarantees for any number of writers, browsers, events,   *)
(* failures, restarts and lost connections.                                *)
(***************************************************************************)
EXTENDS EventLog, Queue_proofs

-----------------------------------------------------------------------------
(* The inductive invariant.                                                *)

\* The line that t's write appends.
Line(t) == [id |-> Len(events) + 1, event |-> Event(t)]

\* The write lock: exactly the tasks that ask, write or close are in line, and only
\* the first of them writes; none once the log is closed; and the pipeline waits for
\* the scan to be running.
LockInv ==
  /\ \A t \in Tasks : Waits(t) <=> tasks[t].pc \in {"asking", "writing", "closing"}
  /\ \A t \in Tasks : tasks[t].pc = "writing" => HoldsLock(t)
  /\ closed => tasks[Run].pc \in {"releasing", "over"}
  /\ closed => \A t \in Tasks : tasks[t].pc # "writing"
  /\ tasks[Run].pc \in {"asking", "writing", "notifying"} /\ tasks[Run].n = Running =>
       \A c \in Children : tasks[c].pc = "waiting"

\* What is published or received is on disk, and a line that is being written is
\* in its thread or there already.
DiskInv ==
  /\ ToSet(events) \subseteq ToSet(file)
  /\ \A c \in Clients : ToSet(got[c]) \subseteq ToSet(file)
  /\ \A t \in Tasks : tasks[t].pc = "writing" => Line(t) \in writes \cup ToSet(file)

\* Until the server stops, ids are places, and a browser that is connected stands
\* where its last event is.
FollowInv ==
  restarts = 0 =>
    /\ \A i \in DOMAIN events : events[i].id = i
    /\ \A c \in Clients :
         /\ IsPrefix(got[c], events)
         /\ clients[c].pc # "off" => clients[c].position = Len(got[c])
         /\ clients[c].pc = "ended" => closed /\ got[c] = events

HasTerminal(s) == \E i \in DOMAIN s : Terminal(s[i].event)
LastIfTerminal(s) == \A i \in DOMAIN s : Terminal(s[i].event) => i = Len(s)

\* The run has begun to say how it ended.
Final == tasks[Run].n # Running

\* The run is not cancelled, and not done.
Undisturbed == tasks[Run].pc \in {"asking", "writing", "notifying", "busy"}

\* Before the last status no other is written anywhere; it is asked for when nobody
\* else writes any more, and then it is the last of all.
Verdict ==
  /\ \A t \in Tasks : tasks[t].pc # "failed"
  /\ tasks[Run].pc = "busy" => ~ Final
  /\ Undisturbed => \A w \in writes : \E t \in Tasks : tasks[t].pc = "writing" /\ w = Line(t)
  /\ LastIfTerminal(events) /\ LastIfTerminal(file)
  /\ ~ Final => /\ ~ HasTerminal(events) /\ ~ HasTerminal(file)
                /\ \A w \in writes : ~ Terminal(w.event)
  /\ Final => /\ \A c \in Children : tasks[c].pc = "over"
              /\ \A w \in writes : Terminal(w.event) /\ writes = {w} /\ ~ HasTerminal(file)
              /\ tasks[Run].pc \in {"asking", "writing"} => ~ HasTerminal(events)
              /\ tasks[Run].pc = "asking" => writes = {} /\ ~ HasTerminal(file)

\* A child whose write has failed goes on after the verdict.
VerdictInv == failures = 0 => Verdict

\* Failures and restarts are counted.
Counts == failures \in Nat /\ restarts \in Nat

IInv == TypeOK /\ Counts /\ LockInv /\ DiskInv /\ FollowInv /\ VerdictInv

-----------------------------------------------------------------------------
(* What the helpers of the actions do.                                     *)

Pcs == {"waiting", "busy", "asking", "writing", "notifying", "failed", "closing",
        "releasing", "over"}
TasksType == tasks \in [Tasks -> [pc : Pcs, n : Nat]]
QueueType == queue \in Seq(Tasks) /\ IsInjective(queue)

LEMMA RunIsTask == Run \in Tasks /\ Children \subseteq Tasks /\ \A c \in Children : c # Run
BY LogAssumption, Zenon DEF Tasks

\* Becomes changes one task's state and nobody's event.
LEMMA BecomesEffect ==
  ASSUME TasksType, NEW t \in Tasks, NEW p \in Pcs, Becomes(t, p)
  PROVE  /\ TasksType'
         /\ tasks'[t].pc = p
         /\ \A s \in Tasks : tasks'[s].n = tasks[s].n
         /\ \A s \in Tasks : s # t => tasks'[s].pc = tasks[s].pc
BY DEF TasksType, Becomes

\* The same, when the task's event changes too.
LEMMA SetEffect ==
  ASSUME TasksType, NEW t \in Tasks, NEW p \in Pcs, NEW k \in Nat,
         tasks' = [tasks EXCEPT ![t] = [pc |-> p, n |-> k]]
  PROVE  /\ TasksType'
         /\ tasks'[t].pc = p /\ tasks'[t].n = k
         /\ \A s \in Tasks : s # t => tasks'[s].pc = tasks[s].pc /\ tasks'[s].n = tasks[s].n
BY DEF TasksType

\* Who joins the line is in it, and the one who holds the lock keeps it.
LEMMA JoinEffect ==
  ASSUME QueueType, NEW t \in Tasks, ~ Waits(t), queue' = Append(queue, t)
  PROVE  /\ QueueType'
         /\ \A s \in Tasks : Waits(s)' <=> Waits(s) \/ s = t
         /\ \A s \in Tasks : HoldsLock(s) => HoldsLock(s)'
<1>1. queue \in Seq(Tasks) /\ IsInjective(queue) /\ t \notin ToSet(queue)
  BY Zenon DEF QueueType, Waits
<1>2. /\ Append(queue, t) \in Seq(Tasks)
      /\ ToSet(Append(queue, t)) = ToSet(queue) \cup {t}
  BY <1>1, AppendElements
<1>3. IsInjective(Append(queue, t))
  BY <1>1, AppendDistinct, Zenon
<1>4. queue # <<>> => Append(queue, t) # <<>> /\ Head(Append(queue, t)) = Head(queue)
  BY <1>1, AppendHead, Zenon
<1> QED
  BY <1>2, <1>3, <1>4, Zenon DEF QueueType, Waits, HoldsLock

\* Who gives the lock back is no longer in line.
LEMMA LeaveEffect ==
  ASSUME QueueType, NEW t \in Tasks, HoldsLock(t), queue' = Tail(queue)
  PROVE  /\ QueueType'
         /\ \A s \in Tasks : Waits(s)' <=> Waits(s) /\ s # t
<1>1. /\ Tail(queue) \in Seq(Tasks) /\ IsInjective(Tail(queue))
      /\ ToSet(Tail(queue)) = ToSet(queue) \ {Head(queue)}
  BY TailElements, Zenon DEF QueueType, HoldsLock
<1> QED
  BY <1>1, Zenon DEF QueueType, Waits, HoldsLock

\* Who is in line leaves it when it is cancelled.
LEMMA WithoutRunEffect ==
  ASSUME QueueType
  PROVE  /\ WithoutRun \in Seq(Tasks)
         /\ IsInjective(WithoutRun)
         /\ ToSet(WithoutRun) = ToSet(queue) \ {Run}
         /\ \A t \in Tasks : HoldsLock(t) /\ t # Run =>
              WithoutRun # <<>> /\ Head(WithoutRun) = t
<1>1. CASE ~ Waits(Run)
  BY <1>1, Zenon DEF WithoutRun, QueueType, HoldsLock, Waits
<1>2. CASE Waits(Run)
  <2>1. \E i \in 1..Len(queue) : queue[i] = Run
    BY <1>2, InSequence, Zenon DEF QueueType, Waits
  <2>2. DOMAIN queue = 1..Len(queue)
    BY DEF QueueType
  <2>3. Place(Run) \in 1..Len(queue) /\ queue[Place(Run)] = Run
    BY <2>1, <2>2, Zenon DEF Place
  <2>4. WithoutRun = RemoveAt(queue, Place(Run))
    BY <1>2, Zenon DEF WithoutRun
  <2>5. /\ WithoutRun \in Seq(Tasks) /\ IsInjective(WithoutRun)
        /\ ToSet(WithoutRun) = ToSet(queue) \ {Run}
        /\ Place(Run) # 1 => WithoutRun # <<>> /\ Head(WithoutRun) = Head(queue)
    BY <2>3, <2>4, RemoveAtElements, Zenon DEF QueueType
  <2>6. ASSUME NEW t \in Tasks, HoldsLock(t), t # Run PROVE Place(Run) # 1 /\ Head(queue) = t
    <3>1. Head(queue) = t /\ queue # <<>>
      BY <2>6, Zenon DEF HoldsLock
    <3>2. queue[1] = t
      BY <3>1 DEF QueueType
    <3> QED
      BY <3>1, <3>2, <2>3, <2>6, Zenon
  <2> QED
    BY <2>5, <2>6, Zenon
<1> QED
  BY <1>1, <1>2, Zenon

-----------------------------------------------------------------------------
(* The tasks, the lock and the closing of the log.                         *)

Control == closed \in BOOLEAN /\ TasksType /\ QueueType /\ LockInv

\* Asking for the lock: Run does so to say how the scan ended, a child any time.
LEMMA AskControl ==
  ASSUME Control, NEW t \in Tasks, NEW n \in Nat, Ask(t, n), tasks[t].pc = "busy",
         t = Run => n # Running
  PROVE  Control'
<1>1. /\ tasks' = [tasks EXCEPT ![t] = [pc |-> "asking", n |-> n]]
      /\ queue' = Append(queue, t) /\ closed' = closed
  BY Zenon DEF Ask, log
<1>2. /\ TasksType' /\ tasks'[t].pc = "asking" /\ tasks'[t].n = n
      /\ \A s \in Tasks : s # t => tasks'[s].pc = tasks[s].pc /\ tasks'[s].n = tasks[s].n
  BY <1>1, SetEffect DEF Control, Pcs
<1>3. ~ Waits(t)
  BY DEF Control, LockInv
<1>4. /\ QueueType'
      /\ \A s \in Tasks : Waits(s)' <=> Waits(s) \/ s = t
      /\ \A s \in Tasks : HoldsLock(s) => HoldsLock(s)'
  BY <1>1, <1>3, JoinEffect, Zenon DEF Control
<1>5. LockInv'
  BY <1>1, <1>2, <1>4, RunIsTask DEF Control, LockInv
<1> QED
  BY <1>1, <1>2, <1>4, <1>5, Zenon DEF Control

\* A change of what t is doing that concerns neither the lock nor the log.
LEMMA BecomesControl ==
  ASSUME Control, NEW t \in Tasks, NEW p \in {"busy", "over"}, Becomes(t, p),
         tasks[t].pc \notin {"asking", "writing", "closing", "waiting"},
         t = Run => p = "over",
         UNCHANGED <<queue, closed>>
  PROVE  Control'
<1>1. p \in Pcs /\ closed' = closed
  BY DEF Pcs
<1>2. /\ TasksType' /\ tasks'[t].pc = p
      /\ \A s \in Tasks : tasks'[s].n = tasks[s].n
      /\ \A s \in Tasks : s # t => tasks'[s].pc = tasks[s].pc
  BY <1>1, BecomesEffect DEF Control
<1>3. /\ QueueType'
      /\ \A s \in Tasks : Waits(s)' <=> Waits(s)
      /\ \A s \in Tasks : HoldsLock(s)' <=> HoldsLock(s)
  BY Zenon DEF QueueType, Waits, HoldsLock, Control
<1>4. LockInv'
  BY <1>1, <1>2, <1>3, RunIsTask DEF Control, LockInv
<1> QED
  BY <1>2, <1>3, <1>4, Zenon DEF Control

LEMMA WriteControl ==
  ASSUME Control, NEW t \in Tasks, Write(t)
  PROVE  Control'
<1>1. /\ tasks[t].pc = "asking" /\ HoldsLock(t) /\ ~ closed
      /\ Becomes(t, "writing") /\ queue' = queue /\ closed' = closed
  BY Zenon DEF Write, Open, log
<1>2. /\ TasksType' /\ tasks'[t].pc = "writing"
      /\ \A s \in Tasks : tasks'[s].n = tasks[s].n
      /\ \A s \in Tasks : s # t => tasks'[s].pc = tasks[s].pc
  BY <1>1, BecomesEffect DEF Control, Pcs
<1>3. /\ QueueType'
      /\ \A s \in Tasks : Waits(s)' <=> Waits(s)
      /\ \A s \in Tasks : HoldsLock(s)' <=> HoldsLock(s)
  BY <1>1, Zenon DEF QueueType, Waits, HoldsLock, Control
<1>4. LockInv'
  BY <1>1, <1>2, <1>3, RunIsTask DEF Control, LockInv
<1> QED
  BY <1>1, <1>2, <1>3, <1>4, Zenon DEF Control

\* What giving the lock back changes.
LEMMA GiveBackEffect ==
  ASSUME Control, NEW t \in Tasks, HoldsLock(t), queue' = Tail(queue),
         NEW p \in Pcs, Becomes(t, p)
  PROVE  /\ TasksType' /\ tasks'[t].pc = p
         /\ \A s \in Tasks : tasks'[s].n = tasks[s].n
         /\ \A s \in Tasks : s # t => tasks'[s].pc = tasks[s].pc
         /\ QueueType'
         /\ \A s \in Tasks : Waits(s)' <=> Waits(s) /\ s # t
         /\ \A s \in Tasks : s # t => tasks[s].pc # "writing"
         /\ Waits(t)
<1>1. /\ TasksType' /\ tasks'[t].pc = p
      /\ \A s \in Tasks : tasks'[s].n = tasks[s].n
      /\ \A s \in Tasks : s # t => tasks'[s].pc = tasks[s].pc
  BY BecomesEffect DEF Control
<1>2. /\ QueueType'
      /\ \A s \in Tasks : Waits(s)' <=> Waits(s) /\ s # t
  BY LeaveEffect, Zenon DEF Control
<1>3. \A s \in Tasks : s # t => tasks[s].pc # "writing"
  BY Zenon DEF Control, LockInv, HoldsLock
<1>4. Waits(t)
  BY TailElements, Zenon DEF HoldsLock, Waits, Control, QueueType
<1> QED
  BY <1>1, <1>2, <1>3, <1>4, Zenon

\* The holder gives the lock back and goes on.
LEMMA GiveBackControl ==
  ASSUME Control, NEW t \in Tasks, HoldsLock(t), queue' = Tail(queue),
         NEW p \in {"busy", "notifying", "failed"}, Becomes(t, p), closed' = closed,
         t = Run => p = "notifying" /\ tasks[Run].pc = "writing"
  PROVE  Control'
<1>1. p \in Pcs
  BY DEF Pcs
<1>2. /\ TasksType' /\ tasks'[t].pc = p
      /\ \A s \in Tasks : tasks'[s].n = tasks[s].n
      /\ \A s \in Tasks : s # t => tasks'[s].pc = tasks[s].pc
      /\ QueueType'
      /\ \A s \in Tasks : Waits(s)' <=> Waits(s) /\ s # t
      /\ \A s \in Tasks : s # t => tasks[s].pc # "writing"
      /\ Waits(t)
  BY <1>1, GiveBackEffect
<1>3. LockInv'
  BY <1>2, RunIsTask DEF Control, LockInv
<1> QED
  BY <1>2, <1>3, Zenon DEF Control

LEMMA CloseControl ==
  ASSUME Control, Close
  PROVE  Control'
<1>1. /\ tasks[Run].pc = "closing" /\ HoldsLock(Run) /\ closed' = TRUE
      /\ queue' = Tail(queue) /\ Becomes(Run, "releasing") /\ "releasing" \in Pcs
  BY DEF Close, Pcs
<1>2. /\ TasksType' /\ tasks'[Run].pc = "releasing"
      /\ \A s \in Tasks : tasks'[s].n = tasks[s].n
      /\ \A s \in Tasks : s # Run => tasks'[s].pc = tasks[s].pc
      /\ QueueType'
      /\ \A s \in Tasks : Waits(s)' <=> Waits(s) /\ s # Run
      /\ \A s \in Tasks : s # Run => tasks[s].pc # "writing"
  BY <1>1, RunIsTask, GiveBackEffect
<1>3. LockInv'
  BY <1>1, <1>2, RunIsTask DEF Control, LockInv
<1> QED
  BY <1>1, <1>2, <1>3, Zenon DEF Control

LEMMA RefuseControl ==
  ASSUME Control, NEW t \in Tasks, Refuse(t)
  PROVE  Control'
<1>1. /\ tasks[t].pc = "writing" /\ closed' = closed /\ HoldsLock(t)
  BY Zenon DEF Refuse, log, Control, LockInv
<1>2. CASE t # Run
  <2>1. Becomes(t, "failed") /\ queue' = Tail(queue)
    BY <1>2, Zenon DEF Refuse
  <2> QED
    BY <1>1, <1>2, <2>1, GiveBackControl
<1>3. CASE t = Run
  <2> DEFINE p == IF tasks[Run].n = Failed THEN "closing" ELSE "asking"
  <2>1. /\ tasks' = [tasks EXCEPT ![Run] = [pc |-> p, n |-> Failed]]
        /\ queue' = Append(Tail(queue), Run)
    BY <1>3, RunIsTask DEF Refuse, Control, TasksType
  <2>2. p \in Pcs /\ Failed \in Nat /\ p \in {"closing", "asking"} /\ Failed # Running
    BY DEF Pcs, Failed, Running
  <2> HIDE DEF p
  <2>3. /\ TasksType' /\ tasks'[Run].pc = p /\ tasks'[Run].n = Failed
        /\ \A s \in Tasks : s # Run => tasks'[s].pc = tasks[s].pc /\ tasks'[s].n = tasks[s].n
    BY <2>1, <2>2, RunIsTask DEF Control, TasksType
  <2>4. /\ queue \in Seq(Tasks) /\ IsInjective(queue) /\ queue # <<>> /\ Head(queue) = Run
    BY <1>1, <1>3, Zenon DEF Control, QueueType, HoldsLock
  <2> DEFINE others == Tail(queue)
  <2>5. /\ others \in Seq(Tasks) /\ IsInjective(others)
        /\ Run \in ToSet(queue) /\ ToSet(others) = ToSet(queue) \ {Run}
    BY <2>4, TailElements, Zenon
  <2>6. queue' = Append(others, Run) /\ Run \in Tasks
    BY <2>1, RunIsTask, Zenon
  <2> HIDE DEF others
  <2>7. /\ Append(others, Run) \in Seq(Tasks)
        /\ ToSet(Append(others, Run)) = ToSet(others) \cup {Run}
    BY <2>6, <2>5, AppendElements
  <2>8. IsInjective(Append(others, Run))
    BY <2>6, <2>5, AppendDistinct
  <2>9. \A s \in Tasks : Waits(s)' <=> Waits(s)
    BY <2>6, <2>5, <2>7, Zenon DEF Waits
  <2>10. \A s \in Tasks : tasks'[s].pc # "writing"
    BY <2>2, <2>3, <2>4, Zenon DEF Control, LockInv, HoldsLock
  <2>11. LockInv'
    BY <1>1, <1>3, <2>2, <2>3, <2>9, <2>10, RunIsTask DEF Control, LockInv
  <2> QED
    BY <1>1, <2>6, <2>3, <2>7, <2>8, <2>11, Zenon DEF Control, QueueType
<1> QED
  BY <1>2, <1>3, Zenon

LEMMA NotifyControl ==
  ASSUME Control, NEW t \in Tasks, Notify(t)
  PROVE  Control'
<1>1. /\ tasks[t].pc = "notifying" /\ closed' = closed
  BY Zenon DEF Notify, log
<1>2. CASE /\ t = Run /\ tasks[t].n = Running
           /\ tasks' = [s \in Tasks |-> [tasks[s] EXCEPT !.pc = "busy"]]
           /\ UNCHANGED queue
  <2>1. TasksType' /\ \A s \in Tasks : tasks'[s].pc = "busy" /\ tasks'[s].n = tasks[s].n
    BY <1>2 DEF Control, TasksType, Pcs
  <2>2. \A s \in Tasks : tasks[s].pc \in {"waiting", "notifying"}
    BY <1>1, <1>2, Zenon DEF Control, LockInv, Tasks
  <2>3. QueueType' /\ \A s \in Tasks : Waits(s)' <=> Waits(s)
    BY <1>2, Zenon DEF QueueType, Waits, Control
  <2>4. LockInv'
    BY <1>1, <1>2, <2>1, <2>2, <2>3, RunIsTask DEF Control, LockInv
  <2> QED
    BY <1>1, <2>1, <2>3, <2>4, Zenon DEF Control
<1>3. CASE /\ t = Run /\ tasks[t].n # Running
           /\ Becomes(t, "closing")
           /\ queue' = Append(queue, t)
  <2>1. /\ TasksType' /\ tasks'[t].pc = "closing"
        /\ \A s \in Tasks : tasks'[s].n = tasks[s].n
        /\ \A s \in Tasks : s # t => tasks'[s].pc = tasks[s].pc
    BY <1>3, BecomesEffect DEF Control, Pcs
  <2>2. ~ Waits(t)
    BY <1>1 DEF Control, LockInv
  <2>3. /\ QueueType'
        /\ \A s \in Tasks : Waits(s)' <=> Waits(s) \/ s = t
        /\ \A s \in Tasks : HoldsLock(s) => HoldsLock(s)'
    BY <1>3, <2>2, JoinEffect, Zenon DEF Control
  <2>4. LockInv'
    BY <1>1, <1>3, <2>1, <2>3, RunIsTask DEF Control, LockInv
  <2> QED
    BY <1>1, <2>1, <2>3, <2>4, Zenon DEF Control
<1>4. CASE t # Run /\ Becomes(t, "busy") /\ UNCHANGED queue
  BY <1>1, <1>4, BecomesControl
<1> QED
  BY <1>2, <1>3, <1>4, Zenon DEF Notify

\* A cancelled run leaves the line, and its children with it while gather waits for
\* them; then it asks for the lock once more, to close the log.
LEMMA CancelControl ==
  ASSUME Control, Cancel
  PROVE  Control'
<1> DEFINE gathering == tasks[Run].pc = "busy" /\ Doing({"failed"}) = {}
<1>1. /\ tasks[Run].pc \in {"busy", "asking", "writing", "notifying"} /\ closed' = closed
      /\ tasks' = [t \in Tasks |->
                     IF t = Run THEN [tasks[t] EXCEPT !.pc = "closing"]
                     ELSE IF t \in (IF gathering THEN Children ELSE {})
                          THEN [tasks[t] EXCEPT !.pc = "over"] ELSE tasks[t]]
      /\ queue' = IF gathering THEN <<Run>> ELSE Append(WithoutRun, Run)
  BY Zenon DEF Cancel, log
<1> HIDE DEF gathering
<1>2. ~ closed
  BY <1>1 DEF Control, LockInv
<1>3. CASE gathering
  <2>1. /\ TasksType' /\ tasks'[Run].pc = "closing"
        /\ \A s \in Tasks : tasks'[s].n = tasks[s].n
        /\ \A s \in Tasks : s # Run => tasks'[s].pc = "over"
    BY <1>1, <1>3, RunIsTask DEF Control, TasksType, Pcs, Tasks
  <2>2. queue' = <<Run>>
    BY <1>1, <1>3, Zenon
  <2>3. /\ <<Run>> \in Seq(Tasks) /\ Len(<<Run>>) = 1 /\ <<Run>>[1] = Run
    BY RunIsTask
  <2>4. QueueType'
    <3>1. \A i, j \in 1..Len(<<Run>>) : <<Run>>[i] = <<Run>>[j] => i = j
      BY <2>3
    <3>2. IsInjective(<<Run>>)
      BY <3>1, <2>3, DistinctSequence, Zenon
    <3> QED
      BY <2>2, <2>3, <3>2, Zenon DEF QueueType
  <2>5. \A s \in Tasks : Waits(s)' <=> s = Run
    <3>1. \A s : s \in ToSet(<<Run>>) <=> \E i \in 1..Len(<<Run>>) : <<Run>>[i] = s
      BY <2>3, InSequence, Zenon
    <3>2. \A s : s \in ToSet(<<Run>>) <=> s = Run
      BY <2>3, <3>1
    <3> QED
      BY <2>2, <3>2, Zenon DEF Waits
  <2>6. LockInv'
    BY <1>1, <1>2, <2>1, <2>5, RunIsTask DEF LockInv
  <2> QED
    BY <1>1, <2>1, <2>4, <2>6, Zenon DEF Control
<1>4. CASE ~ gathering
  <2>1. /\ TasksType' /\ tasks'[Run].pc = "closing"
        /\ \A s \in Tasks : tasks'[s].n = tasks[s].n
        /\ \A s \in Tasks : s # Run => tasks'[s].pc = tasks[s].pc
    BY <1>1, <1>4, RunIsTask DEF Control, TasksType, Pcs
  <2> DEFINE others == WithoutRun
  <2>2. /\ others \in Seq(Tasks) /\ IsInjective(others)
        /\ ToSet(others) = ToSet(queue) \ {Run} /\ Run \notin ToSet(others)
        /\ \A t \in Tasks : HoldsLock(t) /\ t # Run => others # <<>> /\ Head(others) = t
    BY WithoutRunEffect, Zenon DEF Control
  <2>3. queue' = Append(others, Run) /\ Run \in Tasks
    BY <1>1, <1>4, RunIsTask, Zenon
  <2> HIDE DEF others
  <2>4. /\ Append(others, Run) \in Seq(Tasks)
        /\ ToSet(Append(others, Run)) = ToSet(others) \cup {Run}
    BY <2>2, <2>3, AppendElements
  <2>5. IsInjective(Append(others, Run))
    BY <2>2, <2>3, AppendDistinct
  <2>6. QueueType' /\ \A s \in Tasks : Waits(s)' <=> Waits(s) \/ s = Run
    BY <2>2, <2>3, <2>4, <2>5, Zenon DEF QueueType, Waits
  <2>7. \A t \in Tasks : HoldsLock(t) /\ t # Run => HoldsLock(t)'
    <3>1. others # <<>> => Append(others, Run) # <<>> /\ Head(Append(others, Run)) = Head(others)
      BY <2>2, <2>3, AppendHead
    <3> QED
      BY <2>2, <2>3, <3>1, Zenon DEF HoldsLock
  <2>8. LockInv'
    BY <1>1, <1>2, <2>1, <2>6, <2>7, RunIsTask DEF Control, LockInv
  <2> QED
    BY <1>1, <2>1, <2>6, <2>8, Zenon DEF Control
<1> QED
  BY <1>3, <1>4, Zenon

LEMMA RestartControl ==
  ASSUME Control, Restart
  PROVE  Control'
<1>1. /\ closed' = TRUE /\ queue' = <<>>
      /\ tasks' = [t \in Tasks |-> [tasks[t] EXCEPT !.pc = "over"]]
  BY Zenon DEF Restart
<1>2. TasksType' /\ \A s \in Tasks : tasks'[s].pc = "over"
  BY <1>1 DEF Control, TasksType, Pcs
<1>3. <<>> \in Seq(Tasks) /\ ToSet(<<>>) = {} /\ IsInjective(<<>>)
  BY DEF ToSet, IsInjective
<1>4. QueueType' /\ \A s \in Tasks : ~ Waits(s)'
  BY <1>1, <1>3, Zenon DEF QueueType, Waits
<1>5. LockInv'
  BY <1>1, <1>2, <1>4, RunIsTask DEF LockInv
<1> QED
  BY <1>1, <1>2, <1>4, <1>5, Zenon DEF Control

LEMMA InitControl == Init => Control
<1> SUFFICES ASSUME Init PROVE Control
  OBVIOUS
<1>1. /\ closed = FALSE /\ queue = <<Run>>
      /\ tasks = [t \in Tasks |-> IF t = Run THEN [pc |-> "asking", n |-> Running]
                                             ELSE [pc |-> "waiting", n |-> 0]]
  BY Zenon DEF Init
<1>2. TasksType /\ tasks[Run].pc = "asking"
      /\ \A s \in Tasks : s # Run => tasks[s].pc = "waiting"
  BY <1>1, RunIsTask DEF TasksType, Pcs, Running
<1>3. /\ <<Run>> \in Seq(Tasks) /\ Len(<<Run>>) = 1 /\ <<Run>>[1] = Run
  BY RunIsTask
<1>4. QueueType
  <2>1. \A i, j \in 1..Len(<<Run>>) : <<Run>>[i] = <<Run>>[j] => i = j
    BY <1>3
  <2>2. IsInjective(<<Run>>)
    BY <2>1, <1>3, DistinctSequence, Zenon
  <2> QED
    BY <1>1, <1>3, <2>2, Zenon DEF QueueType
<1>5. \A s \in Tasks : Waits(s) <=> s = Run
  <2>1. \A s : s \in ToSet(<<Run>>) <=> \E i \in 1..Len(<<Run>>) : <<Run>>[i] = s
    BY <1>3, InSequence, Zenon
  <2>2. \A s : s \in ToSet(<<Run>>) <=> s = Run
    BY <1>3, <2>1
  <2> QED
    BY <1>1, <2>2, Zenon DEF Waits
<1>6. LockInv
  BY <1>1, <1>2, <1>5, RunIsTask DEF LockInv
<1> QED
  BY <1>1, <1>2, <1>4, <1>6, Zenon DEF Control

LEMMA ControlStep == Control /\ [Next]_vars => Control'
<1> SUFFICES ASSUME Control, [Next]_vars PROVE Control'
  OBVIOUS
<1> USE RunIsTask
<1>1. ASSUME UNCHANGED <<tasks, queue, closed>> PROVE Control'
  BY <1>1, Zenon DEF Control, TasksType, QueueType, LockInv, Waits, HoldsLock
<1>2. ASSUME NEW t \in Tasks, Write(t) PROVE Control'
  BY <1>2, WriteControl
<1>3. ASSUME NEW t \in Tasks, Ignore(t) PROVE Control'
  <2>1. /\ tasks[t].pc = "asking" /\ HoldsLock(t) /\ closed
        /\ Becomes(t, "busy") /\ queue' = Tail(queue) /\ closed' = closed
    BY <1>3, Zenon DEF Ignore, Open, log
  <2>2. t # Run
    BY <2>1 DEF Control, LockInv
  <2> QED
    BY <2>1, <2>2, GiveBackControl
<1>4. ASSUME NEW t \in Tasks, Store(t) PROVE Control'
  <2>1. /\ tasks[t].pc = "writing" /\ HoldsLock(t)
        /\ Becomes(t, "notifying") /\ queue' = Tail(queue) /\ closed' = closed
    BY <1>4, Zenon DEF Store, Control, LockInv
  <2> QED
    BY <2>1, GiveBackControl
<1>5. ASSUME NEW t \in Tasks, Notify(t) PROVE Control'
  BY <1>5, NotifyControl
<1>6. CASE EndRun
  <2>1. tasks[Run].pc = "busy" /\ (Ask(Run, Done) \/ Ask(Run, Failed))
    BY <1>6, Zenon DEF EndRun
  <2>2. Done \in Nat /\ Failed \in Nat /\ Done # Running /\ Failed # Running
    BY DEF Done, Failed, Running
  <2> QED
    BY <2>1, <2>2, AskControl
<1>7. CASE Close
  BY <1>7, CloseControl
<1>8. CASE Release
  <2>1. /\ tasks[Run].pc = "releasing" /\ Becomes(Run, "over") /\ UNCHANGED <<queue, closed>>
    BY <1>8, Zenon DEF Release, log
  <2> QED
    BY <2>1, BecomesControl
<1>9. ASSUME NEW t \in Tasks, t # Run, Finish(t) PROVE Control'
  <2>1. tasks[t].pc = "busy" /\ Becomes(t, "over") /\ UNCHANGED <<queue, closed>>
    BY <1>9, Zenon DEF Finish, log
  <2> QED
    BY <1>9, <2>1, BecomesControl
<1>10. ASSUME NEW t \in Tasks, Refuse(t) PROVE Control'
  BY <1>10, RefuseControl
<1>11. ASSUME NEW c \in Children, EmitNext(c) PROVE Control'
  <2>1. tasks[c].pc = "busy" /\ Ask(c, tasks[c].n + 1) /\ c \in Tasks /\ c # Run
    BY <1>11, Zenon DEF EmitNext
  <2>2. tasks[c].n + 1 \in Nat
    BY <2>1 DEF Control, TasksType
  <2> QED
    BY <2>1, <2>2, AskControl
<1>12. ASSUME NEW w \in writes, Land(w) PROVE Control'
  BY <1>1, <1>12, Zenon DEF Land
<1>13. CASE Cancel
  BY <1>13, CancelControl
<1>14. CASE Restart
  BY <1>14, RestartControl
<1>15. ASSUME NEW c \in Clients, Connect(c) \/ Deliver(c) \/ EndStream(c) \/ Sleep(c) \/ Drop(c)
       PROVE  Control'
  BY <1>1, <1>15, Zenon DEF Connect, Deliver, EndStream, Sleep, Drop, log
<1>16. CASE UNCHANGED vars
  BY <1>1, <1>16, Zenon DEF vars, log
<1> QED
  BY <1>2, <1>3, <1>4, <1>5, <1>6, <1>7, <1>8, <1>9, <1>10, <1>11, <1>12, <1>13, <1>14,
     <1>15, <1>16, Zenon DEF Next, TaskStep

-----------------------------------------------------------------------------
(* The log, the disk and the browsers: types.                              *)

ClientPcs == {"off", "reading", "asleep", "ended"}
ClientsType == clients \in [Clients -> [pc : ClientPcs, position : Nat]]

Data ==
  /\ events \in Seq(Stored) /\ file \in Seq(Stored)
  /\ writes \subseteq Stored
  /\ ClientsType
  /\ got \in [Clients -> Seq(Stored)]

LEMMA LineType ==
  ASSUME Data, TasksType, NEW t \in Tasks
  PROVE  Line(t) \in Stored
<1>1. Len(events) + 1 \in Nat \ {0}
  BY DEF Data
<1>2. Event(t) \in [by : Tasks, n : Nat]
  BY DEF Event, TasksType
<1> QED
  BY <1>1, <1>2 DEF Line, Stored

LEMMA WakeEffect ==
  ASSUME ClientsType, clients' = Wake
  PROVE  /\ ClientsType'
         /\ \A c \in Clients : /\ clients'[c].position = clients[c].position
                               /\ clients'[c].pc = "off" <=> clients[c].pc = "off"
                               /\ clients'[c].pc = "ended" <=> clients[c].pc = "ended"
BY DEF ClientsType, ClientPcs, Wake

LEMMA LastIdType ==
  ASSUME Data, NEW c \in Clients
  PROVE  LastId(c) \in Nat
<1>1. got[c] \in Seq(Stored)
  BY DEF Data
<1>2. got[c] # <<>> => Last(got[c]) \in Stored
  BY <1>1 DEF Last
<1> QED
  BY <1>2 DEF LastId, Stored

LEMMA DataStep == Data /\ Control /\ [Next]_vars => Data'
<1> SUFFICES ASSUME Data, Control, [Next]_vars PROVE Data'
  OBVIOUS
<1>1. ASSUME UNCHANGED <<events, file, writes, clients, got>> PROVE Data'
  BY <1>1, Zenon DEF Data, ClientsType
<1>2. ASSUME NEW t \in Tasks, Write(t) PROVE Data'
  <2>1. writes' = writes \cup {Line(t)} /\ UNCHANGED <<events, file, clients, got>>
    BY <1>2, Zenon DEF Write, Line, log
  <2> QED
    BY <2>1, LineType, Zenon DEF Data, ClientsType, Control
<1>3. ASSUME NEW t \in Tasks, Store(t) PROVE Data'
  <2>1. events' = Append(events, Line(t)) /\ UNCHANGED <<file, writes, clients, got>>
    BY <1>3, Zenon DEF Store, Line
  <2>2. Line(t) \in Stored
    BY LineType, Zenon DEF Control
  <2>3. events' \in Seq(Stored)
    BY <2>1, <2>2 DEF Data
  <2> QED
    BY <2>1, <2>3, Zenon DEF Data, ClientsType
<1>4. ASSUME NEW t \in Tasks, Refuse(t) PROVE Data'
  <2>1. writes' \subseteq writes /\ UNCHANGED <<events, file, clients, got>>
    BY <1>4, Zenon DEF Refuse, log
  <2> QED
    BY <2>1, Zenon DEF Data, ClientsType
<1>5. ASSUME clients' = Wake, UNCHANGED <<events, file, writes, got>> PROVE Data'
  BY <1>5, WakeEffect, Zenon DEF Data
<1>6. ASSUME NEW t \in Tasks, Notify(t) PROVE Data'
  BY <1>5, <1>6, Zenon DEF Notify, log
<1>7. CASE Release
  BY <1>5, <1>7, Zenon DEF Release, Released, log
<1>8. ASSUME NEW w \in writes, Land(w) PROVE Data'
  <2>1. /\ file' = Append(file, w) /\ writes' \subseteq writes
        /\ UNCHANGED <<events, clients, got>>
    BY <1>8, Zenon DEF Land
  <2>2. file' \in Seq(Stored)
    BY <2>1 DEF Data
  <2> QED
    BY <2>1, <2>2, Zenon DEF Data, ClientsType
<1>9. CASE Restart
  <2>1. /\ events' = file /\ file' = file /\ writes' = {} /\ got' = got
        /\ clients' = [c \in Clients |-> [pc |-> "off", position |-> 0]]
    BY <1>9, Zenon DEF Restart
  <2>2. ClientsType'
    BY <2>1 DEF ClientsType, ClientPcs
  <2> QED
    BY <2>1, <2>2, Zenon DEF Data
<1>10. ASSUME NEW c \in Clients, Connect(c) PROVE Data'
  <2>1. /\ clients' = [clients EXCEPT ![c] = [pc |-> "reading", position |-> LastId(c)]]
        /\ UNCHANGED <<events, file, writes, got>>
    BY <1>10, Zenon DEF Connect, log
  <2>2. ClientsType'
    BY <2>1, LastIdType DEF Data, ClientsType, ClientPcs
  <2> QED
    BY <2>1, <2>2, Zenon DEF Data
<1>11. ASSUME NEW c \in Clients, Deliver(c) PROVE Data'
  <2>1. /\ clients[c].position < Len(events)
        /\ got' = [got EXCEPT ![c] = Append(@, events[clients[c].position + 1])]
        /\ clients' = [clients EXCEPT ![c].position = @ + 1]
        /\ UNCHANGED <<events, file, writes>>
    BY <1>11, Zenon DEF Deliver, log
  <2>2. clients[c] \in [pc : ClientPcs, position : Nat]
    BY Zenon DEF Data, ClientsType
  <2>3. [clients[c] EXCEPT !.position = clients[c].position + 1]
          \in [pc : ClientPcs, position : Nat]
    BY <2>2
  <2>4. clients' = [clients EXCEPT ![c] =
                      [clients[c] EXCEPT !.position = clients[c].position + 1]]
    BY <2>1 DEF Data, ClientsType
  <2>5. ClientsType' /\ clients[c].position \in Nat
    BY <2>2, <2>3, <2>4 DEF Data, ClientsType
  <2>6. events[clients[c].position + 1] \in Stored
    <3>1. events \in Seq(Stored) /\ clients[c].position + 1 \in 1..Len(events)
      BY <2>1, <2>5 DEF Data
    <3> QED
      BY <3>1, ElementOfSeq, Zenon
  <2> DEFINE e == events[clients[c].position + 1]
             g == Append(got[c], e)
  <2>7. got' \in [Clients -> Seq(Stored)]
    <3>1. got \in [Clients -> Seq(Stored)] /\ got' = [got EXCEPT ![c] = g]
      BY <2>1, Zenon DEF Data
    <3>2. g \in Seq(Stored)
      BY <2>6, <3>1
    <3> HIDE DEF g
    <3> QED
      BY <3>1, <3>2
  <2> QED
    BY <2>1, <2>5, <2>7, Zenon DEF Data
<1>12. ASSUME NEW c \in Clients, NEW p \in ClientPcs, clients' = [clients EXCEPT ![c].pc = p],
              UNCHANGED <<events, file, writes, got>>
       PROVE  Data'
  <2>1. ClientsType'
    BY <1>12 DEF Data, ClientsType, ClientPcs
  <2> QED
    BY <1>12, <2>1, Zenon DEF Data
<1>13. ASSUME NEW c \in Clients, EndStream(c) \/ Sleep(c) \/ Drop(c) PROVE Data'
  BY <1>12, <1>13, Zenon DEF EndStream, Sleep, Drop, log, ClientPcs
<1>14. ASSUME \/ \E t \in Tasks : Ignore(t) \/ Finish(t)
              \/ \E c \in Children : EmitNext(c)
              \/ EndRun \/ Close \/ Cancel \/ UNCHANGED vars
       PROVE  Data'
  BY <1>1, <1>14, Zenon DEF Ignore, Finish, EmitNext, EndRun, Ask, Close, Cancel, log, vars
<1> QED
  BY <1>2, <1>3, <1>4, <1>6, <1>7, <1>8, <1>9, <1>10, <1>11, <1>13, <1>14, Zenon
     DEF Next, TaskStep

LEMMA InitData == Init => Data
BY DEF Init, Data, ClientsType, ClientPcs

LEMMA ControlAndData == Control /\ Data <=> TypeOK /\ LockInv
BY Zenon DEF Control, Data, TypeOK, TasksType, QueueType, ClientsType, Pcs, ClientPcs, LockInv,
             HoldsLock

-----------------------------------------------------------------------------
(* What has been seen is on disk.                                          *)

\* A step that writes nothing and publishes nothing, whatever becomes of the tasks
\* that are not writing.
LEMMA DiskFrame ==
  ASSUME DiskInv, UNCHANGED <<events, file, got>>, writes \subseteq writes',
         \A t \in Tasks : tasks'[t].pc = "writing" =>
           tasks[t].pc = "writing" /\ tasks'[t].n = tasks[t].n
  PROVE  DiskInv'
<1>1. \A t \in Tasks : tasks'[t].pc = "writing" => Line(t)' = Line(t)
  BY Zenon DEF Line, Event
<1>2. \A t \in Tasks : tasks'[t].pc = "writing" => Line(t)' \in writes' \cup ToSet(file')
  BY <1>1 DEF DiskInv
<1> QED
  BY <1>2, Zenon DEF DiskInv

LEMMA DiskStep == DiskInv /\ Control /\ Data /\ [Next]_vars => DiskInv'
<1> SUFFICES ASSUME DiskInv, Control, Data, [Next]_vars PROVE DiskInv'
  OBVIOUS
<1> USE RunIsTask
<1>1. TasksType /\ \A s, t \in Tasks : tasks[s].pc = "writing" /\ tasks[t].pc = "writing" => s = t
  BY Zenon DEF Control, LockInv, HoldsLock
<1>2. ASSUME UNCHANGED <<events, file, got, writes, tasks>> PROVE DiskInv'
  BY <1>2, DiskFrame, Zenon
<1>3. ASSUME NEW t \in Tasks, NEW p \in Pcs, p # "writing", Becomes(t, p),
             UNCHANGED <<events, file, got, writes>>
      PROVE  DiskInv'
  BY <1>1, <1>3, BecomesEffect, DiskFrame
<1>4. ASSUME NEW t \in Tasks, NEW n \in Nat, Ask(t, n) PROVE DiskInv'
  <2>1. /\ tasks' = [tasks EXCEPT ![t] = [pc |-> "asking", n |-> n]]
        /\ UNCHANGED <<events, file, got, writes>> /\ "asking" \in Pcs
    BY <1>4, Zenon DEF Ask, log, Pcs
  <2> QED
    BY <1>1, <2>1, SetEffect, DiskFrame
<1>5. ASSUME NEW t \in Tasks, Write(t) PROVE DiskInv'
  <2>1. /\ writes' = writes \cup {Line(t)} /\ UNCHANGED <<events, file, got>>
        /\ Becomes(t, "writing") /\ "writing" \in Pcs
    BY <1>5, Zenon DEF Write, Line, log, Pcs
  <2>2. \A s \in Tasks : /\ s # t => tasks'[s].pc = tasks[s].pc
                         /\ tasks'[s].n = tasks[s].n
    BY <1>1, <2>1, BecomesEffect
  <2>3. \A s \in Tasks : Line(s)' = Line(s)
    BY <2>1, <2>2, Zenon DEF Line, Event
  <2>4. \A s \in Tasks : tasks'[s].pc = "writing" => Line(s)' \in writes' \cup ToSet(file')
    BY <2>1, <2>2, <2>3, Zenon DEF DiskInv
  <2> QED
    BY <2>1, <2>4, Zenon DEF DiskInv
<1>6. ASSUME NEW t \in Tasks, Ignore(t) \/ Finish(t) PROVE DiskInv'
  <2>1. \E p \in {"busy", "over"} : Becomes(t, p) /\ UNCHANGED <<events, file, got, writes>>
    BY <1>6, Zenon DEF Ignore, Finish, log
  <2> QED
    BY <1>3, <2>1 DEF Pcs
<1>7. ASSUME NEW t \in Tasks, Store(t) PROVE DiskInv'
  <2>1. /\ tasks[t].pc = "writing" /\ IsWritten(t) /\ events' = Append(events, Line(t))
        /\ UNCHANGED <<file, writes, got>> /\ Becomes(t, "notifying") /\ "notifying" \in Pcs
    BY <1>7, Zenon DEF Store, Line, Pcs
  <2>2. Line(t) \in Stored /\ events \in Seq(Stored)
    BY <1>1, LineType, Zenon DEF Data
  <2>3. Line(t) \in ToSet(file)
    <3>1. Line(t).event = Event(t)
      BY DEF Line
    <3>2. Line(t) \notin writes
      BY <2>1, <3>1, Zenon DEF IsWritten
    <3> QED
      BY <2>1, <3>2, Zenon DEF DiskInv
  <2> DEFINE l == Line(t)
  <2> HIDE DEF l
  <2>4. ToSet(Append(events, l)) = ToSet(events) \cup {l}
    BY <2>2, AppendElements DEF l
  <2>5. ToSet(events') \subseteq ToSet(file')
    BY <2>1, <2>3, <2>4, Zenon DEF DiskInv, l
  <2>6. \A s \in Tasks : tasks'[s].pc # "writing"
    BY <1>1, <2>1, BecomesEffect
  <2> QED
    BY <2>1, <2>5, <2>6, Zenon DEF DiskInv
<1>8. ASSUME NEW t \in Tasks, Refuse(t) PROVE DiskInv'
  <2>1. tasks[t].pc = "writing" /\ UNCHANGED <<events, file, got>>
    BY <1>8, Zenon DEF Refuse, log
  <2>2. \A s \in Tasks : tasks'[s].pc # "writing"
    <3>1. CASE t # Run
      <4>1. Becomes(t, "failed") /\ "failed" \in Pcs
        BY <1>8, <3>1, Zenon DEF Refuse, Pcs
      <4> QED
        BY <1>1, <2>1, <4>1, BecomesEffect
    <3>2. CASE t = Run
      <4>1. tasks' = [tasks EXCEPT ![Run] =
                       IF @.n = Failed THEN [pc |-> "closing", n |-> Failed]
                                       ELSE [pc |-> "asking", n |-> Failed]]
        BY <1>8, <3>2, Zenon DEF Refuse
      <4>2. \A s \in Tasks : s # Run => tasks'[s] = tasks[s]
        BY <1>1, <4>1 DEF TasksType
      <4>3. tasks'[Run].pc # "writing"
        BY <1>1, <4>1 DEF TasksType
      <4> QED
        BY <1>1, <2>1, <3>2, <4>2, <4>3, Zenon
    <3> QED
      BY <3>1, <3>2, Zenon
  <2> QED
    BY <2>1, <2>2, Zenon DEF DiskInv
<1>9. ASSUME NEW t \in Tasks, Notify(t) PROVE DiskInv'
  <2>1. UNCHANGED <<events, file, got, writes>>
    BY <1>9, Zenon DEF Notify, log
  <2>2. CASE tasks' = [s \in Tasks |-> [tasks[s] EXCEPT !.pc = "busy"]]
    <3>1. \A s \in Tasks : tasks'[s].pc = "busy"
      BY <1>1, <2>2 DEF TasksType
    <3> QED
      BY <2>1, <3>1, DiskFrame
  <2>3. CASE \E p \in {"busy", "closing"} : Becomes(t, p)
    BY <1>3, <2>1, <2>3 DEF Pcs
  <2> QED
    BY <1>9, <2>2, <2>3, Zenon DEF Notify
<1>10. CASE Close \/ Release
  <2>1. \E p \in {"releasing", "over"} : Becomes(Run, p) /\ UNCHANGED <<events, file, got, writes>>
    BY <1>10, Zenon DEF Close, Release, log
  <2> QED
    BY <1>3, <2>1 DEF Pcs
<1>11. CASE EndRun
  BY <1>4, <1>11 DEF EndRun, Done, Failed
<1>12. ASSUME NEW c \in Children, EmitNext(c) PROVE DiskInv'
  <2>1. Ask(c, tasks[c].n + 1) /\ tasks[c].n + 1 \in Nat /\ c \in Tasks
    BY <1>1, <1>12 DEF EmitNext, TasksType
  <2> QED
    BY <1>4, <2>1
<1>13. ASSUME NEW w \in writes, Land(w) PROVE DiskInv'
  <2>1. /\ file' = Append(file, w) /\ writes' = writes \ {w}
        /\ UNCHANGED <<events, tasks, got>>
    BY <1>13, Zenon DEF Land
  <2>2. w \in Stored /\ file \in Seq(Stored)
    BY Zenon DEF Data
  <2>3. ToSet(Append(file, w)) = ToSet(file) \cup {w}
    BY <2>2, AppendElements
  <2>4. \A s \in Tasks : Line(s)' = Line(s)
    BY <2>1, Zenon DEF Line, Event
  <2> QED
    BY <2>1, <2>3, <2>4, Zenon DEF DiskInv
<1>14. CASE Cancel
  <2>1. UNCHANGED <<events, file, got, writes>>
    BY <1>14, Zenon DEF Cancel, log
  <2>2. \E stopped : tasks' = [t \in Tasks |->
                      IF t = Run THEN [tasks[t] EXCEPT !.pc = "closing"]
                      ELSE IF t \in stopped THEN [tasks[t] EXCEPT !.pc = "over"]
                      ELSE tasks[t]]
    BY <1>14, Zenon DEF Cancel
  <2>3. \A s \in Tasks : tasks'[s].pc = "writing" =>
          tasks[s].pc = "writing" /\ tasks'[s].n = tasks[s].n
    BY <1>1, <2>2 DEF TasksType
  <2> QED
    BY <2>1, <2>3, DiskFrame
<1>15. CASE Restart
  <2>1. /\ events' = file /\ file' = file /\ got' = got
        /\ tasks' = [t \in Tasks |-> [tasks[t] EXCEPT !.pc = "over"]]
    BY <1>15, Zenon DEF Restart
  <2>2. \A s \in Tasks : tasks'[s].pc = "over"
    BY <1>1, <2>1 DEF TasksType
  <2> QED
    BY <2>1, <2>2 DEF DiskInv
<1>16. ASSUME NEW c \in Clients, Deliver(c) PROVE DiskInv'
  <2> DEFINE e == events[clients[c].position + 1]
             g == Append(got[c], e)
  <2>1. /\ clients[c].position < Len(events)
        /\ got' = [got EXCEPT ![c] = g]
        /\ UNCHANGED <<events, file, writes, tasks>>
    BY <1>16, Zenon DEF Deliver, log
  <2>2. got \in [Clients -> Seq(Stored)] /\ events \in Seq(Stored) /\ clients[c].position \in Nat
    BY DEF Data, ClientsType
  <2>3. clients[c].position + 1 \in 1..Len(events)
    BY <2>1, <2>2
  <2>4. e \in Stored /\ e \in ToSet(events)
    BY <2>2, <2>3, ElementOfSeq, InSequence, Zenon
  <2> HIDE DEF e
  <2>5. ToSet(g) = ToSet(got[c]) \cup {e}
    BY <2>2, <2>4, AppendElements
  <2> HIDE DEF g
  <2>6. \A d \in Clients : got'[d] = IF d = c THEN g ELSE got[d]
    BY <2>1, <2>2, Zenon
  <2>7. \A d \in Clients : ToSet(got'[d]) \subseteq ToSet(file)
    BY <2>4, <2>5, <2>6, Zenon DEF DiskInv
  <2>8. \A s \in Tasks : Line(s)' = Line(s)
    BY <2>1, Zenon DEF Line, Event
  <2> QED
    BY <2>1, <2>7, <2>8, Zenon DEF DiskInv
<1>17. ASSUME \/ \E c \in Clients : Connect(c) \/ EndStream(c) \/ Sleep(c) \/ Drop(c)
              \/ UNCHANGED vars
       PROVE  DiskInv'
  BY <1>2, <1>17, Zenon DEF Connect, EndStream, Sleep, Drop, log, vars
<1> QED
  BY <1>5, <1>6, <1>7, <1>8, <1>9, <1>10, <1>11, <1>12, <1>13, <1>14, <1>15, <1>16, <1>17,
     Zenon DEF Next, TaskStep

-----------------------------------------------------------------------------
(* Browsers resume where they stopped.                                     *)

\* A step that neither publishes nor delivers: browsers may only go away.
LEMMA FollowFrame ==
  ASSUME FollowInv, UNCHANGED <<events, got, restarts>>, closed => closed',
         \A c \in Clients :
           /\ clients'[c].pc # "off" =>
                clients[c].pc # "off" /\ clients'[c].position = clients[c].position
           /\ clients'[c].pc = "ended" => clients[c].pc = "ended"
  PROVE  FollowInv'
<1> SUFFICES ASSUME restarts = 0
             PROVE  /\ \A i \in DOMAIN events : events[i].id = i
                    /\ \A c \in Clients :
                         /\ IsPrefix(got[c], events)
                         /\ clients'[c].pc # "off" => clients'[c].position = Len(got[c])
                         /\ clients'[c].pc = "ended" => closed' /\ got[c] = events
  BY Zenon DEF FollowInv
<1> QED
  BY Zenon DEF FollowInv

\* The same when no browser goes anywhere.
LEMMA FollowStutter ==
  ASSUME FollowInv, UNCHANGED <<events, got, restarts, clients>>, closed => closed'
  PROVE  FollowInv'
BY FollowFrame, Zenon

LEMMA CountsStep == Counts /\ [Next]_vars => Counts'
<1> SUFFICES ASSUME Counts, [Next]_vars PROVE Counts'
  OBVIOUS
<1>1. /\ failures' = failures \/ failures' = failures + 1
      /\ restarts' = restarts \/ restarts' = restarts + 1
  BY Zenon DEF Next, TaskStep, Write, Ignore, Store, Notify, EndRun, Ask, Close, Release,
       Finish, Refuse, EmitNext, Land, Cancel, Restart, Connect, Deliver, EndStream, Sleep,
       Drop, vars
<1> QED
  BY <1>1 DEF Counts

LEMMA ReceivedPlaces ==
  ASSUME FollowInv, Data, restarts = 0, NEW c \in Clients
  PROVE  /\ Len(got[c]) <= Len(events)
         /\ \A i \in 1..Len(got[c]) : got[c][i] = events[i]
         /\ \A i \in 1..Len(events) : events[i].id = i
<1>1. got[c] \in Seq(Stored) /\ events \in Seq(Stored)
  BY DEF Data
<1>2. IsPrefix(got[c], events) /\ \A i \in DOMAIN events : events[i].id = i
  BY Zenon DEF FollowInv
<1>3. Len(got[c]) <= Len(events) /\ \A i \in 1..Len(got[c]) : got[c][i] = events[i]
  BY <1>1, <1>2, PrefixPlaces
<1> QED
  BY <1>1, <1>2, <1>3

LEMMA FollowStep == FollowInv /\ Counts /\ Control /\ Data /\ [Next]_vars => FollowInv'
<1> SUFFICES ASSUME FollowInv, Counts, Control, Data, [Next]_vars PROVE FollowInv'
  OBVIOUS
<1> USE RunIsTask
<1>1. /\ events \in Seq(Stored) /\ got \in [Clients -> Seq(Stored)] /\ ClientsType
      /\ \A c \in Clients : got[c] \in Seq(Stored)
  BY DEF Data
<1>2. ASSUME \/ \E t \in Tasks : Write(t) \/ Ignore(t) \/ Finish(t) \/ Refuse(t)
             \/ EndRun \/ Cancel \/ Close \/ UNCHANGED vars
             \/ \E c \in Children : EmitNext(c)
             \/ \E w \in writes : Land(w)
      PROVE  FollowInv'
  <2>1. UNCHANGED <<events, got, restarts, clients>>
    BY <1>2, Zenon DEF Write, Ignore, Finish, Refuse, EndRun, Cancel, Close, EmitNext, Ask,
         Land, log, vars
  <2>2. CASE Close
    BY <2>1, <2>2, FollowStutter, Zenon DEF Close
  <2>3. CASE ~ Close
    <3>1. closed' = closed
      BY <1>2, <2>3, Zenon DEF Write, Ignore, Finish, Refuse, EndRun, Cancel, EmitNext, Ask,
           Land, log, vars
    <3> QED
      BY <2>1, <3>1, FollowStutter, Zenon
  <2> QED
    BY <2>2, <2>3, Zenon
<1>3. ASSUME NEW t \in Tasks, Notify(t) \/ Release PROVE FollowInv'
  <2>1. clients' = Wake /\ UNCHANGED <<events, got, restarts>> /\ closed' = closed
    BY <1>3, Zenon DEF Notify, Release, Released, log
  <2> QED
    BY <1>1, <2>1, WakeEffect, FollowFrame
<1>4. CASE Restart
  <2>1. restarts' = restarts + 1 /\ restarts \in Nat
    BY <1>4, Zenon DEF Restart, Counts
  <2>2. restarts' # 0
    BY <2>1
  <2> QED
    BY <2>2, Zenon DEF FollowInv
<1>5. ASSUME NEW t \in Tasks, Store(t), restarts = 0
      PROVE  FollowInv'
  <2> DEFINE l == Line(t)
             more == Append(events, l)
  <2>1. /\ events' = more /\ tasks[t].pc = "writing"
        /\ UNCHANGED <<got, restarts, clients, closed>>
    BY <1>5, Zenon DEF Store, Line, log
  <2>2. ~ closed
    BY <2>1, Zenon DEF Control, LockInv
  <2>3. l \in Stored
    BY LineType, Zenon DEF Control
  <2>4. l.id = Len(events) + 1
    BY DEF Line
  <2> HIDE DEF l
  <2>5. /\ more \in Seq(Stored) /\ Len(more) = Len(events) + 1
        /\ \A i \in 1..Len(events) : more[i] = events[i]
        /\ more[Len(events) + 1] = l
    BY <1>1, <2>3, AppendElements
  <2> HIDE DEF more
  <2>6. \A i \in 1..Len(events) : events[i].id = i
    BY <1>1, <1>5 DEF FollowInv
  <2>7. \A i \in DOMAIN more : more[i].id = i
    BY <1>1, <2>4, <2>5, <2>6
  <2>8. ASSUME NEW c \in Clients PROVE IsPrefix(got[c], more)
    <3>1. Len(got[c]) <= Len(events) /\ \A i \in 1..Len(got[c]) : got[c][i] = events[i]
      BY <1>5, ReceivedPlaces, Zenon
    <3>2. Len(got[c]) <= Len(more) /\ \A i \in 1..Len(got[c]) : got[c][i] = more[i]
      BY <1>1, <2>5, <3>1
    <3> QED
      BY <1>1, <2>5, <3>2, PrefixPlaces, Zenon
  <2>9. \A c \in Clients : /\ clients[c].pc # "off" => clients[c].position = Len(got[c])
                           /\ clients[c].pc # "ended"
    BY <1>5, <2>2, Zenon DEF FollowInv
  <2> QED
    BY <2>1, <2>7, <2>8, <2>9, Zenon DEF FollowInv
<1>6. ASSUME NEW c \in Clients, Connect(c), restarts = 0
      PROVE  FollowInv'
  <2>1. /\ clients' = [clients EXCEPT ![c] = [pc |-> "reading", position |-> LastId(c)]]
        /\ UNCHANGED <<events, got, restarts, closed>>
    BY <1>6, Zenon DEF Connect, log
  <2>2. LastId(c) = Len(got[c])
    <3>1. /\ Len(got[c]) <= Len(events) /\ \A i \in 1..Len(got[c]) : got[c][i] = events[i]
          /\ \A i \in 1..Len(events) : events[i].id = i
      BY <1>6, ReceivedPlaces, Zenon
    <3>2. CASE got[c] = <<>>
      BY <3>2 DEF LastId
    <3>3. CASE got[c] # <<>>
      <4>1. Len(got[c]) \in 1..Len(got[c]) /\ Len(got[c]) \in 1..Len(events)
        BY <1>1, <3>1, <3>3
      <4>2. got[c][Len(got[c])].id = Len(got[c])
        BY <3>1, <4>1, Zenon
      <4> QED
        BY <3>3, <4>2, Zenon DEF LastId, Last
    <3> QED
      BY <3>2, <3>3, Zenon
  <2>3. \A d \in Clients :
          /\ d # c => clients'[d].pc = clients[d].pc /\ clients'[d].position = clients[d].position
          /\ clients'[c].pc = "reading" /\ clients'[c].position = LastId(c)
    BY <1>1, <2>1 DEF ClientsType
  <2> QED
    BY <1>6, <2>1, <2>2, <2>3, Zenon DEF FollowInv
<1>7. ASSUME NEW c \in Clients, Deliver(c), restarts = 0
       PROVE  FollowInv'
  <2> DEFINE e == events[clients[c].position + 1]
             g == Append(got[c], e)
  <2>1. /\ clients[c].pc = "reading" /\ clients[c].position < Len(events)
        /\ got' = [got EXCEPT ![c] = g]
        /\ clients' = [clients EXCEPT ![c].position = @ + 1]
        /\ UNCHANGED <<events, restarts, closed>>
    BY <1>7, Zenon DEF Deliver, log
  <2>2. clients[c].position = Len(got[c])
    BY <1>7, <2>1 DEF FollowInv
  <2>3. Len(got[c]) + 1 \in 1..Len(events)
    BY <1>1, <2>1, <2>2
  <2>4. e = events[Len(got[c]) + 1] /\ e \in Stored
    BY <1>1, <2>2, <2>3, ElementOfSeq, Zenon
  <2> HIDE DEF e
  <2>5. /\ g \in Seq(Stored) /\ Len(g) = Len(got[c]) + 1
        /\ \A i \in 1..Len(got[c]) : g[i] = got[c][i]
        /\ g[Len(got[c]) + 1] = e
    BY <1>1, <2>4, AppendElements
  <2> HIDE DEF g
  <2>6. IsPrefix(g, events)
    <3>1. \A i \in 1..Len(got[c]) : got[c][i] = events[i]
      BY <1>7, ReceivedPlaces, Zenon
    <3>2. Len(g) <= Len(events) /\ \A i \in 1..Len(g) : g[i] = events[i]
      BY <1>1, <2>3, <2>4, <2>5, <3>1
    <3> QED
      BY <1>1, <2>5, <3>2, PrefixPlaces, Zenon
  <2>7. \A d \in Clients : got'[d] = IF d = c THEN g ELSE got[d]
    BY <1>1, <2>1, Zenon
  <2>8. /\ \A d \in Clients : d # c => clients'[d] = clients[d]
        /\ clients'[c].pc = "reading" /\ clients'[c].position = Len(g)
    BY <1>1, <2>1, <2>2, <2>5 DEF ClientsType
  <2> QED
    BY <1>7, <2>1, <2>6, <2>7, <2>8, Zenon DEF FollowInv
<1>8. ASSUME NEW c \in Clients, EndStream(c), restarts = 0
       PROVE  FollowInv'
  <2>1. /\ clients[c].pc = "reading" /\ clients[c].position >= Len(events) /\ closed
        /\ clients' = [clients EXCEPT ![c].pc = "ended"]
        /\ UNCHANGED <<events, got, restarts, closed>>
    BY <1>8, Zenon DEF EndStream, ReadOut, log
  <2>2. clients[c].position = Len(got[c])
    BY <1>8, <2>1 DEF FollowInv
  <2>3. Len(got[c]) <= Len(events) /\ \A i \in 1..Len(got[c]) : got[c][i] = events[i]
    BY <1>8, ReceivedPlaces, Zenon
  <2>4. Len(got[c]) = Len(events)
    BY <1>1, <2>1, <2>2, <2>3
  <2>5. got[c] = events
    BY <1>1, <2>3, <2>4, SeqEqual
  <2>6. /\ \A d \in Clients : d # c => clients'[d] = clients[d]
        /\ clients'[c].position = clients[c].position
    BY <1>1, <2>1 DEF ClientsType
  <2> QED
    BY <1>8, <2>1, <2>2, <2>5, <2>6, Zenon DEF FollowInv
<1>9. ASSUME NEW c \in Clients, Sleep(c) \/ Drop(c)
       PROVE  FollowInv'
  <2>1. UNCHANGED <<events, got, restarts>> /\ closed' = closed
    BY <1>9, Zenon DEF Sleep, Drop, log
  <2>2. /\ clients[c].pc # "off"
        /\ \E p \in {"asleep", "off"} : clients' = [clients EXCEPT ![c].pc = p]
    BY <1>9, Zenon DEF Sleep, Drop
  <2>3. \A d \in Clients :
          /\ clients'[d].pc # "off" =>
               clients[d].pc # "off" /\ clients'[d].position = clients[d].position
          /\ clients'[d].pc = "ended" => clients[d].pc = "ended"
    BY <1>1, <2>2 DEF ClientsType
  <2> QED
    BY <2>1, <2>3, FollowFrame
<1>10. CASE restarts = 0
  BY <1>2, <1>3, <1>4, <1>5, <1>6, <1>7, <1>8, <1>9, <1>10, Zenon
     DEF Next, TaskStep
<1>11. CASE restarts # 0
  <2>1. restarts' = restarts \/ restarts' = restarts + 1
    BY Zenon DEF Next, TaskStep, Write, Ignore, Store, Notify, EndRun, Ask, Close, Release,
         Finish, Refuse, EmitNext, Land, Cancel, Restart, Connect, Deliver, EndStream, Sleep,
         Drop, vars
  <2>2. restarts' # 0
    BY <1>11, <2>1 DEF Counts
  <2> QED
    BY <2>2, Zenon DEF FollowInv
<1> QED
  BY <1>10, <1>11, Zenon

-----------------------------------------------------------------------------
(* The last status is last.                                                *)

LEMMA TerminalAppend ==
  ASSUME NEW s \in Seq(Stored), NEW w \in Stored, ~ HasTerminal(s)
  PROVE  /\ LastIfTerminal(Append(s, w))
         /\ ~ Terminal(w.event) => ~ HasTerminal(Append(s, w))
<1> DEFINE a == Append(s, w)
<1>1. /\ a \in Seq(Stored) /\ Len(a) = Len(s) + 1
      /\ \A i \in 1..Len(s) : a[i] = s[i]
      /\ a[Len(s) + 1] = w
  BY AppendElements
<1> HIDE DEF a
<1>2. DOMAIN a = 1..Len(a) /\ DOMAIN s = 1..Len(s) /\ Len(s) \in Nat
  BY <1>1
<1>3. \A i \in DOMAIN s : ~ Terminal(s[i].event)
  BY Zenon DEF HasTerminal
<1>4. \A i \in DOMAIN a : i # Len(a) => ~ Terminal(a[i].event)
  <2> SUFFICES ASSUME NEW i \in 1..Len(a), i # Len(a) PROVE ~ Terminal(a[i].event)
    BY <1>2, Zenon
  <2>1. i \in 1..Len(s)
    BY <1>1, <1>2
  <2> QED
    BY <1>1, <1>2, <1>3, <2>1, Zenon
<1>5. LastIfTerminal(a)
  BY <1>4, Zenon DEF LastIfTerminal
<1>6. ~ Terminal(w.event) => \A i \in DOMAIN a : ~ Terminal(a[i].event)
  BY <1>1, <1>4, Zenon
<1>7. ~ Terminal(w.event) => ~ HasTerminal(a)
  BY <1>6, Zenon DEF HasTerminal
<1> QED
  BY <1>5, <1>7, Zenon DEF a

LEMMA TerminalLine ==
  ASSUME NEW t \in Tasks
  PROVE  /\ Line(t).event = Event(t)
         /\ Terminal(Line(t).event) <=> t = Run /\ Final
BY DEF Line, Event, Terminal, Final

\* A step that leaves the log, the disk and the writers alone, and does not start to
\* say how the run ended.
LEMMA VerdictFrame ==
  ASSUME Verdict, UNCHANGED <<events, file, writes>>,
         tasks'[Run].n = tasks[Run].n,
         \A t \in Tasks : tasks'[t].pc # "failed",
         tasks'[Run].pc = "busy" => ~ Final,
         tasks'[Run].pc \in {"asking", "writing", "notifying", "busy"} => Undisturbed,
         \A t \in Tasks : tasks[t].pc = "writing" /\ t # Run =>
           tasks'[t].pc = "writing" \/ tasks'[Run].pc \notin {"asking", "writing", "notifying", "busy"},
         \A t \in Tasks : tasks'[t].pc = "writing" => tasks'[t].n = tasks[t].n,
         tasks[Run].pc = "writing" =>
           tasks'[Run].pc \notin {"asking", "notifying", "busy"},
         \A c \in Children : tasks[c].pc = "over" => tasks'[c].pc = "over" \/ ~ Final,
         tasks'[Run].pc \in {"asking", "writing"} => tasks'[Run].pc = tasks[Run].pc
  PROVE  Verdict'
<1>1. Final' <=> Final
  BY Zenon DEF Final
<1>2. Undisturbed' <=> tasks'[Run].pc \in {"asking", "writing", "notifying", "busy"}
  BY Zenon DEF Undisturbed
<1>3. Undisturbed' => \A w \in writes' : \E t \in Tasks : tasks'[t].pc = "writing" /\ w = Line(t)'
  <2> SUFFICES ASSUME Undisturbed', NEW w \in writes
               PROVE  \E t \in Tasks : tasks'[t].pc = "writing" /\ w = Line(t)'
    BY Zenon
  <2>1. PICK t \in Tasks : tasks[t].pc = "writing" /\ w = Line(t)
    BY <1>2, Zenon DEF Verdict
  <2>2. tasks'[t].pc = "writing"
    BY <1>2, <2>1
  <2>3. Line(t)' = Line(t)
    BY <2>2, Zenon DEF Line, Event
  <2> QED
    BY <2>1, <2>2, <2>3, Zenon
<1>4. /\ LastIfTerminal(events)' /\ LastIfTerminal(file)'
      /\ HasTerminal(events)' <=> HasTerminal(events)
      /\ HasTerminal(file)' <=> HasTerminal(file)
  BY Zenon DEF Verdict, LastIfTerminal, HasTerminal
<1>5. Final => /\ \A c \in Children : tasks'[c].pc = "over"
               /\ \A w \in writes : Terminal(w.event) /\ writes = {w} /\ ~ HasTerminal(file)
               /\ tasks'[Run].pc \in {"asking", "writing"} => ~ HasTerminal(events)
               /\ tasks'[Run].pc = "asking" => writes = {} /\ ~ HasTerminal(file)
  BY DEF Verdict
<1>6. ~ Final => /\ ~ HasTerminal(events) /\ ~ HasTerminal(file)
                 /\ \A w \in writes : ~ Terminal(w.event)
  BY Zenon DEF Verdict
<1> QED
  BY <1>1, <1>3, <1>4, <1>5, <1>6, Zenon DEF Verdict

\* One task's change of pc, where the frame applies.
LEMMA VerdictBecomes ==
  ASSUME Verdict, Control, NEW t \in Tasks,
         NEW p \in {"busy", "over", "closing", "releasing"}, Becomes(t, p),
         events' = events, file' = file, writes' = writes,
         tasks[t].pc \notin {"writing", "over"},
         t = Run => p # "busy"
  PROVE  Verdict'
<1>1. /\ tasks'[t].pc = p
      /\ \A s \in Tasks : tasks'[s].n = tasks[s].n
      /\ \A s \in Tasks : s # t => tasks'[s].pc = tasks[s].pc
  <2>1. p \in Pcs
    BY DEF Pcs
  <2> QED
    BY <2>1, BecomesEffect, Zenon DEF Control
<1>2. /\ \A s \in Tasks : tasks[s].pc # "failed"
      /\ tasks[Run].pc = "busy" => ~ Final
  BY Zenon DEF Verdict
<1> USE RunIsTask DEF Undisturbed
<1>3. /\ tasks'[Run].n = tasks[Run].n
      /\ \A s \in Tasks : tasks'[s].pc # "failed"
      /\ tasks'[Run].pc = "busy" => ~ Final
      /\ tasks'[Run].pc \in {"asking", "writing", "notifying", "busy"} => Undisturbed
      /\ \A s \in Tasks : tasks'[s].pc = "writing" => tasks'[s].n = tasks[s].n
      /\ tasks[Run].pc = "writing" => tasks'[Run].pc \notin {"asking", "notifying", "busy"}
      /\ tasks'[Run].pc \in {"asking", "writing"} => tasks'[Run].pc = tasks[Run].pc
  BY <1>1, <1>2
<1>4. \A s \in Tasks : tasks[s].pc = "writing" /\ s # Run => tasks'[s].pc = "writing"
  BY <1>1, Zenon
<1>5. \A c \in Children : tasks[c].pc = "over" => tasks'[c].pc = "over"
  BY <1>1
<1> QED
  BY <1>3, <1>4, <1>5, VerdictFrame

LEMMA VerdictStep ==
  Verdict /\ Control /\ Data /\ [Next]_vars /\ failures' = failures /\ failures \in Nat
    => Verdict'
<1> SUFFICES ASSUME Verdict, Control, Data, [Next]_vars, failures' = failures, failures \in Nat
             PROVE  Verdict'
  OBVIOUS
<1> USE RunIsTask
<1>1. /\ TasksType /\ events \in Seq(Stored) /\ file \in Seq(Stored) /\ writes \subseteq Stored
      /\ \A s, t \in Tasks : tasks[s].pc = "writing" /\ tasks[t].pc = "writing" => s = t
  BY Zenon DEF Control, Data, LockInv, HoldsLock
<1>2. ASSUME UNCHANGED <<events, file, writes, tasks>> PROVE Verdict'
  BY <1>2, Zenon DEF Verdict, Final, Undisturbed, Line, Event, LastIfTerminal, HasTerminal
<1>3. ASSUME NEW t \in Tasks, Write(t) PROVE Verdict'
  <2>1. /\ tasks[t].pc = "asking" /\ writes' = writes \cup {Line(t)}
        /\ Becomes(t, "writing") /\ events' = events /\ file' = file /\ "writing" \in Pcs
    BY <1>3, Zenon DEF Write, Line, log, Pcs
  <2>2. /\ tasks'[t].pc = "writing"
        /\ \A s \in Tasks : tasks'[s].n = tasks[s].n
        /\ \A s \in Tasks : s # t => tasks'[s].pc = tasks[s].pc
    BY <1>1, <2>1, BecomesEffect
  <2>3. (Final' <=> Final) /\ \A s \in Tasks : Line(s)' = Line(s)
    BY <2>1, <2>2, Zenon DEF Final, Line, Event
  <2>4. Terminal(Line(t).event) <=> t = Run /\ Final
    BY TerminalLine, Zenon
  <2>5. /\ LastIfTerminal(events)' /\ LastIfTerminal(file)'
        /\ HasTerminal(events)' <=> HasTerminal(events)
        /\ HasTerminal(file)' <=> HasTerminal(file)
    BY <2>1, Zenon DEF Verdict, LastIfTerminal, HasTerminal
  <2>6. Undisturbed' => Undisturbed
    BY <2>1, <2>2 DEF Undisturbed
  <2>7. Undisturbed => \A w \in writes' : \E s \in Tasks : tasks'[s].pc = "writing" /\ w = Line(s)'
    <3> SUFFICES ASSUME Undisturbed, NEW w \in writes'
                 PROVE  \E s \in Tasks : tasks'[s].pc = "writing" /\ w = Line(s)'
      OBVIOUS
    <3>1. CASE w = Line(t)
      BY <2>2, <2>3, <3>1, Zenon
    <3>2. CASE w \in writes
      <4>1. PICK s \in Tasks : tasks[s].pc = "writing" /\ w = Line(s)
        BY <3>2, Zenon DEF Verdict
      <4>2. tasks'[s].pc = "writing"
        BY <2>1, <2>2, <4>1
      <4> QED
        BY <2>3, <4>1, <4>2, Zenon
    <3> QED
      BY <2>1, <3>1, <3>2, Zenon
  <2>8. Final => /\ t = Run /\ writes = {} /\ ~ HasTerminal(events) /\ ~ HasTerminal(file)
                 /\ \A c \in Children : tasks[c].pc = "over"
    BY <2>1, Zenon DEF Verdict, Tasks
  <2>9. Final => writes' = {Line(t)} /\ Terminal(Line(t).event)
    BY <2>1, <2>4, <2>8
  <2>10. ~ Final => \A w \in writes' : ~ Terminal(w.event)
    BY <2>1, <2>4, Zenon DEF Verdict
  <2>11. \A s \in Tasks : tasks'[s].pc # "failed"
    BY <2>2 DEF Verdict
  <2>12. tasks'[Run].pc = "busy" => ~ Final
    BY <2>2 DEF Verdict
  <2>13. ~ Final => ~ HasTerminal(events) /\ ~ HasTerminal(file)
    BY Zenon DEF Verdict
  <2>14. Final => /\ \A c \in Children : tasks'[c].pc = "over"
                  /\ \A w \in writes' : Terminal(w.event) /\ writes' = {w}
                  /\ tasks'[Run].pc # "asking"
    BY <2>2, <2>8, <2>9
  <2> QED
    BY <2>3, <2>5, <2>6, <2>7, <2>8, <2>10, <2>11, <2>12, <2>13, <2>14, Zenon DEF Verdict
<1>4. ASSUME NEW t \in Tasks, Ignore(t) PROVE Verdict'
  <2>1. tasks[t].pc = "asking" /\ Becomes(t, "busy") /\ UNCHANGED <<events, file, writes>> /\ closed
    BY <1>4, Zenon DEF Ignore, Open, log
  <2>2. t # Run
    BY <2>1 DEF Control, LockInv
  <2> QED
    BY <2>1, <2>2, VerdictBecomes
<1>5. ASSUME NEW t \in Tasks, Store(t) PROVE Verdict'
  <2> DEFINE l == Line(t)
  <2>1. /\ tasks[t].pc = "writing" /\ IsWritten(t) /\ events' = Append(events, l)
        /\ file' = file /\ writes' = writes /\ Becomes(t, "notifying") /\ "notifying" \in Pcs
    BY <1>5, Zenon DEF Store, Line, Pcs
  <2>2. /\ tasks'[t].pc = "notifying"
        /\ \A s \in Tasks : tasks'[s].n = tasks[s].n
        /\ \A s \in Tasks : s # t => tasks'[s].pc = tasks[s].pc /\ tasks'[s].pc # "writing"
    BY <1>1, <2>1, BecomesEffect
  <2>3. l \in Stored /\ (Terminal(l.event) <=> t = Run /\ Final) /\ l.event = Event(t)
    BY <1>1, LineType, TerminalLine, Zenon
  <2>4. Final' <=> Final
    BY <2>2, Zenon DEF Final
  <2>5. Undisturbed => writes = {}
    <3> SUFFICES ASSUME Undisturbed, NEW w \in writes PROVE FALSE
      BY Zenon
    <3>1. PICK s \in Tasks : tasks[s].pc = "writing" /\ w = Line(s)
      BY Zenon DEF Verdict
    <3>2. w = l
      BY <1>1, <2>1, <3>1, Zenon
    <3> QED
      BY <2>1, <2>3, <3>2, Zenon DEF IsWritten
  <2>6. Undisturbed' => Undisturbed
    BY <2>1, <2>2 DEF Undisturbed
  <2>7. Final => t = Run
    BY <2>1, Zenon DEF Verdict, Tasks
  <2>8. ~ HasTerminal(events)
    BY <2>1, <2>7, Zenon DEF Verdict
  <2> HIDE DEF l
  <2>9. LastIfTerminal(events)' /\ (~ Final => ~ HasTerminal(events)')
    <3>1. /\ LastIfTerminal(Append(events, l))
          /\ ~ Terminal(l.event) => ~ HasTerminal(Append(events, l))
      BY <1>1, <2>3, <2>8, TerminalAppend
    <3> QED
      BY <2>1, <2>3, <3>1, Zenon DEF LastIfTerminal, HasTerminal
  <2>10. LastIfTerminal(file)' /\ (HasTerminal(file)' <=> HasTerminal(file))
    BY <2>1, Zenon DEF Verdict, LastIfTerminal, HasTerminal
  <2>11. /\ \A s \in Tasks : tasks'[s].pc # "failed"
         /\ tasks'[Run].pc = "busy" => ~ Final
    BY <2>2 DEF Verdict
  <2>12. ~ Final => ~ HasTerminal(file) /\ \A w \in writes : ~ Terminal(w.event)
    BY Zenon DEF Verdict
  <2>13. Final => /\ \A c \in Children : tasks'[c].pc = "over"
                  /\ \A w \in writes : Terminal(w.event) /\ writes = {w} /\ ~ HasTerminal(file)
                  /\ tasks'[Run].pc \notin {"asking", "writing"}
    BY <2>2, <2>7 DEF Verdict
  <2> QED
    BY <2>1, <2>4, <2>5, <2>6, <2>9, <2>10, <2>11, <2>12, <2>13, Zenon DEF Verdict
<1>6. ASSUME NEW t \in Tasks, Refuse(t) PROVE FALSE
  <2>1. failures' = failures + 1
    BY <1>6, Zenon DEF Refuse
  <2> QED
    BY <2>1
<1>7. ASSUME NEW t \in Tasks, Notify(t) PROVE Verdict'
  <2>1. tasks[t].pc = "notifying" /\ UNCHANGED <<events, file, writes>>
    BY <1>7, Zenon DEF Notify, log
  <2>2. CASE /\ t = Run /\ tasks[t].n = Running
             /\ tasks' = [s \in Tasks |-> [tasks[s] EXCEPT !.pc = "busy"]]
    <3>1. /\ \A s \in Tasks : tasks'[s].pc = "busy" /\ tasks'[s].n = tasks[s].n
          /\ ~ Final
      BY <1>1, <2>2 DEF TasksType, Final
    <3>2. \A s \in Tasks : tasks[s].pc # "writing"
      BY <2>1, <2>2, Zenon DEF Control, LockInv, Tasks
    <3> QED
      BY <2>1, <2>2, <3>1, <3>2, VerdictFrame DEF Undisturbed
  <2>3. CASE t = Run /\ Becomes(t, "closing")
    BY <2>1, <2>3, VerdictBecomes
  <2>4. CASE t # Run /\ Becomes(t, "busy")
    BY <2>1, <2>4, VerdictBecomes
  <2> QED
    BY <1>7, <2>2, <2>3, <2>4, Zenon DEF Notify
<1>8. CASE EndRun
  <2>1. PICK n \in {Done, Failed} :
          /\ AllOver \/ Children \cap Doing({"failed"}) # {}
          /\ tasks' = [tasks EXCEPT ![Run] = [pc |-> "asking", n |-> n]]
          /\ events' = events /\ file' = file /\ writes' = writes
    BY <1>8, Zenon DEF EndRun, Ask, log
  <2>2. tasks[Run].pc = "busy"
    BY <1>8, Zenon DEF EndRun
  <2>3. \A c \in Children : tasks[c].pc = "over"
    BY <2>1 DEF AllOver, Doing, Verdict
  <2>4. n \in Nat /\ n # Running /\ "asking" \in Pcs
    BY DEF Done, Failed, Running, Pcs
  <2>5. /\ tasks'[Run].pc = "asking" /\ tasks'[Run].n = n
        /\ \A s \in Tasks : s # Run => tasks'[s].pc = tasks[s].pc
    BY <1>1, <2>1, <2>4 DEF TasksType
  <2>6. Final' /\ ~ Final
    BY <2>2, <2>4, <2>5, Zenon DEF Final, Verdict
  <2>7. writes = {}
    <3> SUFFICES ASSUME NEW w \in writes PROVE FALSE
      BY Zenon
    <3>1. Undisturbed
      BY <2>2 DEF Undisturbed
    <3>2. PICK s \in Tasks : tasks[s].pc = "writing"
      BY <3>1, Zenon DEF Verdict
    <3> QED
      BY <2>2, <2>3, <3>2 DEF Tasks
  <2>8. /\ LastIfTerminal(events)' /\ LastIfTerminal(file)'
        /\ ~ HasTerminal(events)' /\ ~ HasTerminal(file)'
    BY <2>1, <2>6, Zenon DEF Verdict, LastIfTerminal, HasTerminal
  <2>9. \A s \in Tasks : tasks'[s].pc # "failed"
    BY <2>5 DEF Verdict
  <2>10. \A c \in Children : tasks'[c].pc = "over"
    BY <2>3, <2>5, Zenon
  <2>11. tasks'[Run].pc # "busy" /\ writes' = {}
    BY <2>1, <2>5, <2>7
  <2> QED
    BY <2>6, <2>8, <2>9, <2>10, <2>11, Zenon DEF Verdict
<1>9. CASE Close
  <2>1. tasks[Run].pc = "closing" /\ Becomes(Run, "releasing") /\ UNCHANGED <<events, file, writes>>
    BY <1>9, Zenon DEF Close
  <2> QED
    BY <2>1, VerdictBecomes
<1>10. CASE Release
  <2>1. tasks[Run].pc = "releasing" /\ Becomes(Run, "over") /\ UNCHANGED <<events, file, writes>>
    BY <1>10, Zenon DEF Release, log
  <2> QED
    BY <2>1, VerdictBecomes
<1>11. ASSUME NEW t \in Tasks, t # Run, Finish(t) PROVE Verdict'
  <2>1. tasks[t].pc = "busy" /\ Becomes(t, "over") /\ UNCHANGED <<events, file, writes>>
    BY <1>11, Zenon DEF Finish, log
  <2> QED
    BY <1>11, <2>1, VerdictBecomes
<1>12. ASSUME NEW c \in Children, EmitNext(c) PROVE Verdict'
  <2>1. /\ tasks[c].pc = "busy" /\ c # Run /\ c \in Tasks
        /\ tasks' = [tasks EXCEPT ![c] = [pc |-> "asking", n |-> tasks[c].n + 1]]
        /\ UNCHANGED <<events, file, writes>>
    BY <1>12, Zenon DEF EmitNext, Ask, log
  <2>2. /\ tasks'[c].pc = "asking"
        /\ \A s \in Tasks : s # c => tasks'[s] = tasks[s]
    BY <1>1, <2>1 DEF TasksType
  <2>3. /\ \A s \in Tasks : tasks[s].pc # "failed"
        /\ tasks[Run].pc = "busy" => ~ Final
    BY Zenon DEF Verdict
  <2> QED
    BY <2>1, <2>2, <2>3, VerdictFrame DEF Undisturbed
<1>13. ASSUME NEW w \in writes, Land(w) PROVE Verdict'
  <2>1. /\ file' = Append(file, w) /\ writes' = writes \ {w} /\ events' = events /\ tasks' = tasks
    BY <1>13, Zenon DEF Land
  <2>2. /\ (Final' <=> Final) /\ (Undisturbed' <=> Undisturbed)
        /\ \A s \in Tasks : Line(s)' = Line(s)
        /\ (HasTerminal(events)' <=> HasTerminal(events)) /\ LastIfTerminal(events)'
    BY <2>1, Zenon DEF Final, Undisturbed, Line, Event, HasTerminal, LastIfTerminal, Verdict
  <2>3. ~ HasTerminal(file)
    BY Zenon DEF Verdict
  <2>4. LastIfTerminal(file)' /\ (~ Final => ~ HasTerminal(file)')
    <3>1. /\ LastIfTerminal(Append(file, w))
          /\ ~ Terminal(w.event) => ~ HasTerminal(Append(file, w))
      BY <1>1, <2>3, TerminalAppend
    <3> QED
      BY <2>1, <3>1, Zenon DEF LastIfTerminal, HasTerminal, Verdict
  <2>5. Final => writes' = {} /\ tasks[Run].pc # "asking"
    <3>1. Final => writes = {w} /\ tasks[Run].pc # "asking"
      BY Zenon DEF Verdict
    <3> QED
      BY <2>1, <3>1
  <2>6. Final => /\ \A c \in Children : tasks[c].pc = "over"
                 /\ tasks[Run].pc \in {"asking", "writing"} => ~ HasTerminal(events)
    BY Zenon DEF Verdict
  <2> QED
    BY <2>1, <2>2, <2>4, <2>5, <2>6, Zenon DEF Verdict
<1>14. CASE Cancel
  <2>1. UNCHANGED <<events, file, writes>>
    BY <1>14, Zenon DEF Cancel, log
  <2>2. \E stopped : tasks' = [t \in Tasks |->
                      IF t = Run THEN [tasks[t] EXCEPT !.pc = "closing"]
                      ELSE IF t \in stopped THEN [tasks[t] EXCEPT !.pc = "over"]
                      ELSE tasks[t]]
    BY <1>14, Zenon DEF Cancel
  <2>3. /\ tasks'[Run].pc = "closing" /\ tasks'[Run].n = tasks[Run].n
        /\ \A t \in Tasks : t # Run =>
             tasks'[t].pc \in {tasks[t].pc, "over"} /\ tasks'[t].n = tasks[t].n
    BY <1>1, <2>2 DEF TasksType
  <2>4. \A s \in Tasks : tasks[s].pc # "failed"
    BY Zenon DEF Verdict
  <2> QED
    BY <2>1, <2>3, <2>4, VerdictFrame
<1>15. CASE Restart
  <2>1. /\ events' = file /\ file' = file /\ writes' = {}
        /\ tasks' = [t \in Tasks |-> [tasks[t] EXCEPT !.pc = "over"]]
    BY <1>15, Zenon DEF Restart
  <2>2. \A s \in Tasks : tasks'[s].pc = "over" /\ tasks'[s].n = tasks[s].n
    BY <1>1, <2>1 DEF TasksType
  <2>3. (Final' <=> Final) /\ ~ Undisturbed'
    BY <2>2 DEF Final, Undisturbed
  <2>4. /\ LastIfTerminal(events)' /\ LastIfTerminal(file)'
        /\ (HasTerminal(events)' <=> HasTerminal(file))
        /\ (HasTerminal(file)' <=> HasTerminal(file))
    BY <2>1, Zenon DEF LastIfTerminal, HasTerminal, Verdict
  <2>5. /\ \A s \in Tasks : tasks'[s].pc # "failed"
        /\ tasks'[Run].pc \notin {"busy", "asking", "writing"}
        /\ \A c \in Children : tasks'[c].pc = "over"
    BY <2>2
  <2>6. ~ Final => ~ HasTerminal(file)
    BY Zenon DEF Verdict
  <2> QED
    BY <2>1, <2>3, <2>4, <2>5, <2>6 DEF Verdict
<1>16. ASSUME \/ \E c \in Clients : Connect(c) \/ Deliver(c) \/ EndStream(c) \/ Sleep(c) \/ Drop(c)
              \/ UNCHANGED vars
       PROVE  Verdict'
  BY <1>2, <1>16, Zenon DEF Connect, Deliver, EndStream, Sleep, Drop, log, vars
<1> QED
  BY <1>3, <1>4, <1>5, <1>6, <1>7, <1>8, <1>9, <1>10, <1>11, <1>12, <1>13, <1>14, <1>15, <1>16,
     Zenon DEF Next, TaskStep

-----------------------------------------------------------------------------
(* The invariant, and what follows from it.                                *)

LEMMA InitInv == Init => IInv
<1> SUFFICES ASSUME Init PROVE IInv
  OBVIOUS
<1>1. /\ events = <<>> /\ file = <<>> /\ writes = {} /\ failures = 0 /\ restarts = 0
      /\ clients = [c \in Clients |-> [pc |-> "off", position |-> 0]]
      /\ got = [c \in Clients |-> <<>>]
      /\ tasks = [t \in Tasks |-> IF t = Run THEN [pc |-> "asking", n |-> Running]
                                             ELSE [pc |-> "waiting", n |-> 0]]
  BY Zenon DEF Init
<1>2. TypeOK /\ LockInv
  BY InitControl, InitData, ControlAndData, Zenon
<1>3. Counts
  BY <1>1 DEF Counts
<1>4. /\ tasks[Run].pc = "asking" /\ ~ Final
      /\ \A t \in Tasks : tasks[t].pc \notin {"writing", "failed"}
  BY <1>1, RunIsTask DEF Final
<1>5. ToSet(<<>>) = {} /\ DOMAIN <<>> = {}
  BY DEF ToSet
<1>6. DiskInv
  BY <1>1, <1>4, <1>5 DEF DiskInv
<1>7. ASSUME NEW c \in Clients PROVE clients[c].pc = "off" /\ got[c] = <<>>
  BY <1>1
<1>8. IsPrefix(<<>>, <<>>)
  BY DEF IsPrefix
<1>9. FollowInv
  BY <1>1, <1>5, <1>7, <1>8 DEF FollowInv
<1>10. VerdictInv
  BY <1>1, <1>4, <1>5 DEF VerdictInv, Verdict, LastIfTerminal, HasTerminal
<1> QED
  BY <1>2, <1>3, <1>6, <1>9, <1>10, Zenon DEF IInv

LEMMA StepInv == IInv /\ [Next]_vars => IInv'
<1> SUFFICES ASSUME IInv, [Next]_vars PROVE IInv'
  OBVIOUS
<1>1. Control /\ Data /\ Counts /\ DiskInv /\ FollowInv /\ VerdictInv
  BY ControlAndData, Zenon DEF IInv
<1>2. Control' /\ Data' /\ Counts' /\ DiskInv' /\ FollowInv'
  BY <1>1, ControlStep, DataStep, CountsStep, DiskStep, FollowStep, Zenon
<1>3. TypeOK' /\ LockInv'
  BY <1>2, ControlAndData, PTL
<1>4. VerdictInv'
  <2> SUFFICES ASSUME failures' = 0 PROVE Verdict'
    BY Zenon DEF VerdictInv
  <2>1. failures' = failures \/ failures' = failures + 1
    BY Zenon DEF Next, TaskStep, Write, Ignore, Store, Notify, EndRun, Ask, Close, Release,
         Finish, Refuse, EmitNext, Land, Cancel, Restart, Connect, Deliver, EndStream, Sleep,
         Drop, vars
  <2>2. failures = 0 /\ failures' = failures /\ failures \in Nat
    BY <1>1, <2>1 DEF Counts
  <2>3. Verdict
    BY <1>1, <2>2, Zenon DEF VerdictInv
  <2> QED
    BY <1>1, <2>2, <2>3, VerdictStep, Zenon
<1> QED
  BY <1>2, <1>3, <1>4, Zenon DEF IInv

THEOREM Invariant == Spec => []IInv
BY InitInv, StepInv, PTL DEF Spec

\* The state has its shape, and the write lock one holder: only it writes.
THEOREM TypeCorrect == Spec => []TypeOK
<1>1. IInv => TypeOK
  BY Zenon DEF IInv
<1> QED
  BY <1>1, Invariant, PTL

\* A replay after a restart has whatever a browser has seen.
THEOREM SeenStaysOnDisk == Spec => []SeenIsOnDisk
<1>1. IInv => SeenIsOnDisk
  BY Zenon DEF IInv, DiskInv, SeenIsOnDisk
<1> QED
  BY <1>1, Invariant, PTL

\* However often it reconnects, a browser gets every event once and in order.
THEOREM ReconnectsExactly == Spec => []ResumesExactly
<1>1. IInv => ResumesExactly
  BY Zenon DEF IInv, FollowInv, ResumesExactly
<1> QED
  BY <1>1, Invariant, PTL

\* Unless a write failed, nothing follows the scan's last status.
THEOREM VerdictIsLast == Spec => []NothingAfterVerdict
<1>1. IInv => NothingAfterVerdict
  BY Zenon DEF IInv, VerdictInv, Verdict, LastIfTerminal, NothingAfterVerdict
<1> QED
  BY <1>1, Invariant, PTL

\* A stream that has ended is complete, and stays so until the server stops.
THEOREM EndedIsComplete == Spec => EndedMeansComplete
<1> DEFINE Complete == \A c \in Clients : clients[c].pc = "ended" /\ restarts' = 0 =>
                         got[c] = events /\ events' = events
<1>1. ASSUME IInv, [Next]_vars PROVE [Complete]_vars
  <2> SUFFICES ASSUME NEW c \in Clients, clients[c].pc = "ended", restarts' = 0
               PROVE  got[c] = events /\ events' = events
    BY Zenon
  <2>1. restarts = 0 /\ ~ Restart
    <3>1. restarts' = restarts \/ restarts' = restarts + 1
      BY <1>1, Zenon DEF Next, TaskStep, Write, Ignore, Store, Notify, EndRun, Ask, Close,
           Release, Finish, Refuse, EmitNext, Land, Cancel, Restart, Connect, Deliver,
           EndStream, Sleep, Drop, vars
    <3>2. Restart => restarts' = restarts + 1
      BY Zenon DEF Restart
    <3> QED
      BY <1>1, <3>1, <3>2 DEF IInv, Counts
  <2>2. closed /\ got[c] = events
    BY <1>1, <2>1, Zenon DEF IInv, FollowInv
  <2>3. \A t \in Tasks : ~ Store(t)
    BY <1>1, <2>2, Zenon DEF IInv, LockInv, Store
  <2>4. events' = events
    BY <1>1, <2>1, <2>3, Zenon DEF Next, TaskStep, Write, Ignore, Notify, EndRun, Ask, Close,
         Release, Finish, Refuse, EmitNext, Land, Cancel, Connect, Deliver, EndStream, Sleep,
         Drop, log, vars
  <2> QED
    BY <2>2, <2>4, Zenon
<1> QED
  BY <1>1, Invariant, PTL DEF Spec, EndedMeansComplete

=============================================================================
