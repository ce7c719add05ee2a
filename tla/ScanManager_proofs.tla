------------------------- MODULE ScanManager_proofs -------------------------
(***************************************************************************)
(* What ScanManager guarantees for any number of scans, clients, failures  *)
(* and restarts: the safety properties its runs check.                     *)
(***************************************************************************)
EXTENDS ScanManager, FiniteSetTheorems, TLAPS

USE ManagerAssumption

-----------------------------------------------------------------------------
(* The inductive invariant.                                                *)

RequestPcs == {"idle", "waiting", "reading", "reading report", "failing", "deciding",
               "saving", "removing", "emptied"}

\* A request's value is what it has read of scan.json, or a report.
RequestType(q) ==
  /\ q \in [pc : RequestPcs, kind : {None, "read", "decide", "delete"},
            scan : Scans \cup {None}, object : Nat, value : {q.value}]
  /\ q.pc = "reading report" => q.value \in Statuses
  /\ q.pc \in {"failing", "saving"} => q.value \in Reports

\* A stray is a write of one of the two files.
WriteType(w) ==
  /\ w \in [scan : Scans, file : {"info", "report"}, value : {w.value}]
  /\ w.file = "info" => w.value \in Statuses
  /\ w.file = "report" => w.value \in Reports

Object == [status : Statuses, report : Reports]
Files == [exists : BOOLEAN, info : {None} \cup Statuses, report : Reports]
Tasks == Uploading \cup Active \cup {"over"}
Deletes == {"no", "begun", "answered"}
Kinds == {"read", "decide", "delete"}

\* The types of the parts of the state; together they say more than TypeOK.
StoreType ==
  /\ objects \in Seq(Object)
  /\ memory \in [Scans -> 0..Len(objects)]
  /\ own \in [Scans -> 0..Len(objects)]
  /\ tasks \in [Scans -> Tasks]
  /\ \A s \in Scans : tasks[s] \in Active \cup {"queueing"} => own[s] # 0

DiskType ==
  /\ disk \in [Scans -> Files]
  /\ \A s \in Scans : ~ disk[s].exists => disk[s] = NoFiles

StraysType == \A w \in strays : WriteType(w)

RequestsType ==
  /\ requests = [r \in Requests |-> requests[r]]
  /\ \A r \in Requests : RequestType(requests[r]) /\ requests[r].object <= Len(objects)

RestType ==
  /\ purge \subseteq Scans
  /\ acked \in [Scans -> SUBSET Requests]
  /\ deletes \in [Scans -> Deletes]
  /\ failures \in Nat /\ restarts \in Nat

TypeInv == StoreType /\ DiskType /\ StraysType /\ RequestsType /\ RestType

Deciding(r) == requests[r].pc \in {"deciding", "saving"}
Removing(r) == requests[r].pc \in {"removing", "emptied"}

\* An object belongs to one scan: no two scans, and no request for another one,
\* refer to it.
OwnershipInv ==
  /\ \A s, t \in Scans : memory[s] # 0 /\ memory[s] = memory[t] => s = t
  /\ \A s, t \in Scans : own[s] # 0 /\ own[s] = own[t] => s = t
  /\ \A s, t \in Scans : own[s] # 0 /\ own[s] = memory[t] => s = t
  /\ \A r \in Requests : Deciding(r) =>
       /\ requests[r].object # 0
       /\ \A s \in Scans : requests[r].object \in {own[s], memory[s]} => requests[r].scan = s

\* A scan that runs is found as the object its run works on; requests are for scans
\* whose ids have been given out; one request loads, and what it loads is not in
\* memory; a decision is made on the object that is served.
LifeInv ==
  /\ \A s \in Scans : tasks[s] \in Active \cup {"queueing"} => memory[s] = own[s] /\ own[s] # 0
  /\ \A s \in Scans : tasks[s] \in {"none", "creating", "uploading"} => memory[s] = 0
  /\ \A r \in Requests : requests[r].pc # "idle" =>
       requests[r].scan \in Scans /\ Accepted(requests[r].scan)
  /\ \A r \in Loading : memory[requests[r].scan] = 0
  /\ \A q, r \in Loading : q = r
  /\ \A r \in Requests : LET s == requests[r].scan IN
       Deciding(r) /\ (deletes[s] = "no" \/ tasks[s] \in Active) => requests[r].object = memory[s]

\* What is being deleted was accepted, and only of that are there strays.
DeleteInv ==
  /\ \A s \in Scans : deletes[s] # "no" => Accepted(s)
  /\ \A s \in purge : deletes[s] # "no"
  /\ \A r \in Requests : Removing(r) => deletes[requests[r].scan] # "no"
  /\ \A w \in strays : deletes[w.scan] # "no"
  /\ DeleteStops

\* What has been accepted is on disk until it is deleted.
DiskInv ==
  \A s \in Scans : Accepted(s) /\ deletes[s] = "no" => disk[s].exists /\ disk[s].info # None

\* A scan's status tells how far its run has come.
StatusFits(pc, status) ==
  /\ pc \in {"starting", "working", "saving"} => status = Running
  /\ pc = "finishing" => status = Done
  /\ pc = "failing" => status = Failed
  /\ pc = "over" => status \in {Done, Failed}
  /\ pc \in {"queueing", "waiting", "rejected"} => status = Queued

StatusInv == \A s \in Scans : InMemory(s) => StatusFits(tasks[s], Status(s))

\* The semaphore.
HoldersInv == IsFiniteSet(Holders) /\ Cardinality(Holders) <= MaxConcurrent

\* There are no decisions before there is a report.
Decidable == {"finishing", "failing", "over"}
UndecidedInv ==
  \A s \in Scans : tasks[s] \notin Decidable =>
    /\ acked[s] = {}
    /\ InMemory(s) => objects[memory[s]].report = None

\* One decision at a time is saved of an object, from the report the object has.
SaversInv ==
  /\ \A r \in Requests : requests[r].pc = "saving" =>
       /\ objects[requests[r].object].report # None
       /\ requests[r].value = objects[requests[r].object].report \cup {r}
  /\ \A q, r \in Requests :
       requests[q].pc = "saving" /\ requests[r].pc = "saving"
         /\ requests[q].object = requests[r].object => q = r

\* The report that was read for an interrupted scan is still the one on disk.
InterruptedInv ==
  \A r \in Requests :
    requests[r].pc = "failing" /\ deletes[requests[r].scan] = "no"
      => requests[r].value = disk[requests[r].scan].report

DecisionInv == UndecidedInv /\ SaversInv /\ InterruptedInv /\ DecisionsKept

\* Until the server stops, what is accepted is served from its run's object.
ServedInv ==
  restarts = 0 => \A s \in Scans : Accepted(s) /\ deletes[s] = "no" => InMemory(s)

ReportInv == ServedInv /\ ReportOnlyWhenDone

IInv == /\ TypeInv /\ OwnershipInv /\ LifeInv /\ DeleteInv /\ DiskInv /\ StatusInv
        /\ HoldersInv /\ DecisionInv /\ ReportInv

-----------------------------------------------------------------------------
(* What the helpers of the actions do.                                     *)

LEMMA PutInfo ==
  ASSUME disk \in [Scans -> Files], NEW s \in Scans, NEW v \in Statuses, Put(s, "info", v)
  PROVE  /\ disk' \in [Scans -> Files]
         /\ \A t \in Scans : t # s => disk'[t] = disk[t]
         /\ disk[s].exists /\ disk'[s].exists
         /\ disk'[s].info = v /\ disk'[s].report = disk[s].report
BY DEF Put, Files

LEMMA PutReport ==
  ASSUME disk \in [Scans -> Files], NEW s \in Scans, NEW v \in Reports, Put(s, "report", v)
  PROVE  /\ disk' \in [Scans -> Files]
         /\ \A t \in Scans : t # s => disk'[t] = disk[t]
         /\ disk[s].exists /\ disk'[s].exists
         /\ disk'[s].info = disk[s].info /\ disk'[s].report = v
BY DEF Put, Files

\* What the types say, in the forms the steps use.
LEMMA Shapes ==
  ASSUME TypeInv
  PROVE  /\ objects \in Seq(Object) /\ Len(objects) \in Nat
         /\ memory \in [Scans -> Nat] /\ own \in [Scans -> Nat]
         /\ \A s \in Scans : memory[s] <= Len(objects) /\ own[s] <= Len(objects)
         /\ \A r \in Requests : requests[r].object <= Len(objects) /\ requests[r].object \in Nat
         /\ tasks \in [Scans -> Tasks] /\ disk \in [Scans -> Files]
         /\ deletes \in [Scans -> Deletes] /\ acked \in [Scans -> SUBSET Requests]
<1>1. /\ objects \in Seq(Object)
      /\ memory \in [Scans -> 0..Len(objects)] /\ own \in [Scans -> 0..Len(objects)]
      /\ tasks \in [Scans -> Tasks] /\ disk \in [Scans -> Files]
      /\ deletes \in [Scans -> Deletes] /\ acked \in [Scans -> SUBSET Requests]
      /\ \A r \in Requests : RequestType(requests[r]) /\ requests[r].object <= Len(objects)
  BY Zenon DEF TypeInv, StoreType, DiskType, RequestsType, RestType
<1>2. Len(objects) \in Nat
  BY <1>1
<1>3. /\ memory \in [Scans -> Nat] /\ own \in [Scans -> Nat]
      /\ \A s \in Scans : memory[s] <= Len(objects) /\ own[s] <= Len(objects)
  BY <1>1, <1>2
<1>4. \A r \in Requests : requests[r].object \in Nat
  BY <1>1 DEF RequestType
<1> QED
  BY <1>1, <1>2, <1>3, <1>4, Zenon

\* A new object has a number that nobody has.
LEMMA NewObjectEffect ==
  ASSUME TypeInv, NEW status \in Statuses, NEW report \in Reports,
         objects' = Append(objects, NewObject(status, report))
  PROVE  /\ objects' \in Seq(Object) /\ Len(objects') = Len(objects) + 1
         /\ \A o \in 1..Len(objects) : objects'[o] = objects[o]
         /\ objects'[Len(objects')] = NewObject(status, report)
         /\ NewObject(status, report) \in Object
<1> DEFINE new == NewObject(status, report)
<1>1. new \in Object /\ objects \in Seq(Object)
  BY Shapes DEF NewObject, Object
<1> HIDE DEF new
<1>2. objects' = Append(objects, new)
  BY DEF new
<1>3. /\ objects' \in Seq(Object) /\ Len(objects') = Len(objects) + 1
      /\ \A o \in 1..Len(objects) : objects'[o] = objects[o]
      /\ objects'[Len(objects')] = new
  BY <1>1, <1>2
<1> QED
  BY <1>1, <1>3 DEF new

\* A run changes its own object.
LEMMA SetObjectEffect ==
  ASSUME TypeInv, NEW s \in Scans, own[s] # 0, NEW status \in Statuses, NEW report \in Reports,
         SetObject(s, status, report)
  PROVE  /\ objects' \in Seq(Object) /\ Len(objects') = Len(objects)
         /\ \A o \in 1..Len(objects) : o # own[s] => objects'[o] = objects[o]
         /\ objects'[own[s]].status = status /\ objects'[own[s]].report = report
<1> DEFINE new == NewObject(status, report)
<1>1. new \in Object /\ objects \in Seq(Object) /\ own[s] \in 1..Len(objects)
      /\ new.status = status /\ new.report = report
  BY Shapes DEF NewObject, Object
<1> HIDE DEF new
<1>2. objects' = [objects EXCEPT ![own[s]] = new]
  BY DEF new, SetObject
<1>3. /\ objects' \in Seq(Object) /\ Len(objects') = Len(objects)
      /\ \A o \in 1..Len(objects) : o # own[s] => objects'[o] = objects[o]
      /\ objects'[own[s]] = new
  BY <1>1, <1>2
<1> QED
  BY <1>1, <1>3

LEMMA StepEffect ==
  ASSUME TypeInv, NEW s \in Scans, NEW pc \in Tasks, Step(s, pc)
  PROVE  /\ tasks' \in [Scans -> Tasks]
         /\ tasks'[s] = pc
         /\ \A t \in Scans : t # s => tasks'[t] = tasks[t]
BY Shapes DEF Step, Tasks

TasksType == tasks \in [Scans -> Tasks]

\* One request goes on; the others stay where they are.
OnlyRequest(r) ==
  /\ requests' = [q \in Requests |-> requests'[q]]
  /\ \A q \in Requests : q # r => requests'[q] = requests[q]

LEMMA StrayTypes ==
  ASSUME NEW s \in Scans
  PROVE  \A w \in Stray(s) : WriteType(w) /\ w.scan = s
<1>1. {} \in Reports /\ Statuses = {Running, Done, Failed, Queued}
  BY DEF Reports, Statuses
<1>2. \A w \in Stray(s) :
        \/ w \in {[scan |-> s, file |-> "info", value |-> v] : v \in Statuses}
        \/ w = [scan |-> s, file |-> "report", value |-> {}]
  BY <1>1 DEF Stray
<1> QED
  BY <1>1, <1>2 DEF WriteType

LEMMA StopEffect ==
  ASSUME TypeInv, NEW s \in Scans, NEW o \in Nat, Stop(s, o)
  PROVE  /\ TasksType'
         /\ \A t \in Scans : t # s => tasks'[t] = tasks[t]
         /\ tasks'[s] = IF o = own[s] /\ tasks[s] \in Active THEN "over" ELSE tasks[s]
         /\ \A w \in strays' : w \in strays \/ (WriteType(w) /\ w.scan = s)
<1>1. CASE o = own[s] /\ tasks[s] \in Active
  <2>1. Step(s, "over") /\ strays' = strays \cup Stray(s)
    BY <1>1, Zenon DEF Stop
  <2>2. \A w \in strays' : w \in strays \/ (WriteType(w) /\ w.scan = s)
    BY <2>1, StrayTypes, Zenon
  <2>3. /\ TasksType' /\ tasks'[s] = "over"
        /\ \A t \in Scans : t # s => tasks'[t] = tasks[t]
    BY <2>1, StepEffect DEF TasksType, Tasks
  <2> QED
    BY <1>1, <2>2, <2>3, Zenon
<1>2. CASE ~ (o = own[s] /\ tasks[s] \in Active)
  <2>1. tasks' = tasks /\ strays' = strays
    BY <1>2, Zenon DEF Stop
  <2>2. TasksType'
    BY <2>1, Shapes, Zenon DEF TasksType
  <2> QED
    BY <1>2, <2>1, <2>2, Zenon
<1> QED
  BY <1>1, <1>2, Zenon

LEMMA IdleType ==
  /\ RequestType(Idle) /\ Idle.pc = "idle" /\ Idle.object = 0
BY DEF Idle, RequestType, RequestPcs

\* Request r has found scan s as object o and goes on: it has read
\* it, decides on its object, or takes it out of memory, stops its run and removes
\* it.
Proceeded(r, s, o) ==
  /\ OnlyRequest(r) /\ RequestType(requests'[r])
  /\ memory' = [memory EXCEPT ![s] = memory'[s]]
  /\ TasksType' /\ \A t \in Scans : t # s => tasks'[t] = tasks[t]
  /\ deletes' = [deletes EXCEPT ![s] = deletes'[s]]
  /\ deletes'[s] \in Deletes
  /\ \A w \in strays' : w \in strays \/ (WriteType(w) /\ w.scan = s)
  /\ \/ /\ \/ requests'[r] = Idle
           \/ /\ requests'[r].pc = "deciding"
              /\ requests'[r].scan = s /\ requests'[r].object = o
        /\ memory'[s] = o
        /\ tasks'[s] = tasks[s] /\ deletes'[s] = deletes[s] /\ strays' = strays
     \/ /\ requests'[r].pc = "removing"
        /\ requests'[r].scan = s /\ requests'[r].object = 0
        /\ memory'[s] = 0 /\ deletes'[s] # "no"
        /\ tasks'[s] = IF o = own[s] /\ tasks[s] \in Active THEN "over" ELSE tasks[s]

LEMMA ProceedEffect ==
  ASSUME TypeInv, NEW r \in Requests, NEW kind, NEW s \in Scans, NEW o \in Nat, o # 0,
         Proceed(r, kind, s, o)
  PROVE  Proceeded(r, s, o)
<1>0. kind \in Kinds
  BY Zenon DEF Proceed, Kinds
<1>1. /\ requests = [q \in Requests |-> requests[q]]
      /\ memory \in [Scans -> Nat] /\ deletes \in [Scans -> Deletes]
      /\ TasksType
  BY Shapes, Zenon DEF TypeInv, RequestsType, TasksType
<1>2. CASE /\ Answer(r)
           /\ memory' = [memory EXCEPT ![s] = o]
           /\ UNCHANGED <<tasks, strays, deletes>>
  <2>1. OnlyRequest(r) /\ requests'[r] = Idle
    BY <1>1, <1>2 DEF Answer, OnlyRequest
  <2>2. /\ tasks' = tasks /\ strays' = strays /\ deletes' = deletes
        /\ memory' = [memory EXCEPT ![s] = o]
    BY <1>2, Zenon
  <2>3. memory'[s] = o /\ memory' = [memory EXCEPT ![s] = memory'[s]]
    BY <1>1, <2>2
  <2>4. deletes' = [deletes EXCEPT ![s] = deletes'[s]]
        /\ deletes'[s] \in Deletes
    BY <1>1, <2>2
  <2>5. TasksType'
    BY <1>1, <2>2, Zenon DEF TasksType
  <2> QED
    BY <2>1, <2>2, <2>3, <2>4, <2>5, IdleType, Zenon DEF Proceeded
<1>3. CASE /\ kind = "decide"
           /\ requests' = [requests EXCEPT ![r] =
                [Idle EXCEPT !.pc = "deciding", !.kind = kind, !.scan = s, !.object = o]]
           /\ memory' = [memory EXCEPT ![s] = o]
           /\ UNCHANGED <<tasks, strays, deletes>>
  <2> DEFINE new == [Idle EXCEPT !.pc = "deciding", !.kind = kind, !.scan = s, !.object = o]
  <2>1. RequestType(new) /\ new.pc = "deciding" /\ new.scan = s /\ new.object = o
    BY <1>0 DEF Idle, RequestType, RequestPcs, Kinds
  <2>2. requests' = [requests EXCEPT ![r] = new]
    BY <1>3, Zenon
  <2> HIDE DEF new
  <2>3. OnlyRequest(r) /\ requests'[r] = new
    BY <1>1, <2>2 DEF OnlyRequest
  <2>4. /\ tasks' = tasks /\ strays' = strays /\ deletes' = deletes
        /\ memory' = [memory EXCEPT ![s] = o]
    BY <1>3, Zenon
  <2>5. memory'[s] = o /\ memory' = [memory EXCEPT ![s] = memory'[s]]
    BY <1>1, <2>4
  <2>6. deletes' = [deletes EXCEPT ![s] = deletes'[s]]
        /\ deletes'[s] \in Deletes
    BY <1>1, <2>4
  <2>7. TasksType'
    BY <1>1, <2>4, Zenon DEF TasksType
  <2> QED
    BY <2>1, <2>3, <2>4, <2>5, <2>6, <2>7, Zenon DEF Proceeded
<1>4. CASE /\ kind = "delete"
           /\ requests' = [requests EXCEPT ![r] =
                [Idle EXCEPT !.pc = "removing", !.kind = kind, !.scan = s]]
           /\ memory' = [memory EXCEPT ![s] = 0]
           /\ Stop(s, o)
           /\ deletes' = [deletes EXCEPT ![s] = IF @ = "no" THEN "begun" ELSE @]
  <2> DEFINE new == [Idle EXCEPT !.pc = "removing", !.kind = kind, !.scan = s]
  <2>1. RequestType(new) /\ new.pc = "removing" /\ new.scan = s /\ new.object = 0
    BY <1>0 DEF Idle, RequestType, RequestPcs, Kinds
  <2>2. requests' = [requests EXCEPT ![r] = new]
    BY <1>4, Zenon
  <2> HIDE DEF new
  <2>3. OnlyRequest(r) /\ requests'[r] = new
    BY <1>1, <2>2 DEF OnlyRequest
  <2>4. /\ TasksType'
        /\ \A t \in Scans : t # s => tasks'[t] = tasks[t]
        /\ tasks'[s] = IF o = own[s] /\ tasks[s] \in Active THEN "over" ELSE tasks[s]
        /\ \A w \in strays' : w \in strays \/ (WriteType(w) /\ w.scan = s)
    BY <1>4, StopEffect
  <2>5. /\ deletes' = [deletes EXCEPT ![s] = deletes'[s]]
        /\ deletes'[s] \in Deletes /\ deletes'[s] # "no"
        /\ memory' = [memory EXCEPT ![s] = memory'[s]] /\ memory'[s] = 0
    BY <1>1, <1>4 DEF Deletes
  <2> QED
    BY <2>1, <2>3, <2>4, <2>5, Zenon DEF Proceeded
<1> QED
  BY <1>2, <1>3, <1>4, Zenon DEF Proceed

LEMMA AnswerEffect ==
  ASSUME TypeInv, NEW r \in Requests, Answer(r)
  PROVE  OnlyRequest(r) /\ requests'[r] = Idle
BY DEF Answer, OnlyRequest, TypeInv, RequestsType

SameRequest(r) ==
  /\ requests'[r].kind = requests[r].kind
  /\ requests'[r].scan = requests[r].scan
  /\ requests'[r].object = requests[r].object

LEMMA RequestEffect ==
  ASSUME TypeInv, NEW r \in Requests,
         NEW pc \in RequestPcs \ {"reading report", "failing", "saving"}, Request(r, pc)
  PROVE  OnlyRequest(r) /\ RequestType(requests'[r]) /\ requests'[r].pc = pc /\ SameRequest(r)
<1>1. requests = [q \in Requests |-> requests[q]] /\ RequestType(requests[r])
  BY Zenon DEF TypeInv, RequestsType
<1> DEFINE new == [requests[r] EXCEPT !.pc = pc]
<1>2. /\ RequestType(new) /\ new.pc = pc /\ new.kind = requests[r].kind
      /\ new.scan = requests[r].scan /\ new.object = requests[r].object
  BY <1>1 DEF RequestType
<1>3. requests' = [requests EXCEPT ![r] = new]
  BY DEF Request
<1> HIDE DEF new
<1>4. OnlyRequest(r) /\ requests'[r] = new
  BY <1>1, <1>3 DEF OnlyRequest
<1> QED
  BY <1>2, <1>4, Zenon DEF SameRequest

LEMMA ValueEffect ==
  ASSUME TypeInv, NEW r \in Requests, NEW pc \in RequestPcs, NEW value,
         pc = "reading report" => value \in Statuses,
         pc \in {"failing", "saving"} => value \in Reports,
         requests' = [requests EXCEPT ![r].pc = pc, ![r].value = value]
  PROVE  /\ OnlyRequest(r) /\ RequestType(requests'[r]) /\ SameRequest(r)
         /\ requests'[r].pc = pc /\ requests'[r].value = value
<1>1. requests = [q \in Requests |-> requests[q]] /\ RequestType(requests[r])
  BY Zenon DEF TypeInv, RequestsType
<1> DEFINE new == [requests[r] EXCEPT !.pc = pc, !.value = value]
<1>2. /\ RequestType(new) /\ new.pc = pc /\ new.kind = requests[r].kind
      /\ new.scan = requests[r].scan /\ new.object = requests[r].object /\ new.value = value
  BY <1>1 DEF RequestType
<1>3. requests' = [requests EXCEPT ![r] = new]
  BY <1>1
<1> HIDE DEF new
<1>4. OnlyRequest(r) /\ requests'[r] = new
  BY <1>1, <1>3 DEF OnlyRequest
<1> QED
  BY <1>2, <1>4, Zenon DEF SameRequest

-----------------------------------------------------------------------------
(* What a step of a request does, whichever action it is.                  *)

\* It was in memory.
FoundMove(r, s) ==
  /\ Accepted(s) /\ memory[s] # 0
  /\ requests[r].pc \in {"idle", "waiting"}
  /\ Proceeded(r, s, memory[s])
  /\ UNCHANGED <<objects, own, disk, purge, acked, failures, restarts>>

\* It has been loaded.
LoadedMove(r, s) ==
  /\ r \in Loading /\ s = requests[r].scan
  /\ \E status \in {Done, Failed}, report \in Reports :
       /\ objects' = Append(objects, NewObject(status, report))
       /\ deletes[s] = "no" /\ requests[r].pc = "failing" => report = requests[r].value
       /\ requests[r].pc # "failing" => report = disk[s].report
  /\ Proceeded(r, s, Len(objects) + 1)
  /\ DiskType' /\ \A t \in Scans : t # s => disk'[t] = disk[t]
  /\ disk'[s].exists = disk[s].exists /\ disk'[s].report = disk[s].report
  /\ disk[s].info # None => disk'[s].info # None
  /\ UNCHANGED <<own, purge, acked, failures, restarts>>

\* Only the request changes, and the count of failures.
TurnMove(r) ==
  /\ OnlyRequest(r) /\ RequestType(requests'[r])
  /\ UNCHANGED <<store, tasks, disk, strays, purge, acked, deletes, restarts>>
  /\ failures' \in {failures, failures + 1}
  /\ \/ requests'[r] = Idle
     \/ /\ requests'[r].pc = "waiting" /\ requests'[r].object = 0
        /\ requests'[r].scan \in Scans /\ Accepted(requests'[r].scan)
     \/ /\ SameRequest(r) /\ requests[r].pc = "waiting" /\ requests'[r].pc = "reading"
        /\ Loading = {} /\ memory[requests[r].scan] = 0
     \/ /\ SameRequest(r) /\ requests[r].pc = "reading" /\ requests'[r].pc = "reading report"
     \/ /\ SameRequest(r) /\ requests[r].pc = "reading report" /\ requests'[r].pc = "failing"
        /\ requests'[r].value = disk[requests[r].scan].report
     \/ /\ SameRequest(r) /\ requests[r].pc = "deciding" /\ requests'[r].pc = "saving"
        /\ Unlocked(requests[r].object) /\ objects[requests[r].object].report # None
        /\ requests'[r].value = objects[requests[r].object].report \cup {r}

\* A decision is saved.
SavedMove(r) ==
  LET s == requests[r].scan
      o == requests[r].object
      v == requests[r].value IN
  /\ requests[r].pc = "saving" /\ v \in Reports
  /\ OnlyRequest(r) /\ requests'[r] = Idle
  /\ objects' \in Seq(Object) /\ Len(objects') = Len(objects)
  /\ \A p \in 1..Len(objects) : objects'[p].status = objects[p].status
  /\ \A p \in 1..Len(objects) : p # o => objects'[p] = objects[p]
  /\ objects'[o].report = v
  /\ DiskType' /\ \A t \in Scans : t # s => disk'[t] = disk[t]
  /\ disk'[s].exists /\ disk'[s].info = disk[s].info /\ disk'[s].report = v
  /\ acked' = [acked EXCEPT ![s] = @ \cup {r}]
  /\ UNCHANGED <<memory, own, tasks, strays, purge, deletes, failures, restarts>>

\* A workspace is emptied or removed.
RemovedMove(r) ==
  LET s == requests[r].scan IN
  /\ Removing(r)
  /\ OnlyRequest(r) /\ RequestType(requests'[r])
  /\ requests'[r] = Idle \/ (requests'[r].pc = "emptied" /\ SameRequest(r))
  /\ DiskType' /\ \A t \in Scans : t # s => disk'[t] = disk[t]
  /\ deletes' = [deletes EXCEPT ![s] = deletes'[s]]
  /\ deletes'[s] \in {deletes[s], "answered"}
  /\ UNCHANGED <<store, tasks, strays, purge, acked, failures, restarts>>

Moves(r) ==
  \/ \E s \in Scans : FoundMove(r, s) \/ LoadedMove(r, s)
  \/ TurnMove(r) \/ SavedMove(r) \/ RemovedMove(r)

\* What a request that is not idle knows of its scan.
LEMMA ItsScan ==
  ASSUME LifeInv, NEW r \in Requests, requests[r].pc # "idle"
  PROVE  requests[r].scan \in Scans /\ Accepted(requests[r].scan)
BY Zenon DEF LifeInv

LEMMA AskMoves ==
  ASSUME TypeInv, NEW r \in Requests, NEW kind \in Kinds, NEW s \in Scans, Ask(r, kind, s)
  PROVE  Moves(r)
<1>1. /\ requests[r] = Idle /\ Accepted(s)
      /\ UNCHANGED <<objects, own, disk, purge, acked, failures, restarts>>
  BY Zenon DEF Ask
<1>2. CASE InMemory(s) /\ Proceed(r, kind, s, memory[s])
  <2>1. memory[s] \in Nat /\ memory[s] # 0
    BY <1>2, Shapes DEF InMemory
  <2>2. Proceeded(r, s, memory[s])
    BY <1>2, <2>1, ProceedEffect, Zenon
  <2>3. requests[r].pc \in {"idle", "waiting"}
    BY <1>1, IdleType
  <2> QED
    BY <1>1, <2>1, <2>2, <2>3, Zenon DEF FoundMove, Moves
<1>3. CASE /\ requests' = [requests EXCEPT ![r] =
                [Idle EXCEPT !.pc = "waiting", !.kind = kind, !.scan = s]]
           /\ UNCHANGED <<memory, tasks, strays, deletes>>
  <2> DEFINE new == [Idle EXCEPT !.pc = "waiting", !.kind = kind, !.scan = s]
  <2>1. RequestType(new) /\ new.pc = "waiting" /\ new.scan = s /\ new.object = 0
    BY DEF Idle, RequestType, RequestPcs, Kinds
  <2>2. requests' = [requests EXCEPT ![r] = new]
    BY <1>3, Zenon
  <2> HIDE DEF new
  <2>3. OnlyRequest(r) /\ requests'[r] = new
    BY <2>2 DEF OnlyRequest, TypeInv, RequestsType
  <2>4. failures' \in {failures, failures + 1}
    BY <1>1, Zenon
  <2> QED
    BY <1>1, <1>3, <2>1, <2>3, <2>4, Zenon DEF TurnMove, Moves, store
<1> QED
  BY <1>2, <1>3, Zenon DEF Ask

LEMMA LockLoadingMoves ==
  ASSUME TypeInv, LifeInv, NEW r \in Requests, LockLoading(r)
  PROVE  Moves(r)
<1> DEFINE s == requests[r].scan
<1>1. /\ requests[r].pc = "waiting" /\ Loading = {}
      /\ UNCHANGED <<objects, own, disk, purge, acked, failures, restarts>>
  BY Zenon DEF LockLoading
<1>2. s \in Scans /\ Accepted(s)
  BY <1>1, ItsScan
<1>3. CASE FoundMeanwhile(s) /\ Proceed(r, requests[r].kind, s, memory[s])
  <2>1. memory[s] \in Nat /\ memory[s] # 0
    BY <1>2, <1>3, Shapes DEF InMemory, FoundMeanwhile
  <2>2. Proceeded(r, s, memory[s])
    BY <1>2, <1>3, <2>1, ProceedEffect, Zenon
  <2> QED
    BY <1>1, <1>2, <2>1, <2>2, Zenon DEF FoundMove, Moves
<1>4. CASE /\ ~ FoundMeanwhile(s) /\ Request(r, "reading")
           /\ UNCHANGED <<memory, tasks, strays, deletes>>
  <2>1. OnlyRequest(r) /\ RequestType(requests'[r]) /\ requests'[r].pc = "reading" /\ SameRequest(r)
    BY <1>4, RequestEffect DEF RequestPcs
  <2>2. memory[s] = 0 /\ failures' \in {failures, failures + 1}
    BY <1>1, <1>4, Zenon DEF FoundMeanwhile, InMemory
  <2> QED
    BY <1>1, <1>4, <2>1, <2>2, Zenon DEF TurnMove, Moves, store
<1> QED
  BY <1>3, <1>4, Zenon DEF LockLoading

LEMMA ReadInfoMoves ==
  ASSUME TypeInv, LifeInv, NEW r \in Requests, ReadInfo(r)
  PROVE  Moves(r)
<1> DEFINE s == requests[r].scan
<1>1. /\ requests[r].pc = "reading"
      /\ UNCHANGED <<store, tasks, disk, strays, purge, acked, deletes, failures, restarts>>
      /\ failures' \in {failures, failures + 1}
  BY Zenon DEF ReadInfo
<1>2. CASE Answer(r)
  BY <1>1, <1>2, AnswerEffect, IdleType, Zenon DEF TurnMove, Moves
<1>3. CASE /\ disk[s].info # None
           /\ requests' = [requests EXCEPT ![r].pc = "reading report", ![r].value = disk[s].info]
  <2>1. disk[s].info \in Statuses
    BY <1>1, <1>3, ItsScan, Shapes DEF Files
  <2>2. /\ OnlyRequest(r) /\ RequestType(requests'[r]) /\ SameRequest(r)
        /\ requests'[r].pc = "reading report"
    BY <1>3, <2>1, ValueEffect DEF RequestPcs
  <2> QED
    BY <1>1, <2>2, Zenon DEF TurnMove, Moves
<1> QED
  BY <1>2, <1>3, Zenon DEF ReadInfo

LEMMA LoadedEffect ==
  ASSUME TypeInv, LifeInv, NEW r \in Requests, NEW status \in {Done, Failed}, NEW report \in Reports,
         r \in Loading, Loaded(r, status, report)
  PROVE  LET s == requests[r].scan IN
         /\ s \in Scans
         /\ objects' = Append(objects, NewObject(status, report))
         /\ Proceeded(r, s, Len(objects) + 1)
<1>1. requests[r].scan \in Scans
  BY ItsScan DEF Loading
<1>2. objects' = Append(objects, NewObject(status, report))
  BY Zenon DEF Loaded
<1>3. Len(objects') = Len(objects) + 1 /\ Len(objects) \in Nat
  BY <1>2, NewObjectEffect, Shapes DEF Statuses
<1>4. Len(objects) + 1 \in Nat /\ Len(objects) + 1 # 0
  BY <1>3
<1>5. Proceed(r, requests[r].kind, requests[r].scan, Len(objects) + 1)
  BY <1>3, Zenon DEF Loaded
<1> QED
  BY <1>1, <1>2, <1>4, <1>5, ProceedEffect, Zenon

LEMMA ReadReportMoves ==
  ASSUME TypeInv, LifeInv, NEW r \in Requests, ReadReport(r)
  PROVE  Moves(r)
<1> DEFINE s == requests[r].scan
           status == requests[r].value
<1>1. /\ requests[r].pc = "reading report" /\ r \in Loading
      /\ UNCHANGED <<own, disk, purge, acked, failures, restarts>>
  BY Zenon DEF ReadReport, Loading
<1>2. s \in Scans /\ disk[s].report \in Reports /\ status \in Statuses
  BY <1>1, ItsScan, Shapes DEF Files, TypeInv, RequestsType, RequestType
<1>3. CASE /\ requests' = [requests EXCEPT ![r].pc = "failing", ![r].value = disk[s].report]
           /\ UNCHANGED <<objects, memory, tasks, strays, deletes>>
  <2>1. /\ OnlyRequest(r) /\ RequestType(requests'[r]) /\ SameRequest(r)
        /\ requests'[r].pc = "failing" /\ requests'[r].value = disk[s].report
    BY <1>3, <1>2, ValueEffect DEF RequestPcs
  <2>2. failures' \in {failures, failures + 1}
    BY <1>1, Zenon
  <2> QED
    BY <1>1, <1>3, <2>1, <2>2, Zenon DEF TurnMove, Moves, store
<1>4. CASE status \notin Unfinished /\ Loaded(r, status, disk[s].report)
  <2>1. status \in {Done, Failed}
    BY <1>2, <1>4 DEF Statuses, Unfinished
  <2>2. /\ objects' = Append(objects, NewObject(status, disk[s].report))
        /\ Proceeded(r, s, Len(objects) + 1)
    BY <1>1, <1>2, <1>4, <2>1, LoadedEffect, Zenon
  <2>3. requests[r].pc # "failing"
    BY <1>1
  <2>4. DiskType'
    BY <1>1, Zenon DEF DiskType, TypeInv
  <2> QED
    BY <1>1, <1>2, <2>1, <2>2, <2>3, <2>4, Zenon DEF LoadedMove, Moves
<1> QED
  BY <1>3, <1>4, Zenon DEF ReadReport

\* A write keeps the disk's type.
LEMMA PutType ==
  ASSUME TypeInv, NEW s \in Scans, NEW file \in {"info", "report"}, NEW v,
         file = "info" => v \in Statuses, file = "report" => v \in Reports, Put(s, file, v)
  PROVE  DiskType'
<1>1. disk \in [Scans -> Files] /\ \A t \in Scans : ~ disk[t].exists => disk[t] = NoFiles
  BY Zenon DEF TypeInv, DiskType
<1>2. CASE file = "info"
  BY <1>1, <1>2, PutInfo DEF DiskType
<1>3. CASE file = "report"
  BY <1>1, <1>3, PutReport DEF DiskType
<1> QED
  BY <1>2, <1>3

LEMMA SaveInterruptedMoves ==
  ASSUME TypeInv, LifeInv, NEW r \in Requests, SaveInterrupted(r)
  PROVE  Moves(r)
<1> DEFINE s == requests[r].scan
<1>1. /\ requests[r].pc = "failing" /\ r \in Loading
      /\ UNCHANGED <<own, purge, acked, restarts>>
  BY Zenon DEF SaveInterrupted, Loading
<1>2. s \in Scans /\ requests[r].value \in Reports
  BY <1>1, ItsScan DEF TypeInv, RequestsType, RequestType
<1>3. CASE /\ Put(s, "info", Failed) /\ Loaded(r, Failed, requests[r].value)
           /\ UNCHANGED failures
  <2>1. /\ objects' = Append(objects, NewObject(Failed, requests[r].value))
        /\ Proceeded(r, s, Len(objects) + 1)
    BY <1>1, <1>2, <1>3, LoadedEffect, Zenon
  <2>2. Failed \in Statuses /\ disk \in [Scans -> Files] /\ Failed # None
    BY Shapes DEF Statuses, Failed
  <2>3. DiskType'
    BY <1>2, <1>3, <2>2, PutType
  <2>4. /\ \A t \in Scans : t # s => disk'[t] = disk[t]
        /\ disk'[s].exists = disk[s].exists /\ disk'[s].report = disk[s].report
        /\ disk'[s].info # None
    <3>1. /\ disk' \in [Scans -> Files] /\ \A t \in Scans : t # s => disk'[t] = disk[t]
          /\ disk[s].exists /\ disk'[s].exists
          /\ disk'[s].info = Failed /\ disk'[s].report = disk[s].report
      BY <1>2, <1>3, <2>2, PutInfo, Zenon
    <3>2. disk'[s].exists \in BOOLEAN /\ disk[s].exists \in BOOLEAN
      BY <1>2, <2>2, <3>1 DEF Files
    <3> QED
      BY <2>2, <3>1, <3>2
  <2> QED
    BY <1>1, <1>2, <1>3, <2>1, <2>3, <2>4, Zenon DEF LoadedMove, Moves
<1>4. CASE MayFail(s) /\ Answer(r) /\ UNCHANGED <<objects, memory, tasks, strays, disk, deletes>>
  <2>1. failures' \in {failures, failures + 1}
    BY <1>4, Zenon DEF MayFail
  <2> QED
    BY <1>1, <1>4, <2>1, AnswerEffect, IdleType, Zenon DEF TurnMove, Moves, store
<1> QED
  BY <1>3, <1>4, Zenon DEF SaveInterrupted

LEMMA DecideMoves ==
  ASSUME TypeInv, LifeInv, OwnershipInv, NEW r \in Requests, Decide(r)
  PROVE  Moves(r)
<1> DEFINE o == requests[r].object
<1>1. /\ requests[r].pc = "deciding" /\ Unlocked(o)
      /\ UNCHANGED <<store, tasks, disk, strays, purge, acked, deletes, failures, restarts>>
      /\ failures' \in {failures, failures + 1}
  BY Zenon DEF Decide
<1>2. CASE Answer(r)
  BY <1>1, <1>2, AnswerEffect, IdleType, Zenon DEF TurnMove, Moves
<1>3. CASE /\ objects[o].report # None
           /\ requests' = [requests EXCEPT ![r].pc = "saving",
                                           ![r].value = objects[o].report \cup {r}]
  <2>1. o # 0
    BY <1>1 DEF OwnershipInv, Deciding
  <2>2. objects[o].report \in Reports
    <3>1. objects \in Seq(Object) /\ o \in 1..Len(objects)
      BY <2>1, Shapes
    <3>2. objects[o] \in Object
      BY <3>1
    <3> QED
      BY <3>2 DEF Object
  <2>3. objects[o].report \cup {r} \in Reports
    BY <1>3, <2>2 DEF Reports
  <2>4. /\ OnlyRequest(r) /\ RequestType(requests'[r]) /\ SameRequest(r)
        /\ requests'[r].pc = "saving" /\ requests'[r].value = objects[o].report \cup {r}
    BY <1>3, <2>3, ValueEffect DEF RequestPcs
  <2> QED
    BY <1>1, <1>3, <2>4, Zenon DEF TurnMove, Moves
<1> QED
  BY <1>2, <1>3, Zenon DEF Decide

LEMMA SaveDecisionMoves ==
  ASSUME TypeInv, LifeInv, OwnershipInv, NEW r \in Requests, SaveDecision(r)
  PROVE  Moves(r)
<1> DEFINE s == requests[r].scan
           o == requests[r].object
           v == requests[r].value
<1>1. /\ requests[r].pc = "saving" /\ Answer(r)
      /\ UNCHANGED <<memory, own, tasks, strays, purge, deletes, restarts>>
  BY Zenon DEF SaveDecision
<1>2. s \in Scans /\ v \in Reports /\ o # 0
  BY <1>1, ItsScan DEF TypeInv, RequestsType, RequestType, OwnershipInv, Deciding
<1>3. OnlyRequest(r) /\ requests'[r] = Idle
  BY <1>1, AnswerEffect, Zenon
<1>4. CASE /\ Put(s, "report", v)
           /\ objects' = [objects EXCEPT ![o].report = v]
           /\ acked' = [acked EXCEPT ![s] = @ \cup {r}]
           /\ UNCHANGED failures
  <2>1. objects \in Seq(Object) /\ o \in 1..Len(objects)
    BY <1>2, Shapes
  <2>2. /\ objects' \in Seq(Object) /\ Len(objects') = Len(objects)
        /\ \A p \in 1..Len(objects) : objects'[p].status = objects[p].status
        /\ \A p \in 1..Len(objects) : p # o => objects'[p] = objects[p]
        /\ objects'[o].report = v
    <3> DEFINE new == [objects[o] EXCEPT !.report = v]
    <3>1. new \in Object /\ new.status = objects[o].status /\ new.report = v
      <4>1. objects[o] \in Object
        BY <2>1
      <4> QED
        BY <1>2, <4>1 DEF Object
    <3>2. objects' = [objects EXCEPT ![o] = new]
      BY <1>4
    <3> HIDE DEF new
    <3> QED
      BY <2>1, <3>1, <3>2
  <2>3. DiskType'
    BY <1>2, <1>4, PutType
  <2>4. /\ \A t \in Scans : t # s => disk'[t] = disk[t]
        /\ disk'[s].exists /\ disk'[s].info = disk[s].info /\ disk'[s].report = v
    BY <1>2, <1>4, PutReport, Shapes
  <2> QED
    BY <1>1, <1>2, <1>3, <1>4, <2>2, <2>3, <2>4, Zenon DEF SavedMove, Moves
<1>5. CASE MayFail(s) /\ UNCHANGED <<disk, objects, acked>>
  <2>1. failures' \in {failures, failures + 1}
    BY <1>5, Zenon DEF MayFail
  <2> QED
    BY <1>1, <1>3, <1>5, <2>1, IdleType, Zenon DEF TurnMove, Moves, store
<1> QED
  BY <1>4, <1>5, Zenon DEF SaveDecision

LEMMA EmptyRemoveMoves ==
  ASSUME TypeInv, LifeInv, NEW r \in Requests, Empty(r) \/ Remove(r)
  PROVE  Moves(r)
<1> DEFINE s == requests[r].scan
<1>1. /\ Removing(r) /\ requests[r].pc # "idle"
      /\ UNCHANGED <<store, tasks, strays, purge, acked, failures, restarts>>
  BY DEF Empty, Remove, Removing
<1>2. s \in Scans /\ disk \in [Scans -> Files] /\ deletes \in [Scans -> Deletes]
      /\ \A t \in Scans : ~ disk[t].exists => disk[t] = NoFiles
  BY <1>1, ItsScan, Shapes DEF TypeInv, DiskType
<1> DEFINE emptied == Emptied(disk[s])
           removed == Removed(disk[s])
<1>3. /\ emptied \in Files /\ removed \in Files
      /\ ~ emptied.exists => emptied = NoFiles
      /\ ~ removed.exists => removed = NoFiles
  <2>1. disk[s] \in Files /\ NoFiles \in Files
    BY <1>2 DEF NoFiles, Files, Reports
  <2>2. emptied \in Files /\ emptied.exists = disk[s].exists
    BY <2>1 DEF Emptied, Files, Reports
  <2>3. ~ emptied.exists => emptied = NoFiles
    <3>1. HAVE ~ emptied.exists
    <3>2. disk[s] = NoFiles
      BY <1>2, <2>2, <3>1
    <3> QED
      <4>1. /\ emptied.info = None /\ emptied.report = None
            /\ emptied.exists = NoFiles.exists
        BY <2>1, <3>2 DEF Emptied, Files
      <4>2. NoFiles.info = None /\ NoFiles.report = None
        BY DEF NoFiles
      <4> HIDE DEF emptied
      <4> QED
        BY <2>1, <2>2, <4>1, <4>2 DEF Files
  <2>4. removed \in {NoFiles, disk[s]}
    BY DEF Removed
  <2> QED
    BY <1>2, <2>1, <2>2, <2>3, <2>4, Zenon
<1> HIDE DEF emptied, removed
<1>4. CASE Empty(r)
  <2>1. disk' = [disk EXCEPT ![s] = emptied]
    BY <1>4, <1>2 DEF Empty, emptied
  <2>2. Request(r, "emptied") /\ deletes' = deletes
    BY <1>4, Zenon DEF Empty
  <2>3. OnlyRequest(r) /\ RequestType(requests'[r]) /\ requests'[r].pc = "emptied" /\ SameRequest(r)
    BY <2>2, RequestEffect DEF RequestPcs
  <2>4. DiskType' /\ \A t \in Scans : t # s => disk'[t] = disk[t]
    BY <1>2, <1>3, <2>1 DEF DiskType
  <2>5. /\ deletes' = [deletes EXCEPT ![s] = deletes'[s]]
        /\ deletes'[s] \in {deletes[s], "answered"}
    BY <1>2, <2>2
  <2> QED
    BY <1>1, <2>3, <2>4, <2>5, Zenon DEF RemovedMove, Moves
<1>5. CASE Remove(r)
  <2>1. disk' = [disk EXCEPT ![s] = removed]
    BY <1>5, <1>2 DEF Remove, removed
  <2>2. Answer(r) /\ deletes' = [deletes EXCEPT ![s] = "answered"]
    BY <1>5, Zenon DEF Remove
  <2>3. OnlyRequest(r) /\ requests'[r] = Idle /\ RequestType(requests'[r])
    BY <2>2, AnswerEffect, IdleType, Zenon
  <2>4. DiskType' /\ \A t \in Scans : t # s => disk'[t] = disk[t]
    BY <1>2, <1>3, <2>1 DEF DiskType
  <2>5. /\ deletes' = [deletes EXCEPT ![s] = deletes'[s]]
        /\ deletes'[s] \in {deletes[s], "answered"}
    BY <1>2, <2>2
  <2> QED
    BY <1>1, <2>3, <2>4, <2>5, Zenon DEF RemovedMove, Moves
<1> QED
  BY <1>4, <1>5

LEMMA RequestMoves ==
  ASSUME TypeInv, LifeInv, OwnershipInv, NEW r \in Requests,
         RequestStep(r) \/ \E s \in Scans, kind \in Kinds : Ask(r, kind, s)
  PROVE  Moves(r)
BY AskMoves, LockLoadingMoves, ReadInfoMoves, ReadReportMoves, SaveInterruptedMoves,
   DecideMoves, SaveDecisionMoves, EmptyRemoveMoves, Zenon DEF RequestStep

-----------------------------------------------------------------------------
(* What a step of an upload or of a run does.                              *)

\* The scan's task goes on, and may write.
TaskMove(s) ==
  /\ tasks' = [tasks EXCEPT ![s] = tasks'[s]]
  /\ UNCHANGED <<store, strays, requests, purge, acked, deletes, restarts>>
  /\ failures' \in {failures, failures + 1}
  /\ DiskType' /\ \A t \in Scans : t # s => disk'[t] = disk[t]
  /\ \/ tasks[s] = "none" /\ tasks'[s] = "creating"
     \/ tasks[s] = "creating" /\ tasks'[s] = "uploading"
     \/ tasks[s] \in {"uploading", "queueing"} /\ tasks'[s] = "rejected"
     \/ /\ tasks[s] = "queueing" /\ tasks'[s] = "waiting"
        /\ disk'[s].exists /\ disk'[s].info # None
     \/ /\ \/ tasks[s] = "starting" /\ tasks'[s] = "working"
           \/ tasks[s] = "working" /\ tasks'[s] = "saving"
           \/ tasks[s] \in {"finishing", "failing"} /\ tasks'[s] = "over"
        /\ disk'[s].exists = disk[s].exists /\ disk'[s].report = disk[s].report
        /\ disk[s].info # None => disk'[s].info # None

\* A run changes its object.
ObjectMove(s) ==
  /\ tasks' = [tasks EXCEPT ![s] = tasks'[s]]
  /\ own[s] \in 1..Len(objects)
  /\ objects' \in Seq(Object) /\ Len(objects') = Len(objects)
  /\ \A o \in 1..Len(objects) : o # own[s] => objects'[o] = objects[o]
  /\ UNCHANGED <<memory, own, strays, requests, purge, acked, deletes, restarts>>
  /\ failures' \in {failures, failures + 1}
  /\ DiskType' /\ \A t \in Scans : t # s => disk'[t] = disk[t]
  /\ disk'[s].exists = disk[s].exists /\ disk'[s].info = disk[s].info
  /\ \/ /\ tasks[s] = "waiting" /\ tasks'[s] = "starting"
        /\ Cardinality(Holders) < MaxConcurrent
        /\ objects'[own[s]].status = Running /\ objects'[own[s]].report = None
        /\ disk' = disk
     \/ /\ tasks[s] = "saving" /\ tasks'[s] = "finishing"
        /\ objects'[own[s]].status = Done /\ objects'[own[s]].report = {}
        /\ disk'[s].report = {}
     \/ /\ tasks[s] \in {"starting", "working", "saving", "finishing"} /\ tasks'[s] = "failing"
        /\ objects'[own[s]].status = Failed
        /\ objects'[own[s]].report = objects[own[s]].report
        /\ tasks[s] # "working" => failures' # 0 \/ ~ disk[s].exists
        /\ disk' = disk

LEMMA UploadMoves ==
  ASSUME TypeInv, NEW s \in Scans,
         NewWorkspace(s) \/ Create(s) \/ Reject(s) \/ Accept(s) \/ RefuseQueued(s)
  PROVE  TaskMove(s)
<1>1. /\ tasks \in [Scans -> Tasks] /\ disk \in [Scans -> Files] /\ DiskType
      /\ NoFiles \in Files /\ [NoFiles EXCEPT !.exists = TRUE] \in Files
      /\ [NoFiles EXCEPT !.exists = TRUE].exists
  BY Shapes DEF NoFiles, Files, Reports, TypeInv
<1>2. UNCHANGED <<store, strays, requests, purge, acked, deletes, restarts>>
  BY Zenon DEF NewWorkspace, Create, Reject, Accept, RefuseQueued
<1>3. CASE NewWorkspace(s)
  <2>1. tasks[s] = "none" /\ Step(s, "creating") /\ disk' = disk /\ failures' = failures
    BY <1>3, Zenon DEF NewWorkspace
  <2>2. tasks' = [tasks EXCEPT ![s] = tasks'[s]] /\ tasks'[s] = "creating"
    BY <1>1, <2>1 DEF Step
  <2>3. DiskType' /\ failures' \in {failures, failures + 1}
    BY <1>1, <2>1, Zenon DEF DiskType
  <2> QED
    BY <1>2, <2>1, <2>2, <2>3, Zenon DEF TaskMove
<1>4. CASE Create(s)
  <2>1. /\ tasks[s] = "creating" /\ Step(s, "uploading") /\ failures' = failures
        /\ disk' = [disk EXCEPT ![s] = [NoFiles EXCEPT !.exists = TRUE]]
    BY <1>4, Zenon DEF Create
  <2>2. tasks' = [tasks EXCEPT ![s] = tasks'[s]] /\ tasks'[s] = "uploading"
    BY <1>1, <2>1 DEF Step
  <2> DEFINE new == [NoFiles EXCEPT !.exists = TRUE]
  <2> HIDE DEF new
  <2>3. disk' = [disk EXCEPT ![s] = new] /\ new \in Files /\ new.exists
    BY <1>1, <2>1, Zenon DEF new
  <2>4. DiskType' /\ \A t \in Scans : t # s => disk'[t] = disk[t]
    BY <1>1, <2>3 DEF DiskType
  <2>5. failures' \in {failures, failures + 1}
    BY <2>1, Zenon
  <2> QED
    BY <1>2, <2>1, <2>2, <2>4, <2>5, Zenon DEF TaskMove
<1>5. CASE Reject(s)
  <2>1. /\ tasks[s] = "uploading" /\ Step(s, "rejected") /\ failures' = failures
        /\ disk' = [disk EXCEPT ![s] = NoFiles]
    BY <1>5, Zenon DEF Reject
  <2>2. tasks' = [tasks EXCEPT ![s] = tasks'[s]] /\ tasks'[s] = "rejected"
    BY <1>1, <2>1 DEF Step
  <2>3. DiskType' /\ \A t \in Scans : t # s => disk'[t] = disk[t]
    BY <1>1, <2>1 DEF DiskType
  <2>4. failures' \in {failures, failures + 1} /\ tasks[s] \in {"uploading", "queueing"}
    BY <2>1, Zenon
  <2> QED
    BY <1>2, <2>2, <2>3, <2>4, Zenon DEF TaskMove
<1>6. CASE Accept(s)
  <2>1. /\ tasks[s] = "queueing" /\ Step(s, "waiting") /\ failures' = failures
        /\ Put(s, "info", Queued) /\ Queued \in Statuses /\ Queued # None
    BY <1>6 DEF Accept, Statuses, Queued
  <2>2. tasks' = [tasks EXCEPT ![s] = tasks'[s]] /\ tasks'[s] = "waiting"
    BY <1>1, <2>1 DEF Step
  <2>3. DiskType'
    BY <2>1, PutType
  <2>4. /\ \A t \in Scans : t # s => disk'[t] = disk[t]
        /\ disk'[s].exists /\ disk'[s].info # None
    <3>1. /\ \A t \in Scans : t # s => disk'[t] = disk[t]
          /\ disk'[s].exists /\ disk'[s].info = Queued
      BY <1>1, <2>1, PutInfo, Zenon
    <3> QED
      BY <2>1, <3>1, Zenon
  <2>5. failures' \in {failures, failures + 1}
    BY <2>1, Zenon
  <2> QED
    BY <1>2, <2>1, <2>2, <2>3, <2>4, <2>5, Zenon DEF TaskMove
<1>7. CASE RefuseQueued(s)
  <2>1. /\ tasks[s] \in {"uploading", "queueing"} /\ Step(s, "rejected") /\ disk' = disk
        /\ failures' \in {failures, failures + 1}
    BY <1>7, Zenon DEF RefuseQueued, MayFail
  <2>2. tasks' = [tasks EXCEPT ![s] = tasks'[s]] /\ tasks'[s] = "rejected"
    BY <1>1, <2>1 DEF Step
  <2>3. DiskType'
    BY <1>1, <2>1, Zenon DEF DiskType
  <2> QED
    BY <1>2, <2>1, <2>2, <2>3, Zenon DEF TaskMove
<1> QED
  BY <1>3, <1>4, <1>5, <1>6, <1>7, Zenon

\* A write of a status changes nothing else on disk.
LEMMA PutStatus ==
  ASSUME TypeInv, NEW s \in Scans, NEW v \in Statuses, Put(s, "info", v)
  PROVE  /\ DiskType' /\ \A t \in Scans : t # s => disk'[t] = disk[t]
         /\ disk'[s].exists = disk[s].exists /\ disk'[s].report = disk[s].report
         /\ disk'[s].info # None
<1>1. disk \in [Scans -> Files] /\ v # None
  BY Shapes DEF Statuses, Queued, Running, Done, Failed
<1>2. /\ disk' \in [Scans -> Files] /\ \A t \in Scans : t # s => disk'[t] = disk[t]
      /\ disk[s].exists /\ disk'[s].exists
      /\ disk'[s].info = v /\ disk'[s].report = disk[s].report
  BY <1>1, PutInfo, Zenon
<1>3. disk'[s].exists \in BOOLEAN /\ disk[s].exists \in BOOLEAN
  BY <1>1, <1>2 DEF Files
<1>4. DiskType'
  BY PutType
<1> QED
  BY <1>1, <1>2, <1>3, <1>4

LEMMA RunTaskMoves ==
  ASSUME TypeInv, NEW s \in Scans, Started(s) \/ Finish(s) \/ SaveDone(s) \/ SaveFailed(s)
  PROVE  TaskMove(s)
<1>1. tasks \in [Scans -> Tasks] /\ DiskType /\ {Running, Done, Failed} \subseteq Statuses
  BY Shapes DEF TypeInv, Statuses
<1>2. UNCHANGED <<store, strays, requests, purge, acked, deletes, restarts>>
  BY Zenon DEF Started, Finish, SaveDone, SaveFailed
<1>3. \/ tasks[s] = "starting" /\ Step(s, "working")
      \/ tasks[s] = "working" /\ Step(s, "saving")
      \/ tasks[s] \in {"finishing", "failing"} /\ Step(s, "over")
  BY Zenon DEF Started, Finish, SaveDone, SaveFailed
<1>4. /\ tasks' = [tasks EXCEPT ![s] = tasks'[s]]
      /\ \/ tasks[s] = "starting" /\ tasks'[s] = "working"
         \/ tasks[s] = "working" /\ tasks'[s] = "saving"
         \/ tasks[s] \in {"finishing", "failing"} /\ tasks'[s] = "over"
  BY <1>1, <1>3 DEF Step
<1>5. failures' \in {failures, failures + 1}
  BY Zenon DEF Started, Finish, SaveDone, SaveFailed, MayFail
<1>6. /\ DiskType' /\ \A t \in Scans : t # s => disk'[t] = disk[t]
      /\ disk'[s].exists = disk[s].exists /\ disk'[s].report = disk[s].report
      /\ disk[s].info # None => disk'[s].info # None
  <2>1. CASE disk' = disk
    BY <1>1, <2>1, Zenon DEF DiskType
  <2>2. CASE \E v \in Statuses : Put(s, "info", v)
    BY <2>2, PutStatus, Zenon
  <2>3. disk' = disk \/ \E v \in {Running, Done, Failed} : Put(s, "info", v)
    BY Zenon DEF Started, Finish, SaveDone, SaveFailed
  <2> QED
    BY <1>1, <2>1, <2>2, <2>3, Zenon
<1> QED
  BY <1>2, <1>4, <1>5, <1>6, Zenon DEF TaskMove

LEMMA ObjectMoves ==
  ASSUME TypeInv, NEW s \in Scans, Start(s) \/ SaveReport(s) \/ Fail(s)
  PROVE  ObjectMove(s)
<1>1. /\ tasks \in [Scans -> Tasks] /\ DiskType /\ disk \in [Scans -> Files]
      /\ {Running, Done, Failed} \subseteq Statuses
      /\ None \in Reports /\ {} \in Reports
  BY Shapes DEF TypeInv, Statuses, Reports
<1>2. UNCHANGED <<memory, own, strays, requests, purge, acked, deletes, restarts>>
  BY Zenon DEF Start, SaveReport, Fail
<1>3. own[s] # 0 /\ own[s] \in 1..Len(objects)
  <2>1. tasks[s] \in Active
    BY DEF Start, SaveReport, Fail, Active
  <2>2. own[s] # 0
    BY <2>1 DEF TypeInv, StoreType
  <2> QED
    BY <2>2, Shapes
<1>4. objects[own[s]].report \in Reports
  <2>1. objects \in Seq(Object)
    BY Shapes
  <2>2. objects[own[s]] \in Object
    BY <1>3, <2>1
  <2> QED
    BY <2>2 DEF Object
<1>5. CASE Start(s)
  <2>1. /\ tasks[s] = "waiting" /\ Step(s, "starting") /\ Cardinality(Holders) < MaxConcurrent
        /\ SetObject(s, Running, None) /\ disk' = disk /\ failures' = failures
    BY <1>5, Zenon DEF Start
  <2>2. tasks' = [tasks EXCEPT ![s] = tasks'[s]] /\ tasks'[s] = "starting"
    BY <1>1, <2>1 DEF Step
  <2>3. /\ objects' \in Seq(Object) /\ Len(objects') = Len(objects)
        /\ \A o \in 1..Len(objects) : o # own[s] => objects'[o] = objects[o]
        /\ objects'[own[s]].status = Running /\ objects'[own[s]].report = None
    BY <1>1, <1>3, <2>1, SetObjectEffect
  <2>4. DiskType' /\ failures' \in {failures, failures + 1}
    BY <1>1, <2>1, Zenon DEF DiskType
  <2> QED
    BY <1>2, <1>3, <2>1, <2>2, <2>3, <2>4, Zenon DEF ObjectMove
<1>6. CASE SaveReport(s)
  <2>1. /\ tasks[s] = "saving" /\ Step(s, "finishing")
        /\ SetObject(s, Done, {}) /\ Put(s, "report", {}) /\ failures' = failures
    BY <1>6, Zenon DEF SaveReport
  <2>2. tasks' = [tasks EXCEPT ![s] = tasks'[s]] /\ tasks'[s] = "finishing"
    BY <1>1, <2>1 DEF Step
  <2>3. /\ objects' \in Seq(Object) /\ Len(objects') = Len(objects)
        /\ \A o \in 1..Len(objects) : o # own[s] => objects'[o] = objects[o]
        /\ objects'[own[s]].status = Done /\ objects'[own[s]].report = {}
    BY <1>1, <1>3, <2>1, SetObjectEffect
  <2>4. /\ disk' \in [Scans -> Files] /\ \A t \in Scans : t # s => disk'[t] = disk[t]
        /\ disk[s].exists /\ disk'[s].exists
        /\ disk'[s].info = disk[s].info /\ disk'[s].report = {}
    BY <1>1, <2>1, PutReport, Zenon
  <2>5. disk'[s].exists \in BOOLEAN /\ disk[s].exists \in BOOLEAN
    BY <1>1, <2>4 DEF Files
  <2>6. disk'[s].exists = disk[s].exists
    BY <2>4, <2>5
  <2>7. DiskType'
    BY <1>1, <2>1, PutType
  <2>8. failures' \in {failures, failures + 1}
    BY <2>1, Zenon
  <2> QED
    BY <1>2, <1>3, <2>1, <2>2, <2>3, <2>4, <2>6, <2>7, <2>8, Zenon DEF ObjectMove
<1>7. CASE Fail(s)
  <2>1. /\ tasks[s] \in {"starting", "working", "saving", "finishing"} /\ Step(s, "failing")
        /\ SetObject(s, Failed, objects[own[s]].report) /\ disk' = disk
        /\ failures' \in {failures, failures + 1}
    BY <1>7, Zenon DEF Fail, MayFail
  <2>2. tasks' = [tasks EXCEPT ![s] = tasks'[s]] /\ tasks'[s] = "failing"
    BY <1>1, <2>1 DEF Step
  <2>3. /\ objects' \in Seq(Object) /\ Len(objects') = Len(objects)
        /\ \A o \in 1..Len(objects) : o # own[s] => objects'[o] = objects[o]
        /\ objects'[own[s]].status = Failed
        /\ objects'[own[s]].report = objects[own[s]].report
    BY <1>1, <1>3, <1>4, <2>1, SetObjectEffect
  <2>4. tasks[s] # "working" => failures' # 0 \/ ~ disk[s].exists
    <3>1. failures \in Nat
      BY Zenon DEF TypeInv, RestType
    <3>2. tasks[s] = "working" \/ ~ disk[s].exists \/ failures' = failures + 1
      BY <1>7, Zenon DEF Fail, MayFail
    <3> QED
      BY <3>1, <3>2
  <2>5. DiskType'
    BY <1>1, <2>1, Zenon DEF DiskType
  <2> QED
    BY <1>2, <1>3, <2>1, <2>2, <2>3, <2>4, <2>5, Zenon DEF ObjectMove
<1> QED
  BY <1>5, <1>6, <1>7, Zenon

\* Every step is one of these.
ScanMove(s) == TaskMove(s) \/ Submit(s) \/ ObjectMove(s) \/ Forget(s)

LEMMA StepMoves ==
  ASSUME TypeInv, LifeInv, OwnershipInv, [Next]_vars
  PROVE  \/ \E s \in Scans : ScanMove(s)
         \/ \E r \in Requests : Moves(r)
         \/ \E w \in strays : Land(w)
         \/ Purge \/ Restart \/ UNCHANGED vars
<1>1. ASSUME NEW s \in Scans,
             \/ NewWorkspace(s) \/ Create(s) \/ Reject(s) \/ Submit(s)
             \/ Accept(s) \/ RefuseQueued(s) \/ RunStep(s) \/ Forget(s)
      PROVE  ScanMove(s)
  BY <1>1, UploadMoves, RunTaskMoves, ObjectMoves, Zenon DEF RunStep, ScanMove
<1>2. ASSUME NEW r \in Requests,
             \/ \E s \in Scans, kind \in Kinds : Ask(r, kind, s)
             \/ RequestStep(r)
      PROVE  Moves(r)
  BY <1>2, RequestMoves, Zenon
<1> QED
  BY <1>1, <1>2, Zenon DEF Next, Kinds

-----------------------------------------------------------------------------
(* Types.                                                                  *)

LEMMA RequestsStay ==
  ASSUME TypeInv, NEW r \in Requests, OnlyRequest(r), RequestType(requests'[r]),
         Len(objects') \in Nat, Len(objects) <= Len(objects'),
         requests'[r].object <= Len(objects')
  PROVE  RequestsType'
<1>1. /\ Len(objects) \in Nat
      /\ \A q \in Requests : RequestType(requests[q]) /\ requests[q].object <= Len(objects)
                             /\ requests[q].object \in Nat
  BY Shapes, Zenon DEF TypeInv, RequestsType
<1>2. ASSUME NEW q \in Requests
      PROVE  RequestType(requests'[q]) /\ requests'[q].object <= Len(objects')
  <2>1. CASE q = r
    BY <2>1
  <2>2. CASE q # r
    <3>1. requests'[q] = requests[q]
      BY <2>2, Zenon DEF OnlyRequest
    <3>2. requests[q].object <= Len(objects')
      BY <1>1
    <3> QED
      BY <1>1, <3>1, <3>2, Zenon
  <2> QED
    BY <2>1, <2>2
<1> QED
  BY <1>2, Zenon DEF RequestsType, OnlyRequest

LEMMA ProceededTypes ==
  ASSUME TypeInv, NEW r \in Requests, NEW s \in Scans, NEW o \in 1..Len(objects'),
         Proceeded(r, s, o), objects' \in Seq(Object), Len(objects) <= Len(objects'),
         own' = own
  PROVE  /\ StoreType' /\ StraysType' /\ RequestsType'
         /\ deletes' \in [Scans -> Deletes]
<1>1. /\ Len(objects') \in Nat /\ Len(objects) \in Nat
      /\ memory \in [Scans -> Nat] /\ own \in [Scans -> Nat]
      /\ \A t \in Scans : memory[t] <= Len(objects) /\ own[t] <= Len(objects)
      /\ tasks \in [Scans -> Tasks] /\ deletes \in [Scans -> Deletes]
      /\ \A t \in Scans : tasks[t] \in Active \cup {"queueing"} => own[t] # 0
      /\ \A w \in strays : WriteType(w)
  BY Shapes DEF TypeInv, StoreType, StraysType
<1>2. /\ OnlyRequest(r) /\ RequestType(requests'[r])
      /\ memory' = [memory EXCEPT ![s] = memory'[s]]
      /\ tasks' \in [Scans -> Tasks] /\ \A t \in Scans : t # s => tasks'[t] = tasks[t]
      /\ deletes' = [deletes EXCEPT ![s] = deletes'[s]]
      /\ deletes'[s] \in Deletes
      /\ \A w \in strays' : w \in strays \/ (WriteType(w) /\ w.scan = s)
      /\ memory'[s] \in {o, 0} /\ tasks'[s] \in {tasks[s], "over"}
  BY Zenon DEF Proceeded, TasksType
<1>3. requests'[r].object \in {0, o}
  BY IdleType DEF Proceeded
<1>4. StoreType'
  <2>1. memory' \in [Scans -> 0..Len(objects')] /\ own' \in [Scans -> 0..Len(objects')]
    BY <1>1, <1>2
  <2>2. \A t \in Scans : tasks'[t] \in Active \cup {"queueing"} => own'[t] # 0
    BY <1>1, <1>2 DEF Active
  <2> QED
    BY <1>2, <2>1, <2>2 DEF StoreType
<1>5. StraysType'
  BY <1>1, <1>2, Zenon DEF StraysType
<1>6. RequestsType'
  <2>1. requests'[r].object <= Len(objects')
    BY <1>1, <1>3
  <2> QED
    BY <1>1, <1>2, <2>1, RequestsStay, Zenon
<1>7. deletes' \in [Scans -> Deletes]
  BY <1>1, <1>2
<1> QED
  BY <1>4, <1>5, <1>6, <1>7, Zenon

LEMMA TypeStep ==
  ASSUME TypeInv, LifeInv, OwnershipInv, [Next]_vars
  PROVE  TypeInv'
<1>1. /\ StoreType /\ DiskType /\ StraysType /\ RequestsType /\ RestType
      /\ objects \in Seq(Object) /\ Len(objects) \in Nat
      /\ memory \in [Scans -> Nat] /\ own \in [Scans -> Nat]
      /\ \A t \in Scans : memory[t] <= Len(objects) /\ own[t] <= Len(objects)
      /\ \A q \in Requests : requests[q].object <= Len(objects) /\ requests[q].object \in Nat
      /\ tasks \in [Scans -> Tasks] /\ deletes \in [Scans -> Deletes]
      /\ \A t \in Scans : tasks[t] \in Active \cup {"queueing"} => own[t] # 0
      /\ failures \in Nat /\ restarts \in Nat
  BY Shapes, Zenon DEF TypeInv, StoreType, RestType
<1>2. ASSUME NEW s \in Scans, TaskMove(s)
      PROVE  TypeInv'
  <2>1. /\ UNCHANGED <<objects, memory, own, strays, requests, purge, acked, deletes, restarts>>
        /\ DiskType' /\ failures' \in {failures, failures + 1}
        /\ tasks' = [tasks EXCEPT ![s] = tasks'[s]]
    BY <1>2, Zenon DEF TaskMove, store
  <2>2. tasks'[s] \in Tasks /\ (tasks'[s] \in Active => tasks[s] \in Active \cup {"queueing"})
        /\ tasks'[s] # "queueing"
    BY <1>2 DEF TaskMove, Tasks, Active, Uploading
  <2>3. StoreType'
    <3>1. tasks' \in [Scans -> Tasks]
      BY <1>1, <2>1, <2>2
    <3>2. \A t \in Scans : tasks'[t] \in Active \cup {"queueing"} => own[t] # 0
      BY <1>1, <2>1, <2>2
    <3> QED
      BY <1>1, <2>1, <3>1, <3>2, Zenon DEF StoreType
  <2>4. failures' \in Nat
    BY <1>1, <2>1
  <2> QED
    BY <1>1, <2>1, <2>3, <2>4, Zenon DEF TypeInv, StraysType, RequestsType, RestType
<1>3. ASSUME NEW s \in Scans, Submit(s)
      PROVE  TypeInv'
  <2>1. /\ UNCHANGED <<disk, strays, requests, purge, acked, deletes, failures, restarts>>
        /\ objects' = Append(objects, NewObject(Queued, None))
        /\ memory' = [memory EXCEPT ![s] = Len(objects')]
        /\ own' = [own EXCEPT ![s] = Len(objects')]
        /\ tasks' = [tasks EXCEPT ![s] = "queueing"]
    BY <1>3, Zenon DEF Submit, Step
  <2>2. Queued \in Statuses /\ None \in Reports
    BY DEF Statuses, Reports
  <2>3. objects' \in Seq(Object) /\ Len(objects') = Len(objects) + 1
    BY <2>1, <2>2, NewObjectEffect
  <2>4. StoreType'
    <3>1. memory' \in [Scans -> 0..Len(objects')] /\ own' \in [Scans -> 0..Len(objects')]
      BY <1>1, <2>1, <2>3
    <3>2. tasks' \in [Scans -> Tasks]
      BY <1>1, <2>1 DEF Tasks, Uploading
    <3>3. \A t \in Scans : tasks'[t] \in Active \cup {"queueing"} => own'[t] # 0
      BY <1>1, <2>1, <2>3
    <3> QED
      BY <2>3, <3>1, <3>2, <3>3, Zenon DEF StoreType
  <2>5. RequestsType'
    <3>1. \A q \in Requests : requests[q].object <= Len(objects')
      BY <1>1, <2>3
    <3> QED
      BY <1>1, <2>1, <3>1, Zenon DEF RequestsType
  <2> QED
    BY <1>1, <2>1, <2>4, <2>5, Zenon DEF TypeInv, DiskType, StraysType, RestType
<1>4. ASSUME NEW s \in Scans, ObjectMove(s)
      PROVE  TypeInv'
  <2>1. /\ UNCHANGED <<memory, own, strays, requests, purge, acked, deletes, restarts>>
        /\ DiskType' /\ failures' \in {failures, failures + 1}
        /\ tasks' = [tasks EXCEPT ![s] = tasks'[s]] /\ own[s] \in 1..Len(objects)
        /\ objects' \in Seq(Object) /\ Len(objects') = Len(objects)
    BY <1>4, Zenon DEF ObjectMove
  <2>2. tasks'[s] \in Tasks
    BY <1>4 DEF ObjectMove, Tasks, Active
  <2>3. StoreType'
    <3>1. tasks' \in [Scans -> Tasks]
      BY <1>1, <2>1, <2>2
    <3>2. \A t \in Scans : tasks'[t] \in Active \cup {"queueing"} => own[t] # 0
      <4>1. own[s] # 0 /\ \A t \in Scans : t # s => tasks'[t] = tasks[t]
        BY <1>1, <2>1
      <4> QED
        BY <1>1, <4>1, Zenon
    <3> QED
      BY <1>1, <2>1, <3>1, <3>2, Zenon DEF StoreType
  <2>4. failures' \in Nat
    BY <1>1, <2>1
  <2> QED
    BY <1>1, <2>1, <2>3, <2>4, Zenon DEF TypeInv, StraysType, RequestsType, RestType
<1>5. ASSUME NEW s \in Scans, Forget(s)
      PROVE  TypeInv'
  <2>1. /\ UNCHANGED <<objects, own, disk, requests, acked, deletes, failures, restarts>>
        /\ memory' = [memory EXCEPT ![s] = 0] /\ purge' = purge \ {s}
        /\ Stop(s, memory[s]) \/ UNCHANGED <<tasks, strays>>
    BY <1>5, Zenon DEF Forget
  <2>2. /\ tasks' \in [Scans -> Tasks] /\ \A t \in Scans : tasks'[t] \in {tasks[t], "over"}
        /\ \A w \in strays' : WriteType(w)
    <3>1. CASE Stop(s, memory[s])
      <4>1. memory[s] \in Nat
        BY <1>1
      <4>2. /\ tasks' \in [Scans -> Tasks] /\ \A t \in Scans : t # s => tasks'[t] = tasks[t]
            /\ tasks'[s] \in {tasks[s], "over"}
            /\ \A w \in strays' : w \in strays \/ (WriteType(w) /\ w.scan = s)
        BY <3>1, <4>1, StopEffect, Zenon DEF TasksType
      <4> QED
        BY <1>1, <4>2, Zenon DEF StraysType
    <3>2. CASE UNCHANGED <<tasks, strays>>
      BY <1>1, <3>2, Zenon DEF StraysType
    <3> QED
      BY <2>1, <3>1, <3>2
  <2>3. StoreType'
    <3>1. memory' \in [Scans -> 0..Len(objects)]
      BY <1>1, <2>1
    <3>2. \A t \in Scans : tasks'[t] \in Active \cup {"queueing"} => own[t] # 0
      BY <1>1, <2>2 DEF Active
    <3> QED
      BY <1>1, <2>1, <2>2, <3>1, <3>2, Zenon DEF StoreType
  <2>4. purge' \subseteq Scans
    BY <1>1, <2>1, Zenon DEF RestType
  <2> QED
    BY <1>1, <2>1, <2>2, <2>3, <2>4, Zenon DEF TypeInv, DiskType, StraysType, RequestsType, RestType
<1>6. ASSUME NEW r \in Requests, NEW s \in Scans, FoundMove(r, s)
      PROVE  TypeInv'
  <2>1. /\ UNCHANGED <<objects, own, disk, purge, acked, failures, restarts>>
        /\ Proceeded(r, s, memory[s]) /\ memory[s] # 0
    BY <1>6, Zenon DEF FoundMove
  <2>2. memory[s] \in 1..Len(objects') /\ Len(objects) <= Len(objects')
        /\ objects' \in Seq(Object)
    BY <1>1, <2>1
  <2>3. StoreType' /\ StraysType' /\ RequestsType' /\ deletes' \in [Scans -> Deletes]
    BY <2>1, <2>2, ProceededTypes, Zenon
  <2> QED
    BY <1>1, <2>1, <2>3, Zenon DEF TypeInv, DiskType, RestType
<1>7. ASSUME NEW r \in Requests, NEW s \in Scans, LoadedMove(r, s)
      PROVE  TypeInv'
  <2>1. /\ UNCHANGED <<own, purge, acked, failures, restarts>>
        /\ Proceeded(r, s, Len(objects) + 1) /\ DiskType'
    BY <1>7, Zenon DEF LoadedMove
  <2>2. PICK status \in {Done, Failed}, report \in Reports :
          objects' = Append(objects, NewObject(status, report))
    BY <1>7, Zenon DEF LoadedMove
  <2>3. objects' \in Seq(Object) /\ Len(objects') = Len(objects) + 1
    BY <2>2, NewObjectEffect DEF Statuses
  <2>4. Len(objects) + 1 \in 1..Len(objects') /\ Len(objects) <= Len(objects')
    BY <1>1, <2>3
  <2>5. StoreType' /\ StraysType' /\ RequestsType' /\ deletes' \in [Scans -> Deletes]
    BY <2>1, <2>3, <2>4, ProceededTypes, Zenon
  <2> QED
    BY <1>1, <2>1, <2>5, Zenon DEF TypeInv, RestType
<1>8. ASSUME NEW r \in Requests, TurnMove(r)
      PROVE  TypeInv'
  <2>1. /\ UNCHANGED <<objects, memory, own, tasks, disk, strays, purge, acked, deletes, restarts>>
        /\ OnlyRequest(r) /\ RequestType(requests'[r])
        /\ failures' \in {failures, failures + 1}
    BY <1>8, Zenon DEF TurnMove, store
  <2>2. requests'[r].object \in {0, requests[r].object}
    BY <1>8, IdleType DEF TurnMove, SameRequest
  <2>3. RequestsType'
    <3>1. requests'[r].object <= Len(objects')
      BY <1>1, <2>1, <2>2
    <3>2. Len(objects') \in Nat /\ Len(objects) <= Len(objects')
      BY <1>1, <2>1
    <3> QED
      BY <2>1, <3>1, <3>2, RequestsStay, Zenon
  <2>4. failures' \in Nat
    BY <1>1, <2>1
  <2> QED
    BY <1>1, <2>1, <2>3, <2>4, Zenon DEF TypeInv, StoreType, DiskType, StraysType, RestType
<1>9. ASSUME NEW r \in Requests, SavedMove(r)
      PROVE  TypeInv'
  <2>1. /\ UNCHANGED <<memory, own, tasks, strays, purge, deletes, failures, restarts>>
        /\ OnlyRequest(r) /\ requests'[r] = Idle /\ DiskType'
        /\ objects' \in Seq(Object) /\ Len(objects') = Len(objects)
        /\ acked' = [acked EXCEPT ![requests[r].scan] = @ \cup {r}]
    BY <1>9, Zenon DEF SavedMove
  <2>2. StoreType'
    BY <1>1, <2>1, Zenon DEF StoreType
  <2>3. RequestsType'
    <3>1. /\ RequestType(requests'[r]) /\ requests'[r].object <= Len(objects')
          /\ Len(objects') \in Nat /\ Len(objects) <= Len(objects')
      BY <1>1, <2>1, IdleType
    <3> QED
      BY <2>1, <3>1, RequestsStay, Zenon
  <2>4. acked' \in [Scans -> SUBSET Requests]
    BY <1>1, <2>1 DEF RestType
  <2> QED
    BY <1>1, <2>1, <2>2, <2>3, <2>4, Zenon DEF TypeInv, StraysType, RestType
<1>10. ASSUME NEW r \in Requests, RemovedMove(r)
       PROVE  TypeInv'
  <2>1. /\ UNCHANGED <<objects, memory, own, tasks, strays, purge, acked, failures, restarts>>
        /\ OnlyRequest(r) /\ RequestType(requests'[r]) /\ DiskType'
        /\ deletes' = [deletes EXCEPT ![requests[r].scan] = deletes'[requests[r].scan]]
        /\ deletes'[requests[r].scan] \in {deletes[requests[r].scan], "answered"}
    BY <1>10, Zenon DEF RemovedMove, store
  <2>2. requests'[r].object \in {0, requests[r].object}
    BY <1>10, IdleType DEF RemovedMove, SameRequest
  <2>3. RequestsType'
    <3>1. requests'[r].object <= Len(objects')
      BY <1>1, <2>1, <2>2
    <3>2. Len(objects') \in Nat /\ Len(objects) <= Len(objects')
      BY <1>1, <2>1
    <3> QED
      BY <2>1, <3>1, <3>2, RequestsStay, Zenon
  <2>4. deletes' \in [Scans -> Deletes]
    BY <1>1, <2>1 DEF Deletes
  <2> QED
    BY <1>1, <2>1, <2>3, <2>4, Zenon DEF TypeInv, StoreType, StraysType, RestType
<1>11. ASSUME NEW w \in strays, Land(w)
       PROVE  TypeInv'
  <2>1. /\ UNCHANGED <<objects, memory, own, tasks, requests, purge, acked, deletes, failures, restarts>>
        /\ strays' = strays \ {w} /\ (Put(w.scan, w.file, w.value) \/ disk' = disk)
    BY <1>11, Zenon DEF Land, store
  <2>2. WriteType(w)
    BY <1>1, Zenon DEF StraysType
  <2>3. DiskType'
    <3>1. CASE Put(w.scan, w.file, w.value)
      <4>1. /\ w.scan \in Scans /\ w.file \in {"info", "report"}
            /\ w.file = "info" => w.value \in Statuses
            /\ w.file = "report" => w.value \in Reports
        BY <2>2 DEF WriteType
      <4> QED
        BY <3>1, <4>1, PutType, Zenon
    <3>2. CASE disk' = disk
      BY <1>1, <3>2, Zenon DEF DiskType
    <3> QED
      BY <2>1, <3>1, <3>2
  <2>4. StraysType'
    BY <1>1, <2>1, Zenon DEF StraysType
  <2> QED
    BY <1>1, <2>1, <2>3, <2>4, Zenon DEF TypeInv, StoreType, RequestsType, RestType
<1>12. CASE Purge
  <2>1. UNCHANGED <<objects, memory, own, tasks, strays, requests, acked, failures, restarts>>
    BY <1>12, Zenon DEF Purge, store
  <2>2. PICK old \in SUBSET {s \in Scans : Accepted(s) /\ disk[s].exists} \ {{}} :
          /\ purge' = old
          /\ disk' = [s \in Scans |-> IF s \in old THEN NoFiles ELSE disk[s]]
          /\ deletes' = [s \in Scans |-> IF s \in old /\ deletes[s] = "no"
                                         THEN "begun" ELSE deletes[s]]
    BY <1>12, Zenon DEF Purge
  <2>3. DiskType'
    <3>1. NoFiles \in Files
      BY DEF NoFiles, Files, Reports
    <3> QED
      BY <1>1, <2>2, <3>1 DEF DiskType
  <2>4. deletes' \in [Scans -> Deletes] /\ purge' \subseteq Scans
    BY <1>1, <2>2 DEF Deletes
  <2> QED
    BY <1>1, <2>1, <2>3, <2>4, Zenon DEF TypeInv, StoreType, StraysType, RequestsType, RestType
<1>13. CASE Restart
  <2>1. /\ UNCHANGED <<disk, acked, deletes, failures>> /\ restarts' = restarts + 1
        /\ objects' = <<>> /\ strays' = {} /\ purge' = {}
        /\ memory' = [s \in Scans |-> 0] /\ own' = [s \in Scans |-> 0]
        /\ tasks' = [s \in Scans |-> IF tasks[s] = "none" THEN "none"
                                     ELSE IF Accepted(s) THEN "over" ELSE "rejected"]
        /\ requests' = [r \in Requests |-> Idle]
    BY <1>13, Zenon DEF Restart
  <2>2. objects' \in Seq(Object) /\ Len(objects') = 0
    BY <2>1
  <2>3. StoreType'
    <3>1. memory' \in [Scans -> 0..Len(objects')] /\ own' \in [Scans -> 0..Len(objects')]
      BY <2>1, <2>2
    <3>2. tasks' \in [Scans -> Tasks]
      BY <2>1 DEF Tasks, Uploading
    <3>3. \A t \in Scans : tasks'[t] \notin Active \cup {"queueing"}
      BY <2>1 DEF Active
    <3> QED
      BY <2>2, <3>1, <3>2, <3>3, Zenon DEF StoreType
  <2>4. RequestsType'
    <3>1. \A q \in Requests : requests'[q] = Idle
      BY <2>1
    <3>2. requests' = [q \in Requests |-> requests'[q]]
      BY <2>1, <3>1
    <3>3. Idle.object <= Len(objects')
      BY <2>2, IdleType
    <3> QED
      BY <3>1, <3>2, <3>3, IdleType, Zenon DEF RequestsType
  <2>5. restarts' \in Nat
    BY <1>1, <2>1
  <2>6. StraysType' /\ purge' \subseteq Scans
    BY <2>1 DEF StraysType
  <2> QED
    BY <1>1, <2>1, <2>3, <2>4, <2>5, <2>6, Zenon DEF TypeInv, DiskType, RestType
<1>14. CASE UNCHANGED vars
  BY <1>1, <1>14, Zenon DEF vars, TypeInv, StoreType, DiskType, StraysType, RequestsType, RestType
<1> QED
  BY <1>2, <1>3, <1>4, <1>5, <1>6, <1>7, <1>8, <1>9, <1>10, <1>11, <1>12, <1>13, <1>14,
     StepMoves, Zenon DEF ScanMove, Moves

-----------------------------------------------------------------------------
(* Objects belong to one scan.                                             *)

\* A request that goes on with an object of its scan's own.
LEMMA ProceededOwnership ==
  ASSUME TypeInv, OwnershipInv, NEW r \in Requests, NEW s \in Scans, NEW o \in Nat, o # 0,
         \A t \in Scans : o \in {own[t], memory[t]} => t = s,
         \A q \in Requests : Deciding(q) /\ requests[q].object = o => requests[q].scan = s,
         Proceeded(r, s, o), own' = own
  PROVE  OwnershipInv'
<1>1. /\ memory \in [Scans -> Nat] /\ own \in [Scans -> Nat]
      /\ \A t, u \in Scans : memory[t] # 0 /\ memory[t] = memory[u] => t = u
      /\ \A t, u \in Scans : own[t] # 0 /\ own[t] = own[u] => t = u
      /\ \A t, u \in Scans : own[t] # 0 /\ own[t] = memory[u] => t = u
      /\ \A q \in Requests : Deciding(q) =>
           /\ requests[q].object # 0
           /\ \A t \in Scans : requests[q].object \in {own[t], memory[t]} => requests[q].scan = t
  BY Shapes, Zenon DEF OwnershipInv
<1>2. /\ memory' = [memory EXCEPT ![s] = memory'[s]] /\ memory'[s] \in {o, 0}
      /\ \A q \in Requests : q # r => requests'[q] = requests[q]
  BY Zenon DEF Proceeded, OnlyRequest
<1>3. memory'[s] \in {o, 0} /\ \A t \in Scans : t # s => memory'[t] = memory[t]
  BY <1>1, <1>2
<1>4. /\ \A t, u \in Scans : memory'[t] # 0 /\ memory'[t] = memory'[u] => t = u
      /\ \A t, u \in Scans : own[t] # 0 /\ own[t] = memory'[u] => t = u
  BY <1>1, <1>3
<1>5. ASSUME NEW q \in Requests, Deciding(q)'
      PROVE  /\ requests'[q].object # 0
             /\ \A t \in Scans : requests'[q].object \in {own[t], memory'[t]} => requests'[q].scan = t
  <2>1. CASE q = r
    <3>1. requests'[r].scan = s /\ requests'[r].object = o
      BY <1>5, <2>1, IdleType DEF Proceeded, Deciding
    <3> QED
      BY <1>1, <1>3, <2>1, <3>1
  <2>2. CASE q # r
    <3>1. requests'[q] = requests[q] /\ Deciding(q)
      BY <1>2, <1>5, <2>2, Zenon DEF Deciding
    <3> QED
      BY <1>1, <1>3, <3>1
  <2> QED
    BY <2>1, <2>2
<1> QED
  BY <1>1, <1>4, <1>5, Zenon DEF OwnershipInv

\* Requests that do not begin to decide.
LEMMA SameOwnership ==
  ASSUME OwnershipInv, memory' = memory, own' = own,
         \A q \in Requests : Deciding(q)' =>
           /\ Deciding(q) /\ requests'[q].object = requests[q].object
           /\ requests'[q].scan = requests[q].scan
  PROVE  OwnershipInv'
BY DEF OwnershipInv

LEMMA OwnershipStep ==
  ASSUME TypeInv, LifeInv, OwnershipInv, [Next]_vars
  PROVE  OwnershipInv'
<1>1. /\ Len(objects) \in Nat /\ memory \in [Scans -> Nat] /\ own \in [Scans -> Nat]
      /\ \A t \in Scans : memory[t] <= Len(objects) /\ own[t] <= Len(objects)
      /\ \A q \in Requests : requests[q].object <= Len(objects) /\ requests[q].object \in Nat
      /\ \A t, u \in Scans : memory[t] # 0 /\ memory[t] = memory[u] => t = u
      /\ \A t, u \in Scans : own[t] # 0 /\ own[t] = own[u] => t = u
      /\ \A t, u \in Scans : own[t] # 0 /\ own[t] = memory[u] => t = u
      /\ \A q \in Requests : Deciding(q) =>
           /\ requests[q].object # 0
           /\ \A t \in Scans : requests[q].object \in {own[t], memory[t]} => requests[q].scan = t
  BY Shapes, Zenon DEF OwnershipInv
<1>2. CASE UNCHANGED <<memory, own, requests>>
  <2>1. \A q \in Requests : Deciding(q)' <=> Deciding(q)
    BY <1>2, Zenon DEF Deciding
  <2> QED
    BY <1>2, <2>1, SameOwnership
<1>3. ASSUME NEW s \in Scans, Submit(s)
      PROVE  OwnershipInv'
  <2>1. /\ requests' = requests
        /\ objects' = Append(objects, NewObject(Queued, None))
        /\ memory' = [memory EXCEPT ![s] = Len(objects')]
        /\ own' = [own EXCEPT ![s] = Len(objects')]
    BY <1>3, Zenon DEF Submit
  <2>2. Len(objects') = Len(objects) + 1
    BY <2>1, NewObjectEffect DEF Statuses, Reports
  <2>3. /\ \A t, u \in Scans : memory'[t] # 0 /\ memory'[t] = memory'[u] => t = u
        /\ \A t, u \in Scans : own'[t] # 0 /\ own'[t] = own'[u] => t = u
        /\ \A t, u \in Scans : own'[t] # 0 /\ own'[t] = memory'[u] => t = u
    BY <1>1, <2>1, <2>2
  <2>4. ASSUME NEW q \in Requests, Deciding(q)'
        PROVE  /\ requests'[q].object # 0
               /\ \A t \in Scans : requests'[q].object \in {own'[t], memory'[t]} => requests'[q].scan = t
    <3>1. requests'[q] = requests[q] /\ Deciding(q)
      BY <2>1, <2>4, Zenon DEF Deciding
    <3> QED
      BY <1>1, <2>1, <2>2, <3>1
  <2> QED
    BY <2>3, <2>4, Zenon DEF OwnershipInv
<1>4. ASSUME NEW s \in Scans, Forget(s)
      PROVE  OwnershipInv'
  <2>1. own' = own /\ requests' = requests /\ memory' = [memory EXCEPT ![s] = 0]
    BY <1>4, Zenon DEF Forget
  <2>2. /\ \A t, u \in Scans : memory'[t] # 0 /\ memory'[t] = memory'[u] => t = u
        /\ \A t, u \in Scans : own'[t] # 0 /\ own'[t] = own'[u] => t = u
        /\ \A t, u \in Scans : own'[t] # 0 /\ own'[t] = memory'[u] => t = u
    BY <1>1, <2>1
  <2>3. ASSUME NEW q \in Requests, Deciding(q)'
        PROVE  /\ requests'[q].object # 0
               /\ \A t \in Scans : requests'[q].object \in {own'[t], memory'[t]} => requests'[q].scan = t
    <3>1. requests'[q] = requests[q] /\ Deciding(q)
      BY <2>1, <2>3, Zenon DEF Deciding
    <3> QED
      BY <1>1, <2>1, <3>1
  <2> QED
    BY <2>2, <2>3, Zenon DEF OwnershipInv
<1>5. ASSUME NEW r \in Requests, NEW s \in Scans, FoundMove(r, s)
      PROVE  OwnershipInv'
  <2>1. Proceeded(r, s, memory[s]) /\ own' = own /\ memory[s] # 0
    BY <1>5, Zenon DEF FoundMove
  <2>2. memory[s] \in Nat /\ \A t \in Scans : memory[s] \in {own[t], memory[t]} => t = s
    BY <1>1, <2>1
  <2>3. \A q \in Requests : Deciding(q) /\ requests[q].object = memory[s] => requests[q].scan = s
    BY <1>1, Zenon
  <2> QED
    BY <2>1, <2>2, <2>3, ProceededOwnership, Zenon
<1>6. ASSUME NEW r \in Requests, NEW s \in Scans, LoadedMove(r, s)
      PROVE  OwnershipInv'
  <2> DEFINE o == Len(objects) + 1
  <2>1. Proceeded(r, s, o) /\ own' = own
    BY <1>6, Zenon DEF LoadedMove
  <2>2. o \in Nat /\ o # 0 /\ \A t \in Scans : o \in {own[t], memory[t]} => t = s
    BY <1>1
  <2>3. \A q \in Requests : Deciding(q) /\ requests[q].object = o => requests[q].scan = s
    BY <1>1
  <2> HIDE DEF o
  <2> QED
    BY <2>1, <2>2, <2>3, ProceededOwnership, Zenon
<1>7. ASSUME NEW r \in Requests, TurnMove(r) \/ SavedMove(r) \/ RemovedMove(r)
      PROVE  OwnershipInv'
  <2>1. memory' = memory /\ own' = own /\ OnlyRequest(r)
    BY <1>7, Zenon DEF TurnMove, SavedMove, RemovedMove, store
  <2>2. Deciding(r)' => Deciding(r) /\ SameRequest(r)
    BY <1>7, IdleType DEF TurnMove, SavedMove, RemovedMove, Deciding
  <2>3. \A q \in Requests : Deciding(q)' =>
           /\ Deciding(q) /\ requests'[q].object = requests[q].object
           /\ requests'[q].scan = requests[q].scan
    BY <2>1, <2>2, Zenon DEF OnlyRequest, SameRequest, Deciding
  <2> QED
    BY <2>1, <2>3, SameOwnership
<1>8. CASE Restart
  <2>1. /\ memory' = [s \in Scans |-> 0] /\ own' = [s \in Scans |-> 0]
        /\ requests' = [r \in Requests |-> Idle]
    BY <1>8, Zenon DEF Restart
  <2>2. \A q \in Requests : ~ Deciding(q)'
    BY <2>1, IdleType DEF Deciding
  <2> QED
    BY <2>1, <2>2 DEF OwnershipInv
<1>9. \/ UNCHANGED <<memory, own, requests>>
      \/ \E s \in Scans : Submit(s) \/ Forget(s)
      \/ \E r \in Requests : Moves(r)
      \/ Restart
  BY StepMoves, Zenon DEF ScanMove, TaskMove, ObjectMove, Land, Purge, vars, store
<1> QED
  BY <1>2, <1>3, <1>4, <1>5, <1>6, <1>7, <1>8, <1>9, Zenon DEF Moves

-----------------------------------------------------------------------------
(* Runs and requests.                                                      *)

\* What has been accepted and is not in memory does not run.
LEMMA NotInMemory ==
  ASSUME TypeInv, LifeInv, NEW s \in Scans, Accepted(s), memory[s] = 0
  PROVE  tasks[s] = "over"
BY Shapes DEF LifeInv, Accepted, Tasks

\* Uploads and runs go forward.
LEMMA RunsLife ==
  ASSUME LifeInv, UNCHANGED <<memory, own, requests>>,
         \A s \in Scans : deletes'[s] = "no" => deletes[s] = "no",
         \A s \in Scans : Accepted(s) => Accepted(s)',
         \A s \in Scans : Accepted(s) /\ tasks'[s] \in Active => tasks[s] \in Active,
         \A s \in Scans : tasks'[s] \in Active \cup {"queueing"}
                            => tasks[s] \in Active \cup {"queueing"},
         \A s \in Scans : tasks'[s] \in {"none", "creating", "uploading"}
                            => tasks[s] \in {"none", "creating", "uploading"}
  PROVE  LifeInv'
<1>1. /\ \A s \in Scans : tasks[s] \in Active \cup {"queueing"} => memory[s] = own[s] /\ own[s] # 0
      /\ \A s \in Scans : tasks[s] \in {"none", "creating", "uploading"} => memory[s] = 0
      /\ \A r \in Requests : requests[r].pc # "idle" =>
           requests[r].scan \in Scans /\ Accepted(requests[r].scan)
      /\ \A r \in Loading : memory[requests[r].scan] = 0
      /\ \A q, r \in Loading : q = r
      /\ \A r \in Requests :
           Deciding(r) /\ (deletes[requests[r].scan] = "no" \/ tasks[requests[r].scan] \in Active)
             => requests[r].object = memory[requests[r].scan]
  BY Zenon DEF LifeInv
<1>2. /\ memory' = memory /\ own' = own /\ requests' = requests /\ Loading' = Loading
      /\ \A r \in Requests : Deciding(r)' <=> Deciding(r)
  BY Zenon DEF Loading, Deciding
<1>3. \A s \in Scans : tasks'[s] \in Active \cup {"queueing"} => memory'[s] = own'[s] /\ own'[s] # 0
  BY <1>1, <1>2, Zenon
<1>4. \A s \in Scans : tasks'[s] \in {"none", "creating", "uploading"} => memory'[s] = 0
  BY <1>1, <1>2, Zenon
<1>5. \A r \in Requests : requests'[r].pc # "idle" =>
           requests'[r].scan \in Scans /\ tasks'[requests'[r].scan] \notin Uploading
  BY <1>1, <1>2, Zenon DEF Accepted
<1>6. \A r \in Requests :
           Deciding(r)' /\ (deletes'[requests'[r].scan] = "no" \/ tasks'[requests'[r].scan] \in Active)
             => requests'[r].object = memory'[requests'[r].scan]
  <2>1. ASSUME NEW r \in Requests, Deciding(r),
               deletes'[requests[r].scan] = "no" \/ tasks'[requests[r].scan] \in Active
        PROVE  requests[r].object = memory[requests[r].scan]
    <3>1. requests[r].scan \in Scans /\ Accepted(requests[r].scan)
      BY <1>1, <2>1 DEF Deciding
    <3> QED
      BY <1>1, <2>1, <3>1, Zenon
  <2> QED
    BY <1>2, <2>1, Zenon
<1> QED
  BY <1>1, <1>2, <1>3, <1>4, <1>5, <1>6, Zenon DEF LifeInv, Accepted

\* A request that has found its scan goes on with the object that is served.
LEMMA ProceededLife ==
  ASSUME TypeInv, LifeInv, OwnershipInv, NEW r \in Requests, NEW s \in Scans, NEW o \in Nat,
         o # 0, memory[s] \in {0, o}, Accepted(s), own' = own,
         \A q \in Loading : requests[q].scan = s => q = r,
         Proceeded(r, s, o)
  PROVE  LifeInv'
<1>1. /\ \A t \in Scans : tasks[t] \in Active \cup {"queueing"} => memory[t] = own[t] /\ own[t] # 0
      /\ \A t \in Scans : tasks[t] \in {"none", "creating", "uploading"} => memory[t] = 0
      /\ \A q \in Requests : requests[q].pc # "idle" =>
           requests[q].scan \in Scans /\ Accepted(requests[q].scan)
      /\ \A q \in Loading : memory[requests[q].scan] = 0
      /\ \A p, q \in Loading : p = q
      /\ \A q \in Requests :
           Deciding(q) /\ (deletes[requests[q].scan] = "no" \/ tasks[requests[q].scan] \in Active)
             => requests[q].object = memory[requests[q].scan]
      /\ memory \in [Scans -> Nat] /\ deletes \in [Scans -> Deletes]
      /\ \A q \in Requests : Deciding(q) => requests[q].object # 0
  BY Shapes, Zenon DEF LifeInv, OwnershipInv
<1>2. /\ \A q \in Requests : q # r => requests'[q] = requests[q]
      /\ \A t \in Scans : t # s => tasks'[t] = tasks[t]
      /\ \A t \in Scans : t # s => memory'[t] = memory[t]
      /\ \A t \in Scans : t # s => deletes'[t] = deletes[t]
  BY <1>1 DEF Proceeded, OnlyRequest
<1>3. \/ /\ \/ requests'[r] = Idle
            \/ requests'[r].pc = "deciding" /\ requests'[r].scan = s /\ requests'[r].object = o
         /\ memory'[s] = o /\ tasks'[s] = tasks[s] /\ deletes'[s] = deletes[s]
      \/ /\ requests'[r].pc = "removing" /\ requests'[r].scan = s
         /\ deletes'[s] # "no"
         /\ tasks'[s] = IF o = own[s] /\ tasks[s] \in Active THEN "over" ELSE tasks[s]
  BY Zenon DEF Proceeded
<1>4. /\ tasks'[s] \in {tasks[s], "over"} /\ Accepted(s)'
      /\ tasks'[s] \notin Uploading /\ tasks[s] \notin Uploading
  BY <1>3 DEF Accepted, Uploading
<1>5. \/ memory'[s] = o /\ tasks'[s] = tasks[s] /\ deletes'[s] = deletes[s]
      \/ tasks'[s] \notin Active /\ deletes'[s] # "no"
  <2>1. "over" \notin Active
    BY DEF Active
  <2>2. tasks[s] \in Active => own[s] = memory[s] /\ memory[s] = o
    BY <1>1
  <2> QED
    BY <1>3, <2>1, <2>2
<1>6. \A t \in Scans : tasks'[t] \in Active \cup {"queueing"} => memory'[t] = own'[t] /\ own'[t] # 0
  <2>1. tasks'[s] # "queueing"
    BY <1>4 DEF Uploading
  <2>2. tasks'[s] \in Active => memory'[s] = own[s] /\ own[s] # 0
    BY <1>1, <1>5
  <2> QED
    BY <1>1, <1>2, <2>1, <2>2
<1>7. \A t \in Scans : tasks'[t] \in {"none", "creating", "uploading"} => memory'[t] = 0
  BY <1>1, <1>2, <1>4 DEF Uploading
<1>8. \A t \in Scans : Accepted(t) => Accepted(t)'
  BY <1>2, <1>4, Zenon DEF Accepted
<1>9. \A q \in Requests : requests'[q].pc # "idle" =>
           requests'[q].scan \in Scans /\ tasks'[requests'[q].scan] \notin Uploading
  <2>1. requests'[r].pc # "idle" => requests'[r].scan = s
    BY <1>3, IdleType
  <2>2. ASSUME NEW q \in Requests, requests'[q].pc # "idle"
        PROVE  requests'[q].scan \in Scans /\ tasks'[requests'[q].scan] \notin Uploading
    <3>1. CASE q = r
      BY <1>4, <2>1, <2>2, <3>1, Zenon
    <3>2. CASE q # r
      <4>1. requests'[q] = requests[q]
        BY <1>2, <3>2
      <4>2. requests[q].scan \in Scans /\ Accepted(requests[q].scan)
        BY <1>1, <2>2, <4>1, Zenon
      <4> QED
        BY <1>8, <4>1, <4>2, Zenon DEF Accepted
    <3> QED
      BY <3>1, <3>2
  <2> QED
    BY <2>2, Zenon
<1>10. ASSUME NEW q \in Loading'
       PROVE  q \in Loading /\ q # r /\ requests'[q] = requests[q] /\ requests[q].scan # s
              /\ requests[q].scan \in Scans
  <2>1. q \in Requests /\ q # r
    BY <1>3, IdleType DEF Loading
  <2>2. requests'[q] = requests[q] /\ q \in Loading
    BY <1>2, <2>1, Zenon DEF Loading
  <2>3. requests[q].pc # "idle"
    BY <2>2 DEF Loading
  <2> QED
    BY <1>1, <2>1, <2>2, <2>3, Zenon
<1>11. \A q \in Loading' : memory'[requests'[q].scan] = 0
  <2>1. ASSUME NEW q \in Loading'
        PROVE  memory'[requests'[q].scan] = 0
    <3>1. /\ q \in Loading /\ requests'[q] = requests[q] /\ requests[q].scan # s
          /\ requests[q].scan \in Scans
      BY <1>10, Zenon
    <3>2. memory[requests[q].scan] = 0
      BY <1>1, <3>1, Zenon
    <3> QED
      BY <1>2, <3>1, <3>2
  <2> QED
    BY <2>1, Zenon
<1>12. \A p, q \in Loading' : p = q
  BY <1>1, <1>10, Zenon
<1>13. \A q \in Requests :
           Deciding(q)' /\ (deletes'[requests'[q].scan] = "no" \/ tasks'[requests'[q].scan] \in Active)
             => requests'[q].object = memory'[requests'[q].scan]
  <2>1. ASSUME NEW q \in Requests, Deciding(q)',
               deletes'[requests'[q].scan] = "no" \/ tasks'[requests'[q].scan] \in Active
        PROVE  requests'[q].object = memory'[requests'[q].scan]
    <3>1. CASE q = r
      BY <1>3, <2>1, <3>1, IdleType DEF Deciding
    <3>2. CASE q # r
      <4>1. requests'[q] = requests[q] /\ Deciding(q)
        BY <1>2, <2>1, <3>2, Zenon DEF Deciding
      <4>2. requests[q].scan \in Scans
        BY <1>1, <4>1 DEF Deciding
      <4>3. CASE requests[q].scan = s
        <5>1. requests[q].object # 0 /\ requests'[q].scan = s
          BY <1>1, <4>1, <4>3, Zenon
        <5>2. memory'[s] = o /\ tasks'[s] = tasks[s] /\ deletes'[s] = deletes[s]
          BY <1>5, <2>1, <5>1, Zenon
        <5>3. requests[q].object = memory[s]
          <6>1. deletes[requests[q].scan] = "no" \/ tasks[requests[q].scan] \in Active
            BY <2>1, <4>1, <4>3, <5>2
          <6> QED
            BY <1>1, <4>1, <4>3, <6>1, Zenon
        <5> QED
          BY <4>1, <5>1, <5>2, <5>3
      <4>4. CASE requests[q].scan # s
        <5>1. deletes[requests[q].scan] = "no" \/ tasks[requests[q].scan] \in Active
          BY <1>2, <2>1, <4>1, <4>2, <4>4
        <5>2. requests[q].object = memory[requests[q].scan]
          BY <1>1, <4>1, <5>1, Zenon
        <5> QED
          BY <1>2, <4>1, <4>2, <4>4, <5>2
      <4> QED
        BY <4>3, <4>4
    <3> QED
      BY <3>1, <3>2
  <2> QED
    BY <2>1, Zenon
<1> QED
  BY <1>6, <1>7, <1>9, <1>11, <1>12, <1>13, Zenon DEF LifeInv, Accepted

\* A request that neither finds nor forgets a scan.
LEMMA TurnsLife ==
  ASSUME TypeInv, LifeInv, NEW r \in Requests, OnlyRequest(r),
         UNCHANGED <<memory, own, tasks>>,
         \A s \in Scans : deletes'[s] = "no" => deletes[s] = "no",
         \/ requests'[r] = Idle
         \/ /\ requests'[r].scan \in Scans /\ Accepted(requests'[r].scan)
            /\ Deciding(r)' => Deciding(r) /\ SameRequest(r)
            /\ r \in Loading' => /\ memory[requests'[r].scan] = 0
                                 /\ r \in Loading \/ Loading = {}
  PROVE  LifeInv'
<1>1. /\ \A t \in Scans : tasks[t] \in Active \cup {"queueing"} => memory[t] = own[t] /\ own[t] # 0
      /\ \A t \in Scans : tasks[t] \in {"none", "creating", "uploading"} => memory[t] = 0
      /\ \A q \in Requests : requests[q].pc # "idle" =>
           requests[q].scan \in Scans /\ Accepted(requests[q].scan)
      /\ \A q \in Loading : memory[requests[q].scan] = 0
      /\ \A p, q \in Loading : p = q
      /\ \A q \in Requests :
           Deciding(q) /\ (deletes[requests[q].scan] = "no" \/ tasks[requests[q].scan] \in Active)
             => requests[q].object = memory[requests[q].scan]
      /\ \A q \in Requests : q # r => requests'[q] = requests[q]
      /\ memory' = memory /\ own' = own /\ tasks' = tasks
  BY Zenon DEF LifeInv, OnlyRequest
<1>2. \A t \in Scans : Accepted(t)' <=> Accepted(t)
  BY <1>1, Zenon DEF Accepted
<1>3. ASSUME NEW q \in Requests, requests'[q].pc # "idle"
      PROVE  requests'[q].scan \in Scans /\ Accepted(requests'[q].scan)
  <2>1. CASE q = r
    BY <1>3, <2>1, IdleType
  <2>2. CASE q # r
    BY <1>1, <1>3, <2>2, Zenon
  <2> QED
    BY <2>1, <2>2
<1>4. \A q \in Requests : requests'[q].pc # "idle" =>
           requests'[q].scan \in Scans /\ tasks'[requests'[q].scan] \notin Uploading
  BY <1>1, <1>3, Zenon DEF Accepted
<1>5. ASSUME NEW q \in Loading', q # r
      PROVE  q \in Loading /\ requests'[q] = requests[q]
  BY <1>1, <1>5, Zenon DEF Loading
<1>6. r \in Loading' => memory[requests'[r].scan] = 0 /\ (r \in Loading \/ Loading = {})
  <2>1. r \in Loading' => requests'[r] # Idle
    BY IdleType DEF Loading
  <2> QED
    BY <2>1, Zenon
<1>7. \A q \in Loading' : memory'[requests'[q].scan] = 0
  <2>1. ASSUME NEW q \in Loading'
        PROVE  memory[requests'[q].scan] = 0
    <3>1. CASE q = r
      BY <1>6, <3>1
    <3>2. CASE q # r
      BY <1>1, <1>5, <3>2
    <3> QED
      BY <3>1, <3>2
  <2> QED
    BY <1>1, <2>1, Zenon
<1>8. \A p, q \in Loading' : p = q
  <2>1. ASSUME NEW p \in Loading', NEW q \in Loading'
        PROVE  p = q
    <3>1. p = r \/ p \in Loading
      BY <1>5
    <3>2. q = r \/ q \in Loading
      BY <1>5
    <3>3. CASE Loading = {}
      BY <3>1, <3>2, <3>3
    <3>4. CASE r \in Loading
      BY <1>1, <3>1, <3>2, <3>4, Zenon
    <3>5. CASE r \notin Loading'
      BY <1>1, <3>1, <3>2, <3>5, Zenon
    <3> QED
      BY <1>6, <3>3, <3>4, <3>5, Zenon
  <2> QED
    BY <2>1, Zenon
<1>9. \A q \in Requests :
           Deciding(q)' /\ (deletes'[requests'[q].scan] = "no" \/ tasks'[requests'[q].scan] \in Active)
             => requests'[q].object = memory'[requests'[q].scan]
  <2>1. ASSUME NEW q \in Requests, Deciding(q)',
               deletes'[requests'[q].scan] = "no" \/ tasks'[requests'[q].scan] \in Active
        PROVE  requests'[q].object = memory[requests'[q].scan]
    <3>1. requests'[q].scan \in Scans
      BY <1>3, <2>1 DEF Deciding
    <3>2. Deciding(q) /\ requests'[q].scan = requests[q].scan
          /\ requests'[q].object = requests[q].object
      <4>1. CASE q = r
        <5>1. requests'[r] # Idle
          BY <2>1, <4>1, IdleType DEF Deciding
        <5> QED
          BY <2>1, <4>1, <5>1, Zenon DEF SameRequest
      <4>2. CASE q # r
        BY <1>1, <2>1, <4>2, Zenon DEF Deciding
      <4> QED
        BY <4>1, <4>2
    <3> QED
      BY <1>1, <2>1, <3>1, <3>2, Zenon
  <2> QED
    BY <1>1, <2>1, Zenon
<1>10. /\ \A t \in Scans : tasks'[t] \in Active \cup {"queueing"} => memory'[t] = own'[t] /\ own'[t] # 0
       /\ \A t \in Scans : tasks'[t] \in {"none", "creating", "uploading"} => memory'[t] = 0
  BY <1>1, Zenon
<1> QED
  BY <1>4, <1>7, <1>8, <1>9, <1>10, Zenon DEF LifeInv, Accepted

LEMMA LifeStep ==
  ASSUME TypeInv, LifeInv, OwnershipInv, DeleteInv, [Next]_vars
  PROVE  LifeInv'
<1>1. /\ Len(objects) \in Nat /\ memory \in [Scans -> Nat] /\ own \in [Scans -> Nat]
      /\ \A t \in Scans : memory[t] <= Len(objects) /\ own[t] <= Len(objects)
      /\ tasks \in [Scans -> Tasks] /\ deletes \in [Scans -> Deletes]
      /\ \A t \in Scans : tasks[t] \in Active \cup {"queueing"} => memory[t] = own[t] /\ own[t] # 0
      /\ \A t \in Scans : tasks[t] \in {"none", "creating", "uploading"} => memory[t] = 0
      /\ \A q \in Requests : requests[q].pc # "idle" =>
           requests[q].scan \in Scans /\ Accepted(requests[q].scan)
      /\ \A q \in Loading : memory[requests[q].scan] = 0
      /\ \A p, q \in Loading : p = q
      /\ \A q \in Requests :
           Deciding(q) /\ (deletes[requests[q].scan] = "no" \/ tasks[requests[q].scan] \in Active)
             => requests[q].object = memory[requests[q].scan]
  BY Shapes, Zenon DEF LifeInv
<1>2. CASE UNCHANGED <<memory, own, requests, tasks>>
           /\ \A s \in Scans : deletes'[s] = "no" => deletes[s] = "no"
  BY <1>2, RunsLife, Zenon DEF Accepted
<1>3. ASSUME NEW s \in Scans, TaskMove(s) \/ ObjectMove(s)
      PROVE  LifeInv'
  <2>1. /\ UNCHANGED <<memory, own, requests>> /\ deletes' = deletes
        /\ tasks' = [tasks EXCEPT ![s] = tasks'[s]]
    BY <1>3, Zenon DEF TaskMove, ObjectMove, store
  <2>2. \A t \in Scans : t # s => tasks'[t] = tasks[t]
    BY <1>1, <2>1
  <2>3. /\ tasks'[s] \in Active \cup {"queueing"} => tasks[s] \in Active \cup {"queueing"}
        /\ Accepted(s) /\ tasks'[s] \in Active => tasks[s] \in Active
        /\ tasks'[s] \in {"none", "creating", "uploading"}
             => tasks[s] \in {"none", "creating", "uploading"}
        /\ Accepted(s) => Accepted(s)'
    BY <1>3 DEF TaskMove, ObjectMove, Active, Accepted, Uploading
  <2>4. \A t \in Scans : Accepted(t) => Accepted(t)'
    BY <2>2, <2>3, Zenon DEF Accepted
  <2>5. \A t \in Scans : Accepted(t) /\ tasks'[t] \in Active => tasks[t] \in Active
    BY <2>2, <2>3, Zenon
  <2>6. \A t \in Scans : tasks'[t] \in Active \cup {"queueing"} => tasks[t] \in Active \cup {"queueing"}
    BY <2>2, <2>3, Zenon
  <2>7. \A t \in Scans : tasks'[t] \in {"none", "creating", "uploading"}
                           => tasks[t] \in {"none", "creating", "uploading"}
    BY <2>2, <2>3, Zenon
  <2> QED
    BY <2>1, <2>4, <2>5, <2>6, <2>7, RunsLife, Zenon
<1>4. ASSUME NEW s \in Scans, Submit(s)
      PROVE  LifeInv'
  <2>1. /\ requests' = requests /\ deletes' = deletes
        /\ tasks[s] = "uploading" /\ tasks' = [tasks EXCEPT ![s] = "queueing"]
        /\ objects' = Append(objects, NewObject(Queued, None))
        /\ memory' = [memory EXCEPT ![s] = Len(objects')]
        /\ own' = [own EXCEPT ![s] = Len(objects')]
    BY <1>4, Zenon DEF Submit, Step
  <2>2. Len(objects') = Len(objects) + 1
    BY <2>1, NewObjectEffect DEF Statuses, Reports
  <2>3. /\ tasks'[s] = "queueing" /\ memory'[s] = own'[s] /\ own'[s] # 0
        /\ \A t \in Scans : t # s => tasks'[t] = tasks[t] /\ memory'[t] = memory[t] /\ own'[t] = own[t]
    BY <1>1, <2>1, <2>2
  <2>4. /\ \A t \in Scans : tasks'[t] \in Active \cup {"queueing"} => memory'[t] = own'[t] /\ own'[t] # 0
        /\ \A t \in Scans : tasks'[t] \in {"none", "creating", "uploading"} => memory'[t] = 0
    BY <1>1, <2>3
  <2>5. \A q \in Requests : requests[q].pc # "idle" =>
           /\ requests[q].scan \in Scans /\ Accepted(requests[q].scan) /\ requests[q].scan # s
    BY <1>1, <2>1 DEF Accepted, Uploading
  <2>6. \A q \in Requests : requests'[q].pc # "idle" =>
           requests'[q].scan \in Scans /\ tasks'[requests'[q].scan] \notin Uploading
    <3>1. ASSUME NEW q \in Requests, requests[q].pc # "idle"
          PROVE  requests[q].scan \in Scans /\ tasks'[requests[q].scan] \notin Uploading
      <4>1. requests[q].scan \in Scans /\ requests[q].scan # s
            /\ tasks[requests[q].scan] \notin Uploading
        BY <2>5, <3>1, Zenon DEF Accepted
      <4> QED
        BY <2>3, <4>1
    <3> QED
      BY <2>1, <3>1
  <2>7. /\ Loading' = Loading
        /\ \A q \in Loading : memory'[requests'[q].scan] = 0
        /\ \A p, q \in Loading' : p = q
    <3>1. Loading' = Loading
      BY <2>1, Zenon DEF Loading
    <3>2. \A q \in Loading : q \in Requests /\ requests[q].pc # "idle"
      BY DEF Loading
    <3> QED
      BY <1>1, <2>1, <2>3, <2>5, <3>1, <3>2, Zenon
  <2>8. ASSUME NEW q \in Requests, Deciding(q)',
               deletes'[requests'[q].scan] = "no" \/ tasks'[requests'[q].scan] \in Active
        PROVE  requests'[q].object = memory'[requests'[q].scan]
    <3>1. Deciding(q) /\ requests'[q] = requests[q] /\ deletes' = deletes
      BY <2>1, <2>8, Zenon DEF Deciding
    <3>2. requests[q].scan \in Scans /\ requests[q].scan # s
      BY <2>5, <3>1 DEF Deciding
    <3>3. requests[q].object = memory[requests[q].scan]
      BY <1>1, <2>3, <2>8, <3>1, <3>2
    <3> QED
      BY <2>3, <3>1, <3>2, <3>3
  <2> QED
    BY <2>4, <2>6, <2>7, <2>8, Zenon DEF LifeInv, Accepted
<1>5. ASSUME NEW s \in Scans, Forget(s)
      PROVE  LifeInv'
  <2>1. /\ own' = own /\ requests' = requests /\ deletes' = deletes
        /\ memory' = [memory EXCEPT ![s] = 0] /\ deletes[s] # "no" /\ Accepted(s)
        /\ IF InMemory(s) THEN Stop(s, memory[s]) ELSE UNCHANGED <<tasks, strays>>
    BY <1>5, Zenon DEF Forget, DeleteInv
  <2>2. /\ tasks'[s] = "over"
        /\ \A t \in Scans : t # s => tasks'[t] = tasks[t] /\ memory'[t] = memory[t]
        /\ memory'[s] = 0
    <3>1. CASE InMemory(s)
      <4>1. /\ \A t \in Scans : t # s => tasks'[t] = tasks[t]
            /\ tasks'[s] = IF memory[s] = own[s] /\ tasks[s] \in Active THEN "over" ELSE tasks[s]
        BY <1>1, <2>1, <3>1, StopEffect
      <4>2. tasks[s] \in Active => memory[s] = own[s]
        BY <1>1
      <4>3. tasks[s] \in Active \cup {"over"}
        BY <1>1, <2>1 DEF Accepted, Tasks
      <4>4. tasks'[s] = "over"
        BY <4>1, <4>2, <4>3
      <4> QED
        BY <1>1, <2>1, <4>1, <4>4
    <3>2. CASE ~ InMemory(s)
      <4>1. tasks[s] = "over" /\ tasks' = tasks
        BY <2>1, <3>2, NotInMemory, Zenon DEF InMemory
      <4> QED
        BY <1>1, <2>1, <4>1
    <3> QED
      BY <3>1, <3>2
  <2>3. /\ \A t \in Scans : tasks'[t] \in Active \cup {"queueing"} => memory'[t] = own'[t] /\ own'[t] # 0
        /\ \A t \in Scans : tasks'[t] \in {"none", "creating", "uploading"} => memory'[t] = 0
    BY <1>1, <2>1, <2>2 DEF Active
  <2>4. \A q \in Requests : requests'[q].pc # "idle" =>
           requests'[q].scan \in Scans /\ tasks'[requests'[q].scan] \notin Uploading
    <3>1. tasks'[s] \notin Uploading
      BY <2>2 DEF Uploading
    <3> QED
      BY <1>1, <2>1, <2>2, <3>1, Zenon DEF Accepted
  <2>5. /\ Loading' = Loading
        /\ \A q \in Loading : memory'[requests'[q].scan] = 0
        /\ \A p, q \in Loading' : p = q
    <3>1. Loading' = Loading
      BY <2>1, Zenon DEF Loading
    <3>2. \A q \in Loading : requests[q].scan \in Scans
      BY <1>1 DEF Loading
    <3> QED
      BY <1>1, <2>1, <2>2, <3>1, <3>2, Zenon
  <2>6. ASSUME NEW q \in Requests, Deciding(q)',
               deletes'[requests'[q].scan] = "no" \/ tasks'[requests'[q].scan] \in Active
        PROVE  requests'[q].object = memory'[requests'[q].scan]
    <3>1. Deciding(q) /\ requests'[q] = requests[q]
      BY <2>1, <2>6, Zenon DEF Deciding
    <3>2. requests[q].scan \in Scans
      BY <1>1, <3>1 DEF Deciding
    <3>3. requests[q].scan # s
      BY <2>1, <2>2, <2>6, <3>1 DEF Active
    <3>4. requests[q].object = memory[requests[q].scan]
      BY <1>1, <2>1, <2>2, <2>6, <3>1, <3>2, <3>3
    <3> QED
      BY <2>2, <3>1, <3>2, <3>3, <3>4
  <2> QED
    BY <2>3, <2>4, <2>5, <2>6, Zenon DEF LifeInv, Accepted
<1>6. ASSUME NEW r \in Requests, NEW s \in Scans, FoundMove(r, s)
      PROVE  LifeInv'
  <2>1. /\ Proceeded(r, s, memory[s]) /\ own' = own /\ memory[s] # 0 /\ Accepted(s)
        /\ memory[s] \in Nat /\ memory[s] \in {0, memory[s]}
    BY <1>1, <1>6 DEF FoundMove
  <2>2. \A q \in Loading : requests[q].scan = s => q = r
    BY <1>1, <2>1, Zenon
  <2> QED
    BY <2>1, <2>2, ProceededLife, Zenon
<1>7. ASSUME NEW r \in Requests, NEW s \in Scans, LoadedMove(r, s)
      PROVE  LifeInv'
  <2> DEFINE o == Len(objects) + 1
  <2>1. /\ Proceeded(r, s, o) /\ own' = own /\ r \in Loading /\ s = requests[r].scan
    BY <1>7, Zenon DEF LoadedMove
  <2>2. Accepted(s)
    BY <1>1, <2>1 DEF Loading
  <2>3. o \in Nat /\ o # 0 /\ memory[s] \in {0, o}
    BY <1>1, <2>1
  <2>4. \A q \in Loading : requests[q].scan = s => q = r
    BY <1>1, <2>1, Zenon
  <2> HIDE DEF o
  <2> QED
    BY <2>1, <2>2, <2>3, <2>4, ProceededLife, Zenon
<1>8. ASSUME NEW r \in Requests, TurnMove(r) \/ SavedMove(r) \/ RemovedMove(r)
      PROVE  LifeInv'
  <2>1. OnlyRequest(r) /\ UNCHANGED <<memory, own, tasks>>
    BY <1>8, Zenon DEF TurnMove, SavedMove, RemovedMove, store
  <2>2. \A s \in Scans : deletes'[s] = "no" => deletes[s] = "no"
    <3>1. CASE deletes' = deletes
      BY <3>1
    <3>2. CASE RemovedMove(r)
      BY <1>1, <3>2 DEF RemovedMove
    <3> QED
      BY <1>8, <3>1, <3>2, Zenon DEF TurnMove, SavedMove
  <2>3. \/ requests'[r] = Idle
        \/ /\ requests'[r].scan \in Scans /\ Accepted(requests'[r].scan)
           /\ Deciding(r)' => Deciding(r) /\ SameRequest(r)
           /\ r \in Loading' => /\ memory[requests'[r].scan] = 0
                                /\ (r \in Loading \/ Loading = {})
    <3>1. requests'[r] = Idle \/ (requests'[r].scan \in Scans /\ Accepted(requests'[r].scan))
      <4>1. \/ requests'[r] = Idle
            \/ requests'[r].scan \in Scans /\ Accepted(requests'[r].scan)
            \/ requests'[r].scan = requests[r].scan /\ requests[r].pc # "idle"
        BY <1>8 DEF TurnMove, SavedMove, RemovedMove, SameRequest, Removing
      <4> QED
        BY <1>1, <4>1, Zenon
    <3>2. requests'[r] = Idle \/ (Deciding(r)' => Deciding(r) /\ SameRequest(r))
      BY <1>8 DEF TurnMove, SavedMove, RemovedMove, Deciding
    <3>3. \/ requests'[r] = Idle \/ r \notin Loading'
          \/ /\ requests'[r].scan = requests[r].scan
             /\ \/ r \in Loading
                \/ Loading = {} /\ memory[requests[r].scan] = 0
      BY <1>8 DEF TurnMove, SavedMove, RemovedMove, SameRequest, Loading
    <3>4. requests'[r] = Idle \/ (r \in Loading' => /\ memory[requests'[r].scan] = 0
                                                    /\ (r \in Loading \/ Loading = {}))
      BY <1>1, <3>3, Zenon
    <3> QED
      BY <3>1, <3>2, <3>4, Zenon
  <2> QED
    BY <2>1, <2>2, <2>3, TurnsLife, Zenon
<1>9. CASE Restart
  <2>1. /\ memory' = [s \in Scans |-> 0]
        /\ tasks' = [s \in Scans |-> IF tasks[s] = "none" THEN "none"
                                     ELSE IF Accepted(s) THEN "over" ELSE "rejected"]
        /\ requests' = [r \in Requests |-> Idle]
    BY <1>9, Zenon DEF Restart
  <2>2. /\ \A s \in Scans : memory'[s] = 0 /\ tasks'[s] \in {"none", "over", "rejected"}
        /\ \A r \in Requests : requests'[r] = Idle
    BY <2>1
  <2>3. /\ Loading' = {} /\ \A r \in Requests : requests'[r].pc = "idle" /\ ~ Deciding(r)'
    BY <2>2, IdleType DEF Loading, Deciding
  <2>4. \A s \in Scans : tasks'[s] \notin Active \cup {"queueing"}
    BY <2>2 DEF Active
  <2> QED
    BY <2>2, <2>3, <2>4, Zenon DEF LifeInv
<1>10. CASE Purge
  <2>1. UNCHANGED <<memory, own, requests, tasks>>
    BY <1>10, Zenon DEF Purge, store
  <2>2. \A s \in Scans : deletes'[s] = "no" => deletes[s] = "no"
    BY <1>1, <1>10 DEF Purge
  <2> QED
    BY <1>2, <2>1, <2>2, Zenon
<1>11. \/ UNCHANGED <<memory, own, requests, tasks>> /\ deletes' = deletes
       \/ \E s \in Scans : ScanMove(s)
       \/ \E r \in Requests : Moves(r)
       \/ Purge \/ Restart
  BY StepMoves, Zenon DEF Land, vars, store
<1> QED
  BY <1>2, <1>3, <1>4, <1>5, <1>6, <1>7, <1>8, <1>9, <1>10, <1>11, Zenon DEF Moves, ScanMove

-----------------------------------------------------------------------------
(* Deletion.                                                               *)

\* A deletion is not taken back.
LEMMA DeletesStay ==
  ASSUME TypeInv, LifeInv, OwnershipInv, [Next]_vars
  PROVE  \A s \in Scans : deletes'[s] = "no" => deletes[s] = "no"
<1>1. deletes \in [Scans -> Deletes]
  BY Shapes
<1>2. CASE deletes' = deletes
  BY <1>2
<1>3. ASSUME NEW r \in Requests, NEW s \in Scans, FoundMove(r, s) \/ LoadedMove(r, s)
      PROVE  \A t \in Scans : deletes'[t] = "no" => deletes[t] = "no"
  <2>1. /\ deletes' = [deletes EXCEPT ![s] = deletes'[s]]
        /\ deletes'[s] = deletes[s] \/ deletes'[s] # "no"
    BY <1>3, Zenon DEF FoundMove, LoadedMove, Proceeded
  <2> QED
    BY <1>1, <2>1
<1>4. ASSUME NEW r \in Requests, RemovedMove(r)
      PROVE  \A t \in Scans : deletes'[t] = "no" => deletes[t] = "no"
  BY <1>1, <1>4 DEF RemovedMove
<1>5. CASE Purge
  BY <1>1, <1>5 DEF Purge
<1>6. \/ deletes' = deletes \/ Purge
      \/ \E r \in Requests : \/ \E s \in Scans : FoundMove(r, s) \/ LoadedMove(r, s)
                             \/ RemovedMove(r)
  BY StepMoves, Zenon DEF ScanMove, TaskMove, Submit, ObjectMove, Forget, Moves, TurnMove,
     SavedMove, Land, Restart, vars
<1> QED
  BY <1>2, <1>3, <1>4, <1>5, <1>6, Zenon

\* An id that has been given out stays given out.
LEMMA AcceptedStays ==
  ASSUME TypeInv, LifeInv, OwnershipInv, [Next]_vars
  PROVE  \A s \in Scans : Accepted(s) => Accepted(s)'
<1>1. memory \in [Scans -> Nat] /\ tasks \in [Scans -> Tasks]
  BY Shapes
<1>2. CASE tasks' = tasks
  BY <1>2, Zenon DEF Accepted
<1>3. ASSUME NEW s \in Scans, tasks'[s] \notin Uploading \/ tasks[s] \in Uploading,
             \A t \in Scans : t # s => tasks'[t] = tasks[t]
      PROVE  \A t \in Scans : Accepted(t) => Accepted(t)'
  BY <1>3, Zenon DEF Accepted
<1>4. ASSUME NEW s \in Scans, TaskMove(s) \/ ObjectMove(s)
      PROVE  \A t \in Scans : Accepted(t) => Accepted(t)'
  <2>1. tasks' = [tasks EXCEPT ![s] = tasks'[s]]
    BY <1>4, Zenon DEF TaskMove, ObjectMove
  <2>2. tasks'[s] \notin Uploading \/ tasks[s] \in Uploading
    BY <1>4 DEF TaskMove, ObjectMove, Uploading
  <2>3. \A t \in Scans : t # s => tasks'[t] = tasks[t]
    BY <1>1, <2>1
  <2> QED
    BY <1>3, <2>2, <2>3, Zenon
<1>5. ASSUME NEW s \in Scans, Submit(s)
      PROVE  \A t \in Scans : Accepted(t) => Accepted(t)'
  <2>1. tasks[s] = "uploading" /\ tasks' = [tasks EXCEPT ![s] = "queueing"]
    BY <1>5, Zenon DEF Submit, Step
  <2>2. tasks[s] \in Uploading /\ \A t \in Scans : t # s => tasks'[t] = tasks[t]
    BY <1>1, <2>1 DEF Uploading
  <2> QED
    BY <1>3, <2>2, Zenon
<1>6. ASSUME NEW s \in Scans, Forget(s)
      PROVE  \A t \in Scans : Accepted(t) => Accepted(t)'
  <2>1. CASE Stop(s, memory[s])
    <3>1. /\ tasks'[s] \in {tasks[s], "over"}
          /\ \A t \in Scans : t # s => tasks'[t] = tasks[t]
      BY <1>1, <2>1, StopEffect
    <3>2. tasks'[s] \notin Uploading \/ tasks[s] \in Uploading
      BY <3>1 DEF Uploading
    <3> QED
      BY <1>3, <3>1, <3>2, Zenon
  <2> QED
    BY <1>2, <1>6, <2>1, Zenon DEF Forget
<1>7. ASSUME NEW r \in Requests, NEW s \in Scans, FoundMove(r, s) \/ LoadedMove(r, s)
      PROVE  \A t \in Scans : Accepted(t) => Accepted(t)'
  <2>1. /\ tasks'[s] \in {tasks[s], "over"}
        /\ \A t \in Scans : t # s => tasks'[t] = tasks[t]
    BY <1>7, Zenon DEF FoundMove, LoadedMove, Proceeded
  <2>2. tasks'[s] \notin Uploading \/ tasks[s] \in Uploading
    BY <2>1 DEF Uploading
  <2> QED
    BY <1>3, <2>1, <2>2, Zenon
<1>8. CASE Restart
  <2>1. tasks' = [s \in Scans |-> IF tasks[s] = "none" THEN "none"
                                  ELSE IF Accepted(s) THEN "over" ELSE "rejected"]
    BY <1>8, Zenon DEF Restart
  <2> QED
    BY <2>1 DEF Accepted, Uploading
<1>9. \/ tasks' = tasks
      \/ \E s \in Scans : ScanMove(s)
      \/ \E r \in Requests, s \in Scans : FoundMove(r, s) \/ LoadedMove(r, s)
      \/ Restart
  BY StepMoves, Zenon DEF Moves, TurnMove, SavedMove, RemovedMove, Land, Purge, vars
<1> QED
  BY <1>2, <1>4, <1>5, <1>6, <1>7, <1>8, <1>9, Zenon DEF ScanMove

\* Whatever stops a scan's run because it is deleted leaves nothing running.
LEMMA ForgetStops ==
  ASSUME TypeInv, LifeInv, NEW s \in Scans, Accepted(s), Forget(s)
  PROVE  /\ tasks'[s] = "over" /\ \A t \in Scans : t # s => tasks'[t] = tasks[t]
         /\ \A w \in strays' : w \in strays \/ w.scan = s
<1>1. /\ memory \in [Scans -> Nat] /\ tasks \in [Scans -> Tasks]
      /\ tasks[s] \in Active => memory[s] = own[s]
      /\ IF InMemory(s) THEN Stop(s, memory[s]) ELSE UNCHANGED <<tasks, strays>>
  BY Shapes, Zenon DEF LifeInv, Forget
<1>2. CASE InMemory(s)
  <2>1. /\ \A t \in Scans : t # s => tasks'[t] = tasks[t]
        /\ tasks'[s] = IF memory[s] = own[s] /\ tasks[s] \in Active THEN "over" ELSE tasks[s]
        /\ \A w \in strays' : w \in strays \/ (WriteType(w) /\ w.scan = s)
    BY <1>1, <1>2, StopEffect
  <2>2. tasks[s] \in Active \cup {"over"}
    BY <1>1 DEF Accepted, Tasks
  <2>3. tasks'[s] = "over"
    BY <1>1, <2>1, <2>2
  <2> QED
    BY <2>1, <2>3, Zenon
<1>3. CASE ~ InMemory(s)
  BY <1>1, <1>3, NotInMemory, Zenon DEF InMemory
<1> QED
  BY <1>2, <1>3

LEMMA ProceededStops ==
  ASSUME TypeInv, LifeInv, NEW r \in Requests, NEW s \in Scans, NEW o \in Nat,
         Accepted(s), memory[s] \in {0, o}, Proceeded(r, s, o),
         requests'[r].pc = "removing"
  PROVE  tasks'[s] = "over" /\ deletes'[s] # "no"
<1>1. /\ tasks \in [Scans -> Tasks]
      /\ tasks[s] \in Active => memory[s] = own[s] /\ own[s] # 0
  BY Shapes, Zenon DEF LifeInv
<1>2. /\ deletes'[s] # "no"
      /\ tasks'[s] = IF o = own[s] /\ tasks[s] \in Active THEN "over" ELSE tasks[s]
  BY IdleType DEF Proceeded
<1>3. tasks[s] \in Active \cup {"over"}
  BY <1>1 DEF Accepted, Tasks
<1> QED
  BY <1>1, <1>2, <1>3

LEMMA DeleteStep ==
  ASSUME TypeInv, LifeInv, OwnershipInv, DeleteInv, [Next]_vars
  PROVE  DeleteInv'
<1>1. /\ \A s \in Scans : deletes[s] # "no" => Accepted(s)
      /\ \A s \in purge : deletes[s] # "no"
      /\ \A r \in Requests : Removing(r) => deletes[requests[r].scan] # "no"
      /\ \A w \in strays : deletes[w.scan] # "no"
      /\ \A s \in Scans : deletes[s] # "no" /\ s \notin purge => tasks[s] = "over"
      /\ \A q \in Requests : requests[q].pc # "idle" =>
           requests[q].scan \in Scans /\ Accepted(requests[q].scan)
      /\ \A q \in Loading : memory[requests[q].scan] = 0
      /\ tasks \in [Scans -> Tasks] /\ deletes \in [Scans -> Deletes]
      /\ memory \in [Scans -> Nat] /\ purge \subseteq Scans
      /\ \A w \in strays : w.scan \in Scans
  BY Shapes DEF DeleteInv, DeleteStops, LifeInv, TypeInv, RestType, StraysType, WriteType
<1>2. /\ \A s \in Scans : deletes'[s] = "no" => deletes[s] = "no"
      /\ \A s \in Scans : Accepted(s) => Accepted(s)'
  BY DeletesStay, AcceptedStays, Zenon
<1>3. ASSUME deletes' = deletes, purge' = purge, strays' \subseteq strays, requests' = requests,
             \A s \in Scans : tasks[s] = "over" => tasks'[s] = "over"
      PROVE  DeleteInv'
  <2>1. \A s \in Scans : deletes'[s] # "no" => Accepted(s)'
    BY <1>1, <1>2, <1>3, Zenon
  <2>2. \A r \in Requests : Removing(r)' => deletes'[requests'[r].scan] # "no"
    BY <1>1, <1>3 DEF Removing
  <2>3. DeleteStops'
    BY <1>1, <1>3, Zenon DEF DeleteStops
  <2>4. /\ \A s \in purge' : deletes'[s] # "no"
        /\ \A w \in strays' : deletes'[w.scan] # "no"
    BY <1>1, <1>3
  <2> QED
    BY <2>1, <2>2, <2>3, <2>4, Zenon DEF DeleteInv
<1>4. ASSUME NEW s \in Scans, TaskMove(s) \/ Submit(s) \/ ObjectMove(s)
      PROVE  DeleteInv'
  <2>1. /\ deletes' = deletes /\ purge' = purge /\ strays' = strays /\ requests' = requests
        /\ \E pc \in {tasks'[s], "queueing"} : tasks' = [tasks EXCEPT ![s] = pc]
    BY <1>4, Zenon DEF TaskMove, Submit, ObjectMove, Step
  <2>2. tasks[s] # "over"
    BY <1>4 DEF TaskMove, Submit, ObjectMove
  <2>3. \A t \in Scans : tasks[t] = "over" => tasks'[t] = "over"
    BY <1>1, <2>1, <2>2
  <2> QED
    BY <1>3, <2>1, <2>3
<1>5. ASSUME NEW s \in Scans, Forget(s)
      PROVE  DeleteInv'
  <2>1. deletes' = deletes /\ purge' = purge \ {s} /\ requests' = requests /\ s \in purge
    BY <1>5, Zenon DEF Forget
  <2>2. Accepted(s) /\ deletes[s] # "no"
    BY <1>1, <2>1, Zenon
  <2>3. /\ tasks'[s] = "over" /\ \A t \in Scans : t # s => tasks'[t] = tasks[t]
        /\ \A w \in strays' : w \in strays \/ w.scan = s
    BY <1>5, <2>2, ForgetStops, Zenon
  <2>4. \A t \in Scans : deletes'[t] # "no" => Accepted(t)'
    BY <1>1, <1>2, <2>1, Zenon
  <2>5. \A q \in Requests : Removing(q)' => deletes'[requests'[q].scan] # "no"
    BY <1>1, <2>1 DEF Removing
  <2>6. DeleteStops'
    BY <1>1, <2>1, <2>3 DEF DeleteStops
  <2>7. /\ \A t \in purge' : deletes'[t] # "no"
        /\ \A w \in strays' : deletes'[w.scan] # "no"
    BY <1>1, <2>1, <2>2, <2>3
  <2> QED
    BY <2>4, <2>5, <2>6, <2>7, Zenon DEF DeleteInv
<1>6. ASSUME NEW r \in Requests, NEW s \in Scans, NEW o \in Nat, Accepted(s), memory[s] \in {0, o},
             Proceeded(r, s, o), purge' = purge
      PROVE  DeleteInv'
  <2>1. /\ \A q \in Requests : q # r => requests'[q] = requests[q]
        /\ deletes' = [deletes EXCEPT ![s] = deletes'[s]]
        /\ \A t \in Scans : t # s => tasks'[t] = tasks[t]
        /\ \/ /\ requests'[r] = Idle \/ requests'[r].pc = "deciding"
              /\ tasks'[s] = tasks[s] /\ deletes'[s] = deletes[s] /\ strays' = strays
           \/ /\ requests'[r].pc = "removing" /\ requests'[r].scan = s
        /\ \A w \in strays' : w \in strays \/ (WriteType(w) /\ w.scan = s)
    BY <1>6, Zenon DEF Proceeded, OnlyRequest
  <2>2. requests'[r].pc = "removing" => tasks'[s] = "over" /\ deletes'[s] # "no"
    BY <1>6, ProceededStops, Zenon
  <2>3. \A t \in Scans : t # s => deletes'[t] = deletes[t]
    BY <1>1, <2>1
  <2>4. \/ tasks'[s] = tasks[s] /\ deletes'[s] = deletes[s] /\ strays' = strays
        \/ tasks'[s] = "over" /\ deletes'[s] # "no"
    BY <2>1, <2>2, Zenon
  <2>5. \A t \in Scans : deletes'[t] # "no" => Accepted(t)'
    BY <1>1, <1>2, <1>6, <2>3, Zenon
  <2>6. \A t \in Scans : deletes[t] # "no" => deletes'[t] # "no"
    BY <1>2, Zenon
  <2>7. ASSUME NEW q \in Requests, Removing(q)'
        PROVE  deletes'[requests'[q].scan] # "no"
    <3>1. CASE q = r
      BY <2>1, <2>2, <2>7, <3>1, IdleType DEF Removing
    <3>2. CASE q # r
      <4>1. requests'[q] = requests[q] /\ Removing(q)
        BY <2>1, <2>7, <3>2, Zenon DEF Removing
      <4>2. requests[q].scan \in Scans
        BY <1>1, <4>1 DEF Removing
      <4>3. deletes'[requests[q].scan] # "no"
        BY <1>1, <2>6, <4>1, <4>2, Zenon
      <4> QED
        BY <4>1, <4>3
    <3> QED
      BY <3>1, <3>2
  <2>8. DeleteStops'
    <3>1. ASSUME NEW t \in Scans, deletes'[t] # "no", t \notin purge
          PROVE  tasks'[t] = "over"
      <4>1. CASE t = s
        BY <1>1, <2>4, <3>1, <4>1
      <4>2. CASE t # s
        BY <1>1, <2>1, <2>3, <3>1, <4>2
      <4> QED
        BY <4>1, <4>2
    <3> QED
      BY <1>6, <3>1, Zenon DEF DeleteStops
  <2>9. \A t \in purge' : deletes'[t] # "no"
    BY <1>1, <1>6, <2>6
  <2>10. \A w \in strays' : deletes'[w.scan] # "no"
    <3>1. ASSUME NEW w \in strays'
          PROVE  deletes'[w.scan] # "no"
      <4>1. CASE w \in strays
        BY <1>1, <2>6, <4>1, Zenon
      <4>2. CASE w \notin strays
        <5>1. w.scan = s
          BY <2>1, <3>1, <4>2, Zenon
        <5>2. deletes'[s] # "no"
          BY <2>4, <3>1, <4>2, Zenon
        <5> QED
          BY <5>1, <5>2
      <4> QED
        BY <4>1, <4>2
    <3> QED
      BY <3>1, Zenon
  <2> QED
    BY <2>5, <2>7, <2>8, <2>9, <2>10, Zenon DEF DeleteInv
<1>7. ASSUME NEW r \in Requests, NEW s \in Scans, FoundMove(r, s) \/ LoadedMove(r, s)
      PROVE  DeleteInv'
  <2>1. CASE FoundMove(r, s)
    <3>1. /\ memory[s] \in Nat /\ memory[s] \in {0, memory[s]} /\ Accepted(s)
          /\ Proceeded(r, s, memory[s]) /\ purge' = purge
      BY <1>1, <2>1 DEF FoundMove
    <3> QED
      BY <1>6, <3>1, Zenon
  <2>2. CASE LoadedMove(r, s)
    <3>1. /\ r \in Loading /\ s = requests[r].scan /\ purge' = purge
          /\ Proceeded(r, s, Len(objects) + 1)
      BY <2>2, Zenon DEF LoadedMove
    <3>2. Accepted(s) /\ Len(objects) + 1 \in Nat /\ memory[s] \in {0, Len(objects) + 1}
      <4>1. requests[r].pc # "idle" /\ r \in Requests /\ memory[s] = 0
        BY <1>1, <3>1 DEF Loading
      <4>2. Accepted(s)
        BY <1>1, <3>1, <4>1, Zenon
      <4>3. Len(objects) \in Nat
        BY Shapes
      <4> QED
        BY <4>1, <4>2, <4>3
    <3> QED
      BY <1>6, <3>1, <3>2, Zenon
  <2> QED
    BY <1>7, <2>1, <2>2, Zenon
<1>8. ASSUME NEW r \in Requests, TurnMove(r) \/ SavedMove(r) \/ RemovedMove(r)
      PROVE  DeleteInv'
  <2>1. /\ UNCHANGED <<tasks, strays, purge>> /\ \A q \in Requests : q # r => requests'[q] = requests[q]
        /\ deletes' = deletes
           \/ /\ Removing(r)
              /\ deletes' = [deletes EXCEPT ![requests[r].scan] = deletes'[requests[r].scan]]
    BY <1>8, Zenon DEF TurnMove, SavedMove, RemovedMove, OnlyRequest
  <2>2. Removing(r)' => Removing(r) /\ requests'[r].scan = requests[r].scan
    BY <1>8, IdleType DEF TurnMove, SavedMove, RemovedMove, Removing, SameRequest
  <2>3. \A t \in Scans : deletes'[t] # "no" => deletes[t] # "no"
    <3>1. CASE deletes' = deletes
      BY <3>1
    <3>2. CASE /\ Removing(r)
               /\ deletes' = [deletes EXCEPT ![requests[r].scan] = deletes'[requests[r].scan]]
      <4>1. deletes[requests[r].scan] # "no"
        BY <1>1, <3>2, Zenon
      <4> QED
        BY <1>1, <3>2, <4>1
    <3> QED
      BY <2>1, <3>1, <3>2, Zenon
  <2>4. \A t \in Scans : deletes[t] # "no" => deletes'[t] # "no"
    BY <1>2, Zenon
  <2>5. \A t \in Scans : deletes'[t] # "no" => Accepted(t)'
    BY <1>1, <1>2, <2>3, Zenon
  <2>6. ASSUME NEW q \in Requests, Removing(q)'
        PROVE  deletes'[requests'[q].scan] # "no"
    <3>1. Removing(q) /\ requests'[q].scan = requests[q].scan
      BY <2>1, <2>2, <2>6, Zenon DEF Removing
    <3>2. requests[q].scan \in Scans /\ deletes[requests[q].scan] # "no"
      BY <1>1, <3>1 DEF Removing
    <3>3. deletes'[requests[q].scan] # "no"
      BY <2>4, <3>2, Zenon
    <3> QED
      BY <3>1, <3>3
  <2>7. DeleteStops'
    BY <1>1, <2>1, <2>3, Zenon DEF DeleteStops
  <2>8. /\ \A t \in purge' : deletes'[t] # "no"
        /\ \A w \in strays' : deletes'[w.scan] # "no"
    BY <1>1, <2>1, <2>4, Zenon
  <2> QED
    BY <2>5, <2>6, <2>7, <2>8, Zenon DEF DeleteInv
<1>9. ASSUME NEW w \in strays, Land(w)
      PROVE  DeleteInv'
  <2>1. /\ deletes' = deletes /\ purge' = purge /\ strays' = strays \ {w} /\ requests' = requests
        /\ tasks' = tasks
    BY <1>9, Zenon DEF Land
  <2> QED
    BY <1>3, <2>1
<1>10. CASE Purge
  <2>1. purge = {} /\ UNCHANGED <<tasks, strays, requests>>
    BY <1>10, Zenon DEF Purge
  <2>2. PICK old \in SUBSET {s \in Scans : Accepted(s) /\ disk[s].exists} \ {{}} :
          /\ purge' = old
          /\ deletes' = [s \in Scans |-> IF s \in old /\ deletes[s] = "no"
                                         THEN "begun" ELSE deletes[s]]
    BY <1>10, Zenon DEF Purge
  <2>3. /\ \A t \in Scans : deletes'[t] # "no" => t \in old \/ deletes[t] # "no"
        /\ \A t \in old : t \in Scans /\ deletes'[t] # "no" /\ Accepted(t)
        /\ \A t \in Scans : deletes[t] # "no" => deletes'[t] # "no"
    BY <1>1, <2>2
  <2>4. \A t \in Scans : deletes'[t] # "no" => Accepted(t)'
    BY <1>1, <1>2, <2>3, Zenon
  <2>5. ASSUME NEW q \in Requests, Removing(q)'
        PROVE  deletes'[requests'[q].scan] # "no"
    <3>1. Removing(q) /\ requests' = requests
      BY <2>1, <2>5, Zenon DEF Removing
    <3>2. requests[q].scan \in Scans /\ deletes[requests[q].scan] # "no"
      BY <1>1, <3>1 DEF Removing
    <3>3. deletes'[requests[q].scan] # "no"
      BY <2>3, <3>2, Zenon
    <3> QED
      BY <3>1, <3>3
  <2>6. DeleteStops'
    BY <1>1, <2>1, <2>2, <2>3, Zenon DEF DeleteStops
  <2>7. /\ \A t \in purge' : deletes'[t] # "no"
        /\ \A w \in strays' : deletes'[w.scan] # "no"
    BY <1>1, <2>1, <2>2, <2>3, Zenon
  <2> QED
    BY <2>4, <2>5, <2>6, <2>7, Zenon DEF DeleteInv
<1>11. CASE Restart
  <2>1. /\ deletes' = deletes /\ purge' = {} /\ strays' = {}
        /\ requests' = [r \in Requests |-> Idle]
        /\ tasks' = [s \in Scans |-> IF tasks[s] = "none" THEN "none"
                                     ELSE IF Accepted(s) THEN "over" ELSE "rejected"]
    BY <1>11, Zenon DEF Restart
  <2>2. \A s \in Scans : Accepted(s) => tasks'[s] = "over"
    BY <2>1 DEF Accepted, Uploading
  <2>3. \A s \in Scans : deletes'[s] # "no" => Accepted(s)'
    BY <1>1, <1>2, <2>1, Zenon
  <2>4. \A q \in Requests : ~ Removing(q)'
    BY <2>1, IdleType DEF Removing
  <2>5. DeleteStops'
    BY <1>1, <2>1, <2>2, Zenon DEF DeleteStops
  <2> QED
    BY <2>1, <2>3, <2>4, <2>5, Zenon DEF DeleteInv
<1>12. CASE UNCHANGED vars
  <2>1. /\ deletes' = deletes /\ purge' = purge /\ strays' = strays /\ requests' = requests
        /\ tasks' = tasks
    BY <1>12, Zenon DEF vars
  <2> QED
    BY <1>3, <2>1
<1> QED
  BY <1>4, <1>5, <1>7, <1>8, <1>9, <1>10, <1>11, <1>12, StepMoves, Zenon DEF Moves, ScanMove

-----------------------------------------------------------------------------
(* What is on disk.                                                        *)

LEMMA DiskStep ==
  ASSUME TypeInv, LifeInv, OwnershipInv, DeleteInv, DiskInv, [Next]_vars
  PROVE  DiskInv'
<1>1. /\ \A s \in Scans : Accepted(s) /\ deletes[s] = "no" => disk[s].exists /\ disk[s].info # None
      /\ \A s \in Scans : deletes'[s] = "no" => deletes[s] = "no"
      /\ tasks \in [Scans -> Tasks] /\ disk \in [Scans -> Files]
      /\ memory \in [Scans -> Nat]
  BY Shapes, DeletesStay, Zenon DEF DiskInv
<1>2. ASSUME \A t \in Scans : Accepted(t)' => Accepted(t), UNCHANGED disk
      PROVE  DiskInv'
  BY <1>1, <1>2, Zenon DEF DiskInv
<1>3. ASSUME NEW s \in Scans,
             \A t \in Scans : t # s => tasks'[t] = tasks[t] /\ disk'[t] = disk[t],
             Accepted(s)' /\ deletes'[s] = "no" => disk'[s].exists /\ disk'[s].info # None
      PROVE  DiskInv'
  <2>1. ASSUME NEW t \in Scans, tasks'[t] \notin Uploading, deletes'[t] = "no"
        PROVE  disk'[t].exists /\ disk'[t].info # None
    <3>1. CASE t = s
      BY <1>3, <2>1, <3>1, Zenon DEF Accepted
    <3>2. CASE t # s
      <4>1. tasks'[t] = tasks[t] /\ disk'[t] = disk[t]
        BY <1>3, <3>2
      <4>2. disk[t].exists /\ disk[t].info # None
        BY <1>1, <2>1, <4>1, Zenon DEF Accepted
      <4> QED
        BY <4>1, <4>2
    <3> QED
      BY <3>1, <3>2
  <2> QED
    BY <2>1, Zenon DEF DiskInv, Accepted
<1>4. ASSUME NEW s \in Scans, TaskMove(s)
      PROVE  DiskInv'
  <2>1. /\ tasks' = [tasks EXCEPT ![s] = tasks'[s]] /\ \A t \in Scans : t # s => disk'[t] = disk[t]
        /\ \/ tasks'[s] \in {"creating", "uploading", "rejected"}
           \/ disk'[s].exists /\ disk'[s].info # None
           \/ /\ tasks[s] \in {"starting", "working", "finishing", "failing"}
              /\ disk'[s].exists = disk[s].exists
              /\ disk[s].info # None => disk'[s].info # None
    BY <1>4 DEF TaskMove
  <2>2. \A t \in Scans : t # s => tasks'[t] = tasks[t]
    BY <1>1, <2>1
  <2>3. Accepted(s)' /\ deletes'[s] = "no" => disk'[s].exists /\ disk'[s].info # None
    <3>1. CASE tasks'[s] \in {"creating", "uploading", "rejected"}
      BY <3>1 DEF Accepted, Uploading
    <3>2. CASE /\ tasks[s] \in {"starting", "working", "finishing", "failing"}
               /\ disk'[s].exists = disk[s].exists
               /\ disk[s].info # None => disk'[s].info # None
      <4>1. Accepted(s)
        BY <3>2 DEF Accepted, Uploading
      <4> QED
        BY <1>1, <3>2, <4>1
    <3> QED
      BY <2>1, <3>1, <3>2
  <2> QED
    BY <1>3, <2>1, <2>2, <2>3, Zenon
<1>5. ASSUME NEW s \in Scans, Submit(s)
      PROVE  DiskInv'
  <2>1. disk' = disk /\ tasks' = [tasks EXCEPT ![s] = "queueing"]
    BY <1>5, Zenon DEF Submit, Step
  <2>2. tasks'[s] = "queueing" /\ \A t \in Scans : t # s => tasks'[t] = tasks[t] /\ disk'[t] = disk[t]
    BY <1>1, <2>1
  <2>3. ~ Accepted(s)'
    BY <2>2 DEF Accepted, Uploading
  <2> QED
    BY <1>3, <2>2, <2>3, Zenon
<1>6. ASSUME NEW s \in Scans, ObjectMove(s)
      PROVE  DiskInv'
  <2>1. /\ tasks' = [tasks EXCEPT ![s] = tasks'[s]] /\ \A t \in Scans : t # s => disk'[t] = disk[t]
        /\ disk'[s].exists = disk[s].exists /\ disk'[s].info = disk[s].info
        /\ Accepted(s)
    BY <1>6 DEF ObjectMove, Accepted, Uploading
  <2>2. \A t \in Scans : t # s => tasks'[t] = tasks[t]
    BY <1>1, <2>1
  <2>3. deletes'[s] = "no" => disk'[s].exists /\ disk'[s].info # None
    BY <1>1, <2>1
  <2> QED
    BY <1>3, <2>1, <2>2, <2>3, Zenon
<1>7. ASSUME NEW s \in Scans, Forget(s)
      PROVE  DiskInv'
  <2>1. disk' = disk /\ Accepted(s)
    BY <1>7, Zenon DEF Forget, DeleteInv
  <2>2. \A t \in Scans : t # s => tasks'[t] = tasks[t]
    BY <1>7, <2>1, ForgetStops, Zenon
  <2>3. \A t \in Scans : Accepted(t)' => Accepted(t)
    BY <2>1, <2>2, Zenon DEF Accepted
  <2> QED
    BY <1>2, <2>1, <2>3
<1>8. ASSUME NEW r \in Requests, NEW s \in Scans, FoundMove(r, s) \/ LoadedMove(r, s)
      PROVE  DiskInv'
  <2>1. /\ \A t \in Scans : t # s => tasks'[t] = tasks[t]
        /\ \A t \in Scans : t # s => disk'[t] = disk[t]
        /\ disk'[s].exists = disk[s].exists
        /\ disk[s].info # None => disk'[s].info # None
    BY <1>8, Zenon DEF FoundMove, LoadedMove, Proceeded
  <2>2. Accepted(s)
    <3>1. CASE LoadedMove(r, s)
      <4>1. r \in Requests /\ requests[r].pc # "idle" /\ s = requests[r].scan
        BY <3>1 DEF LoadedMove, Loading
      <4> QED
        BY <4>1, ItsScan, Zenon
    <3> QED
      BY <1>8, <3>1, Zenon DEF FoundMove
  <2>3. deletes'[s] = "no" => disk'[s].exists /\ disk'[s].info # None
    BY <1>1, <2>1, <2>2
  <2> QED
    BY <1>3, <2>1, <2>3, Zenon
<1>9. ASSUME NEW r \in Requests, SavedMove(r) \/ RemovedMove(r)
      PROVE  DiskInv'
  <2> DEFINE s == requests[r].scan
  <2>1. /\ tasks' = tasks /\ \A t \in Scans : t # s => disk'[t] = disk[t]
        /\ requests[r].pc # "idle"
        /\ (disk'[s].exists /\ disk'[s].info = disk[s].info) \/ Removing(r)
    BY <1>9 DEF SavedMove, RemovedMove, Removing
  <2>2. s \in Scans /\ Accepted(s)
    BY <2>1, ItsScan
  <2>3. deletes'[s] = "no" => disk'[s].exists /\ disk'[s].info # None
    <3>1. Removing(r) => deletes[s] # "no"
      BY Zenon DEF DeleteInv
    <3> QED
      BY <1>1, <2>1, <2>2, <3>1
  <2> HIDE DEF s
  <2>4. \A t \in Scans : t # s => tasks'[t] = tasks[t] /\ disk'[t] = disk[t]
    BY <2>1
  <2> QED
    BY <1>3, <2>2, <2>3, <2>4, Zenon
<1>10. ASSUME NEW w \in strays, Land(w)
       PROVE  DiskInv'
  <2>1. tasks' = tasks /\ deletes[w.scan] # "no"
    BY <1>10, Zenon DEF Land, DeleteInv
  <2>2. \A t \in Scans : t # w.scan => disk'[t] = disk[t]
    BY <1>1, <1>10 DEF Land, Put
  <2>3. ASSUME NEW t \in Scans, tasks'[t] \notin Uploading, deletes'[t] = "no"
        PROVE  disk'[t].exists /\ disk'[t].info # None
    <3>1. t # w.scan /\ disk'[t] = disk[t]
      BY <1>1, <2>1, <2>2, <2>3
    <3> QED
      BY <1>1, <2>1, <2>3, <3>1 DEF Accepted
  <2> QED
    BY <2>3, Zenon DEF DiskInv, Accepted
<1>11. CASE Purge
  <2>1. tasks' = tasks
    BY <1>11, Zenon DEF Purge
  <2>2. \A t \in Scans : deletes'[t] = "no" => disk'[t] = disk[t]
    BY <1>1, <1>11 DEF Purge
  <2>3. ASSUME NEW t \in Scans, tasks'[t] \notin Uploading, deletes'[t] = "no"
        PROVE  disk'[t].exists /\ disk'[t].info # None
    BY <1>1, <2>1, <2>2, <2>3 DEF Accepted
  <2> QED
    BY <2>3, Zenon DEF DiskInv, Accepted
<1>12. CASE Restart
  <2>1. /\ disk' = disk
        /\ tasks' = [s \in Scans |-> IF tasks[s] = "none" THEN "none"
                                     ELSE IF Accepted(s) THEN "over" ELSE "rejected"]
    BY <1>12, Zenon DEF Restart
  <2>2. \A t \in Scans : Accepted(t)' => Accepted(t)
    BY <2>1 DEF Accepted, Uploading
  <2> QED
    BY <1>2, <2>1, <2>2
<1>13. CASE tasks' = tasks /\ disk' = disk
  BY <1>2, <1>13, Zenon DEF Accepted
<1>14. \/ tasks' = tasks /\ disk' = disk
       \/ \E s \in Scans : ScanMove(s)
       \/ \E r \in Requests : \/ \E s \in Scans : FoundMove(r, s) \/ LoadedMove(r, s)
                              \/ SavedMove(r) \/ RemovedMove(r)
       \/ \E w \in strays : Land(w)
       \/ Purge \/ Restart
  BY StepMoves, Zenon DEF Moves, TurnMove, vars
<1> QED
  BY <1>4, <1>5, <1>6, <1>7, <1>8, <1>9, <1>10, <1>11, <1>12, <1>13, <1>14, Zenon DEF ScanMove

-----------------------------------------------------------------------------
(* The semaphore.                                                          *)

LEMMA HoldersStep ==
  ASSUME TypeInv, LifeInv, OwnershipInv, DeleteInv, HoldersInv, [Next]_vars
  PROVE  HoldersInv'
<1>1. /\ tasks \in [Scans -> Tasks] /\ IsFiniteSet(Holders) /\ Cardinality(Holders) <= MaxConcurrent
      /\ MaxConcurrent \in Nat
  BY Shapes DEF HoldersInv
<1>2. ASSUME \A s \in Scans : tasks'[s] = tasks[s] \/ ~ Holding(s)' \/ Holding(s)
      PROVE  HoldersInv'
  <2>1. Holders' \subseteq Holders
    BY <1>2, Zenon DEF Holders, Holding
  <2>2. IsFiniteSet(Holders') /\ Cardinality(Holders') <= Cardinality(Holders)
    BY <1>1, <2>1, FS_Subset
  <2>3. Cardinality(Holders') \in Nat /\ Cardinality(Holders) \in Nat
    BY <1>1, <2>2, FS_CardinalityType
  <2>4. Cardinality(Holders') <= MaxConcurrent
    BY <1>1, <2>2, <2>3
  <2> QED
    BY <2>2, <2>4, Zenon DEF HoldersInv
<1>3. ASSUME NEW s \in Scans, ObjectMove(s), tasks[s] = "waiting"
      PROVE  HoldersInv'
  <2>1. /\ tasks' = [tasks EXCEPT ![s] = tasks'[s]] /\ Cardinality(Holders) < MaxConcurrent
        /\ tasks'[s] = "starting"
    BY <1>3 DEF ObjectMove
  <2>2. \A t \in Scans : t # s => tasks'[t] = tasks[t]
    BY <1>1, <2>1
  <2>3. Holders' = Holders \cup {s} /\ s \notin Holders
    <3>1. Holding(s)' /\ ~ Holding(s)
      BY <1>3, <2>1 DEF Holding
    <3>2. \A t \in Scans : t # s => (Holding(t)' <=> Holding(t))
      BY <2>2, Zenon DEF Holding
    <3> QED
      BY <3>1, <3>2, Zenon DEF Holders
  <2>4. IsFiniteSet(Holders \cup {s}) /\ Cardinality(Holders \cup {s}) = Cardinality(Holders) + 1
    BY <1>1, <2>3, FS_AddElement
  <2>5. Cardinality(Holders) \in Nat
    BY <1>1, FS_CardinalityType
  <2>6. Cardinality(Holders') <= MaxConcurrent
    BY <1>1, <2>1, <2>3, <2>4, <2>5
  <2> QED
    BY <2>3, <2>4, <2>6, Zenon DEF HoldersInv
<1>4. ASSUME NEW s \in Scans, TaskMove(s) \/ (ObjectMove(s) /\ tasks[s] # "waiting") \/ Submit(s)
      PROVE  HoldersInv'
  <2>1. \E pc \in {tasks'[s], "queueing"} : tasks' = [tasks EXCEPT ![s] = pc]
    BY <1>4, Zenon DEF TaskMove, ObjectMove, Submit, Step
  <2>3. \A t \in Scans : t # s => tasks'[t] = tasks[t]
    BY <1>1, <2>1
  <2>4. Holding(s)' => Holding(s)
    <3>1. CASE Submit(s)
      <4>1. tasks' = [tasks EXCEPT ![s] = "queueing"]
        BY <3>1, Zenon DEF Submit, Step
      <4> QED
        BY <1>1, <4>1 DEF Holding
    <3>2. CASE TaskMove(s) \/ (ObjectMove(s) /\ tasks[s] # "waiting")
      BY <3>2 DEF TaskMove, ObjectMove, Holding
    <3> QED
      BY <1>4, <3>1, <3>2
  <2> QED
    BY <1>2, <2>3, <2>4, Zenon
<1>5. ASSUME NEW s \in Scans, tasks'[s] \in {tasks[s], "over"},
             \A t \in Scans : t # s => tasks'[t] = tasks[t]
      PROVE  HoldersInv'
  <2>1. tasks'[s] = tasks[s] \/ ~ Holding(s)'
    BY <1>5 DEF Holding
  <2> QED
    BY <1>2, <1>5, <2>1, Zenon
<1>6. ASSUME NEW s \in Scans, Forget(s)
      PROVE  HoldersInv'
  <2>1. Accepted(s)
    BY <1>6, Zenon DEF Forget, DeleteInv
  <2>2. tasks'[s] = "over" /\ \A t \in Scans : t # s => tasks'[t] = tasks[t]
    BY <1>6, <2>1, ForgetStops, Zenon
  <2> QED
    BY <1>5, <2>2
<1>7. ASSUME NEW r \in Requests, NEW s \in Scans, FoundMove(r, s) \/ LoadedMove(r, s)
      PROVE  HoldersInv'
  <2>1. /\ tasks'[s] \in {tasks[s], "over"} /\ \A t \in Scans : t # s => tasks'[t] = tasks[t]
    BY <1>7, Zenon DEF FoundMove, LoadedMove, Proceeded
  <2> QED
    BY <1>5, <2>1, Zenon
<1>8. CASE Restart
  <2>1. tasks' = [s \in Scans |-> IF tasks[s] = "none" THEN "none"
                                  ELSE IF Accepted(s) THEN "over" ELSE "rejected"]
    BY <1>8, Zenon DEF Restart
  <2>2. \A s \in Scans : ~ Holding(s)'
    BY <2>1 DEF Holding
  <2> QED
    BY <1>2, <2>2, Zenon
<1>9. CASE tasks' = tasks
  BY <1>2, <1>9
<1>10. \/ tasks' = tasks
       \/ \E s \in Scans : ScanMove(s)
       \/ \E r \in Requests, s \in Scans : FoundMove(r, s) \/ LoadedMove(r, s)
       \/ Restart
  BY StepMoves, Zenon DEF Moves, TurnMove, SavedMove, RemovedMove, Land, Purge, vars
<1> QED
  BY <1>3, <1>4, <1>6, <1>7, <1>8, <1>9, <1>10, Zenon DEF ScanMove

-----------------------------------------------------------------------------
(* Statuses.                                                               *)

LEMMA StatusStep ==
  ASSUME TypeInv, LifeInv, OwnershipInv, DeleteInv, StatusInv, [Next]_vars
  PROVE  StatusInv'
<1>1. /\ Len(objects) \in Nat /\ memory \in [Scans -> Nat] /\ tasks \in [Scans -> Tasks]
      /\ own \in [Scans -> Nat] /\ objects \in Seq(Object)
      /\ \A t \in Scans : memory[t] <= Len(objects) /\ own[t] <= Len(objects)
      /\ \A t \in Scans : memory[t] # 0 => StatusFits(tasks[t], objects[memory[t]].status)
      /\ \A t \in Scans : memory[t] # 0 => memory[t] \in 1..Len(objects)
  <2>1. /\ Len(objects) \in Nat /\ memory \in [Scans -> Nat] /\ tasks \in [Scans -> Tasks]
        /\ own \in [Scans -> Nat] /\ objects \in Seq(Object)
        /\ \A t \in Scans : memory[t] <= Len(objects) /\ own[t] <= Len(objects)
    BY Shapes, Zenon
  <2>2. \A t \in Scans : memory[t] # 0 => StatusFits(tasks[t], objects[memory[t]].status)
    BY Zenon DEF StatusInv, InMemory, Status
  <2>3. \A t \in Scans : memory[t] # 0 => memory[t] \in 1..Len(objects)
    BY <2>1
  <2> QED
    BY <2>1, <2>2, <2>3, Zenon
<1>2. ASSUME NEW s \in Scans,
             \A t \in Scans : t # s => tasks'[t] = tasks[t] /\ memory'[t] = memory[t],
             \A t \in Scans : t # s /\ memory[t] # 0
                                => objects'[memory[t]].status = objects[memory[t]].status,
             memory'[s] # 0 => StatusFits(tasks'[s], objects'[memory'[s]].status)
      PROVE  StatusInv'
  <2>1. ASSUME NEW t \in Scans, memory'[t] # 0
        PROVE  StatusFits(tasks'[t], objects'[memory'[t]].status)
    <3>1. CASE t = s
      BY <1>2, <2>1, <3>1, Zenon
    <3>2. CASE t # s
      <4>1. tasks'[t] = tasks[t] /\ memory'[t] = memory[t]
        BY <1>2, <3>2, Zenon
      <4>2. memory[t] # 0
        BY <2>1, <4>1, Zenon
      <4>3. objects'[memory[t]].status = objects[memory[t]].status
        BY <1>2, <3>2, <4>2, Zenon
      <4>4. StatusFits(tasks[t], objects[memory[t]].status)
        BY <1>1, <4>2, Zenon
      <4> QED
        BY <4>1, <4>3, <4>4, Zenon
    <3> QED
      BY <3>1, <3>2
  <2> QED
    BY <2>1, Zenon DEF StatusInv, InMemory, Status
<1>3. ASSUME UNCHANGED <<tasks, memory>>,
             \A t \in Scans : memory[t] # 0
                                => objects'[memory[t]].status = objects[memory[t]].status
      PROVE  StatusInv'
  <2>1. ASSUME NEW t \in Scans, memory[t] # 0
        PROVE  StatusFits(tasks[t], objects'[memory[t]].status)
    <3>1. objects'[memory[t]].status = objects[memory[t]].status
      BY <1>3, <2>1, Zenon
    <3>2. StatusFits(tasks[t], objects[memory[t]].status)
      BY <1>1, <2>1, Zenon
    <3> QED
      BY <3>1, <3>2, Zenon
  <2>2. tasks' = tasks /\ memory' = memory
    BY <1>3
  <2> QED
    BY <2>1, <2>2, Zenon DEF StatusInv, InMemory, Status
<1>4. ASSUME NEW s \in Scans, TaskMove(s)
      PROVE  StatusInv'
  <2>1. objects' = objects /\ memory' = memory /\ tasks' = [tasks EXCEPT ![s] = tasks'[s]]
    BY <1>4, Zenon DEF TaskMove, store
  <2>2. \A t \in Scans : t # s => tasks'[t] = tasks[t]
    BY <1>1, <2>1
  <2>3. ASSUME memory[s] # 0
        PROVE  StatusFits(tasks'[s], objects[memory[s]].status)
    <3>1. tasks[s] \notin {"none", "creating", "uploading"}
      BY <2>3, Zenon DEF LifeInv
    <3>2. StatusFits(tasks[s], objects[memory[s]].status)
      BY <1>1, <2>3, Zenon
    <3>3. \/ tasks[s] = "queueing" /\ tasks'[s] \in {"rejected", "waiting"}
          \/ tasks[s] = "starting" /\ tasks'[s] = "working"
          \/ tasks[s] = "working" /\ tasks'[s] = "saving"
          \/ tasks[s] \in {"finishing", "failing"} /\ tasks'[s] = "over"
      BY <1>4, <3>1 DEF TaskMove
    <3> QED
      BY <3>2, <3>3 DEF StatusFits
  <2>4. memory'[s] # 0 => StatusFits(tasks'[s], objects'[memory'[s]].status)
    BY <2>1, <2>3
  <2>5. /\ \A t \in Scans : t # s => tasks'[t] = tasks[t] /\ memory'[t] = memory[t]
        /\ \A t \in Scans : t # s /\ memory[t] # 0
                              => objects'[memory[t]].status = objects[memory[t]].status
    BY <2>1, <2>2
  <2> QED
    BY <1>2, <2>4, <2>5, Zenon
<1>5. ASSUME NEW s \in Scans, Submit(s)
      PROVE  StatusInv'
  <2>1. /\ objects' = Append(objects, NewObject(Queued, None))
        /\ memory' = [memory EXCEPT ![s] = Len(objects')] /\ tasks' = [tasks EXCEPT ![s] = "queueing"]
    BY <1>5, Zenon DEF Submit, Step
  <2>2. /\ \A o \in 1..Len(objects) : objects'[o] = objects[o]
        /\ objects'[Len(objects')] = NewObject(Queued, None)
    BY <2>1, NewObjectEffect DEF Statuses, Reports
  <2>3. StatusFits("queueing", NewObject(Queued, None).status)
    BY DEF StatusFits, NewObject
  <2>4. /\ memory'[s] = Len(objects') /\ tasks'[s] = "queueing"
        /\ \A t \in Scans : t # s => tasks'[t] = tasks[t] /\ memory'[t] = memory[t]
    BY <1>1, <2>1
  <2>5. \A t \in Scans : t # s /\ memory[t] # 0
                              => objects'[memory[t]].status = objects[memory[t]].status
    BY <1>1, <2>2, Zenon
  <2>6. StatusFits(tasks'[s], objects'[memory'[s]].status)
    BY <2>2, <2>3, <2>4, Zenon
  <2> QED
    BY <1>2, <2>4, <2>5, <2>6, Zenon
<1>6. ASSUME NEW s \in Scans, ObjectMove(s)
      PROVE  StatusInv'
  <2>1. /\ memory' = memory /\ tasks' = [tasks EXCEPT ![s] = tasks'[s]]
        /\ own[s] \in 1..Len(objects)
        /\ \A o \in 1..Len(objects) : o # own[s] => objects'[o] = objects[o]
    BY <1>6, Zenon DEF ObjectMove
  <2>2. memory[s] = own[s]
    <3>1. tasks[s] \in Active
      BY <1>6 DEF ObjectMove, Active
    <3> QED
      BY <3>1, Zenon DEF LifeInv
  <2>3. \A t \in Scans : t # s /\ memory[t] # 0 => memory[t] # own[s]
    BY <1>1, <2>1, <2>2 DEF OwnershipInv
  <2>4. \A t \in Scans : t # s /\ memory[t] # 0
                              => objects'[memory[t]].status = objects[memory[t]].status
    BY <1>1, <2>1, <2>3, Zenon
  <2>5. StatusFits(tasks'[s], objects'[own[s]].status)
    BY <1>6 DEF ObjectMove, StatusFits
  <2>6. \A t \in Scans : t # s => tasks'[t] = tasks[t] /\ memory'[t] = memory[t]
    BY <1>1, <2>1
  <2>7. StatusFits(tasks'[s], objects'[memory'[s]].status)
    BY <2>1, <2>2, <2>5
  <2> QED
    BY <1>2, <2>4, <2>6, <2>7, Zenon
<1>7. ASSUME NEW s \in Scans, Forget(s)
      PROVE  StatusInv'
  <2>1. objects' = objects /\ memory' = [memory EXCEPT ![s] = 0] /\ Accepted(s)
    BY <1>7, Zenon DEF Forget, DeleteInv
  <2>2. \A t \in Scans : t # s => tasks'[t] = tasks[t]
    BY <1>7, <2>1, ForgetStops, Zenon
  <2>3. memory'[s] = 0 /\ \A t \in Scans : t # s => memory'[t] = memory[t]
    BY <1>1, <2>1
  <2> QED
    BY <1>2, <2>1, <2>2, <2>3, Zenon
<1>8. ASSUME NEW r \in Requests, NEW s \in Scans, FoundMove(r, s)
      PROVE  StatusInv'
  <2>1. /\ objects' = objects /\ memory' = [memory EXCEPT ![s] = memory'[s]]
        /\ \A t \in Scans : t # s => tasks'[t] = tasks[t]
        /\ (memory'[s] = memory[s] /\ tasks'[s] = tasks[s]) \/ memory'[s] = 0
        /\ memory[s] # 0
    BY <1>8, Zenon DEF FoundMove, Proceeded
  <2>2. \A t \in Scans : t # s => memory'[t] = memory[t]
    BY <1>1, <2>1
  <2>3. memory'[s] # 0 => StatusFits(tasks'[s], objects'[memory'[s]].status)
    BY <1>1, <2>1
  <2> QED
    BY <1>2, <2>1, <2>2, <2>3, Zenon
<1>9. ASSUME NEW r \in Requests, NEW s \in Scans, LoadedMove(r, s)
      PROVE  StatusInv'
  <2>1. /\ memory' = [memory EXCEPT ![s] = memory'[s]]
        /\ \A t \in Scans : t # s => tasks'[t] = tasks[t]
        /\ (memory'[s] = Len(objects) + 1 /\ tasks'[s] = tasks[s]) \/ memory'[s] = 0
        /\ r \in Loading /\ s = requests[r].scan
    BY <1>9, Zenon DEF LoadedMove, Proceeded
  <2>2. PICK status \in {Done, Failed}, report \in Reports :
          objects' = Append(objects, NewObject(status, report))
    BY <1>9, Zenon DEF LoadedMove
  <2>3. /\ \A o \in 1..Len(objects) : objects'[o] = objects[o]
        /\ objects'[Len(objects) + 1] = NewObject(status, report)
    BY <2>2, NewObjectEffect DEF Statuses
  <2>4. tasks[s] = "over"
    <3>1. requests[r].pc # "idle" /\ r \in Requests /\ memory[s] = 0
      BY <2>1 DEF Loading, LifeInv
    <3>2. Accepted(s)
      BY <2>1, <3>1, ItsScan, Zenon
    <3> QED
      BY <3>1, <3>2, NotInMemory, Zenon
  <2>5. StatusFits("over", NewObject(status, report).status)
    BY DEF StatusFits, NewObject
  <2>6. \A t \in Scans : t # s => memory'[t] = memory[t]
    BY <1>1, <2>1
  <2>7. \A t \in Scans : t # s /\ memory[t] # 0
                              => objects'[memory[t]].status = objects[memory[t]].status
    BY <1>1, <2>3, Zenon
  <2>8. memory'[s] # 0 => StatusFits(tasks'[s], objects'[memory'[s]].status)
    BY <2>1, <2>3, <2>4, <2>5, Zenon
  <2> QED
    BY <1>2, <2>1, <2>6, <2>7, <2>8, Zenon
<1>10. ASSUME NEW r \in Requests, SavedMove(r)
       PROVE  StatusInv'
  <2>1. /\ UNCHANGED <<tasks, memory>>
        /\ \A p \in 1..Len(objects) : objects'[p].status = objects[p].status
    BY <1>10, Zenon DEF SavedMove
  <2> QED
    BY <1>1, <1>3, <2>1, Zenon
<1>11. CASE Restart
  <2>1. \A t \in Scans : memory'[t] = 0
    BY <1>11 DEF Restart
  <2> QED
    BY <2>1, Zenon DEF StatusInv, InMemory
<1>12. CASE UNCHANGED <<tasks, memory, objects>>
  <2>1. UNCHANGED <<tasks, memory>> /\ objects' = objects
    BY <1>12, Zenon
  <2> QED
    BY <1>3, <2>1
<1>13. \/ UNCHANGED <<tasks, memory, objects>>
       \/ \E s \in Scans : ScanMove(s)
       \/ \E r \in Requests : \/ \E s \in Scans : FoundMove(r, s) \/ LoadedMove(r, s)
                              \/ SavedMove(r)
       \/ Restart
  BY StepMoves, Zenon DEF Moves, TurnMove, RemovedMove, Land, Purge, vars, store
<1> QED
  BY <1>4, <1>5, <1>6, <1>7, <1>8, <1>9, <1>10, <1>11, <1>12, <1>13, Zenon DEF ScanMove

-----------------------------------------------------------------------------
(* Decisions.                                                              *)

\* What happens to the object of one scan, or to no object at all.
LEMMA Objects ==
  ASSUME TypeInv
  PROVE  /\ Len(objects) \in Nat /\ memory \in [Scans -> Nat] /\ tasks \in [Scans -> Tasks]
         /\ own \in [Scans -> Nat] /\ acked \in [Scans -> SUBSET Requests]
         /\ disk \in [Scans -> Files] /\ deletes \in [Scans -> Deletes]
         /\ \A t \in Scans : memory[t] # 0 => memory[t] \in 1..Len(objects)
         /\ \A r \in Requests : requests[r].object # 0 => requests[r].object \in 1..Len(objects)
         /\ \A o \in 1..Len(objects) : objects[o].report \in Reports
<1>1. /\ objects \in Seq(Object) /\ Len(objects) \in Nat /\ memory \in [Scans -> Nat]
      /\ \A s \in Scans : memory[s] <= Len(objects)
      /\ \A r \in Requests : requests[r].object <= Len(objects) /\ requests[r].object \in Nat
  BY Shapes, Zenon
<1>2. \A t \in Scans : memory[t] # 0 => memory[t] \in 1..Len(objects)
  BY <1>1
<1>3. \A r \in Requests : requests[r].object # 0 => requests[r].object \in 1..Len(objects)
  BY <1>1
<1>4. \A o \in 1..Len(objects) : objects[o] \in Object
  BY <1>1
<1>5. \A o \in 1..Len(objects) : objects[o].report \in Reports
  BY <1>4 DEF Object
<1> QED
  BY <1>2, <1>3, <1>5, Shapes, Zenon

LEMMA UndecidedStep ==
  ASSUME TypeInv, LifeInv, OwnershipInv, DeleteInv, UndecidedInv, SaversInv, [Next]_vars
  PROVE  UndecidedInv'
<1>1. /\ Len(objects) \in Nat /\ memory \in [Scans -> Nat] /\ tasks \in [Scans -> Tasks]
      /\ acked \in [Scans -> SUBSET Requests]
      /\ \A t \in Scans : memory[t] # 0 => memory[t] \in 1..Len(objects)
      /\ \A t \in Scans : tasks[t] \notin Decidable =>
           /\ acked[t] = {}
           /\ memory[t] # 0 => objects[memory[t]].report = None
  BY Objects, Zenon DEF UndecidedInv, InMemory
<1>2. ASSUME NEW s \in Scans,
             \A t \in Scans : t # s => /\ tasks'[t] = tasks[t] /\ memory'[t] = memory[t]
                                       /\ acked'[t] = acked[t],
             \A t \in Scans : t # s /\ memory[t] # 0
                                => objects'[memory[t]].report = objects[memory[t]].report,
             tasks'[s] \notin Decidable =>
               /\ acked'[s] = {}
               /\ memory'[s] # 0 => objects'[memory'[s]].report = None
      PROVE  UndecidedInv'
  <2>1. ASSUME NEW t \in Scans, tasks'[t] \notin Decidable
        PROVE  /\ acked'[t] = {}
               /\ memory'[t] # 0 => objects'[memory'[t]].report = None
    <3>1. CASE t = s
      BY <1>2, <2>1, <3>1, Zenon
    <3>2. CASE t # s
      <4>1. tasks'[t] = tasks[t] /\ memory'[t] = memory[t] /\ acked'[t] = acked[t]
        BY <1>2, <3>2, Zenon
      <4>2. acked[t] = {} /\ (memory[t] # 0 => objects[memory[t]].report = None)
        BY <1>1, <2>1, <4>1, Zenon
      <4>3. memory[t] # 0 => objects'[memory[t]].report = objects[memory[t]].report
        BY <1>2, <3>2, Zenon
      <4> QED
        BY <4>1, <4>2, <4>3
    <3> QED
      BY <3>1, <3>2
  <2> QED
    BY <2>1, Zenon DEF UndecidedInv, InMemory
<1>3. ASSUME NEW s \in Scans, TaskMove(s)
      PROVE  UndecidedInv'
  <2>1. /\ objects' = objects /\ memory' = memory /\ acked' = acked
        /\ tasks' = [tasks EXCEPT ![s] = tasks'[s]]
    BY <1>3, Zenon DEF TaskMove, store
  <2>2. tasks'[s] \notin Decidable => tasks[s] \notin Decidable
    BY <1>3 DEF TaskMove, Decidable
  <2>3. \A t \in Scans : t # s => tasks'[t] = tasks[t]
    BY <1>1, <2>1
  <2>4. tasks'[s] \notin Decidable =>
          acked'[s] = {} /\ (memory'[s] # 0 => objects'[memory'[s]].report = None)
    BY <1>1, <2>1, <2>2
  <2>5. /\ \A t \in Scans : t # s => memory'[t] = memory[t] /\ acked'[t] = acked[t]
        /\ \A t \in Scans : t # s /\ memory[t] # 0
                              => objects'[memory[t]].report = objects[memory[t]].report
    BY <2>1
  <2> QED
    BY <1>2, <2>3, <2>4, <2>5, Zenon
<1>4. ASSUME NEW s \in Scans, Submit(s)
      PROVE  UndecidedInv'
  <2>1. /\ objects' = Append(objects, NewObject(Queued, None)) /\ acked' = acked
        /\ memory' = [memory EXCEPT ![s] = Len(objects')]
        /\ tasks' = [tasks EXCEPT ![s] = "queueing"] /\ tasks[s] = "uploading"
    BY <1>4, Zenon DEF Submit, Step
  <2>2. /\ \A o \in 1..Len(objects) : objects'[o] = objects[o]
        /\ objects'[Len(objects')] = NewObject(Queued, None)
    BY <2>1, NewObjectEffect DEF Statuses, Reports
  <2>3. NewObject(Queued, None).report = None
    BY DEF NewObject
  <2>4. /\ memory'[s] = Len(objects')
        /\ \A t \in Scans : t # s => tasks'[t] = tasks[t] /\ memory'[t] = memory[t]
    BY <1>1, <2>1
  <2>5. acked[s] = {}
    BY <1>1, <2>1 DEF Decidable
  <2>6. acked'[s] = {} /\ objects'[memory'[s]].report = None
    BY <2>1, <2>2, <2>3, <2>4, <2>5, Zenon
  <2>7. \A t \in Scans : t # s /\ memory[t] # 0
                              => objects'[memory[t]].report = objects[memory[t]].report
    BY <1>1, <2>2, Zenon
  <2>8. \A t \in Scans : t # s => acked'[t] = acked[t]
    BY <2>1
  <2> QED
    BY <1>2, <2>4, <2>6, <2>7, <2>8, Zenon
<1>5. ASSUME NEW s \in Scans, ObjectMove(s)
      PROVE  UndecidedInv'
  <2>1. /\ memory' = memory /\ acked' = acked /\ tasks' = [tasks EXCEPT ![s] = tasks'[s]]
        /\ own[s] \in 1..Len(objects)
        /\ \A o \in 1..Len(objects) : o # own[s] => objects'[o] = objects[o]
    BY <1>5, Zenon DEF ObjectMove
  <2>2. memory[s] = own[s]
    <3>1. tasks[s] \in Active
      BY <1>5 DEF ObjectMove, Active
    <3> QED
      BY <3>1, Zenon DEF LifeInv
  <2>3. \A t \in Scans : t # s /\ memory[t] # 0 => memory[t] # own[s]
    BY <1>1, <2>1, <2>2 DEF OwnershipInv
  <2>4. \A t \in Scans : t # s /\ memory[t] # 0
                              => objects'[memory[t]].report = objects[memory[t]].report
    BY <1>1, <2>1, <2>3, Zenon
  <2>5. tasks'[s] \notin Decidable =>
           tasks[s] \notin Decidable /\ objects'[own[s]].report = None
    BY <1>5 DEF ObjectMove, Decidable
  <2>6. \A t \in Scans : t # s => /\ tasks'[t] = tasks[t] /\ memory'[t] = memory[t]
                                  /\ acked'[t] = acked[t]
    BY <1>1, <2>1
  <2>7. tasks'[s] \notin Decidable =>
          acked'[s] = {} /\ (memory'[s] # 0 => objects'[memory'[s]].report = None)
    BY <1>1, <2>1, <2>2, <2>5
  <2> QED
    BY <1>2, <2>4, <2>6, <2>7, Zenon
<1>6. ASSUME NEW s \in Scans, Forget(s)
      PROVE  UndecidedInv'
  <2>1. /\ objects' = objects /\ acked' = acked /\ memory' = [memory EXCEPT ![s] = 0]
        /\ Accepted(s)
    BY <1>6, Zenon DEF Forget, DeleteInv
  <2>2. tasks'[s] = "over" /\ \A t \in Scans : t # s => tasks'[t] = tasks[t]
    BY <1>6, <2>1, ForgetStops, Zenon
  <2>3. /\ tasks'[s] \in Decidable
        /\ \A t \in Scans : t # s => memory'[t] = memory[t] /\ acked'[t] = acked[t]
    BY <1>1, <2>1, <2>2 DEF Decidable
  <2> QED
    BY <1>2, <2>1, <2>2, <2>3, Zenon
<1>7. ASSUME NEW r \in Requests, NEW s \in Scans, FoundMove(r, s)
      PROVE  UndecidedInv'
  <2>1. /\ objects' = objects /\ memory' = [memory EXCEPT ![s] = memory'[s]] /\ acked' = acked
        /\ \A t \in Scans : t # s => tasks'[t] = tasks[t]
        /\ memory'[s] \in {memory[s], 0} /\ tasks'[s] \in {tasks[s], "over"}
    BY <1>7, Zenon DEF FoundMove, Proceeded
  <2>2. \A t \in Scans : t # s => memory'[t] = memory[t] /\ acked'[t] = acked[t]
    BY <1>1, <2>1
  <2>3. tasks'[s] \notin Decidable =>
          acked'[s] = {} /\ (memory'[s] # 0 => objects'[memory'[s]].report = None)
    <3>1. tasks'[s] \notin Decidable => tasks'[s] = tasks[s]
      BY <2>1 DEF Decidable
    <3> QED
      BY <1>1, <2>1, <3>1
  <2> QED
    BY <1>2, <2>1, <2>2, <2>3, Zenon
<1>8. ASSUME NEW r \in Requests, NEW s \in Scans, LoadedMove(r, s)
      PROVE  UndecidedInv'
  <2>1. /\ memory' = [memory EXCEPT ![s] = memory'[s]] /\ acked' = acked
        /\ \A t \in Scans : t # s => tasks'[t] = tasks[t]
        /\ tasks'[s] \in {tasks[s], "over"}
        /\ r \in Loading /\ s = requests[r].scan
    BY <1>8, Zenon DEF LoadedMove, Proceeded
  <2>2. PICK status \in {Done, Failed}, report \in Reports :
          objects' = Append(objects, NewObject(status, report))
    BY <1>8, Zenon DEF LoadedMove
  <2>3. \A o \in 1..Len(objects) : objects'[o] = objects[o]
    BY <2>2, NewObjectEffect DEF Statuses
  <2>4. tasks'[s] \in Decidable
    <3>1. requests[r].pc # "idle" /\ r \in Requests /\ memory[s] = 0
      BY <2>1 DEF Loading, LifeInv
    <3>2. Accepted(s)
      BY <2>1, <3>1, ItsScan, Zenon
    <3>3. tasks[s] = "over"
      BY <3>1, <3>2, NotInMemory, Zenon
    <3> QED
      BY <2>1, <3>3 DEF Decidable
  <2>5. \A t \in Scans : t # s => memory'[t] = memory[t] /\ acked'[t] = acked[t]
    BY <1>1, <2>1
  <2>6. \A t \in Scans : t # s /\ memory[t] # 0
                              => objects'[memory[t]].report = objects[memory[t]].report
    BY <1>1, <2>3, Zenon
  <2> QED
    BY <1>2, <2>1, <2>4, <2>5, <2>6, Zenon
<1>9. ASSUME NEW r \in Requests, SavedMove(r)
      PROVE  UndecidedInv'
  <2> DEFINE s == requests[r].scan
             o == requests[r].object
  <2>1. /\ tasks' = tasks /\ memory' = memory /\ acked' = [acked EXCEPT ![s] = @ \cup {r}]
        /\ \A p \in 1..Len(objects) : p # o => objects'[p] = objects[p]
        /\ requests[r].pc = "saving"
    BY <1>9, Zenon DEF SavedMove
  <2>2. s \in Scans /\ Accepted(s) /\ Deciding(r) /\ objects[o].report # None
    BY <2>1, ItsScan DEF Deciding, SaversInv
  <2>3. \A t \in Scans : o \in {own[t], memory[t]} => t = s
    BY <2>2, Zenon DEF OwnershipInv
  <2>4. tasks[s] \in Decidable
    <3>1. ASSUME tasks[s] \notin Decidable
          PROVE  FALSE
      <4>1. tasks[s] \in Active
        BY <1>1, <2>2, <3>1 DEF Accepted, Tasks, Decidable
      <4>2. o = memory[s] /\ memory[s] # 0
        BY <2>2, <4>1, Zenon DEF LifeInv
      <4> QED
        BY <1>1, <2>2, <3>1, <4>2
    <3> QED
      BY <3>1
  <2> HIDE DEF s, o
  <2>5. \A t \in Scans : t # s => /\ tasks'[t] = tasks[t] /\ memory'[t] = memory[t]
                                  /\ acked'[t] = acked[t]
    BY <1>1, <2>1
  <2>6. \A t \in Scans : t # s /\ memory[t] # 0
                              => objects'[memory[t]].report = objects[memory[t]].report
    <3>1. ASSUME NEW t \in Scans, t # s, memory[t] # 0
          PROVE  objects'[memory[t]] = objects[memory[t]]
      BY <1>1, <2>1, <2>3, <3>1, Zenon
    <3> QED
      BY <3>1
  <2>7. tasks'[s] \in Decidable
    BY <2>1, <2>4
  <2> QED
    BY <1>2, <2>2, <2>5, <2>6, <2>7, Zenon
<1>10. CASE Restart
  <2>1. /\ acked' = acked /\ memory' = [s \in Scans |-> 0]
        /\ tasks' = [s \in Scans |-> IF tasks[s] = "none" THEN "none"
                                     ELSE IF Accepted(s) THEN "over" ELSE "rejected"]
    BY <1>10, Zenon DEF Restart
  <2>2. \A t \in Scans : memory'[t] = 0
    BY <2>1
  <2>3. \A t \in Scans : tasks'[t] \notin Decidable => tasks[t] \notin Decidable
    BY <2>1 DEF Decidable, Accepted, Uploading
  <2>4. \A t \in Scans : tasks'[t] \notin Decidable => acked'[t] = {}
    BY <1>1, <2>1, <2>3, Zenon
  <2> QED
    BY <2>2, <2>4, Zenon DEF UndecidedInv, InMemory
<1>11. CASE UNCHANGED <<tasks, memory, objects, acked>>
  <2>1. tasks' = tasks /\ memory' = memory /\ objects' = objects /\ acked' = acked
    BY <1>11, Zenon
  <2> QED
    BY <1>1, <2>1 DEF UndecidedInv, InMemory
<1>12. \/ UNCHANGED <<tasks, memory, objects, acked>>
       \/ \E s \in Scans : ScanMove(s)
       \/ \E r \in Requests : \/ \E s \in Scans : FoundMove(r, s) \/ LoadedMove(r, s)
                              \/ SavedMove(r)
       \/ Restart
  BY StepMoves, Zenon DEF Moves, TurnMove, RemovedMove, Land, Purge, vars, store
<1> QED
  BY <1>3, <1>4, <1>5, <1>6, <1>7, <1>8, <1>9, <1>10, <1>11, <1>12, Zenon DEF ScanMove

LEMMA SaversStep ==
  ASSUME TypeInv, LifeInv, OwnershipInv, UndecidedInv, SaversInv, [Next]_vars
  PROVE  SaversInv'
<1>1. /\ Len(objects) \in Nat
      /\ \A q \in Requests : requests[q].pc = "saving" =>
           /\ requests[q].object \in 1..Len(objects)
           /\ objects[requests[q].object].report # None
           /\ requests[q].value = objects[requests[q].object].report \cup {q}
      /\ \A p, q \in Requests :
           requests[p].pc = "saving" /\ requests[q].pc = "saving"
             /\ requests[p].object = requests[q].object => p = q
  <2>1. \A q \in Requests : requests[q].pc = "saving" => requests[q].object # 0
    BY Zenon DEF OwnershipInv, Deciding
  <2> QED
    BY <2>1, Objects, Zenon DEF SaversInv
<1>2. ASSUME \A q \in Requests : requests'[q].pc = "saving" => requests'[q] = requests[q],
             \A q \in Requests : requests'[q].pc = "saving" =>
               objects'[requests[q].object].report = objects[requests[q].object].report
      PROVE  SaversInv'
  <2>1. ASSUME NEW q \in Requests, requests'[q].pc = "saving"
        PROVE  /\ objects'[requests'[q].object].report # None
               /\ requests'[q].value = objects'[requests'[q].object].report \cup {q}
    <3>1. requests'[q] = requests[q]
      BY <1>2, <2>1, Zenon
    <3>2. objects'[requests[q].object].report = objects[requests[q].object].report
      BY <1>2, <2>1, Zenon
    <3>3. /\ objects[requests[q].object].report # None
          /\ requests[q].value = objects[requests[q].object].report \cup {q}
      BY <1>1, <2>1, <3>1, Zenon
    <3> QED
      BY <3>1, <3>2, <3>3
  <2>2. ASSUME NEW p \in Requests, NEW q \in Requests, requests'[p].pc = "saving",
               requests'[q].pc = "saving", requests'[p].object = requests'[q].object
        PROVE  p = q
    <3>1. requests'[p] = requests[p] /\ requests'[q] = requests[q]
      BY <1>2, <2>2, Zenon
    <3> QED
      BY <1>1, <2>2, <3>1, Zenon
  <2> QED
    BY <2>1, <2>2, Zenon DEF SaversInv
<1>3. CASE UNCHANGED <<objects, requests>>
  <2>1. requests' = requests /\ objects' = objects
    BY <1>3, Zenon
  <2> QED
    BY <1>2, <2>1
<1>4. ASSUME \A o \in 1..Len(objects) : objects'[o] = objects[o],
             \A q \in Requests : requests'[q].pc = "saving" => requests'[q] = requests[q]
      PROVE  SaversInv'
  <2>1. ASSUME NEW q \in Requests, requests'[q].pc = "saving"
        PROVE  objects'[requests[q].object] = objects[requests[q].object]
    <3>1. requests[q].object \in 1..Len(objects)
      BY <1>1, <1>4, <2>1, Zenon
    <3> QED
      BY <1>4, <3>1, Zenon
  <2>2. \A q \in Requests : requests'[q].pc = "saving" =>
           objects'[requests[q].object].report = objects[requests[q].object].report
    BY <2>1
  <2> QED
    BY <1>2, <1>4, <2>2, Zenon
<1>5. ASSUME NEW s \in Scans, Submit(s)
      PROVE  SaversInv'
  <2>1. objects' = Append(objects, NewObject(Queued, None)) /\ requests' = requests
    BY <1>5, Zenon DEF Submit
  <2>2. \A o \in 1..Len(objects) : objects'[o] = objects[o]
    BY <2>1, NewObjectEffect DEF Statuses, Reports
  <2> QED
    BY <1>4, <2>1, <2>2
<1>6. ASSUME NEW s \in Scans, ObjectMove(s)
      PROVE  SaversInv'
  <2>1. /\ requests' = requests /\ own[s] \in 1..Len(objects)
        /\ \A o \in 1..Len(objects) : o # own[s] => objects'[o] = objects[o]
    BY <1>6, Zenon DEF ObjectMove
  <2>2. memory[s] = own[s] /\ memory[s] # 0
    <3>1. tasks[s] \in Active
      BY <1>6 DEF ObjectMove, Active
    <3> QED
      BY <3>1, Zenon DEF LifeInv
  <2>3. \/ objects[own[s]].report = None
        \/ objects'[own[s]].report = objects[own[s]].report
    <3>1. tasks[s] \in {"waiting", "saving"} \/ objects'[own[s]].report = objects[own[s]].report
      BY <1>6 DEF ObjectMove
    <3>2. tasks[s] \in {"waiting", "saving"} => tasks[s] \notin Decidable
      BY DEF Decidable
    <3> QED
      BY <2>2, <3>1, <3>2, Zenon DEF UndecidedInv, InMemory
  <2>4. ASSUME NEW q \in Requests, requests[q].pc = "saving"
        PROVE  objects'[requests[q].object].report = objects[requests[q].object].report
    <3>1. requests[q].object \in 1..Len(objects) /\ objects[requests[q].object].report # None
      BY <1>1, <2>4, Zenon
    <3>2. CASE requests[q].object = own[s]
      BY <2>3, <3>1, <3>2
    <3>3. CASE requests[q].object # own[s]
      <4>1. objects'[requests[q].object] = objects[requests[q].object]
        BY <2>1, <3>1, <3>3, Zenon
      <4> QED
        BY <4>1
    <3> QED
      BY <3>2, <3>3
  <2> QED
    BY <1>2, <2>1, <2>4
<1>7. ASSUME NEW r \in Requests, NEW s \in Scans, FoundMove(r, s) \/ LoadedMove(r, s)
      PROVE  SaversInv'
  <2>1. \A o \in 1..Len(objects) : objects'[o] = objects[o]
    <3>1. CASE FoundMove(r, s)
      <4>1. objects' = objects
        BY <3>1, Zenon DEF FoundMove
      <4> QED
        BY <4>1
    <3>2. CASE LoadedMove(r, s)
      <4>1. PICK status \in {Done, Failed}, report \in Reports :
              objects' = Append(objects, NewObject(status, report))
        BY <3>2, Zenon DEF LoadedMove
      <4> QED
        BY <4>1, NewObjectEffect DEF Statuses
    <3> QED
      BY <1>7, <3>1, <3>2, Zenon
  <2>2. /\ \A q \in Requests : q # r => requests'[q] = requests[q]
        /\ requests'[r] = Idle \/ requests'[r].pc \in {"deciding", "removing"}
    BY <1>7, Zenon DEF FoundMove, LoadedMove, Proceeded, OnlyRequest
  <2>3. requests'[r].pc # "saving"
    BY <2>2, IdleType
  <2> QED
    BY <1>4, <2>1, <2>2, <2>3, Zenon
<1>8. ASSUME NEW r \in Requests, TurnMove(r)
      PROVE  SaversInv'
  <2>1. objects' = objects /\ \A q \in Requests : q # r => requests'[q] = requests[q]
    BY <1>8, Zenon DEF TurnMove, OnlyRequest, store
  <2>2. CASE requests'[r].pc # "saving"
    BY <1>4, <2>1, <2>2, Zenon
  <2>3. CASE requests'[r].pc = "saving"
    <3> DEFINE o == requests[r].object
    <3>1. /\ requests'[r].object = o /\ Unlocked(o) /\ objects[o].report # None
          /\ requests'[r].value = objects[o].report \cup {r}
      BY <1>8, <2>3, IdleType DEF TurnMove, SameRequest
    <3>2. ASSUME NEW q \in Requests, requests'[q].pc = "saving"
          PROVE  /\ objects'[requests'[q].object].report # None
                 /\ requests'[q].value = objects'[requests'[q].object].report \cup {q}
      <4>1. CASE q = r
        BY <2>1, <3>1, <4>1
      <4>2. CASE q # r
        <5>1. requests'[q] = requests[q]
          BY <2>1, <4>2, Zenon
        <5>2. /\ objects[requests[q].object].report # None
              /\ requests[q].value = objects[requests[q].object].report \cup {q}
          BY <1>1, <3>2, <5>1, Zenon
        <5> QED
          BY <2>1, <5>1, <5>2
      <4> QED
        BY <4>1, <4>2
    <3>3. ASSUME NEW q \in Requests, q # r, requests'[q].pc = "saving"
          PROVE  requests'[q] = requests[q] /\ requests'[q].object # requests'[r].object
      <4>1. requests'[q] = requests[q] /\ requests[q].pc = "saving"
        BY <2>1, <3>3, Zenon
      <4>2. requests[q].object # o
        BY <3>1, <4>1, Zenon DEF Unlocked
      <4> QED
        BY <3>1, <4>1, <4>2
    <3>4. ASSUME NEW p \in Requests, NEW q \in Requests, requests'[p].pc = "saving",
                 requests'[q].pc = "saving", requests'[p].object = requests'[q].object
          PROVE  p = q
      <4>1. CASE p = r \/ q = r
        BY <3>3, <3>4, <4>1
      <4>2. CASE p # r /\ q # r
        <5>1. requests'[p] = requests[p] /\ requests'[q] = requests[q]
          BY <2>1, <4>2, Zenon
        <5> QED
          BY <1>1, <3>4, <5>1, Zenon
      <4> QED
        BY <4>1, <4>2
    <3> QED
      BY <3>2, <3>4, Zenon DEF SaversInv
  <2> QED
    BY <2>2, <2>3
<1>9. ASSUME NEW r \in Requests, SavedMove(r)
      PROVE  SaversInv'
  <2>1. /\ \A p \in 1..Len(objects) : p # requests[r].object => objects'[p] = objects[p]
        /\ \A q \in Requests : q # r => requests'[q] = requests[q]
        /\ requests'[r] = Idle /\ requests[r].pc = "saving"
    BY <1>9, Zenon DEF SavedMove, OnlyRequest
  <2>2. ASSUME NEW q \in Requests, requests'[q].pc = "saving"
        PROVE  /\ requests'[q] = requests[q]
               /\ objects'[requests[q].object] = objects[requests[q].object]
    <3>1. q # r
      BY <2>1, <2>2, IdleType
    <3>2. requests'[q] = requests[q]
      BY <2>1, <3>1, Zenon
    <3>3. requests[q].object \in 1..Len(objects) /\ requests[q].object # requests[r].object
      BY <1>1, <2>1, <2>2, <3>1, <3>2, Zenon
    <3> QED
      BY <2>1, <3>2, <3>3, Zenon
  <2> QED
    BY <1>2, <2>2
<1>10. ASSUME NEW r \in Requests, RemovedMove(r)
       PROVE  SaversInv'
  <2>1. /\ objects' = objects /\ \A q \in Requests : q # r => requests'[q] = requests[q]
        /\ requests'[r] = Idle \/ requests'[r].pc = "emptied"
    BY <1>10, Zenon DEF RemovedMove, OnlyRequest, store
  <2>2. requests'[r].pc # "saving"
    BY <2>1, IdleType
  <2> QED
    BY <1>4, <2>1, <2>2, Zenon
<1>11. CASE Restart
  <2>1. \A q \in Requests : requests'[q].pc = "idle"
    BY <1>11, IdleType DEF Restart
  <2> QED
    BY <2>1 DEF SaversInv
<1>12. \/ UNCHANGED <<objects, requests>>
       \/ \E s \in Scans : Submit(s) \/ ObjectMove(s)
       \/ \E r \in Requests : Moves(r)
       \/ Restart
  BY StepMoves, Zenon DEF ScanMove, TaskMove, Forget, Land, Purge, vars, store
<1> QED
  BY <1>3, <1>5, <1>6, <1>7, <1>8, <1>9, <1>10, <1>11, <1>12, Zenon DEF Moves

LEMMA InterruptedStep ==
  ASSUME TypeInv, LifeInv, OwnershipInv, DeleteInv, InterruptedInv, [Next]_vars
  PROVE  InterruptedInv'
<1>1. /\ \A q \in Requests :
           requests[q].pc = "failing" /\ deletes[requests[q].scan] = "no"
             => requests[q].value = disk[requests[q].scan].report
      /\ \A s \in Scans : deletes'[s] = "no" => deletes[s] = "no"
      /\ \A q \in Requests : requests[q].pc = "failing" =>
           /\ requests[q].scan \in Scans /\ Accepted(requests[q].scan)
           /\ memory[requests[q].scan] = 0 /\ tasks[requests[q].scan] = "over"
      /\ disk \in [Scans -> Files]
  <2>1. ASSUME NEW q \in Requests, requests[q].pc = "failing"
        PROVE  /\ requests[q].scan \in Scans /\ Accepted(requests[q].scan)
               /\ memory[requests[q].scan] = 0
    BY <2>1 DEF LifeInv, Loading
  <2> QED
    BY <2>1, NotInMemory, DeletesStay, Objects, Zenon DEF InterruptedInv
\* It is enough that what is on disk of what is being loaded stays.
<1>2. ASSUME \A q \in Requests : requests'[q].pc = "failing" => requests'[q] = requests[q],
             \A q \in Requests :
               requests[q].pc = "failing" /\ deletes'[requests[q].scan] = "no"
                 => disk'[requests[q].scan].report = disk[requests[q].scan].report
      PROVE  InterruptedInv'
  <2>1. ASSUME NEW q \in Requests, requests'[q].pc = "failing", deletes'[requests'[q].scan] = "no"
        PROVE  requests'[q].value = disk'[requests'[q].scan].report
    <3>1. requests'[q] = requests[q]
      BY <1>2, <2>1, Zenon
    <3>2. requests[q].pc = "failing" /\ deletes'[requests[q].scan] = "no"
      BY <2>1, <3>1
    <3>3. disk'[requests[q].scan].report = disk[requests[q].scan].report
      BY <1>2, <3>2, Zenon
    <3>4. requests[q].value = disk[requests[q].scan].report
      BY <1>1, <3>2, Zenon
    <3> QED
      BY <3>1, <3>3, <3>4
  <2> QED
    BY <2>1, Zenon DEF InterruptedInv
<1>3. CASE UNCHANGED <<requests, disk>>
  <2>1. requests' = requests /\ disk' = disk
    BY <1>3, Zenon
  <2> QED
    BY <1>2, <2>1
<1>4. ASSUME NEW s \in Scans, TaskMove(s) \/ ObjectMove(s)
      PROVE  InterruptedInv'
  <2>1. requests' = requests /\ \A t \in Scans : t # s => disk'[t] = disk[t]
    BY <1>4, Zenon DEF TaskMove, ObjectMove
  <2>2. tasks[s] = "over" => FALSE
    BY <1>4 DEF TaskMove, ObjectMove
  <2>3. ASSUME NEW q \in Requests, requests[q].pc = "failing"
        PROVE  disk'[requests[q].scan] = disk[requests[q].scan]
    <3>1. requests[q].scan \in Scans /\ requests[q].scan # s
      BY <1>1, <2>2, <2>3
    <3> QED
      BY <2>1, <3>1, Zenon
  <2> QED
    BY <1>2, <2>1, <2>3
<1>5. ASSUME NEW r \in Requests, NEW s \in Scans, FoundMove(r, s) \/ LoadedMove(r, s)
      PROVE  InterruptedInv'
  <2>1. /\ \A q \in Requests : q # r => requests'[q] = requests[q]
        /\ requests'[r] = Idle \/ requests'[r].pc \in {"deciding", "removing"}
        /\ \A t \in Scans : t # s => disk'[t] = disk[t]
        /\ disk'[s].report = disk[s].report
    BY <1>5, Zenon DEF FoundMove, LoadedMove, Proceeded, OnlyRequest
  <2>2. requests'[r].pc # "failing"
    BY <2>1, IdleType
  <2>3. \A t \in Scans : disk'[t].report = disk[t].report
    BY <2>1
  <2>4. \A q \in Requests : requests'[q].pc = "failing" => requests'[q] = requests[q]
    BY <2>1, <2>2, Zenon
  <2>5. \A q \in Requests : requests[q].pc = "failing"
                              => disk'[requests[q].scan].report = disk[requests[q].scan].report
    BY <1>1, <2>3, Zenon
  <2> QED
    BY <1>2, <2>4, <2>5, Zenon
<1>6. ASSUME NEW r \in Requests, TurnMove(r)
      PROVE  InterruptedInv'
  <2>1. disk' = disk /\ \A q \in Requests : q # r => requests'[q] = requests[q]
    BY <1>6, Zenon DEF TurnMove, OnlyRequest
  <2>2. CASE requests'[r].pc # "failing"
    BY <1>2, <2>1, <2>2, Zenon
  <2>3. CASE requests'[r].pc = "failing"
    <3>1. requests'[r].value = disk[requests[r].scan].report /\ requests'[r].scan = requests[r].scan
      BY <1>6, <2>3, IdleType DEF TurnMove, SameRequest
    <3>2. ASSUME NEW q \in Requests, requests'[q].pc = "failing",
                 deletes'[requests'[q].scan] = "no"
          PROVE  requests'[q].value = disk'[requests'[q].scan].report
      <4>1. CASE q = r
        BY <2>1, <3>1, <4>1
      <4>2. CASE q # r
        <5>1. requests'[q] = requests[q] /\ requests[q].pc = "failing"
              /\ deletes'[requests[q].scan] = "no"
          BY <2>1, <3>2, <4>2
        <5>2. requests[q].value = disk[requests[q].scan].report
          BY <1>1, <5>1, Zenon
        <5> QED
          BY <2>1, <5>1, <5>2
      <4> QED
        BY <4>1, <4>2
    <3> QED
      BY <3>2, Zenon DEF InterruptedInv
  <2> QED
    BY <2>2, <2>3
<1>7. ASSUME NEW r \in Requests, SavedMove(r) \/ RemovedMove(r)
      PROVE  InterruptedInv'
  <2> DEFINE s == requests[r].scan
  <2>1. /\ \A q \in Requests : q # r => requests'[q] = requests[q]
        /\ requests'[r] = Idle \/ requests'[r].pc = "emptied"
        /\ \A t \in Scans : t # s => disk'[t] = disk[t]
    BY <1>7, Zenon DEF SavedMove, RemovedMove, OnlyRequest
  <2>2. requests'[r].pc # "failing"
    BY <2>1, IdleType
  <2>3. \A q \in Requests : requests'[q].pc = "failing" => requests'[q] = requests[q]
    BY <2>1, <2>2, Zenon
  <2>4. ASSUME NEW q \in Requests, requests[q].pc = "failing", deletes[requests[q].scan] = "no"
        PROVE  requests[q].scan # s
    <3>1. CASE RemovedMove(r)
      <4>1. deletes[s] # "no"
        BY <3>1, Zenon DEF RemovedMove, DeleteInv
      <4> QED
        BY <2>4, <4>1
    <3>2. CASE SavedMove(r)
      <4>1. Deciding(r) /\ requests[r].object # 0
        BY <3>2 DEF SavedMove, Deciding, OwnershipInv
      <4>2. deletes[s] = "no" => requests[r].object = memory[s]
        BY <4>1, Zenon DEF LifeInv
      <4>3. memory[requests[q].scan] = 0
        BY <1>1, <2>4, Zenon
      <4> QED
        BY <2>4, <4>1, <4>2, <4>3
    <3> QED
      BY <1>7, <3>1, <3>2
  <2>5. ASSUME NEW q \in Requests, requests[q].pc = "failing", deletes'[requests[q].scan] = "no"
        PROVE  disk'[requests[q].scan] = disk[requests[q].scan]
    <3>1. requests[q].scan \in Scans /\ deletes[requests[q].scan] = "no"
      BY <1>1, <2>5, Zenon
    <3>2. requests[q].scan # s
      BY <2>4, <2>5, <3>1, Zenon
    <3> QED
      BY <2>1, <3>1, <3>2, Zenon
  <2> QED
    BY <1>2, <2>3, <2>5
<1>8. ASSUME \A t \in Scans : deletes'[t] = "no" => disk'[t] = disk[t], requests' = requests
      PROVE  InterruptedInv'
  <2>1. ASSUME NEW q \in Requests, requests[q].pc = "failing", deletes'[requests[q].scan] = "no"
        PROVE  disk'[requests[q].scan] = disk[requests[q].scan]
    BY <1>1, <1>8, <2>1, Zenon
  <2> QED
    BY <1>2, <1>8, <2>1
<1>9. ASSUME NEW w \in strays, Land(w)
      PROVE  InterruptedInv'
  <2>1. requests' = requests /\ deletes[w.scan] # "no" /\ deletes' = deletes
    BY <1>9, Zenon DEF Land, DeleteInv
  <2>2. \A t \in Scans : t # w.scan => disk'[t] = disk[t]
    BY <1>1, <1>9 DEF Land, Put
  <2> QED
    BY <1>8, <2>1, <2>2
<1>10. CASE Purge
  <2>1. requests' = requests
    BY <1>10, Zenon DEF Purge
  <2>2. \A t \in Scans : deletes'[t] = "no" => disk'[t] = disk[t]
    BY <1>1, <1>10 DEF Purge
  <2> QED
    BY <1>8, <2>1, <2>2
<1>11. CASE Restart
  <2>1. \A q \in Requests : requests'[q].pc = "idle"
    BY <1>11, IdleType DEF Restart
  <2> QED
    BY <2>1 DEF InterruptedInv
<1>12. \/ UNCHANGED <<requests, disk>>
       \/ \E s \in Scans : TaskMove(s) \/ ObjectMove(s)
       \/ \E r \in Requests : Moves(r)
       \/ \E w \in strays : Land(w)
       \/ Purge \/ Restart
  BY StepMoves, Zenon DEF ScanMove, Submit, Forget, vars
<1> QED
  BY <1>3, <1>4, <1>5, <1>6, <1>7, <1>9, <1>10, <1>11, <1>12, Zenon DEF Moves

\* The decisions are in a report.
In(decisions, report) == report # None /\ decisions \subseteq report

LEMMA DecisionsStep ==
  ASSUME TypeInv, LifeInv, OwnershipInv, DeleteInv, DecisionInv, [Next]_vars
  PROVE  DecisionsKept'
<1>1. /\ Len(objects) \in Nat /\ memory \in [Scans -> Nat] /\ disk \in [Scans -> Files]
      /\ acked \in [Scans -> SUBSET Requests]
      /\ \A t \in Scans : memory[t] # 0 => memory[t] \in 1..Len(objects)
      /\ \A t \in Scans : tasks[t] \notin Decidable => acked[t] = {}
      /\ \A t \in Scans : deletes[t] = "no" /\ acked[t] # {} =>
           /\ In(acked[t], disk[t].report)
           /\ memory[t] # 0 => In(acked[t], objects[memory[t]].report)
      /\ \A t \in Scans : deletes'[t] = "no" => deletes[t] = "no"
  <2>1. \A t \in Scans : deletes[t] = "no" /\ acked[t] # {} =>
           /\ In(acked[t], disk[t].report)
           /\ memory[t] # 0 => In(acked[t], objects[memory[t]].report)
    BY Zenon DEF DecisionInv, DecisionsKept, InMemory, In
  <2>2. \A t \in Scans : tasks[t] \notin Decidable => acked[t] = {}
    BY Zenon DEF DecisionInv, UndecidedInv
  <2> QED
    BY <2>1, <2>2, Objects, DeletesStay, Zenon
<1>2. ASSUME \A t \in Scans : deletes'[t] = "no" /\ acked'[t] # {} =>
               /\ In(acked'[t], disk'[t].report)
               /\ memory'[t] # 0 => In(acked'[t], objects'[memory'[t]].report)
      PROVE  DecisionsKept'
  BY <1>2, Zenon DEF DecisionsKept, InMemory, In
\* Nothing is lost of a scan t that a step leaves as it is.
<1>3. ASSUME NEW t \in Scans, deletes'[t] = "no", acked'[t] # {}, acked'[t] = acked[t],
             memory'[t] \in {memory[t], 0}, disk'[t].report = disk[t].report,
             memory[t] # 0 => objects'[memory[t]].report = objects[memory[t]].report
      PROVE  /\ In(acked'[t], disk'[t].report)
             /\ memory'[t] # 0 => In(acked'[t], objects'[memory'[t]].report)
  <2>1. /\ In(acked[t], disk[t].report)
        /\ memory[t] # 0 => In(acked[t], objects[memory[t]].report)
    BY <1>1, <1>3
  <2>2. In(acked'[t], disk'[t].report)
    BY <1>3, <2>1
  <2>3. ASSUME memory'[t] # 0
        PROVE  In(acked'[t], objects'[memory'[t]].report)
    <3>1. memory'[t] = memory[t] /\ memory[t] # 0
      BY <1>3, <2>3
    <3> QED
      BY <1>3, <2>1, <3>1
  <2> QED
    BY <2>2, <2>3
<1>4. ASSUME NEW s \in Scans, TaskMove(s)
      PROVE  DecisionsKept'
  <2>1. /\ objects' = objects /\ memory' = memory /\ acked' = acked
        /\ \A t \in Scans : t # s => disk'[t] = disk[t]
        /\ tasks[s] \notin Decidable \/ disk'[s].report = disk[s].report
    BY <1>4 DEF TaskMove, store, Decidable
  <2>2. ASSUME NEW t \in Scans, deletes'[t] = "no", acked'[t] # {}
        PROVE  disk'[t].report = disk[t].report
    BY <1>1, <2>1, <2>2
  <2>3. \A t \in Scans : /\ acked'[t] = acked[t] /\ memory'[t] \in {memory[t], 0}
                         /\ memory[t] # 0 => objects'[memory[t]].report = objects[memory[t]].report
    BY <2>1
  <2> QED
    BY <1>2, <1>3, <2>2, <2>3, Zenon
<1>5. ASSUME NEW s \in Scans, Submit(s)
      PROVE  DecisionsKept'
  <2>1. /\ objects' = Append(objects, NewObject(Queued, None)) /\ acked' = acked
        /\ memory' = [memory EXCEPT ![s] = Len(objects')] /\ disk' = disk
        /\ tasks[s] = "uploading"
    BY <1>5, Zenon DEF Submit
  <2>2. \A o \in 1..Len(objects) : objects'[o] = objects[o]
    BY <2>1, NewObjectEffect DEF Statuses, Reports
  <2>3. acked[s] = {} /\ \A t \in Scans : t # s => memory'[t] = memory[t]
    BY <1>1, <2>1 DEF Decidable
  <2>4. ASSUME NEW t \in Scans, deletes'[t] = "no", acked'[t] # {}
        PROVE  /\ acked'[t] = acked[t] /\ memory'[t] \in {memory[t], 0}
               /\ disk'[t].report = disk[t].report
               /\ memory[t] # 0 => objects'[memory[t]].report = objects[memory[t]].report
    <3>1. t # s
      BY <2>1, <2>3, <2>4
    <3> QED
      BY <1>1, <2>1, <2>2, <2>3, <3>1
  <2> QED
    BY <1>2, <1>3, <2>4, Zenon
<1>6. ASSUME NEW s \in Scans, ObjectMove(s)
      PROVE  DecisionsKept'
  <2>1. /\ memory' = memory /\ acked' = acked
        /\ \A t \in Scans : t # s => disk'[t] = disk[t]
        /\ own[s] \in 1..Len(objects)
        /\ \A o \in 1..Len(objects) : o # own[s] => objects'[o] = objects[o]
        /\ \/ tasks[s] \notin Decidable
           \/ disk' = disk /\ objects'[own[s]].report = objects[own[s]].report
    BY <1>6 DEF ObjectMove, Decidable
  <2>2. memory[s] = own[s]
    <3>1. tasks[s] \in Active
      BY <1>6 DEF ObjectMove, Active
    <3> QED
      BY <3>1, Zenon DEF LifeInv
  <2>3. \A t \in Scans : t # s /\ memory[t] # 0 => memory[t] # own[s]
    BY <1>1, <2>1, <2>2 DEF OwnershipInv
  <2>4. ASSUME NEW t \in Scans, deletes'[t] = "no", acked'[t] # {}
        PROVE  /\ acked'[t] = acked[t] /\ memory'[t] \in {memory[t], 0}
               /\ disk'[t].report = disk[t].report
               /\ memory[t] # 0 => objects'[memory[t]].report = objects[memory[t]].report
    <3>1. CASE t = s
      BY <1>1, <2>1, <2>2, <2>4, <3>1
    <3>2. CASE t # s
      <4>1. memory[t] # 0 => objects'[memory[t]] = objects[memory[t]]
        BY <1>1, <2>1, <2>3, <3>2, Zenon
      <4> QED
        BY <2>1, <3>2, <4>1
    <3> QED
      BY <3>1, <3>2
  <2> QED
    BY <1>2, <1>3, <2>4, Zenon
<1>7. ASSUME NEW s \in Scans, Forget(s)
      PROVE  DecisionsKept'
  <2>1. /\ objects' = objects /\ acked' = acked /\ memory' = [memory EXCEPT ![s] = 0] /\ disk' = disk
    BY <1>7, Zenon DEF Forget
  <2>2. \A t \in Scans : /\ acked'[t] = acked[t] /\ memory'[t] \in {memory[t], 0}
                         /\ disk'[t].report = disk[t].report
                         /\ memory[t] # 0 => objects'[memory[t]].report = objects[memory[t]].report
    BY <1>1, <2>1
  <2> QED
    BY <1>2, <1>3, <2>2, Zenon
<1>8. ASSUME NEW r \in Requests, NEW s \in Scans, FoundMove(r, s)
      PROVE  DecisionsKept'
  <2>1. /\ objects' = objects /\ acked' = acked /\ disk' = disk
        /\ memory' = [memory EXCEPT ![s] = memory'[s]] /\ memory'[s] \in {memory[s], 0}
    BY <1>8, Zenon DEF FoundMove, Proceeded
  <2>2. \A t \in Scans : /\ acked'[t] = acked[t] /\ memory'[t] \in {memory[t], 0}
                         /\ disk'[t].report = disk[t].report
                         /\ memory[t] # 0 => objects'[memory[t]].report = objects[memory[t]].report
    BY <1>1, <2>1
  <2> QED
    BY <1>2, <1>3, <2>2, Zenon
<1>9. ASSUME NEW r \in Requests, NEW s \in Scans, LoadedMove(r, s)
      PROVE  DecisionsKept'
  <2>1. /\ memory' = [memory EXCEPT ![s] = memory'[s]] /\ acked' = acked
        /\ memory'[s] \in {Len(objects) + 1, 0}
        /\ \A t \in Scans : t # s => disk'[t] = disk[t]
        /\ disk'[s].report = disk[s].report
        /\ r \in Loading /\ s = requests[r].scan
    BY <1>9, Zenon DEF LoadedMove, Proceeded
  <2>2. PICK status \in {Done, Failed}, report \in Reports :
          /\ objects' = Append(objects, NewObject(status, report))
          /\ deletes[s] = "no" /\ requests[r].pc = "failing" => report = requests[r].value
          /\ requests[r].pc # "failing" => report = disk[s].report
    BY <1>9, Zenon DEF LoadedMove
  <2>3. /\ \A o \in 1..Len(objects) : objects'[o] = objects[o]
        /\ objects'[Len(objects) + 1] = NewObject(status, report)
    BY <2>2, NewObjectEffect DEF Statuses
  <2>4. NewObject(status, report).report = report
    BY DEF NewObject
  <2>5. deletes[s] = "no" => report = disk[s].report
    <3>1. deletes[s] = "no" /\ requests[r].pc = "failing" => requests[r].value = disk[s].report
      BY <2>1, Zenon DEF DecisionInv, InterruptedInv
    <3> QED
      BY <2>2, <3>1
  <2>6. ASSUME NEW t \in Scans, deletes'[t] = "no", acked'[t] # {}
        PROVE  /\ In(acked'[t], disk'[t].report)
               /\ memory'[t] # 0 => In(acked'[t], objects'[memory'[t]].report)
    <3>1. CASE t = s
      <4>1. In(acked[s], disk[s].report) /\ deletes[s] = "no"
        BY <1>1, <2>1, <2>6, <3>1
      <4>2. memory'[s] # 0 => objects'[memory'[s]].report = disk[s].report
        BY <2>1, <2>3, <2>4, <2>5, <4>1
      <4> QED
        BY <2>1, <3>1, <4>1, <4>2
    <3>2. CASE t # s
      <4>1. /\ acked'[t] = acked[t] /\ memory'[t] \in {memory[t], 0}
            /\ disk'[t].report = disk[t].report
        BY <1>1, <2>1, <3>2
      <4>2. memory[t] # 0 => objects'[memory[t]].report = objects[memory[t]].report
        BY <1>1, <2>3
      <4> QED
        BY <1>3, <2>6, <4>1, <4>2, Zenon
    <3> QED
      BY <3>1, <3>2
  <2> QED
    BY <1>2, <2>6, Zenon
<1>10. ASSUME NEW r \in Requests, SavedMove(r)
       PROVE  DecisionsKept'
  <2> DEFINE s == requests[r].scan
             o == requests[r].object
             v == requests[r].value
  <2>1. /\ memory' = memory /\ acked' = [acked EXCEPT ![s] = @ \cup {r}] /\ deletes' = deletes
        /\ \A p \in 1..Len(objects) : p # o => objects'[p] = objects[p]
        /\ \A t \in Scans : t # s => disk'[t] = disk[t]
        /\ requests[r].pc = "saving" /\ disk'[s].report = v /\ objects'[o].report = v
    BY <1>10, Zenon DEF SavedMove
  <2>2. /\ s \in Scans /\ Deciding(r) /\ objects[o].report # None
        /\ v = objects[o].report \cup {r} /\ o # 0
    BY <2>1, ItsScan DEF Deciding, DecisionInv, SaversInv, OwnershipInv
  <2>3. \A t \in Scans : o \in {own[t], memory[t]} => t = s
    BY <2>2, Zenon DEF OwnershipInv
  <2>4. v # None
    <3>1. objects[o].report \in Reports
      BY <2>2, Objects, Zenon
    <3>2. v \in SUBSET Requests
      BY <2>2, <3>1 DEF Reports
    <3> QED
      BY <3>2
  <2>5. deletes[s] = "no" => o = memory[s]
    BY <2>2, Zenon DEF LifeInv
  <2> HIDE DEF s, o, v
  <2>6. ASSUME NEW t \in Scans, deletes'[t] = "no", acked'[t] # {}
        PROVE  /\ In(acked'[t], disk'[t].report)
               /\ memory'[t] # 0 => In(acked'[t], objects'[memory'[t]].report)
    <3>1. CASE t = s
      <4>1. o = memory[s] /\ deletes[s] = "no" /\ acked'[s] = acked[s] \cup {r}
        BY <1>1, <2>1, <2>2, <2>5, <2>6, <3>1
      <4>2. acked[s] \subseteq objects[o].report
        <5>1. acked[s] # {} => In(acked[s], objects[o].report)
          BY <1>1, <2>2, <4>1
        <5> QED
          BY <5>1 DEF In
      <4>3. In(acked'[s], v)
        BY <2>2, <2>4, <4>1, <4>2 DEF In
      <4> QED
        BY <2>1, <3>1, <4>1, <4>3
    <3>2. CASE t # s
      <4>1. /\ acked'[t] = acked[t] /\ memory'[t] \in {memory[t], 0}
            /\ disk'[t].report = disk[t].report
        BY <1>1, <2>1, <3>2
      <4>2. memory[t] # 0 => objects'[memory[t]] = objects[memory[t]]
        BY <1>1, <2>1, <2>3, <3>2, Zenon
      <4>3. memory[t] # 0 => objects'[memory[t]].report = objects[memory[t]].report
        BY <4>2
      <4> QED
        BY <1>3, <2>6, <4>1, <4>3, Zenon
    <3> QED
      BY <3>1, <3>2
  <2> QED
    BY <1>2, <2>6, Zenon
\* What is being deleted may lose its files.
<1>11. ASSUME UNCHANGED <<objects, memory, acked>>,
              \A t \in Scans : deletes'[t] = "no" => disk'[t] = disk[t]
       PROVE  DecisionsKept'
  <2>1. ASSUME NEW t \in Scans, deletes'[t] = "no", acked'[t] # {}
        PROVE  /\ acked'[t] = acked[t] /\ memory'[t] \in {memory[t], 0}
               /\ disk'[t].report = disk[t].report
               /\ memory[t] # 0 => objects'[memory[t]].report = objects[memory[t]].report
    BY <1>11, <2>1
  <2> QED
    BY <1>2, <1>3, <2>1, Zenon
<1>12. ASSUME NEW r \in Requests, RemovedMove(r)
       PROVE  DecisionsKept'
  <2>1. /\ UNCHANGED <<objects, memory, acked>> /\ deletes[requests[r].scan] # "no"
        /\ \A t \in Scans : t # requests[r].scan => disk'[t] = disk[t]
    BY <1>12, Zenon DEF RemovedMove, store, DeleteInv
  <2>2. \A t \in Scans : deletes'[t] = "no" => disk'[t] = disk[t]
    BY <1>1, <2>1
  <2> QED
    BY <1>11, <2>1, <2>2, Zenon
<1>13. ASSUME NEW w \in strays, Land(w)
       PROVE  DecisionsKept'
  <2>1. UNCHANGED <<objects, memory, acked>> /\ deletes[w.scan] # "no" /\ deletes' = deletes
    BY <1>13, Zenon DEF Land, store, DeleteInv
  <2>2. \A t \in Scans : t # w.scan => disk'[t] = disk[t]
    BY <1>1, <1>13 DEF Land, Put
  <2>3. \A t \in Scans : deletes'[t] = "no" => disk'[t] = disk[t]
    BY <2>1, <2>2
  <2> QED
    BY <1>11, <2>1, <2>3, Zenon
<1>14. CASE Purge
  <2>1. UNCHANGED <<objects, memory, acked>>
    BY <1>14, Zenon DEF Purge, store
  <2>2. \A t \in Scans : deletes'[t] = "no" => disk'[t] = disk[t]
    BY <1>1, <1>14 DEF Purge
  <2> QED
    BY <1>11, <2>1, <2>2, Zenon
<1>15. CASE Restart
  <2>1. acked' = acked /\ disk' = disk /\ \A t \in Scans : memory'[t] = 0
    BY <1>15 DEF Restart
  <2>2. ASSUME NEW t \in Scans, deletes'[t] = "no", acked'[t] # {}
        PROVE  In(acked'[t], disk'[t].report)
    BY <1>1, <2>1, <2>2
  <2> QED
    BY <1>2, <2>1, <2>2, Zenon
<1>16. CASE UNCHANGED <<objects, memory, acked, disk>>
  <2>1. UNCHANGED <<objects, memory, acked>> /\ disk' = disk
    BY <1>16, Zenon
  <2> QED
    BY <1>11, <2>1
<1>17. \/ UNCHANGED <<objects, memory, acked, disk>>
       \/ \E s \in Scans : ScanMove(s)
       \/ \E r \in Requests : \/ \E s \in Scans : FoundMove(r, s) \/ LoadedMove(r, s)
                              \/ SavedMove(r) \/ RemovedMove(r)
       \/ \E w \in strays : Land(w)
       \/ Purge \/ Restart
  BY StepMoves, Zenon DEF Moves, TurnMove, vars, store
<1> QED
  BY <1>4, <1>5, <1>6, <1>7, <1>8, <1>9, <1>10, <1>12, <1>13, <1>14, <1>15, <1>16, <1>17,
     Zenon DEF ScanMove

-----------------------------------------------------------------------------
(* Reports.                                                                *)

LEMMA ServedStep ==
  ASSUME TypeInv, LifeInv, OwnershipInv, DeleteInv, ServedInv, [Next]_vars
  PROVE  ServedInv'
<1>1. /\ memory \in [Scans -> Nat] /\ tasks \in [Scans -> Tasks] /\ Len(objects) \in Nat
      /\ \A t \in Scans : deletes'[t] = "no" => deletes[t] = "no"
      /\ restarts \in Nat
  BY Shapes, DeletesStay, Zenon DEF TypeInv, RestType
<1>2. ASSUME NEW s \in Scans, restarts' = restarts,
             \A t \in Scans : t # s => tasks'[t] = tasks[t] /\ memory'[t] = memory[t],
             tasks'[s] \notin Uploading /\ deletes'[s] = "no" => memory'[s] # 0
      PROVE  ServedInv'
  <2>1. ASSUME NEW t \in Scans, restarts = 0, tasks'[t] \notin Uploading, deletes'[t] = "no"
        PROVE  memory'[t] # 0
    <3>1. CASE t = s
      BY <1>2, <2>1, <3>1, Zenon
    <3>2. CASE t # s
      <4>1. tasks'[t] = tasks[t] /\ memory'[t] = memory[t] /\ deletes[t] = "no"
        BY <1>1, <1>2, <2>1, <3>2, Zenon
      <4>2. tasks[t] \notin Uploading
        BY <2>1, <4>1, Zenon
      <4> QED
        BY <2>1, <4>1, <4>2, Zenon DEF ServedInv, Accepted, InMemory
    <3> QED
      BY <3>1, <3>2
  <2> QED
    BY <1>2, <2>1, Zenon DEF ServedInv, Accepted, InMemory
<1>3. ASSUME NEW s \in Scans, TaskMove(s) \/ ObjectMove(s)
      PROVE  ServedInv'
  <2>1. memory' = memory /\ tasks' = [tasks EXCEPT ![s] = tasks'[s]] /\ restarts' = restarts
    BY <1>3, Zenon DEF TaskMove, ObjectMove, store
  <2>2. tasks'[s] \notin Uploading => tasks[s] \in Active \cup {"queueing"}
    BY <1>3 DEF TaskMove, ObjectMove, Uploading, Active
  <2>3. tasks'[s] \notin Uploading => memory'[s] # 0
    BY <2>1, <2>2, Zenon DEF LifeInv
  <2>4. \A t \in Scans : t # s => tasks'[t] = tasks[t] /\ memory'[t] = memory[t]
    BY <1>1, <2>1
  <2> QED
    BY <1>2, <2>1, <2>3, <2>4, Zenon
<1>4. ASSUME NEW s \in Scans, Submit(s)
      PROVE  ServedInv'
  <2>1. /\ memory' = [memory EXCEPT ![s] = Len(objects')] /\ restarts' = restarts
        /\ tasks' = [tasks EXCEPT ![s] = "queueing"]
    BY <1>4, Zenon DEF Submit, Step
  <2>2. /\ tasks'[s] \in Uploading
        /\ \A t \in Scans : t # s => tasks'[t] = tasks[t] /\ memory'[t] = memory[t]
    BY <1>1, <2>1 DEF Uploading
  <2> QED
    BY <1>2, <2>1, <2>2, Zenon
<1>5. ASSUME NEW s \in Scans, Forget(s)
      PROVE  ServedInv'
  <2>1. /\ memory' = [memory EXCEPT ![s] = 0] /\ restarts' = restarts
        /\ deletes' = deletes /\ deletes[s] # "no" /\ Accepted(s)
    BY <1>5, Zenon DEF Forget, DeleteInv
  <2>2. \A t \in Scans : t # s => tasks'[t] = tasks[t]
    BY <1>5, <2>1, ForgetStops, Zenon
  <2>3. \A t \in Scans : t # s => memory'[t] = memory[t]
    BY <1>1, <2>1
  <2> QED
    BY <1>2, <2>1, <2>2, <2>3, Zenon
<1>6. ASSUME NEW r \in Requests, NEW s \in Scans, FoundMove(r, s) \/ LoadedMove(r, s)
      PROVE  ServedInv'
  <2>1. /\ memory' = [memory EXCEPT ![s] = memory'[s]] /\ restarts' = restarts
        /\ \A t \in Scans : t # s => tasks'[t] = tasks[t]
        /\ memory'[s] \in {memory[s], Len(objects) + 1} \/ deletes'[s] # "no"
        /\ memory'[s] = memory[s] => memory[s] # 0 \/ deletes'[s] # "no" \/ memory'[s] = Len(objects) + 1
    BY <1>6, Zenon DEF FoundMove, LoadedMove, Proceeded
  <2>2. deletes'[s] = "no" => memory'[s] # 0
    BY <1>1, <2>1
  <2>3. \A t \in Scans : t # s => memory'[t] = memory[t]
    BY <1>1, <2>1
  <2> QED
    BY <1>2, <2>1, <2>2, <2>3, Zenon
<1>7. CASE Restart
  <2>1. restarts' # 0
    BY <1>1, <1>7 DEF Restart
  <2> QED
    BY <2>1, Zenon DEF ServedInv
<1>8. CASE UNCHANGED <<tasks, memory, restarts>>
  <2>1. tasks' = tasks /\ memory' = memory /\ restarts' = restarts
    BY <1>8, Zenon
  <2>2. ASSUME NEW t \in Scans, restarts = 0, tasks[t] \notin Uploading, deletes'[t] = "no"
        PROVE  memory[t] # 0
    BY <1>1, <2>2, Zenon DEF ServedInv, Accepted, InMemory
  <2> QED
    BY <2>1, <2>2, Zenon DEF ServedInv, Accepted, InMemory
<1>9. \/ UNCHANGED <<tasks, memory, restarts>>
      \/ \E s \in Scans : ScanMove(s)
      \/ \E r \in Requests, s \in Scans : FoundMove(r, s) \/ LoadedMove(r, s)
      \/ Restart
  BY StepMoves, Zenon DEF Moves, TurnMove, SavedMove, RemovedMove, Land, Purge, vars, store
<1> QED
  BY <1>3, <1>4, <1>5, <1>6, <1>7, <1>8, <1>9, Zenon DEF ScanMove

\* An object that may be served.
Servable(object) == object.report # None => object.status = Done

LEMMA ReportOnlyStep ==
  ASSUME TypeInv, LifeInv, OwnershipInv, DeleteInv, DiskInv, UndecidedInv, SaversInv,
         ReportInv, [Next]_vars
  PROVE  ReportOnlyWhenDone'
<1>1. /\ memory \in [Scans -> Nat] /\ tasks \in [Scans -> Tasks] /\ Len(objects) \in Nat
      /\ failures \in Nat /\ restarts \in Nat
      /\ \A t \in Scans : deletes'[t] = "no" => deletes[t] = "no"
      /\ \A t \in Scans : memory[t] # 0 => memory[t] \in 1..Len(objects)
      /\ failures = 0 /\ restarts = 0 =>
           \A t \in Scans : memory[t] # 0 /\ deletes[t] = "no" => Servable(objects[memory[t]])
  <2>1. /\ memory \in [Scans -> Nat] /\ tasks \in [Scans -> Tasks] /\ Len(objects) \in Nat
        /\ \A t \in Scans : memory[t] # 0 => memory[t] \in 1..Len(objects)
    BY Objects, Zenon
  <2>2. failures = 0 /\ restarts = 0 =>
           \A t \in Scans : memory[t] # 0 /\ deletes[t] = "no" => Servable(objects[memory[t]])
    BY Zenon DEF ReportInv, ReportOnlyWhenDone, InMemory, Status, Servable
  <2>3. failures \in Nat /\ restarts \in Nat
    BY Zenon DEF TypeInv, RestType
  <2> QED
    BY <2>1, <2>2, <2>3, DeletesStay, Zenon
<1>2. ASSUME failures' = 0 /\ restarts' = 0 =>
               \A t \in Scans : memory'[t] # 0 /\ deletes'[t] = "no"
                                  => Servable(objects'[memory'[t]])
      PROVE  ReportOnlyWhenDone'
  BY <1>2, Zenon DEF ReportOnlyWhenDone, InMemory, Status, Servable
\* A step that touches only what the clients see of scan s.
<1>3. ASSUME NEW s \in Scans, failures' = 0 => failures = 0, restarts' = restarts,
             \A t \in Scans : t # s => memory'[t] = memory[t],
             \A t \in Scans : t # s /\ memory[t] # 0
                                => objects'[memory[t]] = objects[memory[t]],
             failures' = 0 /\ restarts = 0 /\ memory'[s] # 0 /\ deletes'[s] = "no"
               => Servable(objects'[memory'[s]])
      PROVE  ReportOnlyWhenDone'
  <2>1. ASSUME NEW t \in Scans, failures' = 0, restarts = 0, memory'[t] # 0, deletes'[t] = "no"
        PROVE  Servable(objects'[memory'[t]])
    <3>1. CASE t = s
      BY <1>3, <2>1, <3>1, Zenon
    <3>2. CASE t # s
      <4>1. memory'[t] = memory[t] /\ deletes[t] = "no" /\ failures = 0
        BY <1>1, <1>3, <2>1, <3>2, Zenon
      <4>2. memory[t] # 0
        BY <2>1, <4>1, Zenon
      <4>3. objects'[memory[t]] = objects[memory[t]]
        BY <1>3, <3>2, <4>2, Zenon
      <4>4. Servable(objects[memory[t]])
        BY <1>1, <2>1, <4>1, <4>2, Zenon
      <4> QED
        BY <4>1, <4>3, <4>4, Zenon
    <3> QED
      BY <3>1, <3>2
  <2> QED
    BY <1>2, <1>3, <2>1, Zenon
\* A step that changes no object.
<1>4. ASSUME objects' = objects, failures' = 0 => failures = 0, restarts' = restarts,
             \A t \in Scans : memory'[t] \in {memory[t], 0}
      PROVE  ReportOnlyWhenDone'
  <2>1. ASSUME NEW t \in Scans, failures' = 0, restarts = 0, memory'[t] # 0, deletes'[t] = "no"
        PROVE  Servable(objects[memory'[t]])
    <3>1. memory'[t] = memory[t] /\ memory[t] # 0 /\ deletes[t] = "no" /\ failures = 0
      BY <1>1, <1>4, <2>1
    <3>2. Servable(objects[memory[t]])
      BY <1>1, <2>1, <3>1, Zenon
    <3> QED
      BY <3>1, <3>2, Zenon
  <2> QED
    BY <1>2, <1>4, <2>1, Zenon
<1>5. ASSUME NEW s \in Scans, Submit(s)
      PROVE  ReportOnlyWhenDone'
  <2>1. /\ objects' = Append(objects, NewObject(Queued, None))
        /\ memory' = [memory EXCEPT ![s] = Len(objects')]
        /\ failures' = failures /\ restarts' = restarts
    BY <1>5, Zenon DEF Submit
  <2>2. /\ \A o \in 1..Len(objects) : objects'[o] = objects[o]
        /\ objects'[Len(objects')] = NewObject(Queued, None)
    BY <2>1, NewObjectEffect DEF Statuses, Reports
  <2>3. Servable(NewObject(Queued, None))
    BY DEF Servable, NewObject
  <2>4. memory'[s] = Len(objects') /\ \A t \in Scans : t # s => memory'[t] = memory[t]
    BY <1>1, <2>1
  <2>5. Servable(objects'[memory'[s]])
    BY <2>2, <2>3, <2>4, Zenon
  <2>6. \A t \in Scans : t # s /\ memory[t] # 0 => objects'[memory[t]] = objects[memory[t]]
    BY <1>1, <2>2, Zenon
  <2> QED
    BY <1>3, <2>1, <2>4, <2>5, <2>6, Zenon
<1>6. ASSUME NEW s \in Scans, ObjectMove(s)
      PROVE  ReportOnlyWhenDone'
  <2>1. /\ memory' = memory /\ restarts' = restarts
        /\ own[s] \in 1..Len(objects)
        /\ \A o \in 1..Len(objects) : o # own[s] => objects'[o] = objects[o]
        /\ failures' \in {failures, failures + 1}
    BY <1>6, Zenon DEF ObjectMove
  <2>2. memory[s] = own[s]
    <3>1. tasks[s] \in Active
      BY <1>6 DEF ObjectMove, Active
    <3> QED
      BY <3>1, Zenon DEF LifeInv
  <2>3. \A t \in Scans : t # s /\ memory[t] # 0 => memory[t] # own[s]
    BY <1>1, <2>1, <2>2 DEF OwnershipInv
  <2>4. \A t \in Scans : t # s /\ memory[t] # 0 => objects'[memory[t]] = objects[memory[t]]
    BY <1>1, <2>1, <2>3, Zenon
  <2>5. failures' = 0 => failures = 0
    BY <1>1, <2>1
  <2>6. tasks[s] = "working" => objects[own[s]].report = None
    BY <1>1, <2>1, <2>2 DEF UndecidedInv, InMemory, Decidable
  <2>7. deletes'[s] = "no" => disk[s].exists
    <3>1. Accepted(s)
      BY <1>6 DEF ObjectMove, Accepted, Uploading
    <3> QED
      BY <1>1, <3>1, Zenon DEF DiskInv
  <2>8. failures' = 0 /\ deletes'[s] = "no" => Servable(objects'[own[s]])
    BY <1>6, <2>6, <2>7 DEF ObjectMove, Servable
  <2>9. \A t \in Scans : memory'[t] = memory[t]
    BY <2>1
  <2> QED
    BY <1>3, <2>1, <2>2, <2>4, <2>5, <2>8, <2>9, Zenon
<1>7. ASSUME NEW s \in Scans, TaskMove(s) \/ Forget(s)
      PROVE  ReportOnlyWhenDone'
  <2>1. /\ objects' = objects /\ restarts' = restarts
        /\ memory' = memory \/ memory' = [memory EXCEPT ![s] = 0]
        /\ failures' \in {failures, failures + 1}
    BY <1>7, Zenon DEF TaskMove, Forget, store
  <2>2. \A t \in Scans : memory'[t] \in {memory[t], 0}
    BY <1>1, <2>1
  <2>3. failures' = 0 => failures = 0
    BY <1>1, <2>1
  <2> QED
    BY <1>4, <2>1, <2>2, <2>3, Zenon
<1>8. ASSUME NEW r \in Requests, NEW s \in Scans, FoundMove(r, s)
      PROVE  ReportOnlyWhenDone'
  <2>1. /\ objects' = objects /\ failures' = failures /\ restarts' = restarts
        /\ memory' = [memory EXCEPT ![s] = memory'[s]] /\ memory'[s] \in {memory[s], 0}
    BY <1>8, Zenon DEF FoundMove, Proceeded
  <2>2. \A t \in Scans : memory'[t] \in {memory[t], 0}
    BY <1>1, <2>1
  <2> QED
    BY <1>4, <2>1, <2>2, Zenon
\* A scan that was accepted and is not being deleted need not be loaded.
<1>9. ASSUME NEW r \in Requests, NEW s \in Scans, LoadedMove(r, s)
      PROVE  ReportOnlyWhenDone'
  <2>1. /\ memory' = [memory EXCEPT ![s] = memory'[s]] /\ failures' = failures
        /\ restarts' = restarts /\ r \in Loading /\ s = requests[r].scan
    BY <1>9, Zenon DEF LoadedMove, Proceeded
  <2>2. PICK status \in {Done, Failed}, report \in Reports :
          objects' = Append(objects, NewObject(status, report))
    BY <1>9, Zenon DEF LoadedMove
  <2>3. \A o \in 1..Len(objects) : objects'[o] = objects[o]
    BY <2>2, NewObjectEffect DEF Statuses
  <2>4. restarts = 0 => deletes'[s] # "no"
    <3>1. requests[r].pc # "idle" /\ r \in Requests /\ memory[s] = 0
      BY <2>1 DEF Loading, LifeInv
    <3>2. Accepted(s)
      BY <2>1, <3>1, ItsScan, Zenon
    <3> QED
      BY <1>1, <3>1, <3>2, Zenon DEF ReportInv, ServedInv, InMemory
  <2>5. \A t \in Scans : t # s => memory'[t] = memory[t]
    BY <1>1, <2>1
  <2>6. \A t \in Scans : t # s /\ memory[t] # 0 => objects'[memory[t]] = objects[memory[t]]
    BY <1>1, <2>3, Zenon
  <2> QED
    BY <1>3, <2>1, <2>4, <2>5, <2>6, Zenon
<1>10. ASSUME NEW r \in Requests, SavedMove(r)
       PROVE  ReportOnlyWhenDone'
  <2> DEFINE s == requests[r].scan
             o == requests[r].object
  <2>1. /\ memory' = memory /\ failures' = failures /\ restarts' = restarts
        /\ \A p \in 1..Len(objects) : p # o => objects'[p] = objects[p]
        /\ \A p \in 1..Len(objects) : objects'[p].status = objects[p].status
        /\ requests[r].pc = "saving"
    BY <1>10, Zenon DEF SavedMove
  <2>2. s \in Scans /\ Deciding(r) /\ objects[o].report # None
    BY <2>1, ItsScan DEF Deciding, SaversInv
  <2>3. \A t \in Scans : o \in {own[t], memory[t]} => t = s
    BY <2>2, Zenon DEF OwnershipInv
  <2>4. deletes'[s] = "no" => memory[s] = o
    BY <1>1, <2>2, Zenon DEF LifeInv
  <2> HIDE DEF s, o
  <2>5. ASSUME failures' = 0, restarts = 0, memory'[s] # 0, deletes'[s] = "no"
        PROVE  Servable(objects'[memory'[s]])
    <3>1. memory'[s] = o /\ memory[s] = o /\ o \in 1..Len(objects) /\ deletes[s] = "no"
      BY <1>1, <2>1, <2>2, <2>4, <2>5
    <3>2. Servable(objects[o])
      BY <1>1, <2>1, <2>2, <2>5, <3>1
    <3>3. objects'[o].status = Done
      BY <2>1, <2>2, <3>1, <3>2 DEF Servable
    <3> QED
      BY <3>1, <3>3 DEF Servable
  <2>6. \A t \in Scans : t # s /\ memory[t] # 0 => objects'[memory[t]] = objects[memory[t]]
    BY <1>1, <2>1, <2>3, Zenon
  <2>7. \A t \in Scans : memory'[t] = memory[t]
    BY <2>1
  <2> QED
    BY <1>3, <2>1, <2>2, <2>5, <2>6, <2>7, Zenon
<1>11. CASE Restart
  <2>1. \A t \in Scans : memory'[t] = 0
    BY <1>11 DEF Restart
  <2> QED
    BY <1>2, <2>1, Zenon
<1>12. CASE /\ UNCHANGED <<objects, memory, restarts>>
            /\ failures' \in {failures, failures + 1}
  <2>1. /\ objects' = objects /\ restarts' = restarts
        /\ failures' = 0 => failures = 0
    BY <1>1, <1>12
  <2>2. \A t \in Scans : memory'[t] \in {memory[t], 0}
    BY <1>12
  <2> QED
    BY <1>4, <2>1, <2>2, Zenon
<1>13. \/ /\ UNCHANGED <<objects, memory, restarts>>
          /\ failures' \in {failures, failures + 1}
       \/ \E s \in Scans : ScanMove(s)
       \/ \E r \in Requests : \/ \E s \in Scans : FoundMove(r, s) \/ LoadedMove(r, s)
                              \/ SavedMove(r)
       \/ Restart
  BY StepMoves, Zenon DEF Moves, TurnMove, RemovedMove, Land, Purge, vars, store
<1> QED
  BY <1>5, <1>6, <1>7, <1>8, <1>9, <1>10, <1>11, <1>12, <1>13, Zenon DEF ScanMove

-----------------------------------------------------------------------------
(* The theorems.                                                           *)

LEMMA InitInv == Init => IInv
<1> SUFFICES ASSUME Init PROVE IInv
  OBVIOUS
<1>1. /\ objects = <<>> /\ memory = [s \in Scans |-> 0] /\ own = [s \in Scans |-> 0]
      /\ tasks = [s \in Scans |-> "none"] /\ disk = [s \in Scans |-> NoFiles]
      /\ strays = {} /\ requests = [r \in Requests |-> Idle] /\ purge = {}
      /\ acked = [s \in Scans |-> {}] /\ deletes = [s \in Scans |-> "no"]
      /\ failures = 0 /\ restarts = 0
  BY Zenon DEF Init
<1>2. /\ \A s \in Scans : /\ memory[s] = 0 /\ own[s] = 0 /\ tasks[s] = "none"
                          /\ disk[s] = NoFiles /\ acked[s] = {} /\ deletes[s] = "no"
      /\ \A r \in Requests : requests[r] = Idle
  BY <1>1
<1>3. \A r \in Requests : requests[r].pc = "idle"
  BY <1>2, IdleType, Zenon
<1>4. \A s \in Scans : ~ Accepted(s) /\ ~ InMemory(s) /\ ~ Holding(s)
  BY <1>2 DEF Accepted, InMemory, Holding, Uploading
<1>5. TypeInv
  <2>1. StoreType
    BY <1>1, <1>2 DEF StoreType, Tasks, Uploading, Active
  <2>2. DiskType
    <3>1. NoFiles \in Files
      BY DEF NoFiles, Files, Reports
    <3> QED
      BY <1>1, <1>2, <3>1, Zenon DEF DiskType
  <2>3. StraysType
    BY <1>1, Zenon DEF StraysType
  <2>4. RequestsType
    <3>1. requests = [r \in Requests |-> requests[r]]
      BY <1>1, <1>2
    <3>2. \A r \in Requests : RequestType(requests[r]) /\ requests[r].object = 0
      BY <1>2, IdleType, Zenon
    <3>3. \A r \in Requests : requests[r].object <= Len(objects)
      BY <1>1, <3>2
    <3> QED
      BY <3>1, <3>2, <3>3, Zenon DEF RequestsType
  <2>5. RestType
    BY <1>1 DEF RestType, Deletes
  <2> QED
    BY <2>1, <2>2, <2>3, <2>4, <2>5, Zenon DEF TypeInv
<1>6. OwnershipInv
  BY <1>2, <1>3 DEF OwnershipInv, Deciding
<1>7. LifeInv
  BY <1>2, <1>3, <1>4 DEF LifeInv, Deciding, Loading, Active
<1>8. DeleteInv
  BY <1>1, <1>2, <1>3, <1>4 DEF DeleteInv, DeleteStops, Removing
<1>9. DiskInv /\ StatusInv
  BY <1>4, Zenon DEF DiskInv, StatusInv
<1>10. HoldersInv
  <2>1. Holders = {}
    BY <1>4, Zenon DEF Holders
  <2>2. IsFiniteSet(Holders) /\ Cardinality(Holders) = 0
    BY <2>1, FS_EmptySet, Zenon
  <2> QED
    BY <2>2 DEF HoldersInv
<1>11. DecisionInv
  <2>1. UndecidedInv
    BY <1>2, <1>4, Zenon DEF UndecidedInv
  <2>2. SaversInv /\ InterruptedInv
    BY <1>3 DEF SaversInv, InterruptedInv
  <2>3. DecisionsKept
    BY <1>2, Zenon DEF DecisionsKept
  <2> QED
    BY <2>1, <2>2, <2>3, Zenon DEF DecisionInv
<1>12. ReportInv
  BY <1>4, Zenon DEF ReportInv, ServedInv, ReportOnlyWhenDone
<1> QED
  BY <1>5, <1>6, <1>7, <1>8, <1>9, <1>10, <1>11, <1>12, Zenon DEF IInv

LEMMA StepInv == IInv /\ [Next]_vars => IInv'
<1> SUFFICES ASSUME IInv, [Next]_vars PROVE IInv'
  BY Zenon
<1>1. /\ TypeInv /\ OwnershipInv /\ LifeInv /\ DeleteInv /\ DiskInv /\ StatusInv
      /\ HoldersInv /\ UndecidedInv /\ SaversInv /\ InterruptedInv /\ DecisionInv
      /\ ServedInv /\ ReportInv
  BY Zenon DEF IInv, DecisionInv, ReportInv
<1>2. TypeInv' /\ OwnershipInv' /\ LifeInv' /\ DeleteInv' /\ DiskInv' /\ StatusInv' /\ HoldersInv'
  BY <1>1, TypeStep, OwnershipStep, LifeStep, DeleteStep, DiskStep, StatusStep, HoldersStep,
     Zenon
<1>3. UndecidedInv' /\ SaversInv' /\ InterruptedInv' /\ DecisionsKept'
  BY <1>1, UndecidedStep, SaversStep, InterruptedStep, DecisionsStep, Zenon
<1>4. ServedInv' /\ ReportOnlyWhenDone'
  BY <1>1, ServedStep, ReportOnlyStep, Zenon
<1> QED
  BY <1>2, <1>3, <1>4, Zenon DEF IInv, DecisionInv, ReportInv

\* Every reachable state satisfies the inductive invariant.
THEOREM Invariant == Spec => []IInv
BY InitInv, StepInv, PTL DEF Spec

\* _scans and the tasks refer to objects that exist, and a scan whose directory is
\* gone has no files.
THEOREM TypeCorrect == Spec => []TypeOK
<1>1. ASSUME IInv PROVE TypeOK
  <2>1. StoreType /\ DiskType /\ StraysType /\ RequestsType /\ RestType
    BY <1>1, Zenon DEF IInv, TypeInv
  <2>2. \A w \in strays : w.scan \in Scans /\ w.file \in {"info", "report"}
    BY <2>1 DEF StraysType, WriteType
  <2>3. \A r \in Requests : requests[r].object \in 0..Len(objects)
    BY <1>1, Shapes DEF IInv
  <2> QED
    BY <2>1, <2>2, <2>3, Zenon DEF TypeOK, StoreType, DiskType, RestType, Object, Files, Tasks,
       Deletes
<1> QED
  BY <1>1, Invariant, PTL

\* A scan that is shown as running holds the semaphore: its run works on the object
\* that is shown, and whatever else is served has another status.
THEOREM RunningIsLimited == Spec => []RunningLimit
<1>1. ASSUME IInv PROVE RunningLimit
  <2> DEFINE Shown == {s \in Scans : InMemory(s) /\ Status(s) = Running}
  <2>1. TypeInv /\ LifeInv /\ StatusInv /\ HoldersInv
    BY <1>1, Zenon DEF IInv
  <2>2. ASSUME NEW s \in Shown
        PROVE  s \in Holders
    <3>1. s \in Scans /\ InMemory(s) /\ Status(s) = Running /\ StatusFits(tasks[s], Status(s))
      BY <2>1, <2>2, Zenon DEF StatusInv
    <3>2. tasks[s] \notin {"none", "creating", "uploading"}
      BY <2>1, <3>1, Zenon DEF LifeInv, InMemory
    <3>3. tasks[s] \in Tasks
      BY <2>1, <3>1, Shapes
    <3>4. tasks[s] \in {"starting", "working", "saving"}
      BY <3>1, <3>2, <3>3 DEF StatusFits, Tasks, Uploading, Active, Queued, Running, Done, Failed
    <3> QED
      BY <3>1, <3>4 DEF Holders, Holding
  <2> HIDE DEF Shown
  <2>3. Shown \in SUBSET Holders
    BY <2>2, Zenon
  <2>4. /\ IsFiniteSet(Holders) /\ Cardinality(Holders) <= MaxConcurrent
    BY <2>1, Zenon DEF HoldersInv
  <2>5. IsFiniteSet(Shown) /\ Cardinality(Shown) <= Cardinality(Holders)
    BY <2>3, <2>4, FS_Subset, Zenon
  <2>6. Cardinality(Shown) \in Nat /\ Cardinality(Holders) \in Nat
    BY <2>4, <2>5, FS_CardinalityType, Zenon
  <2>7. Cardinality(Shown) <= MaxConcurrent
    BY <2>4, <2>5, <2>6
  <2> QED
    BY <2>7 DEF Shown, RunningLimit
<1> QED
  BY <1>1, Invariant, PTL

\* A scan whose id was given out can be found until it is deleted, in memory or
\* on disk, whenever the server stops.
THEOREM AcceptedStaysFound == Spec => []AcceptedIsFound
<1>1. IInv => AcceptedIsFound
  BY Zenon DEF IInv, DiskInv, AcceptedIsFound
<1> QED
  BY <1>1, Invariant, PTL

\* A decision that was answered is never lost, in memory or on disk.
THEOREM DecisionsStay == Spec => []DecisionsKept
<1>1. IInv => DecisionsKept
  BY Zenon DEF IInv, DecisionInv
<1> QED
  BY <1>1, Invariant, PTL

\* Nothing runs of a scan that is being deleted.
THEOREM DeletionStops == Spec => []DeleteStops
<1>1. IInv => DeleteStops
  BY Zenon DEF IInv, DeleteInv
<1> QED
  BY <1>1, Invariant, PTL

\* While no write fails and the server does not stop, a report is only served of a
\* scan that is done.
THEOREM ReportWhenDone == Spec => []ReportOnlyWhenDone
<1>1. IInv => ReportOnlyWhenDone
  BY Zenon DEF IInv, ReportInv
<1> QED
  BY <1>1, Invariant, PTL

=============================================================================
