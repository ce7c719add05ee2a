----------------------------- MODULE ScanStore -----------------------------
(***************************************************************************)
(* What the browser shows of a scan: the store that the event stream feeds *)
(* (frontend/src/store/scan-store.ts, lib/activity.ts).                    *)
(*                                                                         *)
(* An event is a record of its kind and what that kind carries.  The       *)
(* activity log is reduced to the events it has a line for.                *)
(***************************************************************************)
EXTENDS Functions, SequencesExt

CONSTANTS
  ActivityLimit,   \* ACTIVITY_LIMIT
  Null             \* null, where the store has nothing yet

\* ScanStage
ScanStage ==
  {"ingesting", "preprocessing", "analyzing", "reviewing", "verifying", "summarizing", "done"}

ASSUME StoreAssumption == ActivityLimit \in Nat /\ Null \notin ScanStage

\* start: nothing is left of any previous scan.
EmptyStore ==
  [status |-> Null, stage |-> Null, finished |-> <<>>, tools |-> <<>>, calls |-> <<>>,
   plan |-> Null, findings |-> <<>>, activity |-> <<>>]

\* describeEvent has a line for it.
Described(e) ==
  CASE e.kind = "stage"       -> e.stage # "done"
    [] e.kind = "tool"        -> e.state # "started"
    [] e.kind = "review_plan" -> TRUE
    [] e.kind = "llm_call"    -> e.call.status # "skipped"
    [] e.kind = "status"      -> e.status \in {"done", "failed"}
    [] e.kind = "finding"     -> FALSE

Newest(s, n) == IF Len(s) > n THEN SubSeq(s, Len(s) - n + 1, Len(s)) ELSE s

ToolAt(tools, e) == {i \in DOMAIN tools : tools[i].tool = e.tool}

UpsertTool(tools, e) ==
  IF ToolAt(tools, e) = {} THEN Append(tools, e)
  ELSE [tools EXCEPT ![CHOOSE i \in ToolAt(tools, e) : TRUE] = e]

\* A finding replaces the earlier version with its id.
WithFinding(findings, f) ==
  [id \in DOMAIN findings \cup {f.id} |-> IF id = f.id THEN f ELSE findings[id]]

\* reduce
Reduced(store, e) ==
  CASE e.kind = "status"      -> [store EXCEPT !.status = e.status]
    [] e.kind = "stage"       ->
         [store EXCEPT !.stage = e.stage,
                       !.finished = IF store.stage = Null THEN <<>> ELSE Append(@, store.stage)]
    [] e.kind = "tool"        -> [store EXCEPT !.tools = UpsertTool(@, e)]
    [] e.kind = "review_plan" -> [store EXCEPT !.plan = e.plan]
    [] e.kind = "llm_call"    -> [store EXCEPT !.calls = Append(@, e.call)]
    [] e.kind = "finding"     -> [store EXCEPT !.findings = WithFinding(@, e.finding)]

Apply(store, e) ==
  [Reduced(store, e) EXCEPT
     !.activity = IF Described(e) THEN Newest(Append(@, e.kind), ActivityLimit) ELSE @]

=============================================================================
