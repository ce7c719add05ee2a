------------------------------ MODULE Findings ------------------------------
(***************************************************************************)
(* What every later stage knows of a finding (app/findings.py) and the     *)
(* questions asked of it (app/review/merge.py, context.py).                *)
(*                                                                         *)
(* A finding is a record of id, file, first and last line, category,       *)
(* severity (its rank), sources, confidence (in tenths), status, rule,     *)
(* evidence (what the lines it shows say), verified (verified_by) and note *)
(* (the kind of its ai_note).  One of a tool also says whether it is       *)
(* redacted, and whether it is about formatting alone.  Files are numbers  *)
(* in the order of their paths.  Titles and messages are left out.         *)
(***************************************************************************)
EXTENDS Lists

CONSTANTS
  Models,     \* PROVIDER_NAMES: the sources that are models and not tools
  RuleOrder   \* RuleOrder[r]: the place of rule r among the names of rules

NoId == <<>>   \* a finding whose id is not given yet

Critical == 4
High == 3
Medium == 2
Low == 1
Info == 0
Severities == Info..Critical
NoSeverity == -1   \* an optional severity that is not given

Categories == {"bug", "security", "style", "performance", "maintainability", "typing"}
FindingStatuses == {"open", "dismissed_by_ai", "needs_review", "accepted", "rejected"}

Reported == {"open", "needs_review", "accepted"}
ConfirmedConfidence == 8

AiOnly(f) == f.sources \subseteq Models
Unconfident(f, min) == AiOnly(f) /\ f.confidence < min
IsReported(f, min) == f.status \in Reported /\ ~ Unconfident(f, min)

\* Too serious for a model alone to dismiss or downgrade.
Protected(f) == f.category = "security" /\ f.severity >= High

\* Most severe first, then by place: the order of every list of findings.
Precedes(f, g) ==
  \/ f.severity > g.severity
  \/ f.severity = g.severity /\ f.file < g.file
  \/ f.severity = g.severity /\ f.file = g.file /\ f.first < g.first
  \/ f.severity = g.severity /\ f.file = g.file /\ f.first = g.first /\ RuleOrder[f.rule] < RuleOrder[g.rule]

\* A stable sort of the findings.
Ordered(findings) ==
  LET InOrder(fs) ==
        LET Sooner(i, j) == Precedes(fs[i], fs[j]) \/ (~ Precedes(fs[j], fs[i]) /\ i < j)
        IN  AtPlaces(fs, Arranged(DOMAIN fs, Sooner))
  IN  Of(findings, InOrder)

=============================================================================
