-------------------------------- MODULE Merge --------------------------------
(***************************************************************************)
(* How the models' answers change findings: judgements of static findings  *)
(* and the merging of reported issues (app/review/merge.py), and the       *)
(* verdict of a second model (app/review/verifier.py).                     *)
(*                                                                         *)
(* A judgement is the id of the finding it judges, a verdict, an adjusted  *)
(* severity or none, whether it gives a reason, and the model it is by.    *)
(***************************************************************************)
EXTENDS Findings

\* The model's judgements about f, by their places in the sequence.
About(f, judged) == {i \in DOMAIN judged : judged[i].id = f.id}
Saying(judged, about, verdict) == {i \in about : judged[i].verdict = verdict}

\* A plausible slip: any model may lower any severity.
ConfirmAtTheirWord(f, judged, confirming) ==
  LET adjusted == judged[FirstOf(confirming)].adjusted
      g == [f EXCEPT !.sources = @ \cup {judged[i].by : i \in confirming},
                     !.confidence = Larger(@, ConfirmedConfidence)]
  IN  IF adjusted = NoSeverity THEN g ELSE [g EXCEPT !.severity = adjusted, !.note = "noted"]

\* _confirm: the severity changes to the first confirming model's, unless that
\* would lower a protected finding's, which is only noted.
Confirm(f, judged, confirming) ==
  LET adjusted == judged[FirstOf(confirming)].adjusted
      g == [f EXCEPT !.sources = @ \cup {judged[i].by : i \in confirming},
                     !.confidence = Larger(@, ConfirmedConfidence)]
  IN  IF adjusted \in {NoSeverity, f.severity} THEN g
      ELSE IF adjusted < f.severity /\ Protected(f) THEN [g EXCEPT !.note = "noted"]
      ELSE [g EXCEPT !.severity = adjusted, !.note = "noted"]

Dismiss(f) ==
  [f EXCEPT !.status = IF Protected(f) THEN "needs_review" ELSE "dismissed_by_ai",
            !.note = "noted"]

\* judge: confirmation outweighs dismissal, which outweighs doubt.
Judge(f, judged, about) ==
  LET confirming == Saying(judged, about, "confirmed")
  IN  IF confirming # {} THEN Confirm(f, judged, confirming)
      ELSE IF Saying(judged, about, "false_positive") # {} THEN Dismiss(f)
      ELSE IF judged[FirstOf(about)].reasoned THEN [f EXCEPT !.note = "noted"]
      ELSE f

ApplyJudgements(findings, judged) ==
  [i \in DOMAIN findings |->
     IF About(findings[i], judged) = {} THEN findings[i]
     ELSE Judge(findings[i], judged, About(findings[i], judged))]

SameIssue(f, new) ==
  f.file = new.file /\ f.category = new.category /\ Overlap(f, new)

\* A plausible slip: a dismissal outlives a second report.
CombineDismissed(f, new) ==
  [f EXCEPT !.sources = @ \cup new.sources, !.confidence = Larger(@, new.confidence),
            !.severity = IF AiOnly(f) THEN Larger(@, new.severity) ELSE @]

\* _combine: a tool's severity stands, and what one model dismissed and another
\* reports is for a human to decide.
Combine(f, new) ==
  LET g == CombineDismissed(f, new)
  IN  IF f.status = "dismissed_by_ai"
      THEN [g EXCEPT !.status = "needs_review", !.note = "noted"]
      ELSE g

MergeOne(merged, new) ==
  LET same == {i \in DOMAIN merged : SameIssue(merged[i], new)}
  IN  IF same = {} THEN Append(merged, new)
      ELSE [merged EXCEPT ![FirstOf(same)] = Combine(@, new)]

\* merge_ai_findings
MergeFindings(findings, new) == FoldedOver(MergeOne, findings, new)

-----------------------------------------------------------------------------
(* Verification.                                                           *)

NeedsVerification(f, from) ==
  /\ from # NoSeverity
  /\ AiOnly(f)
  /\ f.status = "open"
  /\ f.severity >= from

\* apply_verdict, for an answer of model p.
ApplyVerdict(f, answer, p) ==
  CASE answer.verdict = "valid" ->
         [f EXCEPT !.verified = @ \cup {p},
                   !.severity = IF answer.corrected = NoSeverity THEN @ ELSE answer.corrected,
                   !.confidence = Larger(@, answer.confidence)]
    [] answer.verdict = "invalid" -> [f EXCEPT !.status = "needs_review", !.note = "disagreed"]
    [] OTHER -> [f EXCEPT !.note = "noted"]

\* No other model was available.
NotVerified(f) == [f EXCEPT !.note = "unverified"]

=============================================================================
