------------------------------ MODULE Planner ------------------------------
(***************************************************************************)
(* Which chunks of the code models review, under a depth and a budget      *)
(* (app/review/planner.py), and what static findings they see with them    *)
(* (app/review/context.py).                                                *)
(*                                                                         *)
(* A chunk is a record of its file, index, first and last line, and        *)
(* context: the ranges of lines shown with it.  A function is a record of  *)
(* its file, first and last line and cyclomatic complexity.  A static      *)
(* finding has a field formatting: whether it is one of ruff's rules about *)
(* layout.                                                                 *)
(***************************************************************************)
EXTENDS Findings

HighComplexity == 10

VerifyFrom ==
  [static |-> NoSeverity, quick |-> Critical, standard |-> High, deep |-> Medium]

\* The findings, by their places, that start in the chunk and are worth showing.
InChunk(c, findings) ==
  {i \in DOMAIN findings :
     /\ findings[i].file = c.file
     /\ findings[i].first \in c.first..c.last
     /\ ~ findings[i].formatting}

\* risk_score
Risk(c, findings, functions) ==
  LET Weight(i) == findings[i].severity + 1
      Complexity(f) == f.complexity \div 5
  IN  MapThenSumSet(Weight, InChunk(c, findings))
        + MapThenSumSet(Complexity,
            {f \in functions : f.file = c.file /\ f.complexity >= HighComplexity /\ Overlap(f, c)})

Thorough(depth) == depth \in {"standard", "deep"}

Candidates(chunks, findings, functions, depth) ==
  IF Thorough(depth) THEN chunks
  ELSE Kept(chunks, LAMBDA c : Risk(c, findings, functions) > 0)

\* Riskiest first, then in the order of the code.
ByRisk(chunks, findings, functions) ==
  LET Earlier(c, d) == c.file < d.file \/ (c.file = d.file /\ c.index < d.index)
      Rated(cs) == [i \in DOMAIN cs |-> [chunk |-> cs[i], risk |-> Risk(cs[i], findings, functions)]]
      Sorted(rated) ==
        LET Sooner(i, j) ==
              \/ rated[i].risk > rated[j].risk
              \/ /\ rated[i].risk = rated[j].risk
                 /\ \/ Earlier(rated[i].chunk, rated[j].chunk)
                    \/ ~ Earlier(rated[j].chunk, rated[i].chunk) /\ i < j
            places == Arranged(DOMAIN rated, Sooner)
        IN  [n \in DOMAIN places |-> rated[places[n]].chunk]
  IN  Of(Of(chunks, Rated), Sorted)

\* A plausible slip: style review has a budget of its own.
PlanTwice(chunks, findings, functions, depth, max) ==
  LET ordered == ByRisk(Candidates(chunks, findings, functions, depth), findings, functions)
      review == FirstN(ordered, max)
  IN  [review  |-> review,
       style   |-> IF Thorough(depth) THEN review ELSE <<>>,
       skipped |-> Len(chunks) - Len(review)]

\* plan_review: review first, style with what is left of the budget.
PlanReview(chunks, findings, functions, depth, max) ==
  LET ordered == ByRisk(Candidates(chunks, findings, functions, depth), findings, functions)
      review == FirstN(ordered, max)
  IN  IF depth = "static"
      THEN [review |-> <<>>, style |-> <<>>, skipped |-> Len(chunks)]
      ELSE [review  |-> review,
            style   |-> IF Thorough(depth) THEN FirstN(ordered, max - Len(review)) ELSE <<>>,
            skipped |-> Len(chunks) - Len(review)]

-----------------------------------------------------------------------------
(* What a model sees: build_context.                                       *)

ForTask(f, task) ==
  IF task = "review" THEN f.category # "style"
  ELSE f.category \in {"style", "maintainability"}

\* The ids of the findings shown: the most severe ones, at most so many.
Shown(c, task, findings, max) ==
  LET Sooner(i, j) == \/ findings[i].severity > findings[j].severity
                      \/ /\ findings[i].severity = findings[j].severity
                         /\ \/ findings[i].first < findings[j].first
                            \/ findings[i].first = findings[j].first /\ i < j
      relevant == {i \in InChunk(c, findings) : ForTask(findings[i], task)}
      shown == Arranged(relevant, Sooner)
  IN  {findings[i].id : i \in Range(FirstN(shown, max))}

=============================================================================
