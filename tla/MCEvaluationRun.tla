--------------------------- MODULE MCEvaluationRun ---------------------------
(***************************************************************************)
(* A small instance of EvaluationRun: a file with three labels and a clean *)
(* one, two providers, and runs of every kind.                             *)
(***************************************************************************)
EXTENDS EvaluationRun

CONSTANTS nvidia, gemini

TwoProviders == {nvidia, gemini}
OrderOfRules == [r \in {"ai", "B608", "E501"} |-> CASE r = "B608" -> 1 [] r = "E501" -> 2 [] OTHER -> 3]

-----------------------------------------------------------------------------
(* The dataset: a finding in line 12 is near two labels, of which another  *)
(* is near only one.                                                       *)

Label(id, anchor, category, cwe, detection) ==
  [id |-> id, file |-> 1, anchor |-> anchor, lines |-> 1, category |-> category, cwe |-> cwe,
   detection |-> detection]

ThreeLabels ==
  <<Label("off-by-one", "a1", "bug", "", "semantic"),
    Label("wrong-type", "a2", "typing", "", "static"),
    Label("injection", "a3", "security", "CWE-89", "static")>>

Text ==
  [n \in 1..20 |-> CASE n = 10 -> {"a1"} [] n = 14 -> {"a2"} [] n = 18 -> {"a3"}
                     [] n \in {3, 4} -> {"twice"} [] OTHER -> {}]

Seeded == [texts |-> <<Text, [n \in 1..5 |-> {}]>>, labels |-> ThreeLabels]

\* One with labels that load, and some without.
SomeDatasets ==
  {Seeded,
   [Seeded EXCEPT !.labels = Append(@, ThreeLabels[1])],
   [Seeded EXCEPT !.labels[1].anchor = "twice"],
   [Seeded EXCEPT !.labels[1].anchor = "nowhere"],
   [Seeded EXCEPT !.labels[3].lines = 4],
   [Seeded EXCEPT !.labels[2].file = 3]}

-----------------------------------------------------------------------------
(* What tools and models find.                                             *)

Found(id, f, line, category, severity, sources, confidence) ==
  [id |-> id, file |-> f, first |-> line, last |-> line, category |-> category,
   severity |-> severity, sources |-> sources, confidence |-> confidence, status |-> "open",
   rule |-> "ai", verified |-> {}, note |-> "none", suggests |-> TRUE]

SqlInjection == [Found("s1", 1, 18, "security", High, {"bandit"}, 10) EXCEPT !.rule = "B608"]
LongLine == [Found("s2", 2, 3, "style", Low, {"ruff"}, 10) EXCEPT !.rule = "E501", !.suggests = FALSE]
SomeStatic == <<<<SqlInjection>>, <<LongLine>>>>

By(p, id, line, severity, confidence) == Found(id, 1, line, "bug", severity, {p}, confidence)

Call(p, status) == [provider |-> p, task |-> "review", status |-> status, tokens |-> 3]
Review(findings, calls, failed) ==
  [findings |-> findings, calls |-> calls, failed |-> failed, discarded |-> 1]

\* A review that goes through, and one that the quota ends.
ReviewsBy(f, p, static) ==
  IF f = 2
  THEN {Review(static, <<Call(p, "ok")>>, 0),
        Review(Append(static, Found("n1", 2, 2, "bug", Medium, {p}, 8)), <<Call(p, "ok")>>, 0)}
  ELSE {Review(static \o <<By(p, "p1", 12, Medium, 9), By(p, "p2", 8, High, 4)>>, <<Call(p, "ok")>>, 0),
        Review(static, <<Call(p, "rate_limited")>>, 1)}

SomeReviews ==
  [f \in 1..2 |-> [c \in [static : BOOLEAN, style : BOOLEAN] |->
     [enabled \in SUBSET TwoProviders |->
        UNION {ReviewsBy(f, p, IF c.static THEN SomeStatic[f] ELSE <<>>) :
                 p \in IF enabled = TwoProviders THEN {nvidia} ELSE enabled}]]]

SomeVerdicts ==
  {[verdict |-> "valid", corrected |-> NoSeverity, confidence |-> 9],
   [verdict |-> "invalid", corrected |-> NoSeverity, confidence |-> 5]}

-----------------------------------------------------------------------------
(* What people run.                                                        *)

Ask(kind, provider, base) == [kind |-> kind, provider |-> provider, base |-> base]
SomeRuns ==
  {Ask("static", "", ""), Ask("hybrid", "", ""), Ask("llm-only", gemini, ""),
   Ask("model", nvidia, ""), Ask("model", gemini, ""), Ask("verify", gemini, nvidia),
   Ask("model", "", ""), Ask("static", nvidia, ""), Ask("verify", gemini, "")}

NoLogs == [run \in Runs |-> EmptyLog]
Logged(records) == [records |-> records, torn |-> FALSE]

\* The logs that a run of both models may leave: one was stopped by its quota and
\* resumed, and one has not seen the second file.
ModelSpec(p) == Ask("model", p, "")
Done(f, p) == Record(f, TRUE, <<"F", p>> :> SomeStatic[f] \o
                <<By(p, "p1", 12, Medium, 9), By(p, "p2", 8, High, 7)>>, <<Call(p, "ok")>>, NoStats)
Quota(f, p) == Record(f, FALSE, <<"F", p>> :> SomeStatic[f], <<Call(p, "rate_limited")>>,
                      [failed |-> 1, discarded |-> 0])
Shipped ==
  [NoLogs EXCEPT ![<<"model", nvidia>>] = Logged(<<Quota(1, nvidia), Broken(2), Done(1, nvidia),
                                                  Record(2, TRUE, <<"F", nvidia>> :> SomeStatic[2], <<>>, NoStats)>>),
                 ![<<"model", gemini>>] = Logged(<<Done(1, gemini), Broken(2)>>)]

SomeHistories ==
  {[logs |-> NoLogs, commands |-> 1, next |-> "score"],
   [logs |-> Shipped, commands |-> 1, next |-> "score"],
   [logs |-> [Shipped EXCEPT ![<<"model", nvidia>>].torn = TRUE], commands |-> 1, next |-> "score"],
   [logs |-> Shipped, commands |-> 0, next |-> "rate"]}

BothModels == {<<"F", nvidia>>, <<"F", gemini>>}

=============================================================================
