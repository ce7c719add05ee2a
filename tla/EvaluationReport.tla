-------------------------- MODULE EvaluationReport --------------------------
(***************************************************************************)
(* What the evaluation makes of its records: the scores of each            *)
(* configuration (evaluation/report.py), the sample that people rate and   *)
(* how far they agree (evaluation/agreement.py).                           *)
(*                                                                         *)
(* A record is what a run did with a file: whether it is complete, the     *)
(* findings that each configuration ended with, the calls (provider, task, *)
(* status, tokens) and the counts of failed tasks and discarded items.     *)
(* A configuration is a tuple: <<"A">>, <<"F", provider>>,                 *)
(* <<"E", reviewer, verifier>> and so on.  Times are left out.             *)
(***************************************************************************)
EXTENDS Scoring, Merge

CONSTANT DefaultMinConfidence   \* DEFAULT_MIN_CONFIDENCE

InOrder(S) == IF S = {} THEN <<>> ELSE SelectSeq([i \in 1..Max(S) |-> i], LAMBDA i : i \in S)

\* What f yields for each member of S, in order, in one sequence.
Gathered(S, f(_)) == FlattenSeq([i \in DOMAIN InOrder(S) |-> f(InOrder(S)[i])])

Verifies(variant) == variant[1] = "E"

\* _calls_for: D stops before the verification, whose calls are E's.
CallsFor(record, variant) ==
  SelectSeq(record.calls, LAMBDA c : variant # <<"D">> \/ c.task # "verify")

\* _call_counts
CallCounts(calls) ==
  LET With(p, s) == SelectSeq(calls, LAMBDA c : c.provider = p /\ c.status = s)
      StatusesOf(p) == {c.status : c \in {c \in Range(calls) : c.provider = p}}
  IN  [p \in {c.provider : c \in Range(calls)} |-> [s \in StatusesOf(p) |-> Len(With(p, s))]]

Tokens(calls) == FoldedOver(LAMBDA n, c : n + c.tokens, 0, calls)

Disputed(f) == f.status = "needs_review" /\ f.note = "disagreed"

\* Verification: what it decided, and whether it decided right.
Verification(reported, correct) ==
  LET Those(Test(_)) == Len(SelectSeq(reported, Test))
      disputed == Those(Disputed)
      right == Those(LAMBDA f : Disputed(f) /\ f.id \in correct)
  IN  [confirmed     |-> Those(LAMBDA f : f.verified # {}),
       confirmedReal |-> Those(LAMBDA f : f.verified # {} /\ f.id \in correct),
       disputed      |-> disputed,
       disputedFalse |-> disputed - right,
       ifHidden      |-> Share(Cardinality(correct) - right, Len(reported) - disputed)]

\* The files that are scored: those the run completed.
Covered(newest, variant) ==
  {f \in DOMAIN newest : newest[f].complete /\ variant \in DOMAIN newest[f].variants}

ReportedOf(newest, covered, variant) ==
  Gathered(covered, LAMBDA f :
    SelectSeq(newest[f].variants[variant], LAMBDA x : IsReported(x, DefaultMinConfidence)))

\* variant_result
VariantResult(dataset, newest, variant) ==
  LET covered == Covered(newest, variant)
      labels == SelectSeq(Located(dataset), LAMBDA l : l.file \in covered)
      clean == CleanFiles(dataset) \cap covered
      calls == Gathered(covered, LAMBDA f : CallsFor(newest[f], variant))
      ByModel(f) == f.sources \cap Models # {}
      Total(records, count(_)) == MapThenSumSet(LAMBDA f : count(newest[f]), records)
      Result(reported) ==
        [card      |-> Score(reported, labels, clean),
         modelCard |-> Score(SelectSeq(reported, ByModel), labels, clean),
         files     |-> Cardinality(DOMAIN newest),
         covered   |-> covered,
         calls     |-> CallCounts(calls),
         tokens    |-> Tokens(calls),
         discarded |-> Total(covered, LAMBDA r : r.discarded),
         failed    |-> Total(DOMAIN newest, LAMBDA r : r.failed),
         verification |-> IF Verifies(variant)
                          THEN {Verification(reported, Assess(reported, labels, TRUE).correct)}
                          ELSE {}]
  IN  Of(ReportedOf(newest, covered, variant), Result)

VariantsIn(newest) == UNION {DOMAIN r.variants : r \in Range(newest)}

\* evaluate: logs[run] is the newest record of each file.
Evaluate(dataset, logs, wanted) ==
  LET Wanted(newest) == Restrict(newest, DOMAIN newest \cap wanted)
      RunOf(variant) == CHOOSE run \in DOMAIN logs : variant \in VariantsIn(Wanted(logs[run]))
  IN  [variant \in UNION {VariantsIn(Wanted(logs[run])) : run \in DOMAIN logs} |->
         VariantResult(dataset, Wanted(logs[RunOf(variant)]), variant)]

IsModelRun(variant) == variant[1] = "F"

\* common_model_results: compared on the files that every model completed.
CommonModelResults(dataset, logs) ==
  LET OfModels(results) == Restrict(results, {v \in DOMAIN results : IsModelRun(v)})
      OnAll(results) == {f \in Files(dataset) : \A v \in DOMAIN results : f \in results[v].covered}
      Together(results) ==
        IF DOMAIN results = {} THEN results
        ELSE OfModels(Evaluate(dataset, logs, OnAll(results)))
  IN  Of(OfModels(Evaluate(dataset, logs, Files(dataset))), Together)

\* _labels: how the table marks a label for a configuration.
Mark(label, result) ==
  CASE label.file \notin result.covered -> "not completed"
    [] label.file \in result.covered /\ label.id \in result.card.found -> "found"
    [] OTHER -> "missed"

-----------------------------------------------------------------------------
(* The sample and the ratings.                                             *)

Scale == 1..5

\* What people may be asked to judge of a configuration.
Rateable(newest, variant) ==
  SelectSeq(ReportedOf(newest, Covered(newest, variant), variant),
            LAMBDA f : f.suggests /\ f.sources \cap Models # {})

\* sample: any equal share of each configuration's, in any order.
Samples(newestOf, size) ==
  LET variants == DOMAIN newestOf
      share == Larger(1, size \div Larger(1, Cardinality(variants)))
      Picks(variant) ==
        LET found == Range(Rateable(newestOf[variant], variant))
        IN  kSubset(Smaller(share, Cardinality(found)), found)
      chosen == {S \in [variants -> UNION {Picks(v) : v \in variants}] :
                   \A v \in variants : S[v] \in Picks(v)}
  IN  UNION {SetToSeqs(UNION Range(S)) : S \in chosen}

\* cohen_kappa with quadratic weights, which are scaled alike above and below.
CohenKappa(first, second) ==
  LET Weight(i, j) == (i - j) * (i - j)
      Given(scores, i) == Len(SelectSeq(scores, LAMBDA s : s = i))
      observed == MapThenSumSet(LAMBDA n : Weight(first[n], second[n]), DOMAIN first)
      expected == MapThenSumSet(
        LAMBDA p : Weight(p[1], p[2]) * Given(first, p[1]) * Given(second, p[2]), Scale \X Scale)
  IN  IF expected = 0 THEN Share(1, 1) ELSE Share(expected - Len(first) * observed, expected)

\* fleiss_kappa: counts[item][score] raters gave the item the score.
FleissKappa(counts, raters) ==
  LET ratings == Len(counts) * raters
      Square(n) == n * n
      Given(s) == MapThenSumSet(LAMBDA n : counts[n][s], DOMAIN counts)
      pairs == MapThenSumSet(LAMBDA p : Square(counts[p[1]][p[2]]), (DOMAIN counts) \X Scale) - ratings
      chance == MapThenSumSet(LAMBDA s : Square(Given(s)), Scale)
  IN  IF chance = Square(ratings) THEN Share(1, 1)
      ELSE Share(pairs * ratings - chance * (raters - 1), (Square(ratings) - chance) * (raters - 1))

\* _agreement: the items that all of these raters rated, if they are enough.
SharedItems(ratings, raters) ==
  LET shared == {i \in UNION {DOMAIN ratings[r] : r \in raters} :
                   \A r \in raters : i \in DOMAIN ratings[r]}
  IN  IF Cardinality(shared) < 2 THEN <<>> ELSE InOrder(shared)

PairKappa(ratings, a, b) ==
  LET shared == SharedItems(ratings, {a, b})
  IN  CohenKappa(AtPlaces(ratings[a], shared), AtPlaces(ratings[b], shared))

AllKappa(ratings) ==
  LET shared == SharedItems(ratings, DOMAIN ratings)
      Count(i, s) == Cardinality({r \in DOMAIN ratings : ratings[r][i] = s})
  IN  FleissKappa([n \in DOMAIN shared |-> [s \in Scale |-> Count(shared[n], s)]], Len(ratings))

=============================================================================
