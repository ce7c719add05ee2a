------------------------------- MODULE Scoring -------------------------------
(***************************************************************************)
(* A labelled dataset, and how findings are matched against its labels     *)
(* (evaluation/dataset.py, scoring.py).                                    *)
(*                                                                         *)
(* A label is a record of its id, file, anchor, lines, category, cwe ("" *)
(* for none) and detection; located, it also has a first and a last line.  *)
(* A dataset is the texts of its files, each line the set of the anchors   *)
(* found in it, and its labels.  A share is a numerator and a denominator, *)
(* which is 0 when the share is undefined.                                 *)
(***************************************************************************)
EXTENDS Findings

LineTolerance == 2
Detections == {"static", "semantic"}

Hits(label, text) == {n \in DOMAIN text : label.anchor \in text[n]}

\* load_dataset accepts the labels.
Loads(dataset) ==
  LET labels == dataset.labels
  IN  /\ \A i, j \in DOMAIN labels : labels[i].id = labels[j].id => i = j
      /\ \A label \in Range(labels) :
           /\ label.file \in DOMAIN dataset.texts
           /\ \E n \in DOMAIN dataset.texts[label.file] :
                /\ Hits(label, dataset.texts[label.file]) = {n}
                /\ n + label.lines - 1 <= Len(dataset.texts[label.file])

\* locate
Locate(label, text) ==
  LET n == CHOOSE n \in Hits(label, text) : TRUE
  IN  label @@ Lines(n, n + label.lines - 1)

Located(dataset) ==
  [i \in DOMAIN dataset.labels |->
     Locate(dataset.labels[i], dataset.texts[dataset.labels[i].file])]

Files(dataset) == DOMAIN dataset.texts
CleanFiles(dataset) == Files(dataset) \ {label.file : label \in Range(dataset.labels)}

-----------------------------------------------------------------------------
(* Matching.                                                               *)

MatchingCategory(category) == IF category = "typing" THEN "bug" ELSE category

\* matches, whatever the category.
Nearby(f, label) ==
  /\ f.file = label.file
  /\ f.first <= label.last + LineTolerance
  /\ f.last >= label.first - LineTolerance

Matches(f, label) ==
  Nearby(f, label) /\ MatchingCategory(f.category) = MatchingCategory(label.category)

\* augment: pair the label with a free finding, or with one whose label can move.
RECURSIVE Augment(_, _, _)
Augment(label, pairing, candidates) ==
  LET Try(p, f) ==
        LET seen == [p EXCEPT !.visited = @ \cup {f}]
            after == IF f \in DOMAIN p.owner THEN Augment(p.owner[f], seen, candidates)
                     ELSE [seen EXCEPT !.found = TRUE]
        IN  IF p.found \/ f \in p.visited THEN p
            ELSE IF after.found THEN [after EXCEPT !.owner = (f :> label) @@ @]
            ELSE after
  IN  FoldedOver(Try, pairing, candidates[label])

\* maximum_matching: the label that each finding is paired with.
MaximumMatching(candidates) ==
  LET Pair(owner, label) ==
        Augment(label, [owner |-> owner, visited |-> {}, found |-> FALSE], candidates).owner
  IN  FoldedOver(Pair, <<>>, PlacesOf(candidates))

-----------------------------------------------------------------------------
(* Scores.                                                                 *)

Share(part, whole) == [num |-> part, den |-> whole]
Precision(counts) == Share(counts.correct, counts.predictions)
Recall(counts) == Share(counts.found, counts.labels)

\* The harmonic mean of precision and recall, 0 when both are.
F1(counts) ==
  LET total == counts.correct * counts.labels + counts.found * counts.predictions
  IN  IF counts.predictions * counts.labels = 0 THEN Share(0, 0)
      ELSE IF total = 0 THEN Share(0, 1)
      ELSE Share(2 * counts.correct * counts.found, total)

\* assess, with the matches of place and category, or of place alone.
Assess(found, labels, byCategory) ==
  LET Match(f, label) == IF byCategory THEN Matches(f, label) ELSE Nearby(f, label)
      Right(f) == \E label \in Range(labels) : Match(f, label)
      candidates == [l \in DOMAIN labels |->
        SelectSeq(PlacesOf(found), LAMBDA i : Match(found[i], labels[l]))]
      paired(owner) == {labels[l].id : l \in Range(owner)}
      correct == {f.id : f \in {f \in Range(found) : Right(f)}}
      Fared(ids) ==
        [counts  |-> [correct |-> Len(SelectSeq(found, LAMBDA f : f.id \in correct)),
                      predictions |-> Len(found), found |-> Cardinality(ids), labels |-> Len(labels)],
         found   |-> ids,
         correct |-> correct]
  IN  Of(paired(MaximumMatching(candidates)), Fared)

\* _recall, of these labels
RecallOf(labels, ids) ==
  [correct |-> 0, predictions |-> 0,
   found |-> Len(SelectSeq(labels, LAMBDA l : l.id \in ids)), labels |-> Len(labels)]

Plus(a, b) == Share(a.num * b.den + b.num * a.den, a.den * b.den)

\* The mean F1 of the categories that have labels and an F1.
MacroF1(categories) ==
  LET scored == {c \in DOMAIN categories :
                   categories[c].labels > 0 /\ F1(categories[c]).den > 0}
      total == MapThenFoldSet(Plus, Share(0, 1), LAMBDA c : F1(categories[c]),
                 LAMBDA I : CHOOSE c \in I : TRUE, scored)
  IN  IF scored = {} THEN Share(0, 0) ELSE Share(total.num, total.den * Cardinality(scored))

\* score
Score(found, labels, clean) ==
  LET categories == {MatchingCategory(x.category) : x \in Range(labels) \cup Range(found)}
      Card(overall, byCategory) ==
        [overall     |-> overall.counts,
         location    |-> Assess(found, labels, FALSE).counts,
         categories  |-> byCategory,
         macro       |-> MacroF1(byCategory),
         detection   |-> [d \in Detections |->
                            RecallOf(SelectSeq(labels, LAMBDA l : l.detection = d), overall.found)],
         cwe         |-> [w \in {l.cwe : l \in Range(labels)} \ {""} |->
                            RecallOf(SelectSeq(labels, LAMBDA l : l.cwe = w), overall.found)],
         cleanFile   |-> Len(SelectSeq(found, LAMBDA f : f.file \in clean)),
         found       |-> overall.found]
      InCategory(c) ==
        Assess(SelectSeq(found, LAMBDA f : MatchingCategory(f.category) = c),
               SelectSeq(labels, LAMBDA l : MatchingCategory(l.category) = c), TRUE).counts
  IN  Of(Assess(found, labels, TRUE), LAMBDA overall :
        Of([c \in categories |-> InCategory(c)], LAMBDA each : Card(overall, each)))

=============================================================================
