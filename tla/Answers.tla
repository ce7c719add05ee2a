------------------------------ MODULE Answers ------------------------------
(***************************************************************************)
(* From the text a model answers to findings and judgements: parsing       *)
(* (app/review/answers.py), grounding (app/review/grounding.py) and        *)
(* review_chunk (app/review/reviewer.py).                                  *)
(*                                                                         *)
(* A text is a sequence of pieces: "thoughts" (a <think> block), "fence",  *)
(* "prose", "braces" (prose with braces in it), "object" (a JSON object)   *)
(* and "value" (other JSON).  A line of code or of quoted evidence is a    *)
(* record, see Redaction, that tells what it says and its size.  A source   *)
(* is a sequence of lines.                                                 *)
(***************************************************************************)
EXTENDS Planner, Redaction

ContextCategories ==
  [review |-> Categories \ {"style"}, style |-> {"style", "maintainability"}]
MaxSeverity == [review |-> Critical, style |-> Medium]

EvidencePadding == 2
MinEvidence == 3

-----------------------------------------------------------------------------
(* Parsing.                                                                *)

Without(text, piece) == SelectSeq(text, LAMBDA x : x # piece)

Unfenced(text) ==
  IF Len(text) >= 2 /\ Head(text) = "fence" /\ Last(text) = "fence"
  THEN SubSeq(text, 2, Len(text) - 1)
  ELSE text

\* From the first brace to the last.
Braced(text) ==
  LET braces == {i \in DOMAIN text : text[i] \in {"object", "braces"}}
  IN  IF braces = {} THEN <<>> ELSE SubSeq(text, Min(braces), Max(braces))

\* load_json_object finds one.
HasObject(text) ==
  LET candidate == Unfenced(Without(text, "thoughts"))
  IN  candidate # <<"value">> /\ Braced(candidate) = <<"object">>

\* _fraction, in hundredths: 85 and "85%" mean 0.85, and 1 means 1.
Fraction(h) == IF h > 100 /\ h <= 10000 THEN h \div 100 ELSE h

\* A plausible slip: any number is a confidence.
ValidAnyway(issue) ==
  /\ issue.first >= 1
  /\ issue.first <= issue.last
  /\ issue.category \in Categories
  /\ issue.severity \in Severities
  /\ issue.evidence # <<>>

\* ReportedIssue accepts it; what is unknown or missing is "unknown".
ValidIssue(issue) ==
  /\ ValidAnyway(issue)
  /\ Fraction(issue.confidence) \in 0..100

ValidJudgement(j) ==
  /\ j.verdict \in {"confirmed", "false_positive", "uncertain"}
  /\ j.adjusted \in Severities \cup {NoSeverity}

\* What an answer lists, whether it is accepted or not.
AnswerOf(answer) ==
  /\ IsList(answer.issues)
  /\ \A k \in 1..Len(answer.issues) :
       /\ answer.issues[k].first \in Int /\ answer.issues[k].last \in Int
       /\ IsList(answer.issues[k].evidence)
       /\ \A line \in Range(answer.issues[k].evidence) : line.size = 0 => line.says = 0
  /\ IsList(answer.judgements)

\* parse_review_answer rejects an answer without a list of findings.
Usable(answer) == HasObject(answer.text) /\ answer.listed

-----------------------------------------------------------------------------
(* Grounding.                                                              *)

IsShown(line, c) ==
  line \in c.first..c.last \/ \E r \in Range(c.context) : line \in r.first..r.last

Quoted(evidence) == FirstN(evidence, MaxEvidenceLines)

Size(line) == line.size

Meaningful(lines) ==
  MapThenSumSet(LAMBDA i : Size(lines[i]), DOMAIN lines) >= MinEvidence

\* ungrounded_reason finds none: the cited lines were shown, and every quoted line
\* that is not blank is near them.
Grounded(issue, c, source) ==
  LET quoted == Quoted(issue.evidence)
      near == Larger(1, issue.first - EvidencePadding)..
                (issue.last + EvidencePadding)
  IN  /\ issue.last <= Len(source)
      /\ IsShown(issue.first, c) /\ IsShown(issue.last, c)
      /\ Meaningful(quoted)
      /\ \A i \in DOMAIN quoted :
           quoted[i].size = 0 \/ \E n \in near \cap DOMAIN source : source[n] = quoted[i]

OnTask(issue, task) ==
  issue.category \in ContextCategories[task] /\ issue.severity <= MaxSeverity[task]

-----------------------------------------------------------------------------
(* review_chunk, once model p has given a usable answer to request i.      *)

ToFinding(issue, id, file, p) ==
  [id |-> id, file |-> file, first |-> issue.first, last |-> issue.last,
   category |-> issue.category, severity |-> issue.severity, sources |-> {p},
   confidence |-> Fraction(issue.confidence) \div 10, status |-> "open",
   rule |-> "ai", redacted |-> FALSE, formatting |-> FALSE, verified |-> {}, note |-> "none",
   evidence |-> {line.says : line \in Range(Quoted(issue.evidence))}]

Accepts(issue, task, c, source) ==
  ValidIssue(issue) /\ OnTask(issue, task) /\ Grounded(issue, c, source)

ReviewOf(answer, i, task, c, source, shown, p) ==
  LET kept == Kept(answer.issues, LAMBDA x : Accepts(x, task, c, source))
      valid == Kept(answer.judgements, ValidJudgement)
      judged == Kept(valid, LAMBDA j : j.id \in shown)
  IN  [findings   |-> [n \in DOMAIN kept |-> ToFinding(kept[n], <<"ai", i, n>>, c.file, p)],
       judgements |-> [n \in DOMAIN judged |->
                         [id |-> judged[n].id, verdict |-> judged[n].verdict,
                          adjusted |-> judged[n].adjusted, reasoned |-> judged[n].reasoned,
                          by |-> p]],
       discarded  |-> (Len(answer.issues) - Len(kept)) + (Len(answer.judgements) - Len(valid)),
       failed     |-> FALSE]

\* No provider could.
NoReview == [findings |-> <<>>, judgements |-> <<>>, discarded |-> 0, failed |-> TRUE]

=============================================================================
