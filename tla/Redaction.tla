----------------------------- MODULE Redaction -----------------------------
(***************************************************************************)
(* Where detectors saw secrets (secret_index, app/static/runner.py), and   *)
(* what is hidden of the code that people and models are shown             *)
(* (app/redaction.py, app/static/evidence.py).                             *)
(*                                                                         *)
(* A line is a record of what it says (a number, of a blank line 0; the    *)
(* negative once its secrets are masked), its size, white space collapsed, *)
(* the secret value it holds, and key: whether it begins or ends a private *)
(* key block.  On a line that a detector reported, masking its literals    *)
(* hides the secret.                                                       *)
(***************************************************************************)
EXTENDS Findings

CONSTANT MaxKeyBlock   \* MAX_KEY_BLOCK_LINES

ASSUME KeyBlockAssumption == MaxKeyBlock \in Nat

NoSecret == "none"

\* A line of code of which nothing is masked.
IsLine(line) ==
  DOMAIN line = {"says", "size", "secret", "key"} /\ line.says \in Nat

\* secret_index: the lines of redacted findings, and the values that were detected.
SecretIndex(findings, values) ==
  [lines |-> UNION {{<<f.file, n>> : n \in f.first..f.last} :
                      f \in {f \in Range(findings) : f.redacted}},
   values |-> values]

\* A plausible slip: only the lines that were reported are sensitive.
IsReportedLine(index, file, n, line) == <<file, n>> \in index.lines

IsSensitive(index, file, n, line) ==
  <<file, n>> \in index.lines \/ line.secret \in index.values

Masked(line) == [line EXCEPT !.says = -@, !.secret = NoSecret]

\* One round of mask_lines' loop: the lines so far, and the place in a key block.
MaskNext(index, file, lines, s, n) ==
  LET line == lines[n]
      ends == line.key \in {"end", "both"}
  IN  IF s.block \in 1..MaxKeyBlock /\ ~ ends
      THEN [masked |-> Append(s.masked, Masked(line)), block |-> s.block + 1]
      ELSE [masked |-> Append(s.masked,
                         IF line.key = "both" \/ IsSensitive(index, file, n, line)
                         THEN Masked(line) ELSE line),
            block |-> IF line.key = "begin" THEN 1 ELSE 0]

\* mask_lines: sensitive lines, and a key block from the line below its beginning, up
\* to so many lines.
MaskLines(index, file, lines) ==
  LET Next(s, n) == MaskNext(index, file, lines, s, n)
  IN  FoldedOver(Next, [masked |-> <<>>, block |-> 0], PlacesOf(lines)).masked

MaxEvidenceLines == 5

\* attach_evidence: what a finding of a tool shows of its lines; nothing of a
\* sensitive one.
WithEvidence(index, f, lines) ==
  [f EXCEPT !.evidence =
     IF f.redacted THEN {}
     ELSE {lines[n].says : n \in {n \in f.first..Smaller(f.last, f.first + MaxEvidenceLines - 1)
                                          \cap DOMAIN lines :
                                    ~ IsSensitive(index, f.file, n, lines[n])}}]

=============================================================================
