------------------------------- MODULE Report -------------------------------
(***************************************************************************)
(* The report of a scan: counts, score and a reviewer's decisions          *)
(* (app/report/document.py, score.py).                                     *)
(*                                                                         *)
(* A reviewed file is a record of its number, lines, and source: the       *)
(* source lines a tool measured, 0 when none did.  A measured function is  *)
(* a record of its file, first and last line and complexity.  A project   *)
(* is its reviewed files, its measured functions and min, the confidence   *)
(* below which findings of models alone are not reported.                  *)
(***************************************************************************)
EXTENDS Findings

ReviewerStatuses == {"open", "accepted", "rejected"}

SeverityWeight == [s \in Severities |-> CASE s = Critical -> 25 [] s = High -> 10
                                          [] s = Medium -> 4 [] s = Low -> 1 [] OTHER -> 0]
ComplexFunction == 21
ComplexityWeight == 20

Sum(I, value(_)) == MapThenSumSet(value, I)

\* The places of the findings that satisfy a test.
Where(findings, Test(_)) == {i \in DOMAIN findings : Test(findings[i])}

ReportedIn(findings, min) == Where(findings, LAMBDA f : IsReported(f, min))

\* count_findings
CountFindings(findings, min) ==
  Of(ReportedIn(findings, min), LAMBDA reported :
      [findings  |-> Cardinality(reported),
       severity  |-> [s \in Severities |->
                        Cardinality({i \in reported : findings[i].severity = s})],
       category  |-> [c \in Categories |->
                        Cardinality({i \in reported : findings[i].category = c})],
       dismissed |-> Cardinality(Where(findings, LAMBDA f : f.status = "dismissed_by_ai")),
       rejected  |-> Cardinality(Where(findings, LAMBDA f : f.status = "rejected")),
       below     |-> Cardinality(Where(findings, LAMBDA f :
                       f.status \in Reported /\ Unconfident(f, min)))])

\* The nearest integer to m / n, the even one of two: round.
Round(m, n) ==
  LET q == m \div n
      r == 2 * (m % n)
  IN  IF r < n \/ (r = n /\ q % 2 = 0) THEN q ELSE q + 1

Clamp(x, low, high) == IF x < low THEN low ELSE IF x > high THEN high ELSE x

\* Lines of code: what was measured, unless that is nothing.
SourceLines(files) ==
  MapThenSumSet(LAMBDA f : IF f.source = 0 THEN f.lines ELSE f.source, files)

\* A function that several tools measure counts once, with its highest complexity.
Measured(functions) == {<<f.file, f.first>> : f \in functions}
ComplexPlaces(functions) ==
  {<<f.file, f.first>> : f \in {f \in functions : f.complexity >= ComplexFunction}}

\* quality_score: 100 less the penalties, exactly, over the denominator.
QualityScore(findings, project) ==
  LET lines == Larger(1000, SourceLines(project.files))
      weights == Sum(ReportedIn(findings, project.min), LAMBDA i : SeverityWeight[findings[i].severity])
      places == Larger(1, Cardinality(Measured(project.functions)))
      den == lines * places
      num == 100 * den - weights * 1000 * places
               - ComplexityWeight * Cardinality(ComplexPlaces(project.functions)) * lines
  IN  Round(Clamp(num, 0, 100 * den), den)

\* grade, for the tests of a score against it.
Grade(score) ==
  CASE score >= 90 -> "A" [] score >= 75 -> "B" [] score >= 60 -> "C" [] score >= 40 -> "D"
    [] OTHER -> "E"

\* build_report
BuildReport(findings, project) ==
  LET score == QualityScore(findings, project)
  IN  [findings |-> findings, counts |-> CountFindings(findings, project.min),
       score |-> score, grade |-> Grade(score)]

\* A plausible slip: the counts are the report's own.
DecideKeepingCounts(report, id, status, project) ==
  [report EXCEPT !.findings = [i \in DOMAIN @ |->
     IF @[i].id = id THEN [@[i] EXCEPT !.status = status] ELSE @[i]]]

\* set_finding_status: the counts and the score are made anew.
SetFindingStatus(report, id, status, project) ==
  LET With(f) == IF f.id = id THEN [f EXCEPT !.status = status] ELSE f
  IN  Of([i \in DOMAIN report.findings |-> With(report.findings[i])], LAMBDA findings :
        Of(project, LAMBDA measured : BuildReport(findings, measured)))

=============================================================================
