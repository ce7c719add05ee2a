----------------------------- MODULE Analyzers -----------------------------
(***************************************************************************)
(* The eight analyzers (app/static/analyzers): which files each is for,    *)
(* how the end of its process becomes a status, and what each makes of an  *)
(* entry of its tool's output.                                             *)
(*                                                                         *)
(* An output is a record of ending ("exit", "missing", "late", "crash"),   *)
(* the exit code, valid (it has the expected form) and its entries.  An    *)
(* entry is a record of the file (NoFile, if not in the upload), first and *)
(* last line, rule, and what its tool adds to them.  Of radon's three      *)
(* reports, code and valid are those of the worst.                         *)
(***************************************************************************)
EXTENDS Findings

NoFile == 0

Analyzers ==
  <<"ruff", "bandit", "mypy", "radon", "vulture", "lizard", "detect-secrets", "opengrep">>

\* applies_to, from the languages that the names of the files say.
AppliesTo(tool, languages) ==
  CASE tool = "detect-secrets" -> languages # {}
    [] tool = "lizard" ->
         languages \cap {"python", "javascript", "typescript", "java", "go"} # {}
    [] tool = "opengrep" -> languages \cap {"python", "javascript", "typescript"} # {}
    [] OTHER -> "python" \in languages

AcceptedCodes(tool) ==
  CASE tool \in {"bandit", "mypy", "opengrep"} -> {0, 1}
    [] tool = "vulture" -> {0, 1, 3}
    [] OTHER -> {0}

\* How _run_analyzer sees the end of the process; lines of lizard and vulture that
\* have another form are passed over.
Status(tool, output) ==
  CASE output.ending = "late"    -> "timed_out"
    [] output.ending = "missing" -> "skipped"
    [] output.ending = "crash"   -> "failed"
    [] OTHER ->
         IF output.code \notin AcceptedCodes(tool) THEN "failed"
         ELSE IF ~ output.valid /\ tool \notin {"lizard", "vulture"} THEN "failed" ELSE "ok"

\* Of the rules' names, those that an analyzer or a review gives itself.
OwnRules ==
  {"syntax-error", "cyclomatic-complexity", "maintainability-index", "function-complexity",
   "long-function", "too-many-parameters", "ai"}

\* Every rule has its place, and no tool has the name of a model.
ASSUME RuleAssumption ==
  /\ OwnRules \subseteq DOMAIN RuleOrder
  /\ \A r \in DOMAIN RuleOrder : RuleOrder[r] \in Int
ASSUME SourceAssumption == Range(Analyzers) \cap Models = {}

\* What a tool's output is made of.
EntryOf(tool, e) ==
  /\ e.file \in Int /\ e.first \in Int /\ e.last \in Int
  /\ tool \notin {"radon", "lizard"} => e.rule \in DOMAIN RuleOrder
  /\ tool = "vulture" => e.percent \in 0..100
  /\ tool = "lizard" => e.complexity \in Int
  /\ tool = "radon" => e.report \in {"cc", "mi", "raw"} /\ (e.report = "raw" => e.source \in Nat)

OutputOf(tool, output) ==
  /\ IsList(output.entries)
  /\ \A i \in 1..Len(output.entries) : EntryOf(tool, output.entries[i])

-----------------------------------------------------------------------------
(* Entries.                                                                *)

Found(tool, e, rule, category, severity, confidence) ==
  [id |-> NoId, file |-> e.file, first |-> e.first, last |-> Larger(e.last, e.first),
   category |-> category, severity |-> severity, sources |-> {tool}, confidence |-> confidence,
   status |-> "open", rule |-> rule, redacted |-> FALSE, formatting |-> FALSE,
   evidence |-> {}, verified |-> {}, note |-> "none"]

\* ruff, by the longest family that the code belongs to.
Classification ==
  [F821 |-> <<"bug", High>>,         F401 |-> <<"maintainability", Low>>,
   F841 |-> <<"maintainability", Low>>, E722 |-> <<"bug", Medium>>,
   E9   |-> <<"bug", High>>,         F    |-> <<"bug", Medium>>,
   B    |-> <<"bug", Medium>>,       PERF |-> <<"performance", Low>>,
   C4   |-> <<"maintainability", Low>>, SIM |-> <<"maintainability", Low>>,
   UP   |-> <<"maintainability", Low>>, RET |-> <<"maintainability", Low>>,
   W    |-> <<"style", Info>>,       E    |-> <<"style", Low>>,
   N    |-> <<"style", Low>>]

Classify(family) ==
  CASE family = "syntax" -> <<"bug", Medium>>
    [] family \in DOMAIN Classification -> Classification[family]
    [] OTHER -> <<"style", Low>>

Ruff(e) ==
  LET class == Classify(e.family)
  IN  <<[Found("ruff", e, IF e.family = "syntax" THEN "syntax-error" ELSE e.rule,
               class[1], class[2], 10)
           EXCEPT !.formatting = e.layout]>>

PasswordTests == {"B105", "B106", "B107"}
BanditSeverity(severity, confidence) ==
  IF confidence \notin {"HIGH", "MEDIUM"} THEN Low
  ELSE IF severity = "HIGH" THEN High
  ELSE IF severity = "MEDIUM" THEN Medium ELSE Low

Bandit(e) ==
  LET confidence == CASE e.confidence = "HIGH" -> 9 [] e.confidence = "MEDIUM" -> 7 [] OTHER -> 4
  IN  <<[Found("bandit", e, e.rule, "security", BanditSeverity(e.severity, e.confidence), confidence)
           EXCEPT !.redacted = e.rule \in PasswordTests]>>

\* Notes, and errors without a line, are dropped.
Mypy(e) ==
  IF e.level = "error" /\ e.first >= 1
  THEN <<Found("mypy", e, e.rule, "typing", Medium, 10)>> ELSE <<>>

LowMaintainability == 20
Radon(e) ==
  CASE e.report = "cc" ->
         (IF ~ e.class /\ e.rank \in {"D", "E", "F"}
          THEN <<Found("radon", e, "cyclomatic-complexity", "maintainability",
                       IF e.rank = "D" THEN Low ELSE Medium, 10)>>
          ELSE <<>>)
    [] e.report = "mi" ->
         (IF e.index < LowMaintainability
          THEN <<[Found("radon", e, "maintainability-index", "maintainability", Medium, 10)
                    EXCEPT !.first = 1, !.last = 1]>>
          ELSE <<>>)
    [] e.report = "raw" -> <<>>

Vulture(e) ==
  <<Found("vulture", e, e.rule, "maintainability", Low, e.percent \div 10)>>

MaxComplexity == 15
MaxLength == 80
MaxParameters == 6
Lizard(e) ==
  LET If(test, rule) ==
        IF test THEN <<Found("lizard", e, rule, "maintainability", Low, 10)>> ELSE <<>>
  IN  If(e.complexity > MaxComplexity /\ ~ e.python, "function-complexity")
        \o If(e.length > MaxLength, "long-function")
        \o If(e.parameters > MaxParameters, "too-many-parameters")

DetectSecrets(e) ==
  <<[Found("detect-secrets", e, e.rule, "security", IF e.test THEN Medium ELSE High,
           IF e.heuristic THEN 6 ELSE 9)
       EXCEPT !.redacted = TRUE]>>

Opengrep(e) ==
  <<Found("opengrep", e, e.rule,
          IF e.category \in Categories THEN e.category ELSE "security",
          CASE e.severity = "ERROR" -> High [] e.severity = "WARNING" -> Medium [] OTHER -> Low,
          CASE e.confidence = "high" -> 9 [] e.confidence = "low" -> 5 [] OTHER -> 7)>>

EntryFindings(tool, e) ==
  CASE tool = "ruff"            -> Ruff(e)
    [] tool = "bandit"          -> Bandit(e)
    [] tool = "mypy"            -> Mypy(e)
    [] tool = "radon"           -> Radon(e)
    [] tool = "vulture"         -> Vulture(e)
    [] tool = "lizard"          -> Lizard(e)
    [] tool = "detect-secrets"  -> DetectSecrets(e)
    [] tool = "opengrep"        -> Opengrep(e)

\* parse_output, for entry i: what lies outside the upload is dropped, and every
\* finding gets an id of its own.
Parsed(tool, i, e) ==
  LET found == EntryFindings(tool, e)
  IN  IF e.file = NoFile THEN <<>>
      ELSE [n \in DOMAIN found |-> [found[n] EXCEPT !.id = <<tool, i, n>>]]

-----------------------------------------------------------------------------
(* The result of an analyzer: its findings, the functions and source lines *)
(* it measured, and the secret values it detected.                         *)

NoResult == [findings |-> <<>>, functions |-> {}, measured |-> {}, values |-> {}]

Result(tool, output) ==
  LET here == {e \in Range(output.entries) : e.file # NoFile}
  IN  IF Status(tool, output) # "ok" THEN NoResult
      ELSE [findings |-> FlattenSeq([i \in DOMAIN output.entries |-> Parsed(tool, i, output.entries[i])]),
            functions |->
              IF tool # "lizard" THEN {}
              ELSE {[file |-> e.file, first |-> e.first, last |-> e.last,
                     complexity |-> e.complexity] : e \in here},
            measured |->
              IF tool # "radon" THEN {}
              ELSE {[file |-> e.file, source |-> e.source] :
                      e \in {e \in here : e.report = "raw"}},
            values |->
              IF tool # "detect-secrets" THEN {} ELSE {e.value : e \in here}]

=============================================================================
