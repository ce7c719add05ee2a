----------------------------- MODULE MCScanRun -----------------------------
(***************************************************************************)
(* A small instance of ScanRun: uploads of all kinds, one of them with a   *)
(* file of two chunks, on which two analyzers and three models disagree.   *)
(***************************************************************************)
EXTENDS ScanRun

CONSTANTS m1, m2, m3

-----------------------------------------------------------------------------
(* Code: file 1 has eight lines, and files 100 to 227 one of many shapes   *)
(* of code each.                                                           *)

Line(n) ==
  [says |-> IF n = 4 THEN 0 ELSE n, size |-> IF n = 4 THEN 0 ELSE 3, secret |-> NoSecret,
   key |-> "no"]

\* Lines 3 and 6 hold the same password, and a key begins in line 7.
File1Line(n) ==
  [Line(n) EXCEPT !.secret = IF n \in {3, 6} THEN "password" ELSE NoSecret,
                  !.key = IF n = 7 THEN "begin" ELSE "no"]

Node(kind, first, last, children) ==
  [kind |-> kind, first |-> first, last |-> last,
   wraps |-> <<>>, body |-> <<>>, children |-> children]
Leaf(kind, first, last) == Node(kind, first, last, <<>>)
Block(first, last, body) ==
  [Leaf("code", first, last) EXCEPT !.body = <<Node("code", body[1].first, last, body)>>]
Wrapped(node, first) == [Leaf("code", first, node.last) EXCEPT !.wraps = <<node>>]

\* As a model sees it.
SeenLine(n) == IF n \in {3, 6, 8} THEN Masked(File1Line(n)) ELSE File1Line(n)

File1 ==
  [lines |-> [n \in 1..8 |-> File1Line(n)],
   nodes |-> <<Leaf("header", 1, 1), Leaf("code", 2, 3), Leaf("code", 5, 8)>>]

\* The shape that the digits of d say: a first node, a second one with a body of
\* statements, itself wrapped or on the line of the first, and perhaps a last one.
Shape(d) ==
  LET kind == <<"header", "comment", "code", "error">>[1 + (d % 4)]
      last == 1 + ((d \div 4) % 2)
      first == last + ((d \div 8) % 2)
      inside == <<Leaf("code", first + 1, 5), Leaf("comment", 6, 6), Leaf("code", 6, 9)>>
      block == IF (d \div 16) % 2 = 0 THEN Block(first, 9, inside)
               ELSE Wrapped(Block(first, 9, Tail(inside)), first)
      end == IF (d \div 32) % 2 = 0 THEN <<>>
             ELSE <<Leaf("error", IF kind = "comment" THEN 12 ELSE 10, 12)>>
  IN  [lines |-> [n \in 1..(IF (d \div 64) % 2 = 0 THEN 10 ELSE 11) |-> Line(n)],
       nodes |-> <<Leaf(kind, 1, last), block>> \o end]

SomeFiles == [f \in 1..9 \cup 100..227 |-> IF f < 100 THEN File1 ELSE Shape(f - 100)]

WithBelow(nodes) ==
  nodes \cup UNION {Range(node.wraps \o node.body \o node.children) : node \in nodes}
TreeNodes ==
  WithBelow(WithBelow(WithBelow(UNION {Range(SomeFiles[f].nodes) : f \in DOMAIN SomeFiles})))

-----------------------------------------------------------------------------
(* Uploads.                                                                *)

Names == {"app.py", "APP.PY", "run", "notes.txt", "lib", "lib.py", "Node_Modules", "yarn.lock",
          "a.min.js", "main.go", "con", "", ".", ".."}
Lowered ==
  [n \in Names |-> CASE n = "APP.PY" -> "app.py" [] n = "Node_Modules" -> "node_modules"
                     [] OTHER -> n]
LanguageTable ==
  [n \in {"app.py", "lib.py", "notes.txt", "yarn.lock", "a.min.js", "main.go"} |->
     CASE n \in {"app.py", "lib.py"} -> "python" [] n = "main.go" -> "go" [] OTHER -> NoLanguage]
Shebangs == [i \in {"python"} |-> i]
SmallLimits == [files |-> 5, total |-> 16, file |-> 8, archive |-> 20, ratio |-> 2]

Entry(parts, file, size) ==
  [name |-> [parts |-> parts, absolute |-> FALSE, folder |-> FALSE, long |-> FALSE],
   file |-> file, kind |-> "file", size |-> size, actual |-> size, locked |-> FALSE,
   corrupt |-> FALSE, binary |-> FALSE, clash |-> FALSE, excluded |-> FALSE,
   shebang |-> "none"]
App == Entry(<<"app.py">>, 1, 6)
Folder(parts, file) == [Entry(parts, file, 0) EXCEPT !.name.folder = TRUE, !.kind = "folder"]

Archive(size, entries) == [kind |-> "archive", size |-> size, entries |-> entries]
Directory(entries) == [kind |-> "directory", size |-> 0, entries |-> entries]
OneFile(entry) == [kind |-> "file", size |-> entry.size, entries |-> <<entry>>]

GoodZip ==
  Archive(10, <<Folder(<<".", "lib", "">>, 9), App, Entry(<<"Node_Modules", "lib.py">>, 2, 3),
            Entry(<<"lib", "yarn.lock">>, 3, 2), Entry(<<"", "a.min.js">>, 4, 2),
            [Entry(<<"lib", "notes.txt">>, 5, 1) EXCEPT !.binary = TRUE]>>)

Second(entry) == Archive(10, <<App, entry>>)
OddZips ==
  {Second([Entry(<<"lib.py">>, 2, 6) EXCEPT !.name.absolute = TRUE]),
   Second(Entry(<<"lib", "..", "..", "lib.py">>, 2, 6)),
   Second(Entry(<<"con", "lib.py">>, 2, 6)), Second(Entry(<<".">>, 2, 6)),
   Second([Entry(<<"lib.py">>, 2, 6) EXCEPT !.kind = "link"]),
   Second([Entry(<<"lib.py">>, 2, 6) EXCEPT !.locked = TRUE]),
   Second(Entry(<<"APP.PY">>, 2, 6)), Second(Entry(<<"app.py", "lib.py">>, 2, 6)),
   Second(Entry(<<"lib.py">>, 2, 12)), Archive(6, <<Entry(<<"lib.py">>, 2, 7), App>>),
   Archive(21, <<App>>), Second(Entry(<<"lib.py">>, 2, 9)),
   Second([Entry(<<"lib.py">>, 2, 6) EXCEPT !.actual = 7]),
   Second([Entry(<<"lib.py">>, 2, 2) EXCEPT !.actual = 14]),
   Second([Entry(<<"lib.py">>, 2, 6) EXCEPT !.corrupt = TRUE]),
   Second([Entry(<<"lib.py">>, 2, 6) EXCEPT !.clash = TRUE]),
   Archive(10, [i \in 1..6 |-> Entry(<<<<"app.py", "run", "notes.txt", "lib", "lib.py", "yarn.lock">>[i]>>, i, 1)])}

Directories ==
  {Directory(<<[Entry(<<"run">>, 101, 4) EXCEPT !.shebang = "python"],
               [Entry(<<"lib.py">>, 2, 1) EXCEPT !.kind = "special"], Entry(<<"con">>, 3, 1),
               [Entry(<<"notes.txt">>, 4, 1) EXCEPT !.locked = TRUE],
               Folder(<<"Node_Modules">>, 5), Entry(<<"Node_Modules", "app.py">>, 6, 5),
               [Folder(<<"lib">>, 7) EXCEPT !.kind = "link"]>>),
   Directory(<<Folder(<<"lib">>, 7), [Entry(<<"lib", "app.py">>, 2, 3) EXCEPT !.excluded = TRUE],
               [Entry(<<"lib", "notes.txt">>, 3, 3) EXCEPT !.corrupt = TRUE],
               Entry(<<"lib", "run">>, 4, 3)>>),
   Directory([i \in 1..3 |-> Entry(<<<<"app.py", "lib.py", "run">>[i]>>, 100 + i, 6)]),
   Directory(<<[Entry(<<"app.py">>, 1, 3) EXCEPT !.actual = 4]>>)}

SomeScans ==
  {[upload |-> GoodZip, depth |-> d] : d \in {"static", "standard"}}
  \cup {[upload |-> u, depth |-> "static"] :
          u \in OddZips \cup Directories
                \cup {OneFile(Entry(<<"lib", "main.go">>, 100 + d, 6)) : d \in 0..127}}

-----------------------------------------------------------------------------
(* Analyzers and models.                                                   *)

Exit(code, entries) == [ending |-> "exit", code |-> code, valid |-> TRUE, entries |-> entries]
NotRun(ending) == [ending |-> ending, code |-> 0, valid |-> FALSE, entries |-> <<>>]

At(rule, first, last) ==
  [file |-> 1, rule |-> rule, first |-> first, last |-> last]

\* What every analyzer reports about file 1.
Entries(t) ==
  CASE t = "ruff" ->
         <<At("F841", 5, 5) @@ [family |-> "F841", layout |-> FALSE],
           At("E501", 6, 6) @@ [family |-> "E", layout |-> TRUE],
           [At("F821", 1, 1) EXCEPT !.file = NoFile] @@ [family |-> "F821", layout |-> FALSE]>>
    [] t = "bandit" ->
         <<At("B602", 2, 2) @@ [severity |-> "HIGH", confidence |-> "HIGH"],
           At("B105", 3, 3) @@ [severity |-> "LOW", confidence |-> "MEDIUM"]>>
    [] t = "mypy" ->
         <<At("arg-type", 5, 8) @@ [level |-> "error"],
           At("arg-type", 5, 8) @@ [level |-> "note"]>>
    [] t = "radon" ->
         <<At("", 5, 8) @@ [report |-> "cc", class |-> FALSE, rank |-> "D"],
           At("", 5, 8) @@ [report |-> "cc", class |-> TRUE, rank |-> "F"],
           At("", 1, 1) @@ [report |-> "mi", index |-> 60],
           At("", 1, 8) @@ [report |-> "raw", source |-> 6]>>
    [] t = "vulture" -> <<At("unused-variable", 5, 5) @@ [percent |-> 100]>>
    [] t = "lizard" ->
         <<At("", 5, 8) @@ [complexity |-> 22, python |-> TRUE, length |-> 4, parameters |-> 7],
           At("", 1, 3) @@ [complexity |-> 2, python |-> TRUE, length |-> 3, parameters |-> 0]>>
    [] t = "detect-secrets" ->
         <<At("secret-keyword", 3, 3) @@ [test |-> FALSE, heuristic |-> TRUE,
                                                value |-> "password"]>>
    [] t = "opengrep" ->
         <<At("shell-command-from-dynamic-input", 2, 2)
             @@ [severity |-> "WARNING", category |-> "security", confidence |-> "high"]>>

ToolOutputs(t, files) ==
  CASE 1 \in files /\ t = "bandit" -> {Exit(1, Entries(t)), NotRun("late")}
    [] 1 \in files /\ t # "bandit" -> {Exit(0, Entries(t))}
    [] 1 \notin files /\ t = "lizard" -> {Exit(0, <<>>), Exit(1, <<>>), NotRun("missing")}
    [] OTHER -> {[Exit(0, <<>>) EXCEPT !.valid = (t # "mypy")]}

Rules == {"syntax-error", "function-complexity", "F841", "E501", "F821", "B602", "B105",
          "arg-type", "unused-variable", "secret-keyword",
          "shell-command-from-dynamic-input", "cyclomatic-complexity", "long-function",
          "too-many-parameters", "maintainability-index", "ai"}
OrderOfRules == [r \in Rules |-> CASE r \in {"B105", "B602"} -> 1 [] r = "E501" -> 2
                                  [] r = "F841" -> 3 [] r = "ai" -> 4 [] OTHER -> 5]

Try(p, status) == [by |-> p, status |-> status]
Ok(p) == <<Try(p, "ok")>>
NoAnswer == [attempts |-> <<Try(m1, "unavailable")>>, answer |-> Null]

Says(issues, judgements) ==
  [text |-> <<"thoughts", "prose", "object">>, listed |-> TRUE,
   issues |-> issues, judgements |-> judgements]

Reporting(first, last, category, severity, confidence, quote) ==
  [first |-> first, last |-> last, category |-> category, severity |-> severity,
   confidence |-> confidence, evidence |-> <<SeenLine(quote)>>]

About1(verdict, adjusted) ==
  [id |-> <<"bandit", 1, 1>>, verdict |-> verdict, adjusted |-> adjusted, reasoned |-> TRUE]
About2(verdict) == [id |-> <<"ruff", 1, 1>>, verdict |-> verdict, adjusted |-> NoSeverity, reasoned |-> TRUE]

RepliesTo(task, c) ==
  CASE task = "review" /\ c.index = 0 ->
         {NoAnswer,
          [attempts |-> Ok(m1),
           answer |-> Says(<<>>, <<About1("false_positive", NoSeverity)>>)],
          [attempts |-> <<Try(m1, "rejected"), Try(m2, "ok")>>,
           answer |-> Says(<<Reporting(2, 3, "security", Critical, 85, 2),
                             Reporting(3, 3, "bug", High, 20000, 3),
                             Reporting(1, 1, "security", High, 9000, 1),
                             Reporting(1, 1, "bug", High, 90, 8)>>,
                           <<About1("confirmed", Low)>>)]}
    [] task = "review" /\ c.index = 1 ->
         {NoAnswer,
          [attempts |-> Ok(m3),
           answer |-> Says(<<Reporting(7, 8, "security", High, 50, 7),
                             Reporting(1, 1, "bug", Low, 90, 1),
                             Reporting(2, 2, "bug", Low, 90, 2)>>,
                           <<About1("confirmed", Low), About2("false_positive")>>)]}
    [] OTHER ->
         {[attempts |-> Ok(m2),
           answer |-> Says(<<Reporting(5, 5, "maintainability", Medium, 70, 5),
                             Reporting(2, 2, "style", High, 70, 2)>>, <<>>)]}

Verdict(p, verdict, corrected, confidence) ==
  [attempts |-> Ok(p),
   answer |-> [verdict |-> verdict, corrected |-> corrected, confidence |-> confidence]]

SomeVerdicts ==
  {Verdict(m1, "invalid", NoSeverity, 5), Verdict(m3, "valid", Medium, 9),
   Verdict(m2, "uncertain", NoSeverity, 5),
   [attempts |-> <<>>, answer |-> Null]}

SomeEndings == {[attempts |-> Ok(m1), answer |-> "summary"]}

=============================================================================
