--------------------------- MODULE StaticAnalysis ---------------------------
(***************************************************************************)
(* How the results of the analyzers become one list of findings:           *)
(* run_static_analysis (app/static/runner.py) and the merging of what      *)
(* several tools report (app/static/dedupe.py).                            *)
(*                                                                         *)
(* An issue is the set of the rules that report it, each with its tool.    *)
(***************************************************************************)
EXTENDS Redaction

Credentials == {<<"bandit", "B105">>, <<"bandit", "B106">>, <<"bandit", "B107">>}

\* EQUIVALENT_RULES; each opengrep rule without its prefix "python-".
EquivalentRules ==
  {Credentials,
   {<<"ruff", "F401">>, <<"vulture", "unused-import">>},
   {<<"ruff", "F841">>, <<"vulture", "unused-variable">>},
   {<<"opengrep", "shell-command-from-dynamic-input">>, <<"bandit", "B602">>, <<"bandit", "B605">>},
   {<<"opengrep", "sql-built-with-string-formatting">>, <<"bandit", "B608">>},
   {<<"opengrep", "yaml-load-without-safe-loader">>, <<"bandit", "B506">>},
   {<<"opengrep", "tls-certificate-verification-disabled">>, <<"bandit", "B501">>},
   {<<"opengrep", "web-debug-mode-enabled">>, <<"bandit", "B201">>},
   {<<"opengrep", "insecure-random-for-secret">>, <<"bandit", "B311">>},
   {<<"opengrep", "password-hashed-with-fast-hash">>, <<"bandit", "B324">>},
   {<<"opengrep", "insecure-temporary-file">>, <<"bandit", "B306">>},
   {<<"opengrep", "eval-of-dynamic-value">>, <<"bandit", "B307">>},
   {<<"radon", "cyclomatic-complexity">>, <<"lizard", "function-complexity">>}}

\* issue_key
Issue(f) ==
  LET rule == <<CHOOSE t \in f.sources : TRUE, f.rule>>
      known == {issue \in EquivalentRules : rule \in issue}
  IN  IF f.sources = {"detect-secrets"} THEN Credentials
      ELSE IF known = {} THEN {rule} ELSE CHOOSE issue \in known : TRUE

SamePlace(f, g) == f.file = g.file /\ f.first = g.first /\ Issue(f) = Issue(g)

\* The bucket holds reports of the same issue, none of them by f's tool.
Fits(bucket, f) ==
  /\ SamePlace(bucket[1], f)
  /\ \A i \in DOMAIN bucket : bucket[i].sources \cap f.sources = {}

\* One round of deduplicate's loop.  Buckets of one place stand together in the
\* code; every list made of them is sorted afterwards, stably.
Placed(buckets, f) ==
  LET fitting == {i \in DOMAIN buckets : Fits(buckets[i], f)}
      here == {i \in DOMAIN buckets : SamePlace(buckets[i][1], f)}
  IN  IF fitting # {} THEN [buckets EXCEPT ![FirstOf(fitting)] = Append(@, f)]
      ELSE IF here = {} THEN Append(buckets, <<f>>)
      ELSE InsertAt(buckets, Max(here) + 1, <<f>>)

\* merge: the most severe report leads, then the most confident, then the first.
Leads(bucket, i) ==
  \A j \in DOMAIN bucket :
    \/ bucket[i].severity > bucket[j].severity
    \/ /\ bucket[i].severity = bucket[j].severity
       /\ \/ bucket[i].confidence > bucket[j].confidence
          \/ bucket[i].confidence = bucket[j].confidence /\ i <= j

Merged(bucket) ==
  LET lead == bucket[CHOOSE i \in DOMAIN bucket : Leads(bucket, i)]
  IN  [lead EXCEPT !.sources = UNION {f.sources : f \in Range(bucket)},
                   !.last = Max({f.last : f \in Range(bucket)}),
                   !.confidence = Max({f.confidence : f \in Range(bucket)}),
                   !.redacted = \E f \in Range(bucket) : f.redacted]

Deduplicate(findings) ==
  Of(FoldedOver(Placed, <<>>, findings), LAMBDA buckets :
    [i \in DOMAIN buckets |-> Merged(buckets[i])])

\* _read_lines: no lines of a file that cannot be read.
LinesRead(lines, file) == IF file \in DOMAIN lines THEN lines[file] ELSE <<>>

\* What run_static_analysis makes of its analyzers' findings, in their order, and of
\* the values they detected, with these lines of code.
Combined(found, values, lines) ==
  LET Shown(merged, index) ==
        [i \in DOMAIN merged |-> WithEvidence(index, merged[i], LinesRead(lines, merged[i].file))]
  IN  Of(Deduplicate(FlattenSeq(found)), LAMBDA merged :
        Of(SecretIndex(merged, values), LAMBDA index : Ordered(Shown(merged, index))))

=============================================================================
