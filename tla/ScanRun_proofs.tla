--------------------------- MODULE ScanRun_proofs ---------------------------
(***************************************************************************)
(* Theorems about a scan (ScanRun): however its requests and analyzers     *)
(* interleave, and whatever tools and models answer, it reviews every line *)
(* of code once, stays within its budget of calls, loses no finding on the *)
(* way from the analyzers and the models to the report, lowers no          *)
(* protected severity, lets no finding of a single model through that no   *)
(* other has looked at, shows a browser what it has, and ends with a       *)
(* report that adds up.                                                    *)
(*                                                                         *)
(* ScanStages_proofs says what each stage makes of its input.  This module *)
(* begins with the stage that is left, the splitting of files into chunks, *)
(* which ends in what the chunks of one file are; then it shows that every *)
(* step keeps the inductive invariant, and what follows.                   *)
(***************************************************************************)
EXTENDS ScanStages_proofs

-----------------------------------------------------------------------------
(* The structure of the code (Preprocessing): where a file is cut.         *)

\* A context: ranges of lines that are lines of a file.
FromOne(s) == AllRanges(s) /\ \A r \in Range(s) : r.first >= 1

\* Nodes that can be the statements of a region.
Statements(nodes) ==
  /\ IsList(nodes) /\ \A i \in 1..Len(nodes) : nodes[i] \in Nodes
  /\ InSourceOrder(nodes)

\* The lines of a node, and the order of those below it.
LEMMA NodeLines ==
  ASSUME NEW node \in Nodes
  PROVE  /\ node.first \in Int /\ node.last \in Int /\ node.first >= 1 /\ node.first <= node.last
         /\ Statements(node.wraps) /\ Statements(node.body) /\ Statements(node.children)
<1>1. /\ node.first \in Nat \ {0} /\ node.last \in Nat /\ node.first <= node.last
      /\ InSourceOrder(node.wraps) /\ InSourceOrder(node.body) /\ InSourceOrder(node.children)
  BY TreeAssumption, Zenon
<1>2. node.first \in Int /\ node.last \in Int /\ node.first >= 1 /\ node.first <= node.last
  BY <1>1
<1> QED
  BY <1>1, <1>2, NodeParts, Zenon DEF Statements

\* No statements, and no context.
LEMMA NothingInside == Statements(<<>>) /\ FromOne(<<>>)
<1>1. IsList(<<>>) /\ Len(<<>>) = 0 /\ Range(<<>>) = {}
  BY EmptyIsList
<1>2. InSourceOrder(<<>>)
  BY DEF InSourceOrder
<1>3. FromOne(<<>>)
  BY <1>1 DEF FromOne, AllRanges
<1>4. \A i \in 1..Len(<<>>) : <<>>[i] \in Nodes
  BY <1>1
<1> QED
  BY <1>1, <1>2, <1>3, <1>4, Zenon DEF Statements

\* A list of one range.
LEMMA OneRange ==
  ASSUME NEW r, Ranged(r), r.first >= 1
  PROVE  FromOne(<<r>>)
<1>1. PICK s : s = <<r>>
  BY Zenon
<1>2. s \in Seq({r}) /\ Len(s) = 1 /\ \A i \in 1..1 : s[i] = r
  BY <1>1
<1>3. IsList(s)
  BY <1>2, SeqIsList
<1>4. \A x \in Range(s) : x = r
  BY <1>2, <1>3, InRange
<1>5. FromOne(s)
  BY <1>3, <1>4 DEF FromOne, AllRanges
<1> QED
  BY <1>1, <1>5, Zenon

\* What is inside a node: statements, and the lines of a signature.
LEMMA InnerStructure ==
  ASSUME NEW node, node \in Nodes
  PROVE  Statements(Inner(node).nodes) /\ FromOne(Inner(node).signature)
<1> DEFINE current == Repeated(Descend, node, MaxSplitDepth - 1)
           d == Unwrapped(current)
           found == Inner(node)
           Good(x) == Statements(x.nodes) /\ FromOne(x.signature)
<1>1. MaxSplitDepth \in Nat
  BY ChunkingAssumption
<1>2. ASSUME NEW n, Statements(n), NEW s, FromOne(s) PROVE Good([nodes |-> n, signature |-> s])
  BY <1>2
<1> HIDE DEF Good
<1>3. CASE MaxSplitDepth = 0 \/ GoesOn(current)
  <2>1. ~ (MaxSplitDepth > 0 /\ HasStructure(d))
    <3>1. CASE MaxSplitDepth = 0
      BY <3>1
    <3>2. CASE GoesOn(current)
      BY <3>2, Zenon DEF GoesOn
    <3> QED
      BY <1>3, <3>1, <3>2
  <2>2. found = [nodes |-> <<>>, signature |-> <<>>]
    BY <1>3, <2>1, Zenon DEF Inner
  <2>3. Good(found)
    BY <1>2, <2>2, NothingInside, Zenon
  <2> QED
    BY <2>3, Zenon DEF found, Good
<1>4. CASE MaxSplitDepth # 0 /\ ~ GoesOn(current)
  <2>1. MaxSplitDepth - 1 \in Nat /\ MaxSplitDepth > 0
    BY <1>1, <1>4
  <2>2. current \in Nodes
    <3>1. \A x : x \in Nodes => Descend(x) \in Nodes
      BY DescendNode, Zenon
    <3> QED
      BY <2>1, <3>1, DescendStays, Zenon
  <2>3. d \in Nodes
    BY <2>2, UnwrappedNode, Zenon
  <2>4. CASE HasStructure(d)
    <3>1. PICK b : b = d.body[1]
      BY Zenon
    <3>2. found = [nodes |-> b.children, signature |-> <<Signature(current, b)>>]
      BY <1>4, <2>1, <2>4, <3>1, Zenon DEF Inner
    <3>3. b \in Nodes
      <4>1. d.body # <<>>
        BY <2>4, Zenon DEF HasStructure
      <4>2. 1 \in 1..Len(d.body)
        BY <2>3, <4>1, NodeParts, FirstElement, Zenon
      <4> QED
        BY <2>3, <3>1, <4>2, NodeParts, Zenon
    <3>4. PICK r : r = Signature(current, b)
      BY Zenon
    <3>5. Ranged(r) /\ r.first >= 1
      <4>1. PICK e : e = IF b.first > current.first THEN b.first - 1 ELSE current.first
        BY Zenon
      <4> HIDE DEF current
      <4>2. current.first \in Int /\ current.first >= 1 /\ b.first \in Int
        BY <2>2, <3>3, NodeLines, Zenon
      <4>3. e \in Int /\ current.first <= e
        BY <4>1, <4>2
      <4>4. r = Lines(current.first, e)
        BY <3>4, <4>1, Zenon DEF Signature
      <4> QED
        BY <4>2, <4>3, <4>4, LinesRange
    <3>6. Statements(b.children) /\ FromOne(<<r>>)
      BY <3>3, <3>5, NodeLines, OneRange, Zenon
    <3>7. Good(found)
      BY <1>2, <3>2, <3>4, <3>6, Zenon
    <3> QED
      BY <3>7, Zenon DEF found, Good
  <2>5. CASE ~ HasStructure(d)
    <3>1. found = [nodes |-> d.children, signature |-> <<>>]
      BY <1>4, <2>5, Zenon DEF Inner
    <3>2. Statements(d.children)
      BY <2>3, NodeLines, Zenon
    <3>3. Good(found)
      BY <1>2, <3>1, <3>2, NothingInside, Zenon
    <3> QED
      BY <3>3, Zenon DEF found, Good
  <2> QED
    BY <2>4, <2>5, Zenon
<1> QED
  BY <1>3, <1>4, Zenon

\* A part of a file to split: lines, the context above them and the statements in them.
Section(p) ==
  /\ p.region.first \in Int /\ p.region.last \in Int /\ p.region.first <= p.region.last
  /\ FromOne(p.region.context)
  /\ Statements(p.nodes)

\* Two lists of ranges, one after the other.
LEMMA MoreContext ==
  ASSUME NEW s, FromOne(s), NEW t, FromOne(t)
  PROVE  FromOne(s \o t)
<1>1. IsList(s) /\ IsList(t)
  BY Zenon DEF FromOne, AllRanges
<1>2. IsList(s \o t) /\ Range(s \o t) = Range(s) \cup Range(t)
  BY <1>1, ConcatList, ConcatRange, Zenon
<1>3. PICK c : c = s \o t
  BY Zenon
<1>4. IsList(c) /\ Range(c) = Range(s) \cup Range(t)
  BY <1>2, <1>3, Zenon
<1>5. FromOne(c)
  BY <1>4 DEF FromOne, AllRanges
<1> QED
  BY <1>3, <1>5, Zenon

\* A region that is fitted stays where it is.
LEMMA FittedSection ==
  ASSUME NEW first \in Int, NEW last \in Int, first <= last, NEW context, FromOne(context),
         NEW level, NEW node \in Nodes
  PROVE  \E p : /\ Fit(Region(first, last, context, level), node) = p
                /\ Section(p) /\ p.region.first = first /\ p.region.last = last
<1> DEFINE There(p) == Section(p) /\ p.region.first = first /\ p.region.last = last
           region == Region(first, last, context, level)
           inner == Inner(node)
<1>1. /\ region.first = first /\ region.last = last /\ region.context = context
      /\ region.depth = level
  BY DEF Region
<1>2. ASSUME NEW c, FromOne(c), NEW d, NEW n, Statements(n)
      PROVE  There(Piece(Region(first, last, c, d), n))
  <2>1. PICK p, r : p = Piece(r, n) /\ r = Region(first, last, c, d)
    BY Zenon
  <2>2. /\ p.region = r /\ p.nodes = n
        /\ r.first = first /\ r.last = last /\ r.context = c
    BY <2>1 DEF Piece, Region
  <2>3. There(p)
    BY <1>2, <2>2 DEF Section
  <2> HIDE DEF There
  <2> QED
    BY <2>1, <2>3, Zenon
<1>3. There(Piece(region, <<>>))
  BY <1>2, NothingInside, Zenon
<1>4. Statements(inner.nodes) /\ FromOne(inner.signature)
  BY InnerStructure, Zenon
<1>5. PICK c, n : c = context \o inner.signature /\ n = inner.nodes
  BY Zenon
<1>6. There(Piece(Region(first, last, c, level + 1), n))
  <2>1. FromOne(c) /\ Statements(n)
    BY <1>4, <1>5, MoreContext, Zenon
  <2> HIDE DEF There
  <2> QED
    BY <1>2, <2>1, Zenon
<1>7. \/ Fit(region, node) = Piece(region, <<>>)
      \/ Fit(region, node) =
           Piece(Region(first, last, c, level + 1), n)
  <2> HIDE DEF region
  <2>1. CASE Length(region) <= MaxLines \/ region.depth >= MaxSplitDepth
    BY <2>1, Zenon DEF Fit
  <2>2. CASE ~ (Length(region) <= MaxLines \/ region.depth >= MaxSplitDepth)
    <3>1. CASE inner.nodes = <<>>
      BY <2>2, <3>1, Zenon DEF Fit
    <3>2. CASE inner.nodes # <<>>
      BY <1>1, <1>5, <2>2, <3>2, Zenon DEF Fit
    <3> QED
      BY <3>1, <3>2, Zenon
  <2> QED
    BY <2>1, <2>2, Zenon
<1> HIDE DEF There
<1>8. There(Fit(region, node))
  BY <1>3, <1>6, <1>7, Zenon
<1> QED
  BY <1>8, Zenon DEF There

\* A boundary in a region, and one before another.
Marks(region) == [first : region.first..region.last, node : Nodes]
Rising(region) == {p \in Marks(region) \X Marks(region) : p[1].first < p[2].first}
\* Boundaries of a region, from the top to the bottom.
MarksIn(found, region) ==
  IsList(found) /\ (\A m \in Range(found) : m \in Marks(region)) /\ Apart(found, Rising(region))

\* What the loop of the boundaries knows: they rise up to what is covered, and a comment
\* that waits begins below it.
Marked(s, region) ==
  /\ MarksIn(s.found, region)
  /\ s.covered \in Int /\ region.first <= s.covered + 1
  /\ \A m \in Range(s.found) : m.first <= s.covered
  /\ DOMAIN s = {"found", "covered", "comment"}
  /\ DOMAIN s.comment = {"first", "last"}
  /\ s.comment.first \in Int /\ (s.comment.first # 0 => s.comment.first > s.covered)

\* A comment waits for a statement.
LEMMA CommentMarked ==
  ASSUME NEW region, NEW s, Marked(s, region), NEW node \in Nodes, s.comment.first <= node.first
  PROVE  /\ Marked(WithComment(s, node), region)
         /\ WithComment(s, node).comment.first <= node.first
<1>1. ASSUME NEW c, DOMAIN c = {"first", "last"}, c.first \in Int, c.first <= node.first,
             c.first # 0 => c.first > s.covered
      PROVE  /\ Marked([s EXCEPT !.comment = c], region)
             /\ [s EXCEPT !.comment = c].comment.first <= node.first
  <2>1. PICK t : t = [s EXCEPT !.comment = c]
    BY Zenon
  <2>2. DOMAIN t = DOMAIN s /\ t.found = s.found /\ t.covered = s.covered /\ t.comment = c
    BY <2>1 DEF Marked
  <2>3. Marked(t, region) /\ t.comment.first <= node.first
    BY <1>1, <2>2, Zenon DEF Marked
  <2> QED
    BY <2>1, <2>3, Zenon
<1>2. PICK c : c = Lines(node.first, node.last)
  BY Zenon
<1>3. PICK d : d = [s.comment EXCEPT !.last = node.last]
  BY Zenon
<1>4. node.first \in Int /\ s.covered \in Int
  BY NodeLines, Zenon DEF Marked
<1>5. DOMAIN c = {"first", "last"} /\ c.first = node.first /\ c.first <= node.first
  BY <1>2, <1>4 DEF Lines
<1>6. DOMAIN d = {"first", "last"} /\ d.first = s.comment.first
  BY <1>3 DEF Marked
<1> DEFINE A == node.first <= s.covered
           B == node.first > s.covered
           C == s.comment.first = 0 \/ node.first > s.comment.last + 1
<1>7. A <=> ~ B
  BY <1>4
<1>8. CASE A
  <2>1. WithComment(s, node) = s
    BY <1>7, <1>8, Zenon DEF WithComment
  <2> QED
    BY <2>1, Zenon
<1>9. CASE ~ A /\ C
  <2>1. WithComment(s, node) = [s EXCEPT !.comment = c]
    BY <1>2, <1>7, <1>9, Zenon DEF WithComment
  <2> QED
    BY <1>1, <1>4, <1>5, <1>7, <1>9, <2>1, Zenon
<1>10. CASE ~ A /\ ~ C
  <2>1. WithComment(s, node) = [s EXCEPT !.comment.last = node.last]
    BY <1>10, Zenon DEF WithComment
  <2>2. [s EXCEPT !.comment.last = node.last] = [s EXCEPT !.comment = d]
    BY <1>3
  <2>3. d.first \in Int /\ d.first <= node.first /\ (d.first # 0 => d.first > s.covered)
    BY <1>6, Zenon DEF Marked
  <2> QED
    BY <1>1, <1>6, <2>1, <2>2, <2>3, Zenon
<1> QED
  BY <1>8, <1>9, <1>10, Zenon

\* One boundary more, below all others; and the last one with another node.
LEMMA MoreMarks ==
  ASSUME NEW region, NEW found, MarksIn(found, region), NEW m \in Marks(region)
  PROVE  /\ (\A x \in Range(found) : x.first < m.first) =>
              /\ MarksIn(Append(found, m), region)
              /\ Range(Append(found, m)) = Range(found) \cup {m}
         /\ found # <<>> /\ Last(found).first = m.first =>
              /\ MarksIn(Append(Front(found), m), region)
              /\ \A x \in Range(Append(Front(found), m)) : x = m \/ x \in Range(found)
<1> DEFINE R == Rising(region)
<1>1. IsList(found) /\ (\A x \in Range(found) : x \in Marks(region)) /\ Apart(found, R)
  BY Zenon DEF MarksIn
<1>2. ASSUME NEW x \in Marks(region), NEW y \in Marks(region), x.first < y.first
      PROVE  <<x, y>> \in R
  BY <1>2 DEF Rising
<1>3. ASSUME NEW x, NEW y, <<x, y>> \in R PROVE x.first < y.first
  BY <1>3 DEF Rising
<1> HIDE DEF R
<1>4. ASSUME NEW t, IsList(t), \A x \in Range(t) : x \in Marks(region), Apart(t, R),
             \A x \in Range(t) : x.first < m.first
      PROVE  MarksIn(Append(t, m), region) /\ Range(Append(t, m)) = Range(t) \cup {m}
  <2>1. PICK a : a = Append(t, m)
    BY Zenon
  <2>2. IsList(a) /\ Range(a) = Range(t) \cup {m}
    BY <1>4, <2>1, AppendList, Zenon
  <2>3. \A x \in Range(t) : <<x, m>> \in R
    BY <1>2, <1>4, Zenon
  <2>4. Apart(Append(t, m), R)
    BY <1>4, <2>3, AppendApart
  <2>5. \A x \in Range(a) : x \in Marks(region)
    BY <1>4, <2>2
  <2>6. MarksIn(a, region)
    BY <2>1, <2>2, <2>4, <2>5, Zenon DEF MarksIn, R
  <2> QED
    BY <2>1, <2>2, <2>6, Zenon
<1>5. ASSUME \A x \in Range(found) : x.first < m.first
      PROVE  /\ MarksIn(Append(found, m), region)
             /\ Range(Append(found, m)) = Range(found) \cup {m}
  BY <1>1, <1>4, <1>5, Zenon
<1>6. ASSUME found # <<>>, Last(found).first = m.first
      PROVE  /\ MarksIn(Append(Front(found), m), region)
             /\ \A x \in Range(Append(Front(found), m)) : x = m \/ x \in Range(found)
  <2>1. PICK f : f = Front(found)
    BY Zenon
  <2>2. IsList(f) /\ \A x \in Range(f) : x \in Range(found)
    BY <1>1, <1>6, <2>1, FrontList, Zenon
  <2>3. Apart(Front(found), R) /\ \A x \in Range(Front(found)) : <<x, Last(found)>> \in R
    BY <1>1, <1>6, FrontApart
  <2>4. \A x \in Range(f) : x.first < m.first
    BY <1>3, <1>6, <2>1, <2>3, Zenon
  <2>5. Apart(f, R) /\ \A x \in Range(f) : x \in Marks(region)
    BY <1>1, <2>1, <2>2, <2>3, Zenon
  <2>6. MarksIn(Append(f, m), region) /\ Range(Append(f, m)) = Range(f) \cup {m}
    BY <1>4, <2>2, <2>4, <2>5, Zenon
  <2>7. \A x \in Range(Append(f, m)) : x = m \/ x \in Range(found)
    BY <2>2, <2>6
  <2> QED
    BY <2>1, <2>6, <2>7, Zenon
<1> QED
  BY <1>5, <1>6, Zenon

\* A statement is a boundary if it, or the comment above it, begins below what is covered.
LEMMA StatementMarked ==
  ASSUME NEW region, region.first \in Int, region.last \in Int,
         NEW s, Marked(s, region),
         NEW node \in Nodes, node.first <= region.last, s.comment.first <= node.first
  PROVE  /\ Marked(WithStatement(s, node, region), region)
         /\ WithStatement(s, node, region).comment.first <= node.first
<1> DEFINE found == s.found
           Begin == IF s.comment.first # 0 /\ node.first <= s.comment.last + 1
                    THEN s.comment.first ELSE node.first
           new == WithStatement(s, node, region)
<1>1. /\ MarksIn(found, region) /\ s.covered \in Int /\ region.first <= s.covered + 1
      /\ \A m \in Range(found) : m.first <= s.covered
      /\ s.comment.first \in Int
  BY Zenon DEF Marked
<1>2. node.first \in Int /\ node.last \in Int /\ node.first >= 1 /\ node.first <= node.last
  BY NodeLines, Zenon
<1>3. PICK first : first = Begin
  BY Zenon
<1>4. first \in Int /\ first <= node.first
  BY <1>1, <1>2, <1>3
<1>5. PICK covered : covered = Larger(s.covered, node.last)
  BY Zenon
<1>6. covered \in Int /\ s.covered <= covered /\ node.last <= covered
  BY <1>1, <1>2, <1>5 DEF Larger
<1>7. \A m \in Range(found) : m \in Marks(region) /\ m.first \in Int
  BY <1>1 DEF MarksIn, Marks
<1>8. PICK a : a = [first |-> Larger(first, region.first), node |-> node]
  BY Zenon
<1>9. PICK b : b = [first |-> Last(found).first, node |-> node]
  BY Zenon
<1> DEFINE Fine(f) == MarksIn(f, region) /\ \A m \in Range(f) : m.first <= covered
<1>10. ASSUME first > s.covered
      PROVE  \E f : Fine(f) /\ new = [found |-> f, covered |-> covered, comment |-> NoComment]
  <2>1. Larger(first, region.first) = first
    BY <1>1, <1>4, <1>10 DEF Larger
  <2>2. a = [first |-> first, node |-> node]
    BY <1>8, <2>1, Zenon
  <2>3. a \in Marks(region) /\ a.first = first
    BY <1>1, <1>2, <1>4, <1>10, <2>2 DEF Marks
  <2>4. \A m \in Range(found) : m.first < a.first
    BY <1>1, <1>4, <1>7, <1>10, <2>3
  <2>5. MarksIn(Append(found, a), region) /\ Range(Append(found, a)) = Range(found) \cup {a}
    BY <1>1, <2>3, <2>4, MoreMarks, Zenon
  <2>6. a.first <= covered /\ \A m \in Range(found) : m.first <= covered
    BY <1>1, <1>2, <1>4, <1>6, <1>7, <2>3
  <2>7. \A m \in Range(Append(found, a)) : m.first <= covered
    BY <2>5, <2>6
  <2>8. new = [found |-> Append(found, a), covered |-> covered, comment |-> NoComment]
    BY <1>3, <1>5, <1>8, <1>10, Zenon DEF WithStatement
  <2> HIDE DEF new
  <2> QED
    BY <2>5, <2>7, <2>8, Zenon
<1>11. ASSUME ~ (first > s.covered) /\ found # <<>> /\ SpansFurther(node, Last(found).node)
      PROVE  \E f : Fine(f) /\ new = [found |-> f, covered |-> covered, comment |-> NoComment]
  <2>1. Last(found) \in Range(found)
    BY <1>1, <1>11, FrontList, Zenon DEF MarksIn
  <2>2. Last(found) \in Marks(region) /\ Last(found).first <= s.covered /\ Last(found).first \in Int
    BY <1>1, <1>7, <2>1, Zenon
  <2>3. PICK l : l = Last(found)
    BY Zenon
  <2>4. b \in Marks(region) /\ b.first = l.first
    BY <1>9, <2>2, <2>3 DEF Marks
  <2>5. /\ MarksIn(Append(Front(found), b), region)
        /\ \A x \in Range(Append(Front(found), b)) : x = b \/ x \in Range(found)
    BY <1>1, <1>11, <2>3, <2>4, MoreMarks, Zenon
  <2>6. b.first <= covered /\ \A m \in Range(found) : m.first <= covered
    BY <1>1, <1>6, <1>7, <2>2, <2>3, <2>4
  <2>7. \A m \in Range(Append(Front(found), b)) : m.first <= covered
    BY <2>5, <2>6, Zenon
  <2>8. new = [found |-> Append(Front(found), b), covered |-> covered, comment |-> NoComment]
    BY <1>3, <1>5, <1>9, <1>11, Zenon DEF WithStatement
  <2> HIDE DEF new
  <2> QED
    BY <2>5, <2>7, <2>8, Zenon
<1>12. ASSUME ~ (first > s.covered) /\ ~ (found # <<>> /\ SpansFurther(node, Last(found).node))
      PROVE  \E f : Fine(f) /\ new = [found |-> f, covered |-> covered, comment |-> NoComment]
  <2>1. \A m \in Range(found) : m.first <= covered
    BY <1>1, <1>6, <1>7
  <2>2. new = [found |-> found, covered |-> covered, comment |-> NoComment]
    BY <1>3, <1>5, <1>12, Zenon DEF WithStatement
  <2> HIDE DEF new
  <2> QED
    BY <1>1, <2>1, <2>2, Zenon
<1>13. \E f : Fine(f) /\ new = [found |-> f, covered |-> covered, comment |-> NoComment]
  <2> HIDE DEF Fine, new
  <2> QED
    BY <1>10, <1>11, <1>12, Zenon
<1>14. PICK f : Fine(f) /\ new = [found |-> f, covered |-> covered, comment |-> NoComment]
  BY <1>13, Zenon
<1> HIDE DEF new
<1>15. /\ DOMAIN new = {"found", "covered", "comment"}
       /\ new.found = f /\ new.covered = covered /\ new.comment = NoComment
  BY <1>14
<1>16. DOMAIN NoComment = {"first", "last"} /\ NoComment.first = 0 /\ 0 \in Int /\ 0 <= node.first
  BY <1>2 DEF NoComment
<1>17. region.first <= covered + 1
  BY <1>1, <1>6
<1>18. Marked(new, region) /\ new.comment.first <= node.first
  BY <1>6, <1>14, <1>15, <1>16, <1>17, Zenon DEF Marked
<1> QED
  BY <1>18, Zenon DEF new

\* The boundaries of a region rise inside it.
LEMMA BoundariesRise ==
  ASSUME NEW region, region.first \in Int, region.last \in Int, NEW nodes, Statements(nodes)
  PROVE  MarksIn(Boundaries(region, nodes), region)
<1> DEFINE before == {i \in DOMAIN nodes : \A j \in 1..i : nodes[j].first <= region.last}
           N == Cardinality(before)
           L == Len(nodes)
           base == [found |-> <<>>, covered |-> region.first - 1, comment |-> NoComment]
           s == FirstN(nodes, N)
<1>1. /\ L \in Nat /\ DOMAIN nodes = 1..L /\ IsList(nodes)
      /\ \A i \in 1..L : nodes[i] \in Nodes
      /\ \A i, j \in 1..L : i <= j => nodes[i].first <= nodes[j].first
  <2>1. IsList(nodes) /\ \A i \in 1..L : nodes[i] \in Nodes
    BY Zenon DEF Statements
  <2>2. L \in Nat /\ DOMAIN nodes = 1..L
    BY <2>1, ListElements, Zenon
  <2> QED
    BY <2>1, <2>2, Zenon DEF Statements, InSourceOrder
<1>2. \A i \in 1..L : nodes[i].first \in Int
  BY <1>1, NodeLines, Zenon
<1>3. Boundaries(region, nodes) = BoundsOf(region, base, s).found
  BY DEF Boundaries, BoundsOf
<1>4. before \in SUBSET (1..L)
  BY <1>1
<1>5. N \in Nat /\ N <= L
  BY <1>1, <1>4, FewPlaces
<1>6. ASSUME NEW k \in 1..N PROVE nodes[k].first <= region.last
  <2>1. CASE k \in before
    BY <2>1
  <2>2. CASE k \notin before
    <3>1. \A i \in before : i < k
      <4> TAKE i \in before
      <4>1. CASE i >= k
        <5>1. \A j \in 1..k : nodes[j].first <= region.last
          BY <1>1, <4>1
        <5>2. k \in DOMAIN nodes
          BY <1>1, <1>5
        <5> QED
          BY <2>2, <5>1, <5>2
      <4> QED
        BY <1>4, <4>1
    <3> HIDE DEF before
    <3>2. k - 1 \in Nat /\ before \in SUBSET (1..(k - 1))
      BY <1>4, <3>1
    <3>3. N <= k - 1
      BY <3>2, FewPlaces
    <3> QED
      BY <1>5, <3>3
  <2> QED
    BY <2>1, <2>2
<1> HIDE DEF before, N
<1>7. IsList(s) /\ Len(s) = N /\ \A i \in 1..N : s[i] = nodes[i]
  <2>0. L \in Nat
    BY <1>1, Zenon
  <2> HIDE DEF L
  <2>1. Smaller(N, L) = N
    BY <1>5, <2>0 DEF Smaller
  <2>2. s = SubSeq(nodes, 1, N)
    BY <2>1, Zenon DEF FirstN, L
  <2> HIDE DEF s
  <2> QED
    BY <1>1, <1>5, <2>2, PrefixList
<1> HIDE DEF s
<1>8. PICK h : Bounding(h, region, base, s)
  BY <1>5, <1>7, BoundsTrace, Zenon
<1>9. /\ h[0] = base
      /\ \A n \in 1..N : h[n] = WithNode(h[n - 1], nodes[n], region)
      /\ h[N] = BoundsOf(region, base, s)
  BY <1>7, <1>8, Zenon DEF Bounding
<1> DEFINE Good(k) == /\ Marked(h[k], region)
                      /\ \A i \in 1..L : i > k => h[k].comment.first <= nodes[i].first
           T == {k \in 0..N : Good(k)}
<1>10. 0 \in T
  <2>1. /\ base.found = <<>> /\ base.covered = region.first - 1 /\ base.comment = NoComment
        /\ DOMAIN base = {"found", "covered", "comment"}
    OBVIOUS
  <2>2. DOMAIN NoComment = {"first", "last"} /\ NoComment.first = 0
    BY DEF NoComment
  <2> HIDE DEF base
  <2>3. MarksIn(<<>>, region) /\ Range(<<>>) = {}
    BY EmptyIsList DEF MarksIn, Apart
  <2>4. base.covered \in Int /\ region.first <= base.covered + 1
    BY <2>1
  <2>5. Marked(base, region)
    BY <2>1, <2>2, <2>3, <2>4 DEF Marked
  <2>6. \A i \in 1..L : base.comment.first <= nodes[i].first
    <3> TAKE i \in 1..L
    <3>1. nodes[i].first >= 1 /\ nodes[i].first \in Int
      BY <1>1, NodeLines, Zenon
    <3> QED
      BY <2>1, <2>2, <3>1
  <2>7. Good(0)
    BY <1>9, <2>5, <2>6, Zenon
  <2> HIDE DEF Good
  <2> QED
    BY <1>5, <2>7
<1>11. ASSUME NEW k \in 0..(N - 1), k \in T PROVE k + 1 \in T
  <2>1. PICK n : n = k + 1
    OBVIOUS
  <2>2. n \in 1..N /\ n \in 0..N /\ n \in 1..L /\ n - 1 = k /\ n > k /\ \A i \in 1..L : i > n => n <= i
    BY <1>1, <1>5, <2>1
  <2>3. Good(k)
    BY <1>11
  <2>4. PICK g, x : g = h[k] /\ x = nodes[n]
    BY Zenon
  <2>5. Marked(g, region) /\ g.comment.first <= x.first /\ x \in Nodes /\ x.first <= region.last
    BY <1>1, <1>6, <2>2, <2>3, <2>4, Zenon
  <2>6. PICK t : t = WithNode(g, x, region)
    BY Zenon
  <2>7. Marked(t, region) /\ t.comment.first <= x.first
    BY <2>5, <2>6, CommentMarked, StatementMarked, Zenon DEF WithNode
  <2>8. h[n] = t
    BY <1>9, <2>2, <2>4, <2>6, Zenon
  <2>9. ASSUME NEW i \in 1..L, i > n PROVE t.comment.first <= nodes[i].first
    <3>1. x.first <= nodes[i].first
      BY <1>1, <2>2, <2>4, <2>9, Zenon
    <3>2. t.comment.first \in Int /\ x.first \in Int /\ nodes[i].first \in Int
      BY <1>2, <2>2, <2>4, <2>7, Zenon DEF Marked
    <3> QED
      BY <2>7, <3>1, <3>2
  <2>10. Good(n)
    BY <2>7, <2>8, <2>9, Zenon
  <2> HIDE DEF Good
  <2> QED
    BY <2>1, <2>2, <2>10
<1>12. Good(N)
  <2> HIDE DEF Good
  <2>1. N \in T
    <3> HIDE DEF T
    <3>1. \A k \in 0..N : k \in T
      BY <1>5, <1>10, <1>11, UpTo
    <3> QED
      BY <1>5, <3>1
  <2> QED
    BY <2>1
<1> QED
  BY <1>3, <1>9, <1>12, Zenon DEF Marked

\* A number between the first and the last of many is between two neighbours.
LEMMA Cuts ==
  ASSUME NEW N \in Nat, N # 0, NEW c, \A i \in 1..(N + 1) : c[i] \in Int,
         NEW n \in Int, c[1] <= n, n < c[N + 1]
  PROVE  \E i \in 1..N : c[i] <= n /\ n < c[i + 1]
<1> DEFINE Between(k) == n < c[k + 1] => \E i \in 1..k : c[i] <= n /\ n < c[i + 1]
           T == {k \in 0..N : Between(k)}
<1>1. 0 \in T
  <2>1. c[1] \in Int /\ 0 + 1 = 1
    OBVIOUS
  <2>2. ~ (n < c[1])
    BY <2>1
  <2>3. Between(0)
    BY <2>1, <2>2
  <2> HIDE DEF Between
  <2> QED
    BY <2>3
<1>2. ASSUME NEW k \in 0..(N - 1), k \in T PROVE k + 1 \in T
  <2>1. PICK m : m = k + 1
    OBVIOUS
  <2>2. m \in 1..m /\ m \in 0..N /\ m \in 1..(N + 1) /\ \A i \in 1..k : i \in 1..m
    BY <2>1
  <2>3. Between(k)
    BY <1>2
  <2>4. CASE n < c[m]
    <3>1. \E i \in 1..k : c[i] <= n /\ n < c[i + 1]
      BY <2>1, <2>3, <2>4, Zenon
    <3>2. Between(m)
      BY <2>2, <3>1, Zenon
    <3> HIDE DEF Between
    <3> QED
      BY <2>1, <2>2, <3>2
  <2>5. CASE ~ (n < c[m])
    <3>1. c[m] <= n
      <4>1. c[m] \in Int
        BY <2>2
      <4> QED
        BY <2>5, <4>1
    <3>2. Between(m)
      BY <2>2, <3>1, Zenon
    <3> HIDE DEF Between
    <3> QED
      BY <2>1, <2>2, <3>2
  <2> QED
    BY <2>4, <2>5, Zenon
<1>3. Between(N)
  <2> HIDE DEF Between
  <2>1. N \in T
    <3> HIDE DEF T
    <3>1. \A k \in 0..N : k \in T
      BY <1>1, <1>2, UpTo
    <3> QED
      BY <3>1
  <2> QED
    BY <2>1
<1> QED
  BY <1>3

\* Sections that divide these lines: in their order, and all of them.
SectionsApart(S) == {p \in S \X S : p[1].region.last < p[2].region.first}
Divided(s, first, last) ==
  /\ IsList(s)
  /\ \A p \in Range(s) : Section(p) /\ first <= p.region.first /\ p.region.last <= last
  /\ Apart(s, SectionsApart(Range(s)))
  /\ \A n \in first..last : \E p \in Range(s) : Within(n, p.region)

\* A section divides its own lines.
LEMMA OneSection ==
  ASSUME NEW p, Section(p)
  PROVE  Divided(<<p>>, p.region.first, p.region.last)
<1>1. PICK s : s = <<p>>
  BY Zenon
<1>2. s \in Seq({p}) /\ Len(s) = 1 /\ \A i \in 1..1 : s[i] = p
  BY <1>1
<1>3. IsList(s)
  BY <1>2, SeqIsList
<1>4. Range(s) = {p}
  BY <1>2, <1>3, InRange
<1>5. Apart(s, SectionsApart(Range(s)))
  BY <1>2 DEF Apart
<1>6. p.region.first \in Int /\ p.region.last \in Int
  BY DEF Section
<1>7. \A q \in Range(s) :
        Section(q) /\ p.region.first <= q.region.first /\ q.region.last <= p.region.last
  <2> SUFFICES p.region.first <= p.region.first /\ p.region.last <= p.region.last
    BY <1>4
  <2> QED
    BY <1>6
<1>8. \A n \in p.region.first..p.region.last : \E q \in Range(s) : Within(n, q.region)
  <2> SUFFICES ASSUME NEW n \in p.region.first..p.region.last PROVE Within(n, p.region)
    BY <1>4
  <2> QED
    BY <1>6 DEF Within
<1>9. Divided(s, p.region.first, p.region.last)
  BY <1>3, <1>5, <1>7, <1>8, Zenon DEF Divided
<1> QED
  BY <1>1, <1>9, Zenon

\* A section is split into sections.
LEMMA SplitSection ==
  ASSUME NEW piece, Section(piece)
  PROVE  Divided(SplitRegion(piece), piece.region.first, piece.region.last)
<1> DEFINE region == piece.region
           found == Boundaries(region, piece.nodes)
           N == Len(found)
           First(i) == IF i = 1 THEN region.first ELSE found[i].first
           Final(i) == IF i = Len(found) THEN region.last ELSE found[i + 1].first - 1
           F(i) == Fit(Region(First(i), Final(i), region.context, region.depth), found[i].node)
           s == SplitRegion(piece)
<1>1. /\ region.first \in Int /\ region.last \in Int /\ region.first <= region.last
      /\ FromOne(region.context) /\ Statements(piece.nodes)
  BY DEF Section
<1>2. MarksIn(found, region)
  BY <1>1, BoundariesRise, Zenon
<1>3. CASE found = <<>>
  <2>1. PICK p : p = Piece(region, <<>>)
    BY Zenon
  <2>2. p.region = region /\ p.nodes = <<>>
    BY <2>1 DEF Piece
  <2>3. Section(p)
    BY <1>1, <2>2, NothingInside, Zenon DEF Section
  <2>4. s = <<p>>
    BY <1>3, <2>1, Zenon DEF SplitRegion
  <2> QED
    BY <2>2, <2>3, <2>4, OneSection, Zenon
<1>4. CASE found # <<>>
  <2>1. s = [i \in DOMAIN found |-> F(i)]
    BY <1>4, Zenon DEF SplitRegion
  <2>2. IsList(found) /\ DOMAIN found = 1..N /\ N \in Nat /\ N # 0
    BY <1>2, <1>4, ListElements, EmptyIsList DEF MarksIn, IsList
  <2>3. \A i \in 1..N : found[i] \in Marks(region)
    BY <1>2, <2>2, InRange, Zenon DEF MarksIn
  <2>4. \A i, j \in 1..N : i < j => <<found[i], found[j]>> \in Rising(region)
    BY <1>2 DEF MarksIn, Apart
  <2> HIDE DEF s, found, N
  <2>5. \A i \in 1..N : /\ found[i].first \in Int /\ found[i].node \in Nodes
                        /\ region.first <= found[i].first /\ found[i].first <= region.last
    BY <1>1, <2>3 DEF Marks
  <2>6. \A i, j \in 1..N : i < j => found[i].first < found[j].first
    BY <2>4 DEF Rising
  <2> DEFINE c == [i \in 1..(N + 1) |-> IF i = 1 THEN region.first
                                        ELSE IF i = N + 1 THEN region.last + 1
                                        ELSE found[i].first]
  <2>7. c[1] = region.first /\ c[N + 1] = region.last + 1
    BY <2>2
  <2>8. ASSUME NEW i \in 1..N
        PROVE  First(i) = c[i] /\ Final(i) = c[i + 1] - 1 /\ i + 1 \in 1..(N + 1)
    <3>1. i \in 1..(N + 1) /\ i + 1 \in 1..(N + 1) /\ i # N + 1 /\ i + 1 # 1 /\ (i + 1 = N + 1 <=> i = N)
      BY <2>2
    <3>2. c[i] = First(i)
      BY <3>1
    <3>3. CASE i = N
      BY <1>1, <2>7, <3>1, <3>3 DEF N
    <3>4. CASE i # N
      BY <3>1, <3>4 DEF N
    <3> QED
      BY <3>1, <3>2, <3>3, <3>4
  <2>9. \A i \in 1..(N + 1) : c[i] \in Int
    BY <1>1, <2>2, <2>5
  <2>10. ASSUME NEW i \in 1..(N + 1), NEW j \in 1..(N + 1), i < j PROVE c[i] < c[j]
    <3>1. i \in 1..N /\ i # N + 1 /\ j # 1 /\ (j # N + 1 => j \in 1..N)
      BY <2>2, <2>10
    <3>2. CASE j = N + 1
      BY <1>1, <2>2, <2>5, <2>7, <3>1, <3>2
    <3>3. CASE j # N + 1
      <4>1. found[i].first < found[j].first /\ region.first <= found[i].first
        BY <2>5, <2>6, <2>10, <3>1, <3>3
      <4>2. found[i].first \in Int /\ found[j].first \in Int /\ c[j] = found[j].first
        BY <2>5, <3>1, <3>3
      <4>3. c[i] \in {region.first, found[i].first}
        BY <3>1
      <4> HIDE DEF c
      <4> QED
        BY <1>1, <4>1, <4>2, <4>3
    <3> QED
      BY <3>2, <3>3
  <2>11. \A i \in 1..(N + 1) : c[1] <= c[i] /\ c[i] <= c[N + 1]
    <3> TAKE i \in 1..(N + 1)
    <3>1. 1 \in 1..(N + 1) /\ N + 1 \in 1..(N + 1) /\ (i = 1 \/ 1 < i) /\ (i = N + 1 \/ i < N + 1)
      BY <2>2
    <3> HIDE DEF c
    <3> QED
      BY <2>9, <2>10, <3>1
  <2> HIDE DEF c
  <2>12. ASSUME NEW i \in 1..N
         PROVE  /\ Section(s[i]) /\ s[i].region.first = c[i] /\ s[i].region.last = c[i + 1] - 1
                /\ c[i] \in Int /\ c[i + 1] \in Int /\ region.first <= c[i] /\ c[i + 1] - 1 <= region.last
    <3>1. i \in 1..(N + 1) /\ i + 1 \in 1..(N + 1) /\ i < i + 1
      BY <2>2
    <3>2. PICK m, l : m = First(i) /\ l = Final(i)
      BY Zenon
    <3>3. m = c[i] /\ l = c[i + 1] - 1
      BY <2>8, <3>2, Zenon
    <3>4. c[i] \in Int /\ c[i + 1] \in Int /\ c[i] < c[i + 1]
      BY <2>9, <2>10, <3>1, Zenon
    <3>5. m \in Int /\ l \in Int /\ m <= l
      BY <3>3, <3>4
    <3>6. region.first <= c[i] /\ c[i + 1] - 1 <= region.last
      BY <1>1, <2>7, <2>11, <3>1, <3>4
    <3> HIDE DEF First, Final
    <3>7. s[i] = Fit(Region(m, l, region.context, region.depth), found[i].node)
      BY <2>1, <2>2, <3>2, Zenon
    <3>8. found[i].node \in Nodes
      BY <2>5
    <3>9. Section(s[i]) /\ s[i].region.first = m /\ s[i].region.last = l
      <4>1. PICK x, e, n : x = region.context /\ e = region.depth /\ n = found[i].node
        BY Zenon
      <4>2. FromOne(x) /\ n \in Nodes
        BY <1>1, <3>8, <4>1, Zenon
      <4>3. PICK p : /\ Fit(Region(m, l, x, e), n) = p
                     /\ Section(p) /\ p.region.first = m /\ p.region.last = l
        BY <3>5, <4>2, FittedSection
      <4>4. s[i] = p
        BY <3>7, <4>1, <4>3, Zenon
      <4> QED
        BY <4>3, <4>4, Zenon
    <3> QED
      BY <3>3, <3>4, <3>6, <3>9, Zenon
  <2>13. s = [i \in 1..N |-> s[i]]
    BY <2>1, <2>2
  <2>14. IsList(s) /\ Len(s) = N
    BY <2>2, <2>13, ListByShape, Zenon
  <2>15. /\ \A x \in Range(s) : \E i \in 1..N : s[i] = x
         /\ \A i \in 1..N : s[i] \in Range(s)
    BY <2>14, InRange, Zenon
  <2>16. ASSUME NEW p \in Range(s)
         PROVE  Section(p) /\ region.first <= p.region.first /\ p.region.last <= region.last
    <3>1. PICK i \in 1..N : s[i] = p
      BY <2>15, Zenon
    <3> QED
      BY <2>12, <3>1, Zenon
  <2>17. Apart(s, SectionsApart(Range(s)))
    <3>1. ASSUME NEW i \in 1..N, NEW j \in 1..N, i < j PROVE s[i].region.last < s[j].region.first
      <4>1. i + 1 \in 1..(N + 1) /\ j \in 1..(N + 1) /\ (i + 1 = j \/ i + 1 < j)
        BY <2>2, <3>1
      <4>2. c[i + 1] \in Int /\ c[j] \in Int /\ c[i + 1] <= c[j]
        BY <2>9, <2>10, <4>1
      <4> QED
        BY <2>12, <4>2
    <3>2. \A i, j \in 1..N : i < j => <<s[i], s[j]>> \in SectionsApart(Range(s))
      BY <2>15, <3>1 DEF SectionsApart
    <3> QED
      BY <2>14, <3>2, Zenon DEF Apart
  <2>18. ASSUME NEW n \in region.first..region.last PROVE \E p \in Range(s) : Within(n, p.region)
    <3>1. n \in Int /\ c[1] <= n /\ n < c[N + 1]
      BY <1>1, <2>7, <2>18
    <3>2. PICK i \in 1..N : c[i] <= n /\ n < c[i + 1]
      BY <2>2, <2>9, <3>1, Cuts
    <3>3. Within(n, s[i].region)
      BY <2>12, <3>1, <3>2 DEF Within
    <3> QED
      BY <2>15, <3>3, Zenon
  <2>19. Divided(s, region.first, region.last)
    BY <2>14, <2>16, <2>17, <2>18, Zenon DEF Divided
  <2> QED
    BY <2>19, Zenon DEF s
<1> QED
  BY <1>3, <1>4, Zenon

\* A round of splitting divides the same lines.
LEMMA SplitDivided ==
  ASSUME NEW first \in Int, NEW last \in Int, NEW pieces, Divided(pieces, first, last)
  PROVE  Divided(SplitAll(pieces), first, last)
<1> DEFINE N == Len(pieces)
           seqs == [i \in DOMAIN pieces |-> SplitRegion(pieces[i])]
           S == SplitAll(pieces)
           R == SectionsApart(Range(S))
<1>1. /\ IsList(pieces)
      /\ \A p \in Range(pieces) : Section(p) /\ first <= p.region.first /\ p.region.last <= last
      /\ Apart(pieces, SectionsApart(Range(pieces)))
      /\ \A n \in first..last : \E p \in Range(pieces) : Within(n, p.region)
  BY Zenon DEF Divided
<1>2. N \in Nat /\ DOMAIN pieces = 1..N
  BY <1>1, ListElements, Zenon
<1>3. /\ \A p \in Range(pieces) : \E i \in 1..N : pieces[i] = p
      /\ \A i \in 1..N : pieces[i] \in Range(pieces)
  BY <1>1, InRange, Zenon
<1>4. S = FlattenSeq(seqs)
  BY DEF SplitAll
<1>5. seqs = [i \in 1..N |-> SplitRegion(pieces[i])]
  BY <1>2, Zenon
<1> HIDE DEF seqs, S, R
<1>6. \A i \in 1..N : seqs[i] = SplitRegion(pieces[i])
  BY <1>5, Zenon
<1>7. seqs = [i \in 1..N |-> seqs[i]]
  BY <1>5
<1> HIDE DEF N
<1>8. IsList(seqs) /\ Len(seqs) = N
  BY <1>2, <1>7, ListByShape, Zenon
<1>9. ASSUME NEW i \in 1..N
      PROVE  Divided(seqs[i], pieces[i].region.first, pieces[i].region.last)
  BY <1>1, <1>3, <1>6, SplitSection, Zenon
<1>10. \A i \in 1..N : /\ IsList(seqs[i])
                       /\ \A p \in Range(seqs[i]) : /\ Section(p)
                                                    /\ pieces[i].region.first <= p.region.first
                                                    /\ p.region.last <= pieces[i].region.last
  BY <1>9, Zenon DEF Divided
<1>11. \A i \in 1..N : /\ pieces[i].region.first \in Int /\ pieces[i].region.last \in Int
                       /\ first <= pieces[i].region.first /\ pieces[i].region.last <= last
  BY <1>1, <1>3, Zenon DEF Section
<1>12. IsList(S) /\ \A x : x \in Range(S) <=> \E i \in 1..N : x \in Range(seqs[i])
  BY <1>4, <1>8, <1>10, Flattened
<1>13. ASSUME NEW x \in Range(S), NEW y \in Range(S), x.region.last < y.region.first
       PROVE  <<x, y>> \in R
  BY <1>13 DEF R, SectionsApart
<1>14. ASSUME NEW i \in 1..N PROVE Apart(seqs[i], R)
  <2>1. Apart(seqs[i], SectionsApart(Range(seqs[i])))
    BY <1>9, Zenon DEF Divided
  <2>2. ASSUME NEW m \in 1..Len(seqs[i]), NEW n \in 1..Len(seqs[i]), m < n
        PROVE  <<seqs[i][m], seqs[i][n]>> \in R
    <3>1. seqs[i][m].region.last < seqs[i][n].region.first
      BY <2>1, <2>2 DEF Apart, SectionsApart
    <3>2. seqs[i][m] \in Range(seqs[i]) /\ seqs[i][n] \in Range(seqs[i])
      BY <1>10, <2>2, InRange, Zenon
    <3> QED
      BY <1>12, <1>13, <3>1, <3>2, Zenon
  <2> QED
    BY <2>2, Zenon DEF Apart
<1>15. ASSUME NEW i \in 1..N, NEW j \in 1..N, i < j, NEW x \in Range(seqs[i]), NEW y \in Range(seqs[j])
       PROVE  <<x, y>> \in R
  <2>1. pieces[i].region.last < pieces[j].region.first
    BY <1>1, <1>15 DEF Apart, SectionsApart, N
  <2>2. Section(x) /\ x.region.last <= pieces[i].region.last
        /\ Section(y) /\ pieces[j].region.first <= y.region.first
    BY <1>10, <1>15, Zenon
  <2>3. x.region.last < y.region.first
    BY <1>11, <2>1, <2>2 DEF Section
  <2>4. x \in Range(S) /\ y \in Range(S)
    BY <1>12, <1>15, Zenon
  <2> QED
    BY <1>13, <2>3, <2>4, Zenon
<1>16. Apart(S, R)
  <2>1. Apart(FlattenSeq(seqs), R)
    BY <1>8, <1>10, <1>14, <1>15, FlattenApart
  <2> QED
    BY <1>4, <2>1, Zenon
<1>17. ASSUME NEW p \in Range(S)
       PROVE  Section(p) /\ first <= p.region.first /\ p.region.last <= last
  <2>1. PICK i \in 1..N : p \in Range(seqs[i])
    BY <1>12, Zenon
  <2>2. /\ Section(p) /\ pieces[i].region.first <= p.region.first
        /\ p.region.last <= pieces[i].region.last
    BY <1>10, <2>1, Zenon
  <2> QED
    BY <1>11, <2>2 DEF Section
<1>18. ASSUME NEW n \in first..last PROVE \E p \in Range(S) : Within(n, p.region)
  <2>1. PICK i \in 1..N : Within(n, pieces[i].region)
    BY <1>1, <1>3, Zenon
  <2>2. n \in pieces[i].region.first..pieces[i].region.last
    BY <1>11, <2>1 DEF Within
  <2>3. PICK p \in Range(seqs[i]) : Within(n, p.region)
    BY <1>9, <2>2, Zenon DEF Divided
  <2> QED
    BY <1>12, <2>3, Zenon
<1>19. Divided(S, first, last)
  BY <1>12, <1>16, <1>17, <1>18, Zenon DEF Divided, R
<1> QED
  BY <1>19, Zenon DEF S

\* All rounds of splitting divide the same lines.
LEMMA AllDivided ==
  ASSUME NEW first \in Int, NEW last \in Int, NEW pieces, Divided(pieces, first, last), NEW N \in Nat
  PROVE  Divided(Repeated(SplitAll, pieces, N), first, last)
<1>1. PICK h : Splitting(h, pieces, N)
  BY SplitTrace, Zenon
<1>2. /\ h[0] = pieces
      /\ \A n \in 1..N : h[n] = SplitAll(h[n - 1])
      /\ h[N] = Repeated(SplitAll, pieces, N)
  BY <1>1, Zenon DEF Splitting
<1> DEFINE T == {k \in 0..N : Divided(h[k], first, last)}
<1>3. 0 \in T
  BY <1>2
<1>4. ASSUME NEW k \in 0..(N - 1), k \in T PROVE k + 1 \in T
  <2>1. PICK n : n = k + 1
    OBVIOUS
  <2>2. n \in 1..N /\ n \in 0..N /\ n - 1 = k
    BY <2>1
  <2>3. Divided(h[k], first, last)
    BY <1>4
  <2>4. h[n] = SplitAll(h[k])
    BY <1>2, <2>2
  <2>5. Divided(h[n], first, last)
    BY <2>3, <2>4, SplitDivided, Zenon
  <2> QED
    BY <2>1, <2>2, <2>5
<1>5. Divided(h[N], first, last)
  <2>1. N \in T
    <3> HIDE DEF T
    <3>1. \A k \in 0..N : k \in T
      BY <1>3, <1>4, UpTo
    <3> QED
      BY <3>1
  <2> QED
    BY <2>1
<1> QED
  BY <1>2, <1>5, Zenon

\* A segment is no longer than a chunk may be; and segments that divide these lines.
Segment(s) == Ranged(s) /\ Length(s) <= MaxLines /\ FromOne(s.context)
SegmentsApart(S) == {p \in S \X S : p[1].last < p[2].first}
Segmented(s, first, last) ==
  /\ IsList(s)
  /\ \A x \in Range(s) : Segment(x) /\ first <= x.first /\ x.last <= last
  /\ Apart(s, SegmentsApart(Range(s)))
  /\ \A n \in first..last : \E x \in Range(s) : Within(n, x)

\* Division, and multiples.
LEMMA Quotients ==
  ASSUME NEW a \in Nat, NEW m \in Nat, m > 0
  PROVE  a \div m \in Nat /\ (a \div m) * m <= a /\ a < (a \div m) * m + m
OBVIOUS

\* A multiple of a larger number is larger, by as much at least.
LEMMA Multiples ==
  ASSUME NEW m \in Nat
  PROVE  /\ \A i \in Int : i * m \in Int /\ (i + 1) * m = i * m + m
         /\ \A i, j \in Int : i <= j => i * m <= j * m
<1>1. \A i \in Int : i * m \in Int /\ (i + 1) * m = i * m + m
  OBVIOUS
<1>2. ASSUME NEW i \in Int, NEW j \in Int, i <= j PROVE i * m <= j * m
  <2>1. PICK d \in Nat : j = i + d
    <3>1. j - i \in Nat /\ j = i + (j - i)
      BY <1>2
    <3> QED
      BY <3>1
  <2>2. d * m \in Nat
    OBVIOUS
  <2>3. j * m = i * m + d * m
    BY <2>1
  <2> QED
    BY <2>2, <2>3
<1> QED
  BY <1>1, <1>2

\* The windows of a region are segments that divide it.
LEMMA WindowsDivide ==
  ASSUME NEW region, region.first \in Int, region.last \in Int, region.first <= region.last,
         FromOne(region.context)
  PROVE  Segmented(Windows(region), region.first, region.last)
<1> DEFINE M == MaxLines
           N == (Length(region) + MaxLines - 1) \div MaxLines
           W(k) == LET first == region.first + (k - 1) * MaxLines
                   IN  [first |-> first, last |-> Smaller(first + MaxLines - 1, region.last),
                        context |-> region.context]
           s == Windows(region)
           c == [i \in 1..(N + 1) |-> IF i = N + 1 THEN region.last + 1
                                      ELSE region.first + (i - 1) * M]
<1>1. M \in Nat /\ M > 0
  BY ChunkingAssumption
<1>2. Length(region) + M - 1 \in Nat /\ Length(region) = region.last - region.first + 1
  BY <1>1 DEF Length
<1>3. N \in Nat /\ N * M <= Length(region) + M - 1 /\ Length(region) + M - 1 < N * M + M
  BY <1>1, <1>2, Quotients
<1>4. s = [n \in 1..N |-> W(n)]
  BY DEF Windows
<1> HIDE DEF s, N
<1>5. /\ \A i \in Int : i * M \in Int /\ (i + 1) * M = i * M + M
      /\ \A i, j \in Int : i <= j => i * M <= j * M
  BY <1>1, Multiples
<1>6. N # 0
  <2>1. 0 * M = 0
    BY <1>1
  <2>2. CASE N = 0
    BY <1>1, <1>2, <1>3, <2>1, <2>2
  <2> QED
    BY <2>2
<1>7. PICK g : \A i \in 0..N : g[i] = i * M
  <2> DEFINE g == [i \in 0..N |-> i * M]
  <2>1. \A i \in 0..N : g[i] = i * M
    OBVIOUS
  <2> QED
    BY <2>1, Zenon
<1>8. g[0] = 0
  BY <1>1, <1>3, <1>7
<1>9. \A i \in 1..N : g[i - 1] \in Int /\ g[i] \in Int /\ g[i] = g[i - 1] + M /\ g[i - 1] <= g[N - 1]
  <2> TAKE i \in 1..N
  <2>1. i - 1 \in Int /\ N - 1 \in Int /\ i - 1 <= N - 1 /\ i - 1 \in 0..N /\ i \in 0..N /\ N - 1 \in 0..N
        /\ i - 1 + 1 = i
    BY <1>3
  <2>2. (i - 1) * M \in Int /\ i * M = (i - 1) * M + M /\ (i - 1) * M <= (N - 1) * M
    BY <1>5, <2>1
  <2>3. g[i - 1] = (i - 1) * M /\ g[i] = i * M /\ g[N - 1] = (N - 1) * M
    BY <1>7, <2>1
  <2>4. i * M \in Int
    BY <1>5, <2>1
  <2> QED
    BY <2>2, <2>3, <2>4
<1>10. g[N] \in Int /\ g[N - 1] \in Int /\ g[N] = g[N - 1] + M /\ g[N] >= Length(region) /\ g[N - 1] < Length(region)
  <2>1. N \in 1..N /\ N \in 0..N
    BY <1>3, <1>6
  <2>2. g[N] = N * M
    BY <1>7, <2>1
  <2>3. g[N] \in Int /\ g[N - 1] \in Int /\ g[N] = g[N - 1] + M
    BY <1>9, <2>1
  <2> QED
    BY <1>1, <1>2, <1>3, <2>2, <2>3
<1>11. ASSUME NEW i \in 1..N
       PROVE  /\ c[i] = region.first + g[i - 1]
              /\ c[i + 1] = IF i = N THEN region.last + 1 ELSE region.first + g[i]
  <2>1. i \in 1..(N + 1) /\ i + 1 \in 1..(N + 1) /\ i # N + 1 /\ (i + 1 = N + 1 <=> i = N)
        /\ i + 1 - 1 = i /\ i - 1 \in 0..N /\ i \in 0..N
    BY <1>3
  <2>2. g[i - 1] = (i - 1) * M /\ g[i] = i * M
    BY <1>7, <2>1
  <2>3. c[i] = region.first + (i - 1) * M
    BY <2>1
  <2>4. PICK j : j = i + 1
    BY Zenon
  <2>5. c[i + 1] = IF i = N THEN region.last + 1 ELSE region.first + i * M
    <3>1. j \in 1..(N + 1) /\ (j = N + 1 <=> i = N) /\ j - 1 = i
      BY <2>1, <2>4
    <3>2. c[j] = IF j = N + 1 THEN region.last + 1 ELSE region.first + (j - 1) * M
      BY <3>1
    <3> HIDE DEF c
    <3>3. CASE i = N
      BY <2>4, <3>1, <3>2, <3>3, Zenon
    <3>4. CASE i # N
      <4>1. c[j] = region.first + (j - 1) * M
        BY <3>1, <3>2, <3>4, Zenon
      <4>2. c[j] = region.first + i * M
        BY <3>1, <4>1, Zenon
      <4> QED
        BY <2>4, <3>4, <4>2, Zenon
    <3> QED
      BY <3>3, <3>4, Zenon
  <2> HIDE DEF c
  <2> QED
    BY <2>2, <2>3, <2>5, Zenon
<1>12. c[1] = region.first /\ c[N + 1] = region.last + 1
  <2>1. 1 \in 1..N /\ N + 1 \in 1..(N + 1) /\ 1 - 1 = 0
    BY <1>3, <1>6
  <2>2. c[1] = region.first + g[0]
    BY <1>11, <2>1
  <2>3. c[N + 1] = region.last + 1
    BY <2>1
  <2> HIDE DEF c
  <2> QED
    BY <1>8, <2>2, <2>3
<1>13. \A i \in 1..N : W(i).first = region.first + g[i - 1]
                       /\ W(i).last = Smaller(region.first + g[i - 1] + M - 1, region.last)
                       /\ W(i).context = region.context
  <2> TAKE i \in 1..N
  <2>1. i - 1 \in 0..N
    BY <1>3
  <2>2. g[i - 1] = (i - 1) * M
    BY <1>7, <2>1
  <2> QED
    BY <2>2
<1> HIDE DEF c, W
<1>14. ASSUME NEW i \in 1..N
       PROVE  /\ c[i] \in Int /\ c[i + 1] \in Int /\ c[i] < c[i + 1] /\ c[i + 1] - c[i] <= M
              /\ region.first <= c[i] /\ c[i + 1] - 1 <= region.last
              /\ W(i).first = c[i] /\ W(i).last = c[i + 1] - 1 /\ W(i).context = region.context
  <2>1. g[i - 1] \in Int /\ g[i] \in Int /\ g[i] = g[i - 1] + M /\ g[i - 1] <= g[N - 1]
    BY <1>9
  <2>2. 0 <= g[i - 1]
    <3>1. 0 \in Int /\ i - 1 \in Int /\ 0 <= i - 1 /\ i - 1 \in 0..N /\ 0 * M = 0
      BY <1>1, <1>3
    <3>2. 0 * M <= (i - 1) * M
      BY <1>5, <3>1
    <3> QED
      BY <1>7, <3>1, <3>2
  <2>3. /\ c[i] = region.first + g[i - 1]
        /\ c[i + 1] = IF i = N THEN region.last + 1 ELSE region.first + g[i]
    BY <1>11
  <2>4. CASE i = N
    <3>1. Smaller(region.first + g[i - 1] + M - 1, region.last) = region.last
      BY <1>1, <1>2, <1>10, <2>1, <2>4 DEF Smaller
    <3> QED
      BY <1>1, <1>2, <1>10, <1>13, <2>1, <2>2, <2>3, <2>4, <3>1
  <2>5. CASE i # N
    <3>1. i + 1 \in 1..N /\ i + 1 - 1 = i
      BY <1>3, <2>5
    <3>2. g[i] <= g[N - 1]
      BY <1>9, <3>1
    <3>3. Smaller(region.first + g[i - 1] + M - 1, region.last) = region.first + g[i] - 1
      BY <1>1, <1>2, <1>10, <2>1, <3>2 DEF Smaller
    <3> QED
      BY <1>1, <1>2, <1>10, <1>13, <2>1, <2>2, <2>3, <2>5, <3>2, <3>3
  <2> QED
    BY <2>4, <2>5
<1>15. \A i \in 1..(N + 1) : c[i] \in Int
  <2> TAKE i \in 1..(N + 1)
  <2>1. i \in 1..N \/ i = N + 1
    BY <1>3
  <2> QED
    BY <1>12, <1>14, <2>1
<1>16. ASSUME NEW i \in 1..N, NEW j \in 1..N, i < j PROVE c[i + 1] <= c[j]
  <2>1. i \in Int /\ j - 1 \in Int /\ i <= j - 1 /\ i \in 0..N /\ j - 1 \in 0..N /\ i # N
    BY <1>3, <1>16
  <2>2. i * M <= (j - 1) * M
    BY <1>5, <2>1
  <2>3. g[i] <= g[j - 1]
    BY <1>7, <2>1, <2>2
  <2>4. g[i] \in Int /\ g[j - 1] \in Int
    BY <1>9
  <2> QED
    BY <1>11, <2>1, <2>3, <2>4
<1>17. \A i \in 1..N : s[i] = W(i)
  BY <1>4, Zenon
<1>18. s = [i \in 1..N |-> s[i]]
  BY <1>4
<1>19. IsList(s) /\ Len(s) = N
  BY <1>3, <1>18, ListByShape, Zenon
<1>20. /\ \A x \in Range(s) : \E i \in 1..N : s[i] = x
       /\ \A i \in 1..N : s[i] \in Range(s)
  BY <1>19, InRange, Zenon
<1>21. ASSUME NEW x \in Range(s)
       PROVE  Segment(x) /\ region.first <= x.first /\ x.last <= region.last
  <2>1. PICK i \in 1..N : s[i] = x
    BY <1>20, Zenon
  <2>2. x.first = c[i] /\ x.last = c[i + 1] - 1 /\ x.context = region.context
    BY <1>14, <1>17, <2>1, Zenon
  <2>3. Ranged(x) /\ Length(x) <= MaxLines /\ region.first <= x.first /\ x.last <= region.last
    BY <1>1, <1>14, <2>2 DEF Ranged, Length
  <2> QED
    BY <2>2, <2>3, Zenon DEF Segment
<1>22. Apart(s, SegmentsApart(Range(s)))
  <2>1. ASSUME NEW i \in 1..N, NEW j \in 1..N, i < j PROVE s[i].last < s[j].first
    <3>1. s[i].last = c[i + 1] - 1 /\ s[j].first = c[j] /\ c[i + 1] \in Int /\ c[j] \in Int
      BY <1>14, <1>17, Zenon
    <3> QED
      BY <1>16, <2>1, <3>1
  <2>2. \A i, j \in 1..N : i < j => <<s[i], s[j]>> \in SegmentsApart(Range(s))
    BY <1>20, <2>1 DEF SegmentsApart
  <2> QED
    BY <1>19, <2>2, Zenon DEF Apart
<1>23. ASSUME NEW n \in region.first..region.last PROVE \E x \in Range(s) : Within(n, x)
  <2>1. n \in Int /\ c[1] <= n /\ n < c[N + 1]
    BY <1>12, <1>23
  <2>2. PICK i \in 1..N : c[i] <= n /\ n < c[i + 1]
    BY <1>3, <1>6, <1>15, <2>1, Cuts
  <2>3. s[i].first = c[i] /\ s[i].last = c[i + 1] - 1 /\ c[i] \in Int /\ c[i + 1] \in Int
    BY <1>14, <1>17, Zenon
  <2>4. Within(n, s[i])
    BY <2>1, <2>2, <2>3 DEF Within
  <2> QED
    BY <1>20, <2>4, Zenon
<1>24. Segmented(s, region.first, region.last)
  BY <1>19, <1>21, <1>22, <1>23, Zenon DEF Segmented
<1> QED
  BY <1>24, Zenon DEF s

\* The segments of a file divide all its lines.
LEMMA FileSegmented ==
  ASSUME NEW nodes, Statements(nodes), NEW count \in Nat
  PROVE  Segmented(SegmentFile(nodes, count), 1, count)
<1> DEFINE begin == Piece(Region(1, count, <<>>, 0), nodes)
           pieces == Repeated(SplitAll, <<begin>>, MaxSplitDepth + 1)
           N == Len(pieces)
           seqs == [i \in DOMAIN pieces |-> Windows(pieces[i].region)]
           S == SegmentFile(nodes, count)
           R == SegmentsApart(Range(S))
<1>1. CASE count = 0
  <2>1. S = <<>>
    BY <1>1, Zenon DEF SegmentFile
  <2> HIDE DEF S
  <2>2. IsList(S) /\ Len(S) = 0 /\ Range(S) = {}
    BY <2>1, EmptyIsList, Zenon
  <2>3. \A n \in 1..count : FALSE
    BY <1>1
  <2>4. Apart(S, R)
    BY <2>2 DEF Apart
  <2>5. Segmented(S, 1, count)
    BY <2>2, <2>3, <2>4, Zenon DEF Segmented
  <2> QED
    BY <2>5, Zenon DEF S
<1>2. CASE count # 0
  <2>0. MaxSplitDepth + 1 \in Nat /\ 1 \in Int /\ count \in Int /\ 1 <= count
    BY <1>2, ChunkingAssumption
  <2>1. Divided(pieces, 1, count)
    <3>1. PICK p : p = begin
      BY Zenon
    <3>2. /\ p.region.first = 1 /\ p.region.last = count /\ p.region.context = <<>>
          /\ p.nodes = nodes
      BY <3>1 DEF Piece, Region
    <3>3. Section(p)
      BY <2>0, <3>2, NothingInside, Zenon DEF Section
    <3>4. Divided(<<p>>, 1, count)
      BY <3>2, <3>3, OneSection, Zenon
    <3>5. PICK base : base = <<p>>
      BY Zenon
    <3>6. Divided(base, 1, count)
      BY <3>4, <3>5, Zenon
    <3>7. Divided(Repeated(SplitAll, base, MaxSplitDepth + 1), 1, count)
      BY <2>0, <3>6, AllDivided, Zenon
    <3> QED
      BY <3>1, <3>5, <3>7, Zenon
  <2>2. S = FlattenSeq(seqs)
    BY <1>2, Zenon DEF SegmentFile
  <2> HIDE DEF pieces, S, R
  <2>3. /\ IsList(pieces)
        /\ \A p \in Range(pieces) : Section(p) /\ 1 <= p.region.first /\ p.region.last <= count
        /\ Apart(pieces, SectionsApart(Range(pieces)))
        /\ \A n \in 1..count : \E p \in Range(pieces) : Within(n, p.region)
    BY <2>1, Zenon DEF Divided
  <2>4. N \in Nat /\ DOMAIN pieces = 1..N
    BY <2>3, ListElements, Zenon
  <2>5. /\ \A p \in Range(pieces) : \E i \in 1..N : pieces[i] = p
        /\ \A i \in 1..N : pieces[i] \in Range(pieces)
    BY <2>3, InRange, Zenon
  <2>6. seqs = [i \in 1..N |-> Windows(pieces[i].region)]
    BY <2>4, Zenon
  <2> HIDE DEF seqs
  <2>7. \A i \in 1..N : seqs[i] = Windows(pieces[i].region)
    BY <2>6, Zenon
  <2>8. seqs = [i \in 1..N |-> seqs[i]]
    BY <2>6
  <2> HIDE DEF N
  <2>9. IsList(seqs) /\ Len(seqs) = N
    BY <2>4, <2>8, ListByShape, Zenon
  <2>10. \A i \in 1..N : /\ pieces[i].region.first \in Int /\ pieces[i].region.last \in Int
                         /\ pieces[i].region.first <= pieces[i].region.last
                         /\ FromOne(pieces[i].region.context)
                         /\ 1 <= pieces[i].region.first /\ pieces[i].region.last <= count
    BY <2>3, <2>5, Zenon DEF Section
  <2>11. ASSUME NEW i \in 1..N
         PROVE  Segmented(seqs[i], pieces[i].region.first, pieces[i].region.last)
    <3>1. PICK r : r = pieces[i].region
      BY Zenon
    <3>2. Segmented(Windows(r), r.first, r.last)
      BY <2>10, <3>1, WindowsDivide, Zenon
    <3> QED
      BY <2>7, <3>1, <3>2, Zenon
  <2>12. \A i \in 1..N : /\ IsList(seqs[i])
                         /\ \A x \in Range(seqs[i]) : /\ Segment(x)
                                                      /\ pieces[i].region.first <= x.first
                                                      /\ x.last <= pieces[i].region.last
    BY <2>11, Zenon DEF Segmented
  <2>13. IsList(S) /\ \A x : x \in Range(S) <=> \E i \in 1..N : x \in Range(seqs[i])
    BY <2>2, <2>9, <2>12, Flattened
  <2>14. ASSUME NEW x \in Range(S), NEW y \in Range(S), x.last < y.first
         PROVE  <<x, y>> \in R
    BY <2>14 DEF R, SegmentsApart
  <2>15. ASSUME NEW i \in 1..N PROVE Apart(seqs[i], R)
    <3>1. Apart(seqs[i], SegmentsApart(Range(seqs[i])))
      BY <2>11, Zenon DEF Segmented
    <3>2. ASSUME NEW m \in 1..Len(seqs[i]), NEW n \in 1..Len(seqs[i]), m < n
          PROVE  <<seqs[i][m], seqs[i][n]>> \in R
      <4>1. seqs[i][m].last < seqs[i][n].first
        BY <3>1, <3>2 DEF Apart, SegmentsApart
      <4>2. seqs[i][m] \in Range(seqs[i]) /\ seqs[i][n] \in Range(seqs[i])
        BY <2>12, <3>2, InRange, Zenon
      <4> QED
        BY <2>13, <2>14, <4>1, <4>2, Zenon
    <3> QED
      BY <3>2, Zenon DEF Apart
  <2>16. ASSUME NEW i \in 1..N, NEW j \in 1..N, i < j, NEW x \in Range(seqs[i]), NEW y \in Range(seqs[j])
         PROVE  <<x, y>> \in R
    <3>1. pieces[i].region.last < pieces[j].region.first
      BY <2>3, <2>16 DEF Apart, SectionsApart, N
    <3>2. Segment(x) /\ x.last <= pieces[i].region.last
          /\ Segment(y) /\ pieces[j].region.first <= y.first
      BY <2>12, <2>16, Zenon
    <3>3. x.last < y.first
      BY <2>10, <3>1, <3>2 DEF Segment, Ranged
    <3>4. x \in Range(S) /\ y \in Range(S)
      BY <2>13, <2>16, Zenon
    <3> QED
      BY <2>14, <3>3, <3>4, Zenon
  <2>17. Apart(S, R)
    <3>1. Apart(FlattenSeq(seqs), R)
      BY <2>9, <2>12, <2>15, <2>16, FlattenApart
    <3> QED
      BY <2>2, <3>1, Zenon
  <2>18. ASSUME NEW x \in Range(S) PROVE Segment(x) /\ 1 <= x.first /\ x.last <= count
    <3>1. PICK i \in 1..N : x \in Range(seqs[i])
      BY <2>13, Zenon
    <3>2. /\ Segment(x) /\ pieces[i].region.first <= x.first
          /\ x.last <= pieces[i].region.last
      BY <2>12, <3>1, Zenon
    <3> QED
      BY <2>0, <2>10, <3>2 DEF Segment, Ranged
  <2>19. ASSUME NEW n \in 1..count PROVE \E x \in Range(S) : Within(n, x)
    <3>1. PICK i \in 1..N : Within(n, pieces[i].region)
      BY <2>3, <2>5, Zenon
    <3>2. n \in pieces[i].region.first..pieces[i].region.last
      BY <2>10, <3>1 DEF Within
    <3>3. PICK x \in Range(seqs[i]) : Within(n, x)
      BY <2>11, <3>2, Zenon DEF Segmented
    <3> QED
      BY <2>13, <3>3, Zenon
  <2>20. Segmented(S, 1, count)
    BY <2>13, <2>17, <2>18, <2>19, Zenon DEF Segmented, R
  <2> QED
    BY <2>20, Zenon DEF S
<1> QED
  BY <1>1, <1>2, Zenon

-----------------------------------------------------------------------------
(* Segments packed into groups.                                            *)

\* The lines of a group of segments.
BodyOf(g) == Lines(g[1].first, Last(g).last)
\* A segment inside them.
Inside(x, g) == BodyOf(g).first <= x.first /\ x.last <= BodyOf(g).last
\* What every group is: some segments, in no more lines than a chunk may have.
Group(g) ==
  /\ IsList(g) /\ g # <<>>
  /\ Ranged(BodyOf(g)) /\ Length(BodyOf(g)) <= MaxLines
  /\ \A x \in Range(g) : Segment(x) /\ Inside(x, g)

\* The fields of a body.
LEMMA BodyLines ==
  ASSUME NEW g
  PROVE  BodyOf(g).first = g[1].first /\ BodyOf(g).last = Last(g).last
BY DEF BodyOf, Lines

\* Groups in the order of their lines.
GroupsApart(S) == {p \in S \X S : BodyOf(p[1]).last < BodyOf(p[2]).first}
Groups(s) ==
  IsList(s) /\ (\A g \in Range(s) : Group(g)) /\ Apart(s, GroupsApart(Range(s)))

\* One group more, behind all others.
LEMMA MoreGroups ==
  ASSUME NEW s, IsList(s), \A g \in Range(s) : Group(g),
         NEW S, Apart(s, GroupsApart(S)),
         NEW h, Group(h), \A g \in Range(s) : BodyOf(g).last < BodyOf(h).first
  PROVE  Groups(Append(s, h)) /\ Range(Append(s, h)) = Range(s) \cup {h}
<1>1. PICK a : a = Append(s, h)
  BY Zenon
<1>2. IsList(a) /\ Range(a) = Range(s) \cup {h}
  BY <1>1, AppendList, Zenon
<1> DEFINE R == GroupsApart(Range(a))
<1>3. ASSUME NEW x \in Range(a), NEW y \in Range(a), BodyOf(x).last < BodyOf(y).first
      PROVE  <<x, y>> \in R
  BY <1>3 DEF GroupsApart
<1> HIDE DEF R
<1>4. ASSUME NEW m \in 1..Len(s), NEW n \in 1..Len(s), m < n PROVE <<s[m], s[n]>> \in R
  <2>1. BodyOf(s[m]).last < BodyOf(s[n]).first
    BY <1>4 DEF Apart, GroupsApart
  <2>2. s[m] \in Range(a) /\ s[n] \in Range(a)
    <3>1. s[m] \in Range(s) /\ s[n] \in Range(s)
      BY <1>4, InRange, Zenon
    <3> QED
      BY <1>2, <3>1
  <2> QED
    BY <1>3, <2>1, <2>2, Zenon
<1>5. Apart(s, R)
  BY <1>4, Zenon DEF Apart
<1>6. \A g \in Range(s) : <<g, h>> \in R
  <2>1. h \in Range(a) /\ \A g \in Range(s) : g \in Range(a)
    BY <1>2
  <2> QED
    BY <1>3, <2>1, Zenon
<1>7. Apart(a, R)
  BY <1>1, <1>5, <1>6, AppendApart, Zenon
<1>8. \A g \in Range(a) : Group(g)
  BY <1>2
<1>9. Groups(a)
  BY <1>2, <1>7, <1>8, Zenon DEF Groups, R
<1> QED
  BY <1>1, <1>2, <1>9, Zenon

\* A segment alone, and one that joins a group.
LEMMA NewGroup ==
  ASSUME NEW x, Segment(x)
  PROVE  Group(<<x>>) /\ BodyOf(<<x>>).first = x.first /\ BodyOf(<<x>>).last = x.last
<1>1. PICK s : s = <<x>>
  BY Zenon
<1>2. s \in Seq({x}) /\ Len(s) = 1 /\ s[1] = x /\ \A i \in 1..1 : s[i] = x
  BY <1>1
<1>3. IsList(s) /\ s # <<>>
  BY <1>2, SeqIsList, EmptyIsList
<1>4. \A y \in Range(s) : y = x
  BY <1>2, <1>3, InRange
<1>5. Last(s) = x
  BY <1>2, Zenon DEF Last
<1>6. BodyOf(s).first = x.first /\ BodyOf(s).last = x.last
  BY <1>2, <1>5, BodyLines, Zenon
<1>7. /\ x.first \in Int /\ x.last \in Int /\ x.first <= x.last
      /\ Length(x) <= MaxLines
  BY DEF Segment, Ranged
<1>8. Ranged(BodyOf(s)) /\ Length(BodyOf(s)) <= MaxLines
  BY <1>6, <1>7 DEF Ranged, Length
<1>9. Inside(x, s)
  BY <1>6, <1>7 DEF Inside
<1>10. Group(s)
  BY <1>3, <1>4, <1>8, <1>9, Zenon DEF Group
<1> QED
  BY <1>1, <1>6, <1>10, Zenon

\* A segment joins a group that stays within the target.
LEMMA LongerGroup ==
  ASSUME NEW g, Group(g), NEW x, Segment(x), BodyOf(g).last < x.first,
         ~ (x.last - g[1].first + 1 > TargetLines)
  PROVE  /\ Group(Append(g, x))
         /\ BodyOf(Append(g, x)).first = BodyOf(g).first /\ BodyOf(Append(g, x)).last = x.last
<1>1. PICK h, b : h = Append(g, x) /\ b = BodyOf(g)
  BY Zenon
<1>2. /\ IsList(g) /\ g # <<>> /\ Ranged(b)
      /\ \A y \in Range(g) : Segment(y) /\ b.first <= y.first /\ y.last <= b.last
  BY <1>1, Zenon DEF Group, Inside
<1>3. IsList(h) /\ Range(h) = Range(g) \cup {x}
  BY <1>1, <1>2, AppendList, Zenon
<1>4. h # <<>> /\ Last(h) = x
  BY <1>1, <1>2, AppendEnds, Zenon
<1>5. h[1] = g[1]
  <2>1. \A i \in 1..Len(g) : Append(g, x)[i] = g[i]
    BY <1>2, AppendList
  <2>2. 1 \in 1..Len(g)
    BY <1>2, FirstElement, Zenon
  <2> QED
    BY <1>1, <2>1, <2>2, Zenon
<1>6. b.first = g[1].first
  BY <1>1, BodyLines, Zenon
<1>7. PICK c : c = BodyOf(h)
  BY Zenon
<1>8. c.first = b.first /\ c.last = x.last
  BY <1>4, <1>5, <1>6, <1>7, BodyLines, Zenon
<1>9. /\ x.first \in Int /\ x.last \in Int /\ x.first <= x.last
      /\ b.first \in Int /\ b.last \in Int /\ b.first <= b.last /\ b.last < x.first
  BY <1>1, <1>2 DEF Segment, Ranged
<1>10. TargetLines \in Int /\ MaxLines \in Int /\ TargetLines <= MaxLines
  BY ChunkingAssumption
<1>11. Ranged(c) /\ Length(c) <= MaxLines
  BY <1>6, <1>8, <1>9, <1>10 DEF Ranged, Length
<1>12. ASSUME NEW y \in Range(h) PROVE Segment(y) /\ Inside(y, h)
  <2>1. CASE y = x
    BY <1>7, <1>8, <1>9, <2>1 DEF Inside
  <2>2. CASE y \in Range(g)
    <3>1. Segment(y) /\ b.first <= y.first /\ y.last <= b.last
      BY <1>2, <2>2
    <3>2. c.first <= y.first /\ y.last <= c.last
      BY <1>8, <1>9, <3>1 DEF Segment, Ranged
    <3> QED
      BY <1>7, <3>1, <3>2, Zenon DEF Inside
  <2> QED
    BY <1>3, <2>1, <2>2
<1>13. Group(h)
  BY <1>3, <1>4, <1>7, <1>11, <1>12, Zenon DEF Group
<1> QED
  BY <1>1, <1>7, <1>8, <1>13, Zenon

\* A segment behind all groups joins the last one or begins one.
LEMMA PackedGroups ==
  ASSUME NEW s, Groups(s), NEW x, Segment(x), \A g \in Range(s) : BodyOf(g).last < x.first
  PROVE  /\ Groups(Packed(s, x))
         /\ \A g \in Range(Packed(s, x)) : BodyOf(g).last <= x.last
         /\ \E g \in Range(Packed(s, x)) : Inside(x, g)
         /\ \A y : Segment(y) /\ (\E g \in Range(s) : Inside(y, g)) =>
              \E g \in Range(Packed(s, x)) : Inside(y, g)
<1>1. PICK t : t = Packed(s, x)
  BY Zenon
<1>2. /\ IsList(s) /\ \A g \in Range(s) : Group(g)
      /\ Apart(s, GroupsApart(Range(s)))
  BY Zenon DEF Groups
<1>3. x.first \in Int /\ x.last \in Int /\ x.first <= x.last
  BY DEF Segment, Ranged
<1>4. \A g \in Range(s) : BodyOf(g).first \in Int /\ BodyOf(g).last \in Int
  BY <1>2, Zenon DEF Group, Ranged
<1> DEFINE Goal == /\ Groups(t)
                   /\ \A g \in Range(t) : BodyOf(g).last <= x.last
                   /\ \E g \in Range(t) : Inside(x, g)
                   /\ \A y : Segment(y) /\ (\E g \in Range(s) : Inside(y, g)) =>
                        \E g \in Range(t) : Inside(y, g)
<1>5. ASSUME s = <<>> \/ x.last - Last(s)[1].first + 1 > TargetLines PROVE Goal
  <2>1. PICK h : h = <<x>>
    BY Zenon
  <2>2. t = Append(s, h)
    BY <1>1, <1>5, <2>1, Zenon DEF Packed
  <2>3. Group(h) /\ BodyOf(h).first = x.first /\ BodyOf(h).last = x.last
    BY <2>1, NewGroup, Zenon
  <2>4. \A g \in Range(s) : BodyOf(g).last < BodyOf(h).first
    BY <2>3, Zenon
  <2>5. Groups(t) /\ Range(t) = Range(s) \cup {h}
    BY <1>2, <2>2, <2>3, <2>4, MoreGroups, Zenon
  <2>6. h \in Range(t) /\ \A g \in Range(s) : g \in Range(t)
    BY <2>5
  <2>7. \A g \in Range(t) : BodyOf(g).last <= x.last
    BY <1>3, <1>4, <2>3, <2>5
  <2>8. Inside(x, h)
    BY <1>3, <2>3 DEF Inside
  <2> QED
    BY <2>5, <2>6, <2>7, <2>8, Zenon
<1>6. ASSUME ~ (s = <<>> \/ x.last - Last(s)[1].first + 1 > TargetLines) PROVE Goal
  <2>1. PICK f, l : f = Front(s) /\ l = Last(s)
    BY Zenon
  <2>2. IsList(f) /\ Range(s) = Range(f) \cup {l}
    BY <1>2, <1>6, <2>1, FrontAndLast
  <2>3. /\ Apart(f, GroupsApart(Range(s)))
        /\ \A g \in Range(f) : <<g, l>> \in GroupsApart(Range(s))
    BY <1>2, <1>6, <2>1, FrontApart
  <2>4. Group(l) /\ BodyOf(l).last < x.first /\ \A g \in Range(f) : Group(g)
    BY <1>2, <2>2
  <2>5. \A g \in Range(f) : BodyOf(g).last < BodyOf(l).first
    BY <2>3 DEF GroupsApart
  <2>6. PICK h : h = Append(l, x)
    BY Zenon
  <2>7. Group(h) /\ BodyOf(h).first = BodyOf(l).first /\ BodyOf(h).last = x.last
    BY <1>6, <2>1, <2>4, <2>6, LongerGroup, Zenon
  <2>8. t = Append(f, h)
    BY <1>1, <1>6, <2>1, <2>6, Zenon DEF Packed
  <2>9. \A g \in Range(f) : BodyOf(g).last < BodyOf(h).first
    BY <2>5, <2>7, Zenon
  <2>10. Groups(t) /\ Range(t) = Range(f) \cup {h}
    BY <2>2, <2>3, <2>4, <2>7, <2>8, <2>9, MoreGroups, Zenon
  <2>11. h \in Range(t) /\ \A g \in Range(f) : g \in Range(t)
    BY <2>10
  <2>12. l \in Range(s) /\ \A g \in Range(f) : g \in Range(s)
    BY <2>2
  <2>13. \A g \in Range(t) : BodyOf(g).last <= x.last
    <3> TAKE g \in Range(t)
    <3>1. CASE g = h
      BY <1>3, <2>7, <3>1
    <3>2. CASE g \in Range(f)
      <4>1. BodyOf(g).last \in Int /\ BodyOf(g).last < x.first
        BY <1>4, <2>12, <3>2
      <4> QED
        BY <1>3, <4>1
    <3> QED
      BY <2>10, <3>1, <3>2
  <2>14. Inside(x, h)
    BY <1>3, <1>4, <2>4, <2>7, <2>12 DEF Inside, Group, Ranged
  <2>15. ASSUME NEW y, Segment(y), Inside(y, l) PROVE Inside(y, h)
    BY <1>3, <1>4, <2>4, <2>7, <2>12, <2>15 DEF Inside, Segment, Ranged
  <2>16. ASSUME NEW y, Segment(y), NEW g \in Range(s), Inside(y, g)
         PROVE  \E q \in Range(t) : Inside(y, q)
    <3>1. CASE g = l
      BY <2>11, <2>15, <2>16, <3>1, Zenon
    <3>2. CASE g \in Range(f)
      BY <2>11, <2>16, <3>2, Zenon
    <3> QED
      BY <2>2, <2>16, <3>1, <3>2
  <2> QED
    BY <2>10, <2>11, <2>13, <2>14, <2>16, Zenon
<1> HIDE DEF Goal
<1>7. Goal
  BY <1>5, <1>6, Zenon
<1> QED
  BY <1>1, <1>7, Zenon DEF Goal

\* Segments in their order are packed into groups in their order.
LEMMA PackedAll ==
  ASSUME NEW s, IsList(s), \A x \in Range(s) : Segment(x), Apart(s, SegmentsApart(Range(s)))
  PROVE  /\ Groups(PackSegments(s))
         /\ \A x \in Range(s) : \E g \in Range(PackSegments(s)) : Inside(x, g)
<1> DEFINE N == Len(s)
<1>1. N \in Nat
  BY ListElements, Zenon
<1>2. PICK h : Packing(h, <<>>, s)
  BY <1>1, PackTrace, Zenon
<1>3. /\ h[0] = <<>>
      /\ \A n \in 1..N : h[n] = Packed(h[n - 1], s[n])
      /\ h[N] = PackSegments(s)
  BY <1>2, Zenon DEF Packing, PackSegments
<1>4. \A i \in 1..N : Segment(s[i])
  BY InRange, Zenon
<1>5. \A i, j \in 1..N : i < j => s[i].last < s[j].first
  BY DEF Apart, SegmentsApart
<1> HIDE DEF N
<1> DEFINE Good(k) ==
             /\ Groups(h[k])
             /\ \A g \in Range(h[k]) : k \in 1..N /\ BodyOf(g).last <= s[k].last
             /\ \A i \in 1..k : \E g \in Range(h[k]) : Inside(s[i], g)
           T == {k \in 0..N : Good(k)}
<1>6. 0 \in T
  <2>1. Groups(<<>>) /\ Range(<<>>) = {}
    BY EmptyIsList DEF Groups, Apart
  <2>2. \A i : i \notin 1..0
    OBVIOUS
  <2>3. Good(0)
    BY <1>3, <2>1, <2>2
  <2> HIDE DEF Good
  <2> QED
    BY <1>1, <2>3
<1>7. ASSUME NEW k \in 0..(N - 1), k \in T PROVE k + 1 \in T
  <2>1. PICK n : n = k + 1
    OBVIOUS
  <2>2. n \in 1..N /\ n \in 0..N /\ n - 1 = k /\ k < n /\ \A i : i \in 1..n <=> i \in 1..k \/ i = n
    BY <1>1, <2>1
  <2>3. Good(k)
    BY <1>7
  <2>4. PICK g, x : g = h[k] /\ x = s[n]
    BY Zenon
  <2>5. Groups(g) /\ Segment(x)
    BY <1>4, <2>2, <2>3, <2>4, Zenon
  <2>6. ASSUME NEW q \in Range(g) PROVE BodyOf(q).last < x.first
    <3>1. k \in 1..N /\ BodyOf(q).last <= s[k].last
      BY <2>3, <2>4, <2>6, Zenon
    <3>2. s[k].last < x.first
      BY <1>5, <2>2, <2>4, <3>1, Zenon
    <3>3. s[k].last \in Int /\ x.first \in Int /\ BodyOf(q).last \in Int
      BY <1>4, <2>5, <2>6, <3>1, Zenon DEF Segment, Ranged, Groups, Group
    <3> QED
      BY <3>1, <3>2, <3>3
  <2>7. PICK t : t = Packed(g, x)
    BY Zenon
  <2>8. /\ Groups(t)
        /\ \A q \in Range(t) : BodyOf(q).last <= x.last
        /\ \E q \in Range(t) : Inside(x, q)
        /\ \A y : Segment(y) /\ (\E q \in Range(g) : Inside(y, q)) => \E q \in Range(t) : Inside(y, q)
    BY <2>5, <2>6, <2>7, PackedGroups, Zenon
  <2>9. h[n] = t
    BY <1>3, <2>2, <2>4, <2>7, Zenon
  <2>10. \A i \in 1..n : \E q \in Range(t) : Inside(s[i], q)
    <3> TAKE i \in 1..n
    <3>1. CASE i = n
      BY <2>4, <2>8, <3>1, Zenon
    <3>2. CASE i \in 1..k
      <4>1. i \in 1..N
        BY <1>1, <3>2
      <4>2. Segment(s[i])
        BY <1>4, <4>1, Zenon
      <4> QED
        BY <2>3, <2>4, <2>8, <3>2, <4>2, Zenon
    <3> QED
      BY <2>2, <3>1, <3>2, Zenon
  <2>11. Good(n)
    BY <2>2, <2>4, <2>8, <2>9, <2>10, Zenon
  <2> HIDE DEF Good
  <2> QED
    BY <2>1, <2>2, <2>11
<1>8. Good(N)
  <2> HIDE DEF Good
  <2>1. N \in T
    <3> HIDE DEF T
    <3>1. \A k \in 0..N : k \in T
      BY <1>1, <1>6, <1>7, UpTo
    <3> QED
      BY <1>1, <3>1
  <2> QED
    BY <2>1
<1>9. \A x \in Range(s) : \E i \in 1..N : s[i] = x
  BY InRange, Zenon DEF N
<1> QED
  BY <1>3, <1>8, <1>9, Zenon

-----------------------------------------------------------------------------
(* The context of a chunk.                                                 *)

\* The lines of ranges.
LinesIn(s) == UNION {r.first..r.last : r \in Range(s)}

\* A line is among them if a range covers it.
LEMMA LinesInAre ==
  ASSUME NEW s, AllRanges(s)
  PROVE  \A n : n \in LinesIn(s) <=> n \in Int /\ Covered(n, s)
<1>1. \A r \in Range(s) : r.first \in Int /\ r.last \in Int
  BY DEF AllRanges, Ranged
<1> QED
  BY <1>1 DEF LinesIn, Covered, Within

\* Ranges of lines of a file, all before a line.
Upper(s, b) == FromOne(s) /\ \A r \in Range(s) : r.last < b

\* There may be none,
LEMMA NoUpper ==
  ASSUME NEW b
  PROVE  Upper(<<>>, b)
<1>1. Range(<<>>) = {}
  BY EmptyIsList
<1> QED
  BY <1>1, NothingInside DEF Upper

\* one,
LEMMA OneUpper ==
  ASSUME NEW b, NEW r, Ranged(r), r.first >= 1, r.last < b
  PROVE  Upper(<<r>>, b)
<1>1. PICK s : s = <<r>>
  BY Zenon
<1>2. FromOne(s)
  BY <1>1, OneRange, Zenon
<1>3. s \in Seq({r}) /\ Len(s) = 1 /\ \A i \in 1..1 : s[i] = r
  BY <1>1
<1>4. IsList(s)
  BY <1>3, SeqIsList
<1>5. \A x \in Range(s) : x = r
  BY <1>3, <1>4, InRange
<1>6. Upper(s, b)
  BY <1>2, <1>5, Zenon DEF Upper
<1> QED
  BY <1>1, <1>6, Zenon

\* those of two lists,
LEMMA MoreUpper ==
  ASSUME NEW b, NEW s, Upper(s, b), NEW t, Upper(t, b)
  PROVE  Upper(s \o t, b)
<1>1. FromOne(s) /\ FromOne(t) /\ IsList(s) /\ IsList(t)
  BY Zenon DEF Upper, FromOne, AllRanges
<1>2. PICK c : c = s \o t
  BY Zenon
<1>3. FromOne(c) /\ Range(c) = Range(s) \cup Range(t)
  BY <1>1, <1>2, MoreContext, ConcatRange, Zenon
<1>4. Upper(c, b)
  BY <1>3 DEF Upper
<1> QED
  BY <1>2, <1>4, Zenon

\* or those of many lists.
LEMMA FlattenUpper ==
  ASSUME NEW b, NEW seqs, IsList(seqs), \A i \in 1..Len(seqs) : Upper(seqs[i], b)
  PROVE  Upper(FlattenSeq(seqs), b)
<1>1. \A i \in 1..Len(seqs) : /\ IsList(seqs[i])
                              /\ \A r \in Range(seqs[i]) : Ranged(r) /\ r.first >= 1 /\ r.last < b
  BY Zenon DEF Upper, FromOne, AllRanges
<1>2. PICK f : f = FlattenSeq(seqs)
  BY Zenon
<1>3. IsList(f) /\ \A x \in Range(f) : \E i \in 1..Len(seqs) : x \in Range(seqs[i])
  BY <1>1, <1>2, Flattened
<1>4. \A r \in Range(f) : Ranged(r) /\ r.first >= 1 /\ r.last < b
  BY <1>1, <1>3, Zenon
<1>5. Upper(f, b)
  BY <1>3, <1>4, Zenon DEF Upper, FromOne, AllRanges
<1> QED
  BY <1>2, <1>5, Zenon

\* What a range is without another one.
LEMMA OutsideUpper ==
  ASSUME NEW b, NEW r, Ranged(r), r.first >= 1, r.last < b, b \in Int, NEW q, Ranged(q)
  PROVE  Upper(Outside(r, q), b)
<1> DEFINE Above == IF r.first < q.first THEN <<Lines(r.first, q.first - 1)>> ELSE <<>>
           Below == IF r.last > q.last THEN <<Lines(q.last + 1, r.last)>> ELSE <<>>
<1>1. /\ r.first \in Int /\ r.last \in Int /\ r.first <= r.last
      /\ q.first \in Int /\ q.last \in Int /\ q.first <= q.last
  BY DEF Ranged
<1>2. CASE ~ Overlap(r, q)
  <2>1. Outside(r, q) = <<r>>
    BY <1>2, Zenon DEF Outside
  <2> QED
    BY <2>1, OneUpper, Zenon
<1>3. CASE Overlap(r, q)
  <2>1. Outside(r, q) = Above \o Below
    BY <1>3, Zenon DEF Outside
  <2>2. r.first <= q.last /\ q.first <= r.last
    BY <1>3 DEF Overlap
  <2>3. ASSUME NEW m \in Int, NEW n \in Int, m >= 1, m <= n, n < b PROVE Upper(<<Lines(m, n)>>, b)
    <3>1. PICK p : p = Lines(m, n)
      BY Zenon
    <3>2. p.first = m /\ p.last = n /\ Ranged(p)
      BY <2>3, <3>1, LinesRange
    <3>3. Upper(<<p>>, b)
      BY <2>3, <3>2, OneUpper, Zenon
    <3> QED
      BY <3>1, <3>3, Zenon
  <2>4. Upper(Above, b)
    <3>1. CASE r.first < q.first
      <4>1. q.first - 1 \in Int /\ r.first <= q.first - 1 /\ q.first - 1 < b
        BY <1>1, <2>2, <3>1
      <4>2. Upper(<<Lines(r.first, q.first - 1)>>, b)
        BY <1>1, <2>3, <4>1, Zenon
      <4> QED
        BY <3>1, <4>2, Zenon
    <3>2. CASE ~ (r.first < q.first)
      BY <3>2, NoUpper, Zenon
    <3> QED
      BY <3>1, <3>2, Zenon
  <2>5. Upper(Below, b)
    <3>1. CASE r.last > q.last
      <4>1. q.last + 1 \in Int /\ q.last + 1 >= 1 /\ q.last + 1 <= r.last
        BY <1>1, <2>2, <3>1
      <4>2. Upper(<<Lines(q.last + 1, r.last)>>, b)
        BY <1>1, <2>3, <4>1, Zenon
      <4> QED
        BY <3>1, <4>2, Zenon
    <3>2. CASE ~ (r.last > q.last)
      BY <3>2, NoUpper, Zenon
    <3> QED
      BY <3>1, <3>2, Zenon
  <2> HIDE DEF Above, Below
  <2> QED
    BY <2>1, <2>4, <2>5, MoreUpper, Zenon
<1> QED
  BY <1>2, <1>3, Zenon

\* The parts of a range outside a body, and those of them before it.
AboveOf(s, body) == Kept(s, LAMBDA p : p.last < body.first)

\* They are some of these parts.
LEMMA AboveKept ==
  ASSUME NEW s, IsList(s), NEW body
  PROVE  /\ IsList(AboveOf(s, body))
         /\ \A p \in Range(AboveOf(s, body)) : p \in Range(s) /\ p.last < body.first
<1> DEFINE P(t) == {i \in DOMAIN t : t[i].last < body.first}
           B(t) == AtPlaces(t, Arranged(P(t), <))
           K == AboveOf(s, body)
           I == P(s)
<1>1. \A x : {z \in {x} : z = z} = {x}
  OBVIOUS
<1>2. K = Of(s, B)
  BY DEF AboveOf, Kept
<1>3. Of(s, B) = B(s)
  <2> HIDE DEF B
  <2>1. {B(z) : z \in {z \in {s} : z = z}} = {B(s)}
    BY <1>1, Zenon
  <2> QED
    BY <2>1, Zenon DEF Of
<1>4. I \in SUBSET (1..Len(s)) /\ \A i \in I : s[i].last < body.first
  BY ListElements
<1> HIDE DEF I, K
<1>5. B(s) = ElementsIn(s, I)
  BY ArrangedLess, Zenon DEF I, ElementsIn
<1>6. IsList(K) /\ \A x \in Range(K) : \E i \in I : s[i] = x
  <2> HIDE DEF B
  <2>1. K = ElementsIn(s, I)
    BY <1>2, <1>3, <1>5, Zenon
  <2>2. I \in SUBSET (1..Len(s))
    BY <1>4, Zenon
  <2> QED
    BY <2>1, <2>2, KeptElements
<1>7. ASSUME NEW p \in Range(K) PROVE p \in Range(s) /\ p.last < body.first
  <2>1. PICK i \in I : s[i] = p
    BY <1>6
  <2>2. i \in 1..Len(s)
    BY <1>4, <2>1
  <2> QED
    BY <1>4, <2>1, <2>2, InRange, Zenon
<1> QED
  BY <1>6, <1>7, Zenon DEF K

\* They are lines of the file before the body.
LEMMA AboveUpper ==
  ASSUME NEW body, Ranged(body), NEW r, Ranged(r), r.first >= 1
  PROVE  Upper(AboveBody(r, body), body.first)
<1>1. PICK o : o = Outside(r, body)
  BY Zenon
<1>2. FromOne(o)
  <2>1. r.last \in Int /\ r.last + 1 \in Int /\ r.last < r.last + 1
    BY DEF Ranged
  <2>2. Upper(o, r.last + 1)
    BY <1>1, <2>1, OutsideUpper, Zenon
  <2> QED
    BY <2>2, Zenon DEF Upper
<1>3. PICK a : a = AboveOf(o, body)
  BY Zenon
<1>4. AboveBody(r, body) = a
  BY <1>1, <1>3 DEF AboveBody, AboveOf
<1>5. IsList(a) /\ \A p \in Range(a) : p \in Range(o) /\ p.last < body.first
  BY <1>2, <1>3, AboveKept, Zenon DEF FromOne, AllRanges
<1>6. Upper(a, body.first)
  BY <1>2, <1>5, Zenon DEF Upper, FromOne, AllRanges
<1> QED
  BY <1>4, <1>6, Zenon

\* Where the context may be taken from is before the body.
LEMMA ContextsUpper ==
  ASSUME NEW body, Ranged(body), NEW merged, FromOne(merged), NEW headers, FromOne(headers)
  PROVE  Upper(Contexts(body, merged, headers), body.first)
<1> DEFINE A == [i \in DOMAIN merged |-> AboveBody(merged[i], body)]
           B == [i \in DOMAIN headers |-> AboveBody(headers[i], body)]
<1>1. ASSUME NEW s, FromOne(s), NEW t, t = [i \in DOMAIN s |-> AboveBody(s[i], body)]
      PROVE  IsList(t) /\ \A x \in Range(t) : Upper(x, body.first)
  <2>1. IsList(s) /\ \A r \in Range(s) : Ranged(r) /\ r.first >= 1
    BY <1>1, Zenon DEF FromOne, AllRanges
  <2>2. Len(s) \in Nat /\ DOMAIN s = 1..Len(s)
    BY <2>1, ListElements, Zenon
  <2>3. t = [i \in 1..Len(s) |-> AboveBody(s[i], body)]
    BY <1>1, <2>2, Zenon
  <2>4. \A i \in 1..Len(s) : t[i] = AboveBody(s[i], body)
    BY <2>3, Zenon
  <2>5. t = [i \in 1..Len(s) |-> t[i]]
    BY <2>3
  <2>6. IsList(t) /\ Len(t) = Len(s)
    BY <2>2, <2>5, ListByShape, Zenon
  <2>7. ASSUME NEW x \in Range(t) PROVE Upper(x, body.first)
    <3>1. PICK i \in 1..Len(t) : t[i] = x
      BY <2>6, InRange, Zenon
    <3>2. i \in 1..Len(s)
      BY <2>6, <3>1, Zenon
    <3>3. Ranged(s[i]) /\ s[i].first >= 1
      BY <2>1, <3>2, InRange, Zenon
    <3>4. x = AboveBody(s[i], body)
      BY <2>4, <3>1, <3>2, Zenon
    <3> QED
      BY <3>3, <3>4, AboveUpper, Zenon
  <2> QED
    BY <2>6, <2>7, Zenon
<1>2. PICK a, b : a = A /\ b = B
  BY Zenon
<1>3. IsList(a) /\ \A x \in Range(a) : Upper(x, body.first)
  BY <1>1, <1>2, Zenon
<1>4. IsList(b) /\ \A x \in Range(b) : Upper(x, body.first)
  BY <1>1, <1>2, Zenon
<1>5. PICK c : c = a \o b
  BY Zenon
<1>6. IsList(c) /\ Range(c) = Range(a) \cup Range(b)
  BY <1>3, <1>4, <1>5, ConcatRange, Zenon
<1>7. \A i \in 1..Len(c) : Upper(c[i], body.first)
  <2>1. \A x \in Range(c) : Upper(x, body.first)
    BY <1>3, <1>4, <1>6
  <2> QED
    BY <1>6, <2>1, InRange, Zenon
<1>8. Contexts(body, merged, headers) = FlattenSeq(c)
  BY <1>2, <1>5, Zenon DEF Contexts
<1> QED
  BY <1>6, <1>7, <1>8, FlattenUpper, Zenon

\* What is left of ranges without another one.
LEMMA WithoutUpper ==
  ASSUME NEW b \in Int, NEW parts, Upper(parts, b), NEW r, Ranged(r)
  PROVE  Upper(WithoutRange(parts, r), b)
<1> DEFINE seqs == [i \in DOMAIN parts |-> Outside(parts[i], r)]
           N == Len(parts)
<1>1. IsList(parts) /\ \A p \in Range(parts) : Ranged(p) /\ p.first >= 1 /\ p.last < b
  BY Zenon DEF Upper, FromOne, AllRanges
<1>2. N \in Nat /\ DOMAIN parts = 1..N
  BY <1>1, ListElements, Zenon
<1>3. seqs = [i \in 1..N |-> Outside(parts[i], r)]
  BY <1>2, Zenon
<1>4. WithoutRange(parts, r) = FlattenSeq(seqs)
  BY Zenon DEF WithoutRange
<1> HIDE DEF seqs
<1>5. \A i \in 1..N : seqs[i] = Outside(parts[i], r)
  BY <1>3, Zenon
<1>6. seqs = [i \in 1..N |-> seqs[i]]
  BY <1>3
<1> HIDE DEF N
<1>7. IsList(seqs) /\ Len(seqs) = N
  BY <1>2, <1>6, ListByShape, Zenon
<1>8. ASSUME NEW i \in 1..N PROVE Upper(seqs[i], b)
  <2>1. parts[i] \in Range(parts)
    BY <1>1, InRange, Zenon DEF N
  <2>2. Ranged(parts[i]) /\ parts[i].first >= 1 /\ parts[i].last < b
    BY <1>1, <2>1, Zenon
  <2> QED
    BY <1>5, <2>2, OutsideUpper, Zenon
<1>9. Upper(FlattenSeq(seqs), b)
  BY <1>7, <1>8, FlattenUpper, Zenon
<1> QED
  BY <1>4, <1>9, Zenon

\* What is left of ranges without all of these.
LEMMA RemainUpper ==
  ASSUME NEW b \in Int, NEW parts, Upper(parts, b), NEW s, AllRanges(s)
  PROVE  Upper(Remaining(parts, s), b)
<1> DEFINE N == Len(s)
<1>1. IsList(s) /\ N \in Nat
  BY ListElements, Zenon DEF AllRanges
<1>2. PICK h : Leaving(h, parts, s)
  BY <1>1, RemainTrace, Zenon
<1>3. /\ h[0] = parts
      /\ \A n \in 1..N : h[n] = WithoutRange(h[n - 1], s[n])
      /\ h[N] = Remaining(parts, s)
  BY <1>2, Zenon DEF Leaving
<1>4. \A i \in 1..N : Ranged(s[i])
  BY <1>1, InRange, Zenon DEF AllRanges
<1> HIDE DEF N
<1> DEFINE T == {k \in 0..N : Upper(h[k], b)}
<1>5. 0 \in T
  BY <1>1, <1>3
<1>6. ASSUME NEW k \in 0..(N - 1), k \in T PROVE k + 1 \in T
  <2>1. PICK n : n = k + 1
    OBVIOUS
  <2>2. n \in 1..N /\ n \in 0..N /\ n - 1 = k
    BY <1>1, <2>1
  <2>3. Upper(h[k], b)
    BY <1>6
  <2>4. h[n] = WithoutRange(h[k], s[n])
    BY <1>3, <2>2
  <2>5. Ranged(s[n])
    BY <1>4, <2>2, Zenon
  <2>6. Upper(h[n], b)
    BY <2>3, <2>4, <2>5, WithoutUpper, Zenon
  <2> QED
    BY <2>1, <2>2, <2>6
<1>7. Upper(h[N], b)
  <2>1. N \in T
    <3> HIDE DEF T
    <3>1. \A k \in 0..N : k \in T
      BY <1>1, <1>5, <1>6, UpTo
    <3> QED
      BY <1>1, <3>1
  <2> QED
    BY <2>1
<1> QED
  BY <1>3, <1>7, Zenon

\* What has been selected: lines before the body, as many as there was room for.
Chosen(s, b) ==
  /\ Upper(s.selected, b)
  /\ s.room \in 0..MaxContextLines
  /\ IsFiniteSet(LinesIn(s.selected))
  /\ Cardinality(LinesIn(s.selected)) <= MaxContextLines - s.room

\* A part is taken as far as there is room.
LEMMA TakenChosen ==
  ASSUME NEW b \in Int, NEW s, Chosen(s, b),
         NEW part, Ranged(part), part.first >= 1, part.last < b
  PROVE  Chosen(TakenPart(s, part), b)
<1>1. /\ Upper(s.selected, b) /\ s.room \in 0..MaxContextLines
      /\ IsFiniteSet(LinesIn(s.selected))
      /\ Cardinality(LinesIn(s.selected)) <= MaxContextLines - s.room
  BY Zenon DEF Chosen
<1>2. CASE s.room = 0
  BY <1>2, Zenon DEF TakenPart
<1>3. CASE s.room # 0
  <2>1. PICK last : last = Smaller(part.last, part.first + s.room - 1)
    BY Zenon
  <2>2. MaxContextLines \in Nat
    BY ChunkingAssumption
  <2>3. /\ part.first \in Int /\ last \in Int /\ part.first <= last /\ last < b
        /\ last - part.first + 1 <= s.room
    BY <1>1, <1>3, <2>1, <2>2 DEF Ranged, Smaller
  <2>4. PICK p : p = Lines(part.first, last)
    BY Zenon
  <2>5. p.first = part.first /\ p.last = last /\ Ranged(p)
    BY <2>3, <2>4, LinesRange
  <2>6. PICK q : q = Append(s.selected, p)
    BY Zenon
  <2>7. PICK room : room = s.room - (last - part.first + 1)
    BY Zenon
  <2>8. PICK t : t = TakenPart(s, part)
    BY Zenon
  <2>9. t.selected = q /\ t.room = room
    <3>1. t = [selected |-> q, room |-> room]
      BY <1>3, <2>1, <2>4, <2>6, <2>7, <2>8, Zenon DEF TakenPart
    <3> QED
      BY <3>1
  <2>10. room \in 0..MaxContextLines
    BY <1>1, <2>2, <2>3, <2>7
  <2>11. IsList(s.selected) /\ FromOne(s.selected)
    BY <1>1, Zenon DEF Upper, FromOne, AllRanges
  <2>12. IsList(q) /\ Range(q) = Range(s.selected) \cup {p}
    BY <2>6, <2>11, AppendList, Zenon
  <2>13. \A r \in Range(q) : Ranged(r) /\ r.first >= 1 /\ r.last < b
    <3>1. \A r \in Range(s.selected) : Ranged(r) /\ r.first >= 1 /\ r.last < b
      BY <1>1, Zenon DEF Upper, FromOne, AllRanges
    <3>2. Ranged(p) /\ p.first >= 1 /\ p.last < b
      BY <2>3, <2>5
    <3> QED
      BY <2>12, <3>1, <3>2
  <2>14. Upper(q, b)
    BY <2>12, <2>13, Zenon DEF Upper, FromOne, AllRanges
  <2>15. PICK A, B : A = LinesIn(s.selected) /\ B = p.first..p.last
    BY Zenon
  <2>16. LinesIn(q) = A \cup B
    BY <2>12, <2>15 DEF LinesIn
  <2>17. IsFiniteSet(B) /\ Cardinality(B) = last - part.first + 1
    <3>1. p.first \in Int /\ p.last \in Int /\ ~ (p.first > p.last)
      BY <2>3, <2>5
    <3>2. IsFiniteSet(p.first..p.last)
          /\ Cardinality(p.first..p.last) = IF p.first > p.last THEN 0 ELSE p.last - p.first + 1
      BY <3>1, FS_Interval
    <3> QED
      BY <2>5, <2>15, <3>1, <3>2
  <2>18. IsFiniteSet(A \cup B)
         /\ Cardinality(A \cup B) = Cardinality(A) + Cardinality(B) - Cardinality(A \cap B)
    BY <1>1, <2>15, <2>17, FS_Union
  <2>19. Cardinality(A \cap B) \in Nat /\ Cardinality(A) \in Nat
    <3>1. IsFiniteSet(A \cap B)
      BY <1>1, <2>15, FS_Intersection
    <3> QED
      BY <1>1, <2>15, <3>1, FS_CardinalityType
  <2>20. Cardinality(LinesIn(q)) <= MaxContextLines - room
    <3>1. PICK x, y : x = Cardinality(A) /\ y = Cardinality(A \cap B)
      BY Zenon
    <3>2. x \in Nat /\ y \in Nat /\ x <= MaxContextLines - s.room
      BY <1>1, <2>15, <2>19, <3>1, Zenon
    <3>3. Cardinality(LinesIn(q)) = x + (last - part.first + 1) - y
      BY <2>16, <2>17, <2>18, <3>1, Zenon
    <3> QED
      BY <1>1, <2>2, <2>3, <2>7, <3>2, <3>3
  <2>21. Chosen(t, b)
    BY <2>9, <2>10, <2>14, <2>16, <2>18, <2>20, Zenon DEF Chosen
  <2> QED
    BY <2>8, <2>21, Zenon
<1> QED
  BY <1>2, <1>3, Zenon

\* The parts are taken one after the other.
LEMMA AllTakenChosen ==
  ASSUME NEW b \in Int, NEW base, Chosen(base, b), NEW s, Upper(s, b)
  PROVE  Chosen(AllTaken(base, s), b)
<1> DEFINE N == Len(s)
<1>0. IsList(s) /\ \A r \in Range(s) : Ranged(r) /\ r.first >= 1 /\ r.last < b
  BY Zenon DEF Upper, FromOne, AllRanges
<1>1. N \in Nat
  BY <1>0, ListElements, Zenon
<1>2. PICK h : Taking(h, base, s)
  BY <1>1, TakeTrace, Zenon
<1>3. /\ h[0] = base
      /\ \A n \in 1..N : h[n] = TakenPart(h[n - 1], s[n])
      /\ h[N] = AllTaken(base, s)
  BY <1>2, Zenon DEF Taking
<1>4. \A i \in 1..N : s[i] \in Range(s)
  BY <1>0, InRange, Zenon
<1> HIDE DEF N
<1> DEFINE T == {k \in 0..N : Chosen(h[k], b)}
<1>5. 0 \in T
  BY <1>1, <1>3
<1>6. ASSUME NEW k \in 0..(N - 1), k \in T PROVE k + 1 \in T
  <2>1. PICK n : n = k + 1
    OBVIOUS
  <2>2. n \in 1..N /\ n \in 0..N /\ n - 1 = k
    BY <1>1, <2>1
  <2>3. Chosen(h[k], b)
    BY <1>6
  <2>4. h[n] = TakenPart(h[k], s[n])
    BY <1>3, <2>2
  <2>5. Ranged(s[n]) /\ s[n].first >= 1 /\ s[n].last < b
    BY <1>0, <1>4, <2>2, Zenon
  <2>6. Chosen(h[n], b)
    BY <2>3, <2>4, <2>5, TakenChosen, Zenon
  <2> QED
    BY <2>1, <2>2, <2>6
<1>7. Chosen(h[N], b)
  <2>1. N \in T
    <3> HIDE DEF T
    <3>1. \A k \in 0..N : k \in T
      BY <1>1, <1>5, <1>6, UpTo
    <3> QED
      BY <1>1, <3>1
  <2> QED
    BY <2>1
<1> QED
  BY <1>3, <1>7, Zenon

\* So are the candidates, each without what has been selected.
LEMMA AllTriedChosen ==
  ASSUME NEW b \in Int, NEW base, Chosen(base, b), NEW s, Upper(s, b)
  PROVE  Chosen(AllTried(base, s), b)
<1> DEFINE N == Len(s)
<1>0. IsList(s) /\ \A r \in Range(s) : Ranged(r) /\ r.first >= 1 /\ r.last < b
  BY Zenon DEF Upper, FromOne, AllRanges
<1>1. N \in Nat
  BY <1>0, ListElements, Zenon
<1>2. PICK h : Trying(h, base, s)
  BY <1>1, TryTrace, Zenon
<1>3. /\ h[0] = base
      /\ \A n \in 1..N : h[n] = TriedRange(h[n - 1], s[n])
      /\ h[N] = AllTried(base, s)
  BY <1>2, Zenon DEF Trying
<1>4. \A i \in 1..N : s[i] \in Range(s)
  BY <1>0, InRange, Zenon
<1> HIDE DEF N
<1> DEFINE T == {k \in 0..N : Chosen(h[k], b)}
<1>5. 0 \in T
  BY <1>1, <1>3
<1>6. ASSUME NEW k \in 0..(N - 1), k \in T PROVE k + 1 \in T
  <2>1. PICK n : n = k + 1
    OBVIOUS
  <2>2. n \in 1..N /\ n \in 0..N /\ n - 1 = k
    BY <1>1, <2>1
  <2>3. Chosen(h[k], b)
    BY <1>6
  <2>4. PICK c, g : c = s[n] /\ g = h[k]
    BY Zenon
  <2>5. Ranged(c) /\ c.first >= 1 /\ c.last < b
    BY <1>0, <1>4, <2>2, <2>4, Zenon
  <2>6. Upper(<<c>>, b)
    BY <2>5, OneUpper, Zenon
  <2>7. AllRanges(g.selected)
    BY <2>3, <2>4, Zenon DEF Chosen, Upper, FromOne
  <2>8. Upper(Remaining(<<c>>, g.selected), b)
    BY <2>6, <2>7, RemainUpper, Zenon
  <2>9. Chosen(TriedRange(g, c), b)
    BY <2>3, <2>4, <2>8, AllTakenChosen, Zenon DEF TriedRange
  <2>10. h[n] = TriedRange(g, c)
    BY <1>3, <2>2, <2>4
  <2>11. Chosen(h[n], b)
    BY <2>9, <2>10, Zenon
  <2> QED
    BY <2>1, <2>2, <2>11
<1>7. Chosen(h[N], b)
  <2>1. N \in T
    <3> HIDE DEF T
    <3>1. \A k \in 0..N : k \in T
      BY <1>1, <1>5, <1>6, UpTo
    <3> QED
      BY <1>1, <3>1
  <2> QED
    BY <2>1
<1> QED
  BY <1>3, <1>7, Zenon

\* Merged ranges of a file are ranges of the file.
LEMMA MergedFromOne ==
  ASSUME NEW s, FromOne(s)
  PROVE  FromOne(MergeRanges(s))
<1>1. PICK m : m = MergeRanges(s)
  BY Zenon
<1>2. AllRanges(m) /\ SameLines(m, s)
  BY <1>1, MergedLines, Zenon DEF FromOne
<1>3. ASSUME NEW r \in Range(m) PROVE r.first >= 1
  <2>1. r.first \in Int /\ r.first <= r.first /\ r.first <= r.last
    BY <1>2 DEF AllRanges, Ranged
  <2>2. Covered(r.first, m)
    BY <2>1, Zenon DEF Covered, Within
  <2>3. PICK q \in Range(s) : q.first <= r.first
    BY <1>2, <2>1, <2>2, Zenon DEF SameLines, Covered, Within
  <2>4. q.first >= 1 /\ q.first \in Int
    BY <2>3 DEF FromOne, AllRanges, Ranged
  <2> QED
    BY <2>1, <2>3, <2>4
<1>4. FromOne(m)
  BY <1>2, <1>3, Zenon DEF FromOne
<1> QED
  BY <1>1, <1>4, Zenon

\* The context of a body is before it, and is no longer than it may be.
LEMMA SelectedContext ==
  ASSUME NEW body, Ranged(body), NEW signatures, FromOne(signatures), NEW headers, FromOne(headers),
         NEW c, c = SelectContext(body, signatures, headers)
  PROVE  /\ \A n \in LinesIn(c) : n \in 1..(body.first - 1)
         /\ Cardinality(LinesIn(c)) <= MaxContextLines
<1> DEFINE base == [selected |-> <<>>, room |-> MaxContextLines]
           s == Contexts(body, MergeRanges(signatures), headers)
           t == AllTried(base, s)
           b == body.first
<1>1. b \in Int /\ MaxContextLines \in Nat
  BY ChunkingAssumption DEF Ranged
<1>2. c = MergeRanges(t.selected)
  BY SelectContextIs, Zenon
<1>3. Upper(s, b)
  BY MergedFromOne, ContextsUpper, Zenon
<1>4. Chosen(base, b)
  <2>1. base.selected = <<>> /\ base.room = MaxContextLines
    OBVIOUS
  <2>2. LinesIn(<<>>) = {}
    BY EmptyIsList DEF LinesIn
  <2>3. IsFiniteSet({}) /\ Cardinality({}) = 0
    BY FS_EmptySet
  <2>4. 0 <= MaxContextLines - MaxContextLines /\ MaxContextLines \in 0..MaxContextLines
    BY <1>1
  <2> HIDE DEF base
  <2> QED
    BY <2>1, <2>2, <2>3, <2>4, NoUpper, Zenon DEF Chosen
<1> HIDE DEF base, s
<1>5. Chosen(t, b)
  BY <1>1, <1>3, <1>4, AllTriedChosen, Zenon
<1> HIDE DEF t
<1>6. PICK q : q = t.selected
  BY Zenon
<1>7. /\ AllRanges(q) /\ \A r \in Range(q) : r.first >= 1 /\ r.last < b
      /\ IsFiniteSet(LinesIn(q)) /\ t.room \in 0..MaxContextLines
      /\ Cardinality(LinesIn(q)) <= MaxContextLines - t.room
  BY <1>5, <1>6, Zenon DEF Chosen, Upper, FromOne
<1>8. AllRanges(c) /\ SameLines(c, q)
  BY <1>2, <1>6, <1>7, MergedLines, Zenon
<1>9. LinesIn(c) = LinesIn(q)
  <2>1. \A n : n \in LinesIn(c) <=> n \in Int /\ Covered(n, c)
    BY <1>8, LinesInAre
  <2>2. \A n : n \in LinesIn(q) <=> n \in Int /\ Covered(n, q)
    BY <1>7, LinesInAre
  <2>3. \A n : n \in LinesIn(c) <=> n \in LinesIn(q)
    BY <1>8, <2>1, <2>2 DEF SameLines
  <2> QED
    BY <2>3
<1>10. Cardinality(LinesIn(q)) \in Nat
  BY <1>7, FS_CardinalityType
<1>11. ASSUME NEW n \in LinesIn(c) PROVE n \in 1..(b - 1)
  <2>1. n \in Int /\ Covered(n, q)
    BY <1>7, <1>9, <1>11, LinesInAre
  <2>2. PICK r \in Range(q) : r.first <= n /\ n <= r.last
    BY <2>1, Zenon DEF Covered, Within
  <2>3. r.first >= 1 /\ r.last < b /\ r.first \in Int /\ r.last \in Int
    BY <1>7, <2>2 DEF AllRanges, Ranged
  <2> QED
    BY <1>1, <2>1, <2>2, <2>3
<1> QED
  BY <1>1, <1>7, <1>9, <1>10, <1>11

-----------------------------------------------------------------------------
(* The headers of a file, and the signatures of a chunk.                   *)

\* A list made from another one, place by place.
LEMMA MadeFrom ==
  ASSUME NEW s, IsList(s), NEW t, t = [i \in DOMAIN s |-> t[i]]
  PROVE  /\ IsList(t) /\ Len(t) = Len(s)
         /\ \A x \in Range(t) : \E i \in 1..Len(s) : t[i] = x
         /\ \A i \in 1..Len(s) : t[i] \in Range(t)
<1>1. Len(s) \in Nat /\ DOMAIN s = 1..Len(s)
  BY ListElements, Zenon
<1>2. t = [i \in 1..Len(s) |-> t[i]]
  BY <1>1, Zenon
<1>3. IsList(t) /\ Len(t) = Len(s)
  BY <1>1, <1>2, ListByShape, Zenon
<1>4. /\ \A x \in Range(t) : \E i \in 1..Len(t) : t[i] = x
      /\ \A i \in 1..Len(t) : t[i] \in Range(t)
  BY <1>3, InRange, Zenon
<1> QED
  BY <1>3, <1>4, Zenon

\* The statements of a file that are its headers.
HeadersOf(nodes) == Kept(nodes, LAMBDA node : node.kind = "header")

\* They are statements of it.
LEMMA HeadersKept ==
  ASSUME NEW s, IsList(s)
  PROVE  IsList(HeadersOf(s)) /\ \A p \in Range(HeadersOf(s)) : p \in Range(s)
<1> DEFINE P(t) == {i \in DOMAIN t : t[i].kind = "header"}
           B(t) == AtPlaces(t, Arranged(P(t), <))
           K == HeadersOf(s)
           I == P(s)
<1>1. \A x : {z \in {x} : z = z} = {x}
  OBVIOUS
<1>2. K = Of(s, B)
  BY DEF HeadersOf, Kept
<1>3. Of(s, B) = B(s)
  <2> HIDE DEF B
  <2>1. {B(z) : z \in {z \in {s} : z = z}} = {B(s)}
    BY <1>1, Zenon
  <2> QED
    BY <2>1, Zenon DEF Of
<1>4. I \in SUBSET (1..Len(s))
  BY ListElements
<1> HIDE DEF I, K
<1>5. B(s) = ElementsIn(s, I)
  BY ArrangedLess, Zenon DEF I, ElementsIn
<1>6. IsList(K) /\ \A x \in Range(K) : \E i \in I : s[i] = x
  <2> HIDE DEF B
  <2>1. K = ElementsIn(s, I)
    BY <1>2, <1>3, <1>5, Zenon
  <2> QED
    BY <1>4, <2>1, KeptElements
<1>7. ASSUME NEW p \in Range(K) PROVE p \in Range(s)
  <2>1. PICK i \in I : s[i] = p
    BY <1>6
  <2>2. i \in 1..Len(s)
    BY <1>4, <2>1
  <2> QED
    BY <2>1, <2>2, InRange, Zenon
<1> QED
  BY <1>6, <1>7, Zenon DEF K

\* The headers are lines of the file.
LEMMA HeadersFromOne ==
  ASSUME NEW nodes, Statements(nodes)
  PROVE  FromOne(HeaderRanges(nodes))
<1>1. IsList(nodes) /\ \A x \in Range(nodes) : x \in Nodes
  BY InRange, Zenon DEF Statements
<1>2. PICK h : h = HeadersOf(nodes)
  BY Zenon
<1>3. IsList(h) /\ \A x \in Range(h) : x \in Nodes
  BY <1>1, <1>2, HeadersKept, Zenon
<1>4. PICK t : t = [i \in DOMAIN h |-> Lines(h[i].first, h[i].last)]
  BY Zenon
<1>5. t = [i \in DOMAIN h |-> t[i]] /\ \A i \in DOMAIN h : t[i] = Lines(h[i].first, h[i].last)
  BY <1>4
<1>12. IsList(t) /\ Len(t) = Len(h)
  BY <1>3, <1>5, MadeFrom, Zenon
<1>6. \A x \in Range(t) : \E i \in 1..Len(h) : t[i] = x
  BY <1>12, InRange, Zenon
<1>7. DOMAIN h = 1..Len(h) /\ \A i \in 1..Len(h) : h[i] \in Range(h)
  BY <1>3, ListElements, Zenon
<1>8. ASSUME NEW x \in Range(t) PROVE Ranged(x) /\ x.first >= 1
  <2>1. PICK i \in 1..Len(h) : t[i] = x
    BY <1>6, Zenon
  <2>2. PICK node : node = h[i]
    BY Zenon
  <2>3. node \in Nodes /\ x = Lines(node.first, node.last)
    BY <1>3, <1>5, <1>7, <2>1, <2>2, Zenon
  <2>4. node.first \in Int /\ node.last \in Int /\ node.first >= 1 /\ node.first <= node.last
    BY <2>3, NodeLines, Zenon
  <2>5. PICK m, n : m = node.first /\ n = node.last
    BY Zenon
  <2>6. x.first = m /\ Ranged(x)
    BY <2>3, <2>4, <2>5, LinesRange, Zenon
  <2> QED
    BY <2>4, <2>5, <2>6, Zenon
<1>9. FromOne(t)
  BY <1>8, <1>12, Zenon DEF FromOne, AllRanges
<1>10. FromOne(MergeRanges(t))
  BY <1>9, MergedFromOne, Zenon
<1>11. HeaderRanges(nodes) = MergeRanges(t)
  BY <1>2, <1>4 DEF HeaderRanges, HeadersOf
<1> QED
  BY <1>10, <1>11, Zenon

\* Lines of a file, from many lists of them.
LEMMA FlattenFromOne ==
  ASSUME NEW seqs, IsList(seqs), \A i \in 1..Len(seqs) : FromOne(seqs[i])
  PROVE  FromOne(FlattenSeq(seqs))
<1>1. \A i \in 1..Len(seqs) : /\ IsList(seqs[i])
                              /\ \A r \in Range(seqs[i]) : Ranged(r) /\ r.first >= 1
  BY Zenon DEF FromOne, AllRanges
<1>2. PICK f : f = FlattenSeq(seqs)
  BY Zenon
<1>3. IsList(f) /\ \A x \in Range(f) : \E i \in 1..Len(seqs) : x \in Range(seqs[i])
  BY <1>1, <1>2, Flattened
<1>4. \A r \in Range(f) : Ranged(r) /\ r.first >= 1
  BY <1>1, <1>3, Zenon
<1>5. FromOne(f)
  BY <1>3, <1>4, Zenon DEF FromOne, AllRanges
<1> QED
  BY <1>2, <1>5, Zenon

\* The signatures around the segments of a group.
SignaturesOf(g) == FlattenSeq([i \in DOMAIN g |-> g[i].context])

\* They are lines of the file.
LEMMA SignaturesFromOne ==
  ASSUME NEW g, Group(g)
  PROVE  FromOne(SignaturesOf(g))
<1>1. IsList(g) /\ \A x \in Range(g) : FromOne(x.context)
  BY Zenon DEF Group, Segment
<1>2. PICK t : t = [i \in DOMAIN g |-> g[i].context]
  BY Zenon
<1>3. t = [i \in DOMAIN g |-> t[i]] /\ \A i \in DOMAIN g : t[i] = g[i].context
  BY <1>2
<1>4. IsList(t) /\ Len(t) = Len(g)
  BY <1>1, <1>3, MadeFrom, Zenon
<1>5. DOMAIN g = 1..Len(g) /\ \A i \in 1..Len(g) : g[i] \in Range(g)
  BY <1>1, ListElements, Zenon
<1>6. \A i \in 1..Len(t) : FromOne(t[i])
  BY <1>1, <1>3, <1>4, <1>5, Zenon
<1>7. FromOne(FlattenSeq(t))
  BY <1>4, <1>6, FlattenFromOne, Zenon
<1> QED
  BY <1>2, <1>7, Zenon DEF SignaturesOf

-----------------------------------------------------------------------------
(* What failed to parse (Preprocessing).                                   *)

\* The walk for errors has nodes before it and has found ranges of lines.
Errant(s) ==
  /\ s = [pending |-> s.pending, found |-> s.found]
  /\ IsList(s.pending) /\ \A x \in Range(s.pending) : x \in Nodes
  /\ AllRanges(s.found)

\* Every round keeps this.
LEMMA WalkedErrant ==
  ASSUME NEW s, Errant(s)
  PROVE  Errant(Walked(s))
<1>1. /\ IsList(s.pending) /\ \A x \in Range(s.pending) : x \in Nodes
      /\ IsList(s.found) /\ \A r \in Range(s.found) : Ranged(r)
      /\ s = [pending |-> s.pending, found |-> s.found]
  BY Zenon DEF Errant, AllRanges
<1>2. CASE s.pending = <<>>
  BY <1>2, Zenon DEF Walked
<1>3. CASE s.pending # <<>>
  <2>1. PICK node, f : node = Last(s.pending) /\ f = Front(s.pending)
    BY Zenon
  <2>2. node \in Nodes /\ IsList(f) /\ \A x \in Range(f) : x \in Nodes
    BY <1>1, <1>3, <2>1, FrontList, Zenon
  <2>3. CASE node.kind = "error"
    <3>1. PICK r : r = Lines(node.first, node.last)
      BY Zenon
    <3>2. Ranged(r)
      BY <2>2, <3>1, NodeLines, LinesRange, Zenon
    <3>3. PICK q : q = Append(s.found, r)
      BY Zenon
    <3>4. IsList(q) /\ Range(q) = Range(s.found) \cup {r}
      BY <1>1, <3>3, AppendList, Zenon
    <3>5. AllRanges(q)
      BY <1>1, <3>2, <3>4, Zenon DEF AllRanges
    <3>6. PICK t : t = Walked(s)
      BY Zenon
    <3>7. t = [pending |-> f, found |-> q]
      BY <1>3, <2>1, <2>3, <3>1, <3>3, <3>6, Zenon DEF Walked
    <3>8. t.pending = f /\ t.found = q /\ t = [pending |-> t.pending, found |-> t.found]
      BY <3>7
    <3>9. Errant(t)
      BY <2>2, <3>5, <3>8, Zenon DEF Errant
    <3> QED
      BY <3>6, <3>9, Zenon
  <2>4. CASE node.kind # "error"
    <3>1. PICK a, b, c : a = f \o node.children /\ b = a \o node.body /\ c = b \o node.wraps
      BY Zenon
    <3>13. \A w : Statements(w) => IsList(w) /\ \A x \in Range(w) : x \in Nodes
      BY InRange, Zenon DEF Statements
    <3>2. /\ IsList(node.wraps) /\ \A x \in Range(node.wraps) : x \in Nodes
          /\ IsList(node.body) /\ \A x \in Range(node.body) : x \in Nodes
          /\ IsList(node.children) /\ \A x \in Range(node.children) : x \in Nodes
      BY <2>2, <3>13, NodeLines, Zenon
    <3>3. IsList(a) /\ Range(a) = Range(f) \cup Range(node.children)
      BY <2>2, <3>1, <3>2, ConcatRange, Zenon
    <3>4. IsList(b) /\ Range(b) = Range(a) \cup Range(node.body)
      BY <3>1, <3>2, <3>3, ConcatRange, Zenon
    <3>5. IsList(c) /\ Range(c) = Range(b) \cup Range(node.wraps)
      BY <3>1, <3>2, <3>4, ConcatRange, Zenon
    <3>6. \A x \in Range(c) : x \in Nodes
      BY <2>2, <3>2, <3>3, <3>4, <3>5
    <3>7. PICK t : t = Walked(s)
      BY Zenon
    <3>8. t = [s EXCEPT !.pending = f \o node.children \o node.body \o node.wraps]
      BY <1>3, <2>1, <2>4, <3>7, Zenon DEF Walked
    <3>9. t = [s EXCEPT !.pending = c]
      BY <3>1, <3>8, Zenon
    <3>10. t = [pending |-> c, found |-> s.found]
      BY <1>1, <3>9
    <3>11. t.pending = c /\ t.found = s.found /\ t = [pending |-> t.pending, found |-> t.found]
      BY <3>10
    <3>12. Errant(t)
      BY <1>1, <3>5, <3>6, <3>11, Zenon DEF Errant, AllRanges
    <3> QED
      BY <3>7, <3>12, Zenon
  <2> QED
    BY <2>3, <2>4
<1> QED
  BY <1>2, <1>3, Zenon

\* What the walk finds are ranges of lines.
LEMMA ErrorRanges ==
  ASSUME NEW nodes, Statements(nodes)
  PROVE  AllRanges(Errors(nodes))
<1> DEFINE base == [pending |-> nodes, found |-> <<>>]
           N == MaxNodes
<1>1. N \in Nat
  BY ChunkingAssumption
<1>2. Errant(base)
  <2>1. IsList(nodes) /\ \A x \in Range(nodes) : x \in Nodes
    BY InRange, Zenon DEF Statements
  <2>2. base.pending = nodes /\ base.found = <<>>
        /\ base = [pending |-> base.pending, found |-> base.found]
    OBVIOUS
  <2>3. AllRanges(<<>>)
    BY NothingInside, Zenon DEF FromOne
  <2> HIDE DEF base
  <2> QED
    BY <2>1, <2>2, <2>3, Zenon DEF Errant
<1>3. Errors(nodes) = Repeated(Walked, base, N).found
  BY DEF Errors
<1> HIDE DEF base, N
<1>4. PICK h : Walking(h, base, N)
  BY <1>1, WalkTrace, Zenon
<1>5. /\ h[0] = base
      /\ \A n \in 1..N : h[n] = Walked(h[n - 1])
      /\ h[N] = Repeated(Walked, base, N)
  BY <1>4, Zenon DEF Walking
<1> DEFINE T == {k \in 0..N : Errant(h[k])}
<1>6. 0 \in T
  BY <1>1, <1>2, <1>5
<1>7. ASSUME NEW k \in 0..(N - 1), k \in T PROVE k + 1 \in T
  <2>1. PICK n : n = k + 1
    OBVIOUS
  <2>2. n \in 1..N /\ n \in 0..N /\ n - 1 = k
    BY <1>1, <2>1
  <2>3. Errant(h[k])
    BY <1>7
  <2>4. h[n] = Walked(h[k])
    BY <1>5, <2>2
  <2>5. Errant(h[n])
    BY <2>3, <2>4, WalkedErrant, Zenon
  <2> QED
    BY <2>1, <2>2, <2>5
<1>8. Errant(h[N])
  <2>1. N \in T
    <3> HIDE DEF T
    <3>1. \A k \in 0..N : k \in T
      BY <1>1, <1>6, <1>7, UpTo
    <3> QED
      BY <1>1, <3>1
  <2> QED
    BY <2>1
<1>9. PICK e : e = Repeated(Walked, base, N)
  BY Zenon
<1>10. Errant(e) /\ Errors(nodes) = e.found
  BY <1>3, <1>5, <1>8, <1>9, Zenon
<1> QED
  BY <1>10, Zenon DEF Errant

\* A line of a range that ends with the file, and the line it stands for.
LEMMA LineInFile ==
  ASSUME NEW r, Ranged(r), NEW count \in Nat, NEW n
  PROVE  n \in Smaller(r.first, count)..Smaller(r.last, count) <=>
           \E m \in r.first..r.last : n = Smaller(m, count)
<1>1. r.first \in Int /\ r.last \in Int /\ r.first <= r.last
  BY DEF Ranged
<1>2. ASSUME NEW m \in r.first..r.last, n = Smaller(m, count)
      PROVE  n \in Smaller(r.first, count)..Smaller(r.last, count)
  BY <1>1, <1>2 DEF Smaller
<1>3. ASSUME n \in Smaller(r.first, count)..Smaller(r.last, count)
      PROVE  \E m \in r.first..r.last : n = Smaller(m, count)
  <2>1. PICK m : m = Larger(r.first, n)
    BY Zenon
  <2>2. m \in r.first..r.last /\ n = Smaller(m, count)
    BY <1>1, <1>3, <2>1 DEF Smaller, Larger
  <2> QED
    BY <2>2, Zenon
<1> QED
  BY <1>2, <1>3

\* The partial regions of a file: the lines of its errors, as lines of the file.
LEMMA PartialLines ==
  ASSUME NEW nodes, Statements(nodes), NEW count \in Nat \ {0},
         NEW p, p = PartialRegions(nodes, count)
  PROVE  /\ AllRanges(p)
         /\ LinesIn(p) = {Smaller(n, count) : n \in LinesIn(Errors(nodes))}
<1>0. count \in Nat
  OBVIOUS
<1>1. PICK e : e = Errors(nodes)
  BY Zenon
<1>2. IsList(e) /\ (\A r \in Range(e) : Ranged(r)) /\ AllRanges(e)
  BY <1>1, ErrorRanges, Zenon DEF AllRanges
<1>3. PICK t : t = [i \in DOMAIN e |-> Lines(Smaller(e[i].first, count), Smaller(e[i].last, count))]
  BY Zenon
<1>4. t = [i \in DOMAIN e |-> t[i]]
      /\ \A i \in DOMAIN e : t[i] = Lines(Smaller(e[i].first, count), Smaller(e[i].last, count))
  BY <1>3
<1>5. IsList(t) /\ Len(t) = Len(e)
  BY <1>2, <1>4, MadeFrom, Zenon
<1>6. /\ \A x \in Range(t) : \E i \in 1..Len(e) : t[i] = x
      /\ \A i \in 1..Len(e) : t[i] \in Range(t)
  BY <1>5, InRange, Zenon
<1>7. /\ DOMAIN e = 1..Len(e) /\ \A i \in 1..Len(e) : e[i] \in Range(e)
      /\ \A x \in Range(e) : \E i \in 1..Len(e) : e[i] = x
  BY <1>2, ListElements, Zenon
<1>8. \A i \in 1..Len(e) : /\ Ranged(e[i])
                           /\ t[i].first = Smaller(e[i].first, count)
                           /\ t[i].last = Smaller(e[i].last, count)
  <2> TAKE i \in 1..Len(e)
  <2>1. PICK m, n : m = Smaller(e[i].first, count) /\ n = Smaller(e[i].last, count)
    BY Zenon
  <2>2. t[i] = Lines(m, n)
    BY <1>4, <1>7, <2>1, Zenon
  <2>3. t[i].first = m /\ t[i].last = n
    BY <2>2 DEF Lines
  <2> QED
    BY <1>2, <1>7, <2>1, <2>3, Zenon
<1>9. ASSUME NEW x \in Range(t) PROVE Ranged(x)
  <2>1. PICK i \in 1..Len(e) : t[i] = x
    BY <1>6, Zenon
  <2>2. PICK r : r = e[i]
    BY Zenon
  <2>3. Ranged(r) /\ x.first = Smaller(r.first, count) /\ x.last = Smaller(r.last, count)
    BY <1>8, <2>1, <2>2, Zenon
  <2> QED
    BY <2>3 DEF Ranged, Smaller
<1>10. AllRanges(t)
  BY <1>5, <1>9, Zenon DEF AllRanges
<1>11. PICK q : q = MergeRanges(t)
  BY Zenon
<1>12. AllRanges(q) /\ SameLines(q, t)
  BY <1>10, <1>11, MergedLines, Zenon
<1>13. p = q
  <2>1. count # 0
    OBVIOUS
  <2> QED
    BY <1>1, <1>3, <1>11, <2>1 DEF PartialRegions
<1>14. LinesIn(q) = LinesIn(t)
  <2>1. \A n : n \in LinesIn(q) <=> n \in Int /\ Covered(n, q)
    BY <1>12, LinesInAre
  <2>2. \A n : n \in LinesIn(t) <=> n \in Int /\ Covered(n, t)
    BY <1>10, LinesInAre
  <2>3. \A n : n \in LinesIn(q) <=> n \in LinesIn(t)
    BY <1>12, <2>1, <2>2 DEF SameLines
  <2> QED
    BY <2>3
<1>15. \A n : n \in LinesIn(t) <=> \E i \in 1..Len(e) : n \in t[i].first..t[i].last
  BY <1>6 DEF LinesIn
<1>16. \A n : n \in LinesIn(e) <=> \E i \in 1..Len(e) : n \in e[i].first..e[i].last
  BY <1>7 DEF LinesIn
<1>17. \A i \in 1..Len(e) : \A n :
         n \in t[i].first..t[i].last <=> \E m \in e[i].first..e[i].last : n = Smaller(m, count)
  <2> TAKE i \in 1..Len(e)
  <2> TAKE n
  <2>1. PICK r : r = e[i]
    BY Zenon
  <2>2. Ranged(r) /\ t[i].first = Smaller(r.first, count) /\ t[i].last = Smaller(r.last, count)
    BY <1>8, <2>1, Zenon
  <2>3. n \in Smaller(r.first, count)..Smaller(r.last, count) <=>
          \E m \in r.first..r.last : n = Smaller(m, count)
    BY <1>0, <2>2, LineInFile
  <2> QED
    BY <2>1, <2>2, <2>3, Zenon
<1>18. \A n : n \in LinesIn(t) <=> \E m \in LinesIn(e) : n = Smaller(m, count)
  <2>1. ASSUME NEW n \in LinesIn(t) PROVE \E m \in LinesIn(e) : n = Smaller(m, count)
    <3>1. PICK i \in 1..Len(e) : n \in t[i].first..t[i].last
      BY <1>15, <2>1
    <3>2. PICK m \in e[i].first..e[i].last : n = Smaller(m, count)
      BY <1>17, <3>1, Zenon
    <3>3. m \in LinesIn(e)
      BY <1>16, <3>2, Zenon
    <3> QED
      BY <3>2, <3>3, Zenon
  <2>2. ASSUME NEW m \in LinesIn(e), NEW n, n = Smaller(m, count) PROVE n \in LinesIn(t)
    <3>1. PICK i \in 1..Len(e) : m \in e[i].first..e[i].last
      BY <1>16, <2>2
    <3>2. n \in t[i].first..t[i].last
      BY <1>17, <2>2, <3>1, Zenon
    <3> QED
      BY <1>15, <3>2
  <2> QED
    BY <2>1, <2>2, Zenon
<1>19. LinesIn(t) = {Smaller(n, count) : n \in LinesIn(e)}
  BY <1>18
<1> QED
  BY <1>1, <1>12, <1>13, <1>14, <1>19, Zenon

\* The part of partial regions that is in a body.
PartialOf(partial, body) == FlattenSeq([j \in DOMAIN partial |-> Common(partial[j], body)])

\* What a range and a body have in common.
LEMMA CommonLines ==
  ASSUME NEW r, Ranged(r), NEW body, Ranged(body), NEW c, c = Common(r, body)
  PROVE  /\ IsList(c)
         /\ \A n : (\E x \in Range(c) : n \in x.first..x.last) <=>
                     n \in r.first..r.last /\ n \in body.first..body.last
<1>1. /\ r.first \in Int /\ r.last \in Int /\ r.first <= r.last
      /\ body.first \in Int /\ body.last \in Int /\ body.first <= body.last
  BY DEF Ranged
<1>2. CASE Overlap(r, body)
  <2>1. PICK m, n : m = Larger(r.first, body.first) /\ n = Smaller(r.last, body.last)
    BY Zenon
  <2>2. PICK l : l = Lines(m, n)
    BY Zenon
  <2>3. l.first = m /\ l.last = n
    BY <2>2 DEF Lines
  <2>4. c = <<l>>
    BY <1>2, <2>1, <2>2, Zenon DEF Common
  <2>5. c \in Seq({l}) /\ Len(c) = 1 /\ \A i \in 1..1 : c[i] = l
    BY <2>4
  <2>6. IsList(c)
    BY <2>5, SeqIsList
  <2>7. \A x : x \in Range(c) <=> x = l
    <3>1. 1 \in 1..Len(c) /\ \A i \in 1..Len(c) : c[i] = l
      BY <2>5
    <3>2. \A x \in Range(c) : \E i \in 1..Len(c) : c[i] = x
      BY <2>6, InRange, Zenon
    <3>3. c[1] \in Range(c)
      BY <2>6, <3>1, InRange, Zenon
    <3>4. c[1] = l
      BY <2>5
    <3> QED
      BY <3>1, <3>2, <3>3, <3>4, Zenon
  <2>8. \A k : k \in l.first..l.last <=> k \in r.first..r.last /\ k \in body.first..body.last
    BY <1>1, <2>1, <2>3 DEF Larger, Smaller
  <2> QED
    BY <2>6, <2>7, <2>8, Zenon
<1>3. CASE ~ Overlap(r, body)
  <2>1. c = <<>>
    BY <1>3, Zenon DEF Common
  <2>2. IsList(c) /\ Range(c) = {}
    BY <2>1, EmptyIsList, Zenon
  <2>3. \A n : ~ (n \in r.first..r.last /\ n \in body.first..body.last)
    BY <1>1, <1>3 DEF Overlap
  <2> QED
    BY <2>2, <2>3
<1> QED
  BY <1>2, <1>3, Zenon

\* The lines of a body that failed to parse.
LEMMA PartialOfLines ==
  ASSUME NEW partial, AllRanges(partial), NEW body, Ranged(body)
  PROVE  LinesIn(PartialOf(partial, body)) = LinesIn(partial) \cap body.first..body.last
<1>1. IsList(partial) /\ \A r \in Range(partial) : Ranged(r)
  BY Zenon DEF AllRanges
<1>2. PICK t : t = [j \in DOMAIN partial |-> Common(partial[j], body)]
  BY Zenon
<1>3. t = [j \in DOMAIN partial |-> t[j]] /\ \A j \in DOMAIN partial : t[j] = Common(partial[j], body)
  BY <1>2
<1>4. IsList(t) /\ Len(t) = Len(partial)
  BY <1>1, <1>3, MadeFrom, Zenon
<1>5. /\ DOMAIN partial = 1..Len(partial) /\ \A i \in 1..Len(partial) : partial[i] \in Range(partial)
      /\ \A x \in Range(partial) : \E i \in 1..Len(partial) : partial[i] = x
  BY <1>1, ListElements, Zenon
<1>6. \A i \in 1..Len(t) :
        /\ IsList(t[i])
        /\ \A n : (\E x \in Range(t[i]) : n \in x.first..x.last) <=>
                    n \in partial[i].first..partial[i].last /\ n \in body.first..body.last
  <2> TAKE i \in 1..Len(t)
  <2>1. PICK r, c : r = partial[i] /\ c = t[i]
    BY Zenon
  <2>2. Ranged(r) /\ c = Common(r, body)
    BY <1>1, <1>3, <1>4, <1>5, <2>1, Zenon
  <2>3. /\ IsList(c)
        /\ \A n : (\E x \in Range(c) : n \in x.first..x.last) <=>
                    n \in r.first..r.last /\ n \in body.first..body.last
    BY <2>2, CommonLines
  <2> QED
    BY <2>1, <2>3, Zenon
<1>7. PICK f : f = FlattenSeq(t)
  BY Zenon
<1>8. \A x : x \in Range(f) <=> \E i \in 1..Len(t) : x \in Range(t[i])
  BY <1>4, <1>6, <1>7, Flattened, Zenon
<1>9. \A n : n \in LinesIn(f) <=> \E x \in Range(f) : n \in x.first..x.last
  BY DEF LinesIn
<1>10. \A n : n \in LinesIn(partial) <=> \E i \in 1..Len(t) : n \in partial[i].first..partial[i].last
  BY <1>4, <1>5 DEF LinesIn
<1>11. \A n : n \in LinesIn(f) <=> n \in LinesIn(partial) /\ n \in body.first..body.last
  BY <1>6, <1>8, <1>9, <1>10, Zenon
<1>12. LinesIn(f) = LinesIn(partial) \cap body.first..body.last
  BY <1>11
<1>13. PartialOf(partial, body) = f
  BY <1>2, <1>7 DEF PartialOf
<1> QED
  BY <1>12, <1>13, Zenon

-----------------------------------------------------------------------------
(* The chunks of a file.                                                   *)

\* The groups that have a line that is not blank are in the order of the source.
LEMMA BodiesKept ==
  ASSUME NEW s, Groups(s), NEW blank, NEW k, k = NotBlank(s, blank)
  PROVE  /\ IsList(k) /\ \A g \in Range(k) : Group(g)
         /\ \A i, j \in 1..Len(k) : i < j => BodyOf(k[i]).last < BodyOf(k[j]).first
         /\ \A g \in Range(s) : SomeLine(g, blank) => g \in Range(k)
<1> DEFINE P(t) == {i \in DOMAIN t : SomeLine(t[i], blank)}
           B(t) == AtPlaces(t, Arranged(P(t), <))
           I == P(s)
           R == GroupsApart(Range(s))
<1>0. IsList(s) /\ (\A g \in Range(s) : Group(g)) /\ Apart(s, R)
  BY Zenon DEF Groups
<1>1. \A x : {z \in {x} : z = z} = {x}
  OBVIOUS
<1>2. k = Of(s, B)
  BY DEF NotBlank, Kept
<1>3. Of(s, B) = B(s)
  <2> HIDE DEF B
  <2>1. {B(z) : z \in {z \in {s} : z = z}} = {B(s)}
    BY <1>1, Zenon
  <2> QED
    BY <2>1, Zenon DEF Of
<1>4. /\ I \in SUBSET (1..Len(s))
      /\ \A i \in 1..Len(s) : SomeLine(s[i], blank) => i \in I
  BY <1>0, ListElements
<1> HIDE DEF I
<1>5. B(s) = ElementsIn(s, I)
  BY ArrangedLess, Zenon DEF I, ElementsIn
<1>6. k = ElementsIn(s, I)
  <2> HIDE DEF B
  <2> QED
    BY <1>2, <1>3, <1>5, Zenon
<1> HIDE DEF B, R
<1>7. /\ IsList(k)
      /\ \A x \in Range(k) : \E i \in I : s[i] = x
      /\ \A i \in I : s[i] \in Range(k)
  BY <1>0, <1>4, <1>6, KeptElements, Zenon
<1>8. Apart(k, R)
  BY <1>0, <1>4, <1>6, KeptApart, Zenon
<1>9. ASSUME NEW g \in Range(k) PROVE Group(g)
  <2>1. PICK i \in I : s[i] = g
    BY <1>7, Zenon
  <2>2. i \in 1..Len(s)
    BY <1>4, <2>1
  <2> QED
    BY <1>0, <2>1, <2>2, InRange, Zenon
<1>10. ASSUME NEW i \in 1..Len(k), NEW j \in 1..Len(k), i < j
       PROVE  BodyOf(k[i]).last < BodyOf(k[j]).first
  <2>1. <<k[i], k[j]>> \in R
    BY <1>8, <1>10, Zenon DEF Apart
  <2> QED
    BY <2>1 DEF R, GroupsApart
<1>11. ASSUME NEW g \in Range(s), SomeLine(g, blank) PROVE g \in Range(k)
  <2>1. PICK i \in 1..Len(s) : s[i] = g
    BY <1>0, InRange, Zenon
  <2> QED
    BY <1>4, <1>7, <1>11, <2>1, Zenon
<1> QED
  BY <1>7, <1>9, <1>10, <1>11, Zenon

\* A chunk of a file as the docstrings promise it, where these lines failed to parse.
Promised(c, file, broken) ==
  /\ c.file = file /\ c.index \in Int
  /\ Ranged(c) /\ Length(c) <= MaxLines
  /\ \A n \in LinesIn(c.context) : n \in 1..(c.first - 1)
  /\ Cardinality(LinesIn(c.context)) <= MaxContextLines
  /\ LinesIn(c.partial) = broken \cap c.first..c.last

\* The chunk of a group.
ChunkFrom(file, i, g, headers, partial) ==
  [file |-> file, index |-> i - 1, first |-> BodyOf(g).first, last |-> BodyOf(g).last,
   context |-> SelectContext(BodyOf(g), SignaturesOf(g), headers),
   partial |-> PartialOf(partial, BodyOf(g))]

\* It is as promised.
LEMMA ChunkFromIs ==
  ASSUME NEW file, NEW i \in Int, NEW g, Group(g), NEW headers, FromOne(headers),
         NEW partial, AllRanges(partial),
         NEW c, c = ChunkFrom(file, i, g, headers, partial)
  PROVE  /\ Promised(c, file, LinesIn(partial))
         /\ c.first = BodyOf(g).first /\ c.last = BodyOf(g).last
<1>1. PICK body, signatures : body = BodyOf(g) /\ signatures = SignaturesOf(g)
  BY Zenon
<1>2. Ranged(body) /\ Length(body) <= MaxLines /\ FromOne(signatures)
  BY <1>1, SignaturesFromOne, Zenon DEF Group
<1>3. PICK context, marked : context = SelectContext(body, signatures, headers)
                             /\ marked = PartialOf(partial, body)
  BY Zenon
<1>4. /\ \A n \in LinesIn(context) : n \in 1..(body.first - 1)
      /\ Cardinality(LinesIn(context)) <= MaxContextLines
  BY <1>2, <1>3, SelectedContext, Zenon
<1>5. LinesIn(marked) = LinesIn(partial) \cap body.first..body.last
  BY <1>2, <1>3, PartialOfLines, Zenon
<1>6. c = [file |-> file, index |-> i - 1, first |-> body.first, last |-> body.last,
           context |-> context, partial |-> marked]
  BY <1>1, <1>3, Zenon DEF ChunkFrom
<1>7. /\ c.file = file /\ c.index \in Int /\ c.first = body.first /\ c.last = body.last
      /\ c.context = context /\ c.partial = marked
  BY <1>6
<1>8. Ranged(c) /\ Length(c) <= MaxLines
  BY <1>2, <1>7, Zenon DEF Ranged, Length
<1> QED
  BY <1>1, <1>4, <1>5, <1>7, <1>8, Zenon DEF Promised

\* build_chunks: the chunks are as promised, in the order of the source, and have every
\* line that is not blank.
LEMMA ChunksPromised ==
  ASSUME NEW file, NEW count \in Nat, NEW segments, Segmented(segments, 1, count),
         NEW headers, FromOne(headers), NEW partial, AllRanges(partial), NEW blank,
         NEW b, b = BuildChunks(file, segments, headers, partial, blank)
  PROVE  /\ IsList(b)
         /\ \A i \in 1..Len(b) : Promised(b[i], file, LinesIn(partial))
         /\ \A i, j \in 1..Len(b) : i < j => b[i].last < b[j].first
         /\ \A n \in 1..count : n \notin blank => \E i \in 1..Len(b) : n \in b[i].first..b[i].last
<1>1. PICK groups : groups = PackSegments(segments)
  BY Zenon
<1>2. /\ IsList(segments)
      /\ \A x \in Range(segments) : Segment(x) /\ 1 <= x.first /\ x.last <= count
      /\ Apart(segments, SegmentsApart(Range(segments)))
      /\ \A n \in 1..count : \E x \in Range(segments) : Within(n, x)
  BY Zenon DEF Segmented
<1>3. Groups(groups) /\ \A x \in Range(segments) : \E g \in Range(groups) : Inside(x, g)
  BY <1>1, <1>2, PackedAll, Zenon
<1>4. PICK k : k = NotBlank(groups, blank)
  BY Zenon
<1>5. /\ IsList(k) /\ \A g \in Range(k) : Group(g)
      /\ \A i, j \in 1..Len(k) : i < j => BodyOf(k[i]).last < BodyOf(k[j]).first
      /\ \A g \in Range(groups) : SomeLine(g, blank) => g \in Range(k)
  BY <1>3, <1>4, BodiesKept, Zenon
<1>6. b = [i \in DOMAIN k |-> ChunkFrom(file, i, k[i], headers, partial)]
  BY <1>1, <1>4 DEF BuildChunks, NotBlank, SomeLine, ChunkFrom, BodyOf, SignaturesOf, PartialOf
<1>7. b = [i \in DOMAIN k |-> b[i]]
      /\ \A i \in DOMAIN k : b[i] = ChunkFrom(file, i, k[i], headers, partial)
  BY <1>6
<1>8. IsList(b) /\ Len(b) = Len(k)
  BY <1>5, <1>7, MadeFrom, Zenon
<1>9. /\ DOMAIN k = 1..Len(k) /\ \A i \in 1..Len(k) : k[i] \in Range(k)
      /\ \A x \in Range(k) : \E i \in 1..Len(k) : k[i] = x
  BY <1>5, ListElements, Zenon
<1>10. \A i \in 1..Len(k) : /\ Promised(b[i], file, LinesIn(partial))
                            /\ b[i].first = BodyOf(k[i]).first /\ b[i].last = BodyOf(k[i]).last
  <2> TAKE i \in 1..Len(k)
  <2>1. PICK g, c : g = k[i] /\ c = b[i]
    BY Zenon
  <2>2. Group(g) /\ c = ChunkFrom(file, i, g, headers, partial)
    BY <1>5, <1>7, <1>9, <2>1, Zenon
  <2>4. i \in Int
    OBVIOUS
  <2>3. /\ Promised(c, file, LinesIn(partial))
        /\ c.first = BodyOf(g).first /\ c.last = BodyOf(g).last
    BY <2>2, <2>4, ChunkFromIs
  <2> QED
    BY <2>1, <2>3, Zenon
<1>11. \A i, j \in 1..Len(k) : i < j => b[i].last < b[j].first
  BY <1>5, <1>10
<1>12. ASSUME NEW n \in 1..count, n \notin blank
       PROVE  \E i \in 1..Len(k) : n \in b[i].first..b[i].last
  <2>1. PICK x \in Range(segments) : Within(n, x)
    BY <1>2, <1>12, Zenon
  <2>2. PICK g \in Range(groups) : Inside(x, g)
    BY <1>3, <2>1, Zenon
  <2>3. Ranged(x) /\ Ranged(BodyOf(g))
    BY <1>2, <1>3, <2>1, <2>2, Zenon DEF Segment, Groups, Group
  <2>4. PICK p : p = BodyOf(g)
    BY Zenon
  <2>5. n \in p.first..p.last
    BY <2>1, <2>2, <2>3, <2>4 DEF Within, Inside, Ranged
  <2>6. SomeLine(g, blank)
    BY <1>12, <2>4, <2>5, Zenon DEF SomeLine, BodyOf
  <2>7. g \in Range(k)
    BY <1>5, <2>2, <2>6, Zenon
  <2>8. PICK i \in 1..Len(k) : k[i] = g
    BY <1>9, <2>7, Zenon
  <2> QED
    BY <1>10, <2>4, <2>5, <2>8, Zenon
<1> QED
  BY <1>8, <1>10, <1>11, <1>12, Zenon

\* A file without lines has no chunks.
LEMMA NothingChunked ==
  ASSUME NEW file, NEW headers, NEW partial, NEW blank
  PROVE  BuildChunks(file, <<>>, headers, partial, blank) = <<>>
<1>1. PICK groups : groups = PackSegments(<<>>)
  BY Zenon
<1>2. groups = <<>>
  <2>1. PICK h : Packing(h, <<>>, <<>>)
    <3>1. Len(<<>>) \in Nat
      BY EmptyIsList
    <3> QED
      BY <3>1, PackTrace, Zenon
  <2>2. h[0] = <<>> /\ h[Len(<<>>)] = FoldedOver(Packed, <<>>, <<>>)
    BY <2>1, Zenon DEF Packing
  <2> QED
    BY <1>1, <2>2, EmptyIsList, Zenon DEF PackSegments
<1>3. PICK k : k = NotBlank(groups, blank)
  BY Zenon
<1>4. IsList(k) /\ k = <<>>
  <2>1. IsList(groups) /\ Len(groups) = 0
    BY <1>2, EmptyIsList, Zenon
  <2>2. /\ IsList(k)
        /\ \A y \in Range(k) : \E j \in 1..Len(groups) : groups[j] = y /\ SomeLine(y, blank)
    BY <1>3, <2>1, GroupsKept, Zenon
  <2>3. Range(k) = {}
    BY <2>1, <2>2
  <2>4. k \in Seq({})
    BY <2>2, <2>3, Zenon DEF IsList
  <2> QED
    BY <2>2, <2>4
<1>5. DOMAIN k = {}
  BY <1>4
<1>6. BuildChunks(file, <<>>, headers, partial, blank)
        = [i \in DOMAIN k |-> ChunkFrom(file, i, k[i], headers, partial)]
  BY <1>1, <1>3 DEF BuildChunks, NotBlank, SomeLine, ChunkFrom, BodyOf, SignaturesOf, PartialOf
<1>7. BuildChunks(file, <<>>, headers, partial, blank)
        = [i \in 1..0 |-> ChunkFrom(file, i, k[i], headers, partial)]
  <2>1. DOMAIN k = 1..0
    BY <1>5
  <2> QED
    BY <1>6, <2>1, Zenon
<1>8. PICK b : b = BuildChunks(file, <<>>, headers, partial, blank)
  BY Zenon
<1>9. b = [i \in 1..0 |-> b[i]]
  BY <1>7, <1>8
<1>10. IsList(b) /\ Len(b) = 0
  BY <1>9, ListByShape
<1> QED
  BY <1>8, <1>10 DEF IsList

\* The lines of a file that failed to parse, the last line for what is missing behind it.
BrokenIn(f) ==
  {Smaller(n, Len(Contents[f].lines)) : n \in LinesIn(Errors(Contents[f].nodes))}

\* preprocess_source: the chunks of a file are as promised, in the order of the source, and
\* have every line with code.
FileChunked(b, f) ==
  /\ IsList(b)
  /\ \A i \in 1..Len(b) : Promised(b[i], f, BrokenIn(f))
  /\ \A i, j \in 1..Len(b) : i < j => b[i].last < b[j].first
  /\ \A n \in 1..Len(Contents[f].lines) :
       Contents[f].lines[n].size > 0 => \E i \in 1..Len(b) : n \in b[i].first..b[i].last

\* Every file with contents is cut into such chunks.
LEMMA FileChunks ==
  ASSUME NEW f \in DOMAIN Contents
  PROVE  FileChunked(ChunksOf[f], f)
<1>1. PICK nodes, lines, count :
        nodes = Contents[f].nodes /\ lines = Contents[f].lines /\ count = Len(Contents[f].lines)
  BY Zenon
<1>2. IsList(lines) /\ IsList(nodes) /\ Range(nodes) \subseteq Nodes /\ InSourceOrder(nodes)
  BY <1>1, ContentsAssumption
<1>3. Statements(nodes)
  BY <1>2, InRange DEF Statements
<1>4. count \in Nat
  BY <1>1, <1>2, ListElements, Zenon
<1>5. PICK segments, headers, partial, blank :
        /\ segments = SegmentFile(nodes, count)
        /\ headers = HeaderRanges(nodes)
        /\ partial = PartialRegions(nodes, count)
        /\ blank = {n \in 1..count : lines[n].size = 0}
  BY Zenon
<1>6. PICK b : b = BuildChunks(f, segments, headers, partial, blank)
  BY Zenon
<1>7. ChunksOf[f] = b
  <2>1. ChunksOf[f] = LET code == Contents[f]
                          k == Len(code.lines)
                      IN  BuildChunks(f, SegmentFile(code.nodes, k), HeaderRanges(code.nodes),
                            PartialRegions(code.nodes, k), {n \in 1..k : code.lines[n].size = 0})
    BY DEF ChunksOf
  <2> QED
    BY <1>1, <1>5, <1>6, <2>1, Zenon
<1>8. CASE count = 0
  <2>1. segments = <<>>
    BY <1>5, <1>8, Zenon DEF SegmentFile
  <2>2. b = <<>>
    BY <1>6, <2>1, NothingChunked, Zenon
  <2>3. IsList(b) /\ Len(b) = 0
    BY <2>2, EmptyIsList, Zenon
  <2>4. 1..Len(b) = {} /\ 1..Len(Contents[f].lines) = {}
    BY <1>1, <1>8, <2>3
  <2>5. FileChunked(b, f)
    BY <2>3, <2>4 DEF FileChunked
  <2> QED
    BY <1>7, <2>5, Zenon
<1>9. CASE count # 0
  <2>1. count \in Nat \ {0}
    BY <1>4, <1>9
  <2>2. Segmented(segments, 1, count)
    BY <1>3, <1>4, <1>5, FileSegmented, Zenon
  <2>3. FromOne(headers)
    BY <1>3, <1>5, HeadersFromOne, Zenon
  <2>4. AllRanges(partial) /\ LinesIn(partial) = BrokenIn(f)
    <3>1. AllRanges(partial) /\ LinesIn(partial) = {Smaller(n, count) : n \in LinesIn(Errors(nodes))}
      BY <1>3, <1>5, <2>1, PartialLines, Zenon
    <3> QED
      BY <1>1, <3>1, Zenon DEF BrokenIn
  <2>5. /\ IsList(b)
        /\ \A i \in 1..Len(b) : Promised(b[i], f, LinesIn(partial))
        /\ \A i, j \in 1..Len(b) : i < j => b[i].last < b[j].first
        /\ \A n \in 1..count : n \notin blank => \E i \in 1..Len(b) : n \in b[i].first..b[i].last
    BY <1>4, <1>6, <2>2, <2>3, <2>4, ChunksPromised, Zenon
  <2>6. ASSUME NEW n \in 1..count, lines[n].size > 0 PROVE n \notin blank
    <3>1. lines[n].size # 0
      BY <2>6
    <3> QED
      BY <1>5, <3>1
  <2>7. FileChunked(b, f)
    BY <1>1, <2>4, <2>5, <2>6, Zenon DEF FileChunked
  <2> QED
    BY <1>7, <2>7, Zenon
<1> QED
  BY <1>8, <1>9, Zenon

\* The chunks of a scan: those of every reviewed file, once.
ScanChunked(t, files) ==
  /\ IsList(t)
  /\ \A i \in 1..Len(t) : \E f \in files : Promised(t[i], f, BrokenIn(f))
  /\ \A i, j \in 1..Len(t) : i < j /\ t[i].file = t[j].file => t[i].last < t[j].first
  /\ \A f \in files : \A n \in 1..Len(Contents[f].lines) :
       Contents[f].lines[n].size > 0 =>
         \E i \in 1..Len(t) : t[i].file = f /\ n \in t[i].first..t[i].last

\* Of two chunks of a file, the first is before the other.
FileOrder(S) == {p \in S \X S : p[1].file = p[2].file => p[1].last < p[2].first}

\* Whatever is uploaded is cut into such chunks.
LEMMA ScanChunks ==
  ASSUME NEW s \in Scans, NEW dir, dir = Extracted[s.upload]
  PROVE  ScanChunked(ChunksIn(dir), Range(ReviewedIn(dir)))
<1>1. OnDisk(dir)
  <2>1. Extracted[s.upload] = Ingested(s.upload)
    BY DEF Extracted
  <2> QED
    BY <2>1, IngestedOnDisk, Zenon
<1>2. PICK r : r = ReviewedIn(dir)
  BY Zenon
<1>3. /\ IsList(r) /\ \A i \in 1..Len(r) : r[i] \in DOMAIN Contents
      /\ \A i, j \in 1..Len(r) : r[i] = r[j] => i = j
  BY <1>1, <1>2, ReviewedFiles, Zenon
<1>4. PICK seqs : seqs = [i \in DOMAIN r |-> ChunksOf[r[i]]]
  BY Zenon
<1>5. PICK t : t = FlattenSeq(seqs)
  BY Zenon
<1>6. ChunksIn(dir) = t
  BY <1>2, <1>4, <1>5 DEF ChunksIn
<1>7. seqs = [i \in DOMAIN r |-> seqs[i]] /\ \A i \in DOMAIN r : seqs[i] = ChunksOf[r[i]]
  BY <1>4
<1>8. IsList(seqs) /\ Len(seqs) = Len(r)
  BY <1>3, <1>7, MadeFrom, Zenon
<1>9. /\ DOMAIN r = 1..Len(r) /\ \A i \in 1..Len(r) : r[i] \in Range(r)
      /\ \A x \in Range(r) : \E i \in 1..Len(r) : r[i] = x
  BY <1>3, ListElements, Zenon
<1>10. \A i \in 1..Len(seqs) : FileChunked(seqs[i], r[i])
  BY <1>3, <1>7, <1>8, <1>9, FileChunks, Zenon
<1>11. \A i \in 1..Len(seqs) : IsList(seqs[i])
  BY <1>10, Zenon DEF FileChunked
<1>12. IsList(t) /\ \A x : x \in Range(t) <=> \E i \in 1..Len(seqs) : x \in Range(seqs[i])
  BY <1>5, <1>8, <1>11, Flattened, Zenon
<1>13. \A i \in 1..Len(seqs) : \A x \in Range(seqs[i]) : Promised(x, r[i], BrokenIn(r[i]))
  <2> TAKE i \in 1..Len(seqs)
  <2> TAKE x \in Range(seqs[i])
  <2>1. PICK b, f : b = seqs[i] /\ f = r[i]
    BY Zenon
  <2>2. FileChunked(b, f) /\ x \in Range(b)
    BY <1>10, <2>1, Zenon
  <2>3. IsList(b) /\ \A k \in 1..Len(b) : Promised(b[k], f, BrokenIn(f))
    BY <2>2, Zenon DEF FileChunked
  <2>4. PICK k \in 1..Len(b) : b[k] = x
    BY <2>2, <2>3, InRange, Zenon
  <2> QED
    BY <2>1, <2>3, <2>4, Zenon
<1> DEFINE R == FileOrder(Range(t))
<1>14. \A i \in 1..Len(seqs) : Apart(seqs[i], R)
  <2> TAKE i \in 1..Len(seqs)
  <2>1. PICK b, f : b = seqs[i] /\ f = r[i]
    BY Zenon
  <2>2. FileChunked(b, f)
    BY <1>10, <2>1, Zenon
  <2>3. IsList(b) /\ \A m, n \in 1..Len(b) : m < n => b[m].last < b[n].first
    BY <2>2, Zenon DEF FileChunked
  <2>4. \A m \in 1..Len(b) : b[m] \in Range(t)
    BY <1>12, <2>1, <2>3, InRange, Zenon
  <2>5. \A m, n \in 1..Len(b) : m < n => <<b[m], b[n]>> \in R
    BY <2>3, <2>4 DEF FileOrder
  <2> QED
    BY <2>1, <2>5, Zenon DEF Apart
<1>15. ASSUME NEW i \in 1..Len(seqs), NEW j \in 1..Len(seqs), i < j,
              NEW x \in Range(seqs[i]), NEW y \in Range(seqs[j])
       PROVE  <<x, y>> \in R
  <2>1. x.file = r[i] /\ y.file = r[j]
    BY <1>13, <1>15, Zenon DEF Promised
  <2>2. i # j
    BY <1>8, <1>15
  <2>3. x.file # y.file
    BY <1>3, <1>8, <1>15, <2>1, <2>2, Zenon
  <2>4. x \in Range(t) /\ y \in Range(t)
    BY <1>12, <1>15, Zenon
  <2> QED
    BY <2>3, <2>4 DEF FileOrder
<1> HIDE DEF R
<1>16. Apart(t, R)
  BY <1>5, <1>8, <1>11, <1>14, <1>15, FlattenApart
<1>17. ASSUME NEW i \in 1..Len(t), NEW j \in 1..Len(t), i < j, t[i].file = t[j].file
       PROVE  t[i].last < t[j].first
  <2>1. <<t[i], t[j]>> \in R
    BY <1>16, <1>17, Zenon DEF Apart
  <2> QED
    BY <1>17, <2>1 DEF R, FileOrder
<1>18. ASSUME NEW i \in 1..Len(t) PROVE \E f \in Range(r) : Promised(t[i], f, BrokenIn(f))
  <2>1. t[i] \in Range(t)
    BY <1>12, <1>18, InRange, Zenon
  <2>2. PICK m \in 1..Len(seqs) : t[i] \in Range(seqs[m])
    BY <1>12, <2>1, Zenon
  <2>3. Promised(t[i], r[m], BrokenIn(r[m]))
    BY <1>13, <2>2, Zenon
  <2> QED
    BY <1>8, <1>9, <2>2, <2>3, Zenon
<1>19. ASSUME NEW f \in Range(r), NEW n \in 1..Len(Contents[f].lines), Contents[f].lines[n].size > 0
       PROVE  \E i \in 1..Len(t) : t[i].file = f /\ n \in t[i].first..t[i].last
  <2>1. PICK m \in 1..Len(seqs) : r[m] = f
    BY <1>8, <1>9, <1>19, Zenon
  <2>2. PICK b : b = seqs[m]
    BY Zenon
  <2>3. FileChunked(b, f)
    BY <1>10, <2>1, <2>2, Zenon
  <2>4. /\ IsList(b)
        /\ \A k \in 1..Len(b) : Promised(b[k], f, BrokenIn(f))
        /\ \A k \in 1..Len(Contents[f].lines) :
             Contents[f].lines[k].size > 0 => \E i \in 1..Len(b) : k \in b[i].first..b[i].last
    BY <2>3, Zenon DEF FileChunked
  <2>5. PICK i \in 1..Len(b) : n \in b[i].first..b[i].last
    BY <1>19, <2>4, Zenon
  <2>6. PICK x : x = b[i]
    BY Zenon
  <2>7. x \in Range(b) /\ x.file = f /\ n \in x.first..x.last
    BY <2>4, <2>5, <2>6, InRange, Zenon DEF Promised
  <2>8. x \in Range(t)
    BY <1>12, <2>1, <2>2, <2>7, Zenon
  <2>9. PICK j \in 1..Len(t) : t[j] = x
    BY <1>12, <2>8, InRange, Zenon
  <2>10. t[j].file = f /\ n \in t[j].first..t[j].last
    BY <2>7, <2>9
  <2> QED
    BY <2>9, <2>10
<1>20. ScanChunked(t, Range(r))
  BY <1>12, <1>17, <1>18, <1>19 DEF ScanChunked
<1> QED
  BY <1>2, <1>6, <1>20, Zenon

\* The reviewed files of a scan have contents.
LEMMA ReviewedHere ==
  ASSUME NEW s \in Scans, NEW dir, dir = Extracted[s.upload]
  PROVE  \A f \in Range(ReviewedIn(dir)) : f \in DOMAIN Contents
<1>1. OnDisk(dir)
  <2>1. Extracted[s.upload] = Ingested(s.upload)
    BY DEF Extracted
  <2> QED
    BY <2>1, IngestedOnDisk, Zenon
<1>2. PICK r : r = ReviewedIn(dir)
  BY Zenon
<1>3. IsList(r) /\ \A i \in 1..Len(r) : r[i] \in DOMAIN Contents
  BY <1>1, <1>2, ReviewedFiles, Zenon
<1>4. \A f \in Range(r) : f \in DOMAIN Contents
  BY <1>3, InRange, Zenon
<1> QED
  BY <1>2, <1>4, Zenon

\* The chunks of a scan are a list, whatever is uploaded.
LEMMA ChunkLists ==
  ASSUME NEW s \in Scans
  PROVE  /\ IsList(ChunksIn(Extracted[s.upload]))
         /\ \A c \in Range(ChunksIn(Extracted[s.upload])) : ChunkOf(c)
<1>1. PICK dir, t, files :
        /\ dir = Extracted[s.upload] /\ t = ChunksIn(dir) /\ files = Range(ReviewedIn(dir))
  BY Zenon
<1>2. ScanChunked(t, files)
  BY <1>1, ScanChunks, Zenon
<1>3. IsList(t) /\ \A i \in 1..Len(t) : \E f \in files : Promised(t[i], f, BrokenIn(f))
  BY <1>2, Zenon DEF ScanChunked
<1>4. \A f \in files : f \in Int
  <2>1. \A f \in files : f \in DOMAIN Contents
    BY <1>1, ReviewedHere, Zenon
  <2> QED
    BY <2>1, ContentsAssumption
<1>5. ASSUME NEW c \in Range(t) PROVE ChunkOf(c)
  <2>1. PICK i \in 1..Len(t) : t[i] = c
    BY <1>3, InRange, Zenon
  <2>2. PICK f \in files : Promised(c, f, BrokenIn(f))
    BY <1>3, <2>1, Zenon
  <2> QED
    BY <1>4, <2>2, Zenon DEF Promised, ChunkOf
<1> QED
  BY <1>1, <1>3, <1>5, Zenon

-----------------------------------------------------------------------------
(* Analyzers and requests of a run.                                        *)

\* The functions of a result are finitely many, and each has a complexity.
LEMMA ResultMeasured ==
  ASSUME NEW tool \in Tools, NEW output, OutputOf(tool, output)
  PROVE  Complex(Result(tool, output).functions)
<1> DEFINE here == {e \in Range(output.entries) : e.file # NoFile}
           Function(e) == [file |-> e.file, first |-> e.first, last |-> e.last, complexity |-> e.complexity]
<1>1. IsFiniteSet({})
  BY FS_EmptySet
<1>2. CASE Status(tool, output) # "ok" \/ tool # "lizard"
  <2>1. Result(tool, output).functions = {}
    BY <1>2 DEF Result, NoResult
  <2>2. Complex({})
    BY <1>1 DEF Complex
  <2> QED
    BY <2>1, <2>2, Zenon
<1>3. CASE Status(tool, output) = "ok" /\ tool = "lizard"
  <2>1. Result(tool, output).functions = {Function(e) : e \in here}
    BY <1>3 DEF Result
  <2>2. IsFiniteSet(Range(output.entries))
    <3>1. output.entries \in Seq(Range(output.entries))
      BY DEF OutputOf, IsList
    <3>2. \A x \in Range(output.entries) : \E i \in 1..Len(output.entries) : output.entries[i] = x
      BY InRange, Zenon DEF OutputOf
    <3> QED
      BY <3>1, <3>2, Zenon DEF IsFiniteSet
  <2>3. IsFiniteSet(here)
    BY <2>2, FS_Subset
  <2>4. \A e \in here : e.complexity \in Int
    <3> TAKE e \in here
    <3>1. PICK i \in 1..Len(output.entries) : output.entries[i] = e
      BY InRange DEF OutputOf
    <3> QED
      BY <1>3, <3>1 DEF OutputOf, EntryOf
  <2> HIDE DEF here
  <2>5. IsFiniteSet({Function(e) : e \in here})
    <3> DEFINE f == [e \in here |-> Function(e)]
    <3>1. {Function(e) : e \in here} = {f[e] : e \in here}
      OBVIOUS
    <3> HIDE DEF f, Function
    <3>2. IsFiniteSet({f[e] : e \in here})
      BY <2>3, FiniteImage, Zenon
    <3> QED
      BY <3>1, <3>2, Zenon
  <2>6. \A f \in {Function(e) : e \in here} : f.complexity \in Int
    BY <2>4
  <2> DEFINE T == {Function(e) : e \in here}
  <2>7. Complex(T)
    BY <2>5, <2>6 DEF Complex
  <2> HIDE DEF T
  <2>8. Result(tool, output).functions = T
    BY <2>1 DEF T
  <2> QED
    BY <2>7, <2>8, Zenon
<1> QED
  BY <1>2, <1>3

\* What an analyzer measured of files: the source lines of finitely many.
SourceMeasured(measured) == IsFiniteSet(measured) /\ \A m \in measured : m.source \in Nat

\* The source lines of a result are of finitely many files.
LEMMA ResultSources ==
  ASSUME NEW tool \in Tools, NEW output, OutputOf(tool, output)
  PROVE  SourceMeasured(Result(tool, output).measured)
<1> DEFINE es == output.entries
           raw == {e \in Range(es) : e.file # NoFile /\ e.report = "raw"}
           g == [e \in raw |-> [file |-> e.file, source |-> e.source]]
           M == {g[e] : e \in raw}
<1>1. SourceMeasured({})
  BY FS_EmptySet DEF SourceMeasured
<1>2. CASE Status(tool, output) # "ok" \/ tool # "radon"
  <2>1. Result(tool, output).measured = {}
    BY <1>2 DEF Result, NoResult
  <2> QED
    BY <1>1, <2>1, Zenon
<1>3. CASE Status(tool, output) = "ok" /\ tool = "radon"
  <2>1. Result(tool, output).measured =
          {[file |-> e.file, source |-> e.source] :
             e \in {e \in {e \in Range(es) : e.file # NoFile} : e.report = "raw"}}
    BY <1>3 DEF Result
  <2>2. {e \in {e \in Range(es) : e.file # NoFile} : e.report = "raw"} = raw
    OBVIOUS
  <2>3. Result(tool, output).measured = M
    BY <2>1, <2>2
  <2>4. IsFiniteSet(Range(es))
    <3>1. es \in Seq(Range(es))
      BY DEF OutputOf, IsList
    <3>2. \A x \in Range(es) : \E i \in 1..Len(es) : es[i] = x
      BY InRange, Zenon DEF OutputOf
    <3> HIDE DEF es
    <3> QED
      BY <3>1, <3>2, Zenon DEF IsFiniteSet
  <2>5. IsFiniteSet(raw)
    BY <2>4, FS_Subset
  <2>6. \A e \in raw : e.source \in Nat
    <3> TAKE e \in raw
    <3>1. PICK i \in 1..Len(es) : es[i] = e
      BY InRange DEF OutputOf
    <3> QED
      BY <1>3, <3>1 DEF OutputOf, EntryOf
  <2>7. \A m \in M : m.source \in Nat
    <3>1. \A e \in raw : g[e].source \in Nat
      BY <2>6
    <3> HIDE DEF raw, g
    <3> QED
      BY <3>1
  <2> HIDE DEF raw, g
  <2>8. IsFiniteSet(M)
    BY <2>5, FiniteImage, Zenon
  <2> HIDE DEF M
  <2> QED
    BY <2>3, <2>7, <2>8, Zenon DEF SourceMeasured
<1> QED
  BY <1>2, <1>3

\* What a tool is doing, and its result.
ToolState(tool, s) ==
  /\ DOMAIN s = {"state", "result"}
  /\ ToolFindings(s.result.findings, tool)
  /\ Complex(s.result.functions)
  /\ SourceMeasured(s.result.measured)

\* An analyzer that did not run has no findings.
LEMMA NoResultYet ==
  ASSUME NEW tool, NEW state
  PROVE  ToolState(tool, [state |-> state, result |-> NoResult])
<1>1. IsFiniteSet({})
  BY FS_EmptySet
<1>2. Complex({}) /\ SourceMeasured({})
  BY <1>1 DEF Complex, SourceMeasured
<1>3. NoResult.findings = <<>> /\ NoResult.functions = {} /\ NoResult.measured = {}
  BY DEF NoResult
<1> DEFINE s == [state |-> state, result |-> NoResult]
<1>4. DOMAIN s = {"state", "result"} /\ s.result = NoResult
  OBVIOUS
<1> HIDE DEF s
<1>5. ToolState(tool, s)
  BY <1>2, <1>3, <1>4, NoToolFindings, Zenon DEF ToolState
<1> QED
  BY <1>5 DEF s

\* An analyzer that is over has its own findings.
LEMMA ResultState ==
  ASSUME NEW tool \in Tools, NEW output, OutputOf(tool, output)
  PROVE  ToolState(tool, [state |-> "over", result |-> Result(tool, output)])
<1> DEFINE r == Result(tool, output)
<1>1. ToolFindings(r.findings, tool) /\ Complex(r.functions) /\ SourceMeasured(r.measured)
  BY ResultFindings, ResultMeasured, ResultSources, Zenon
<1> HIDE DEF r
<1>2. ToolState(tool, [state |-> "over", result |-> r])
  BY <1>1 DEF ToolState
<1> QED
  BY <1>2 DEF r

\* The fields of a request.
RequestFields == {"task", "about", "state", "records", "reply"}

\* A reply of this request can be used.
Answered(r) ==
  /\ ReplyOf(r.reply)
  /\ r.task \in {"review", "style"} /\ r.reply.answer # Null => AnswerOf(r.reply.answer)
  /\ r.task = "verify" /\ r.reply.answer # Null =>
       VerdictOf(r.reply.answer) /\ By(r.reply) \notin r.about.sources

\* A request: one that has its reply has one that it may have.
RequestOf(r) ==
  /\ DOMAIN r = RequestFields
  /\ r.task \in {"review", "style", "verify"} /\ r.state \in {"emitting", "over"} => Answered(r)

\* A request before and after a step.
Continues(q, r) == q.task = r.task /\ q.about = r.about /\ (r.state = "over" => q = r)

\* The parts of the invariant.  What is scanned does not change.
Scanned == scan \in Scans

\* Requests are what they are, in every state.
Requests == IsList(requests) /\ \A i \in 1..Len(requests) : RequestOf(requests[i])

\* A review or style request is about a chunk of the scanned files.
AboutChunks ==
  \A i \in 1..Len(requests) :
    requests[i].task \in {"review", "style"} =>
      requests[i].about \in Range(ChunksIn(Extracted[scan.upload]))

\* An answer comes from the model of the reply's last attempt.
LEMMA AnswerIsBy ==
  ASSUME NEW reply, ReplyOf(reply), reply.answer # Null
  PROVE  /\ By(reply) \in Models
         /\ \E i \in DOMAIN reply.attempts : By(reply) = reply.attempts[i].by
<1> DEFINE s == reply.attempts
<1>1. IsList(s) /\ Len(s) > 0 /\ \A i \in 1..Len(s) : s[i].by \in Models
  BY DEF ReplyOf
<1>2. Len(s) \in Nat /\ DOMAIN s = 1..Len(s)
  BY <1>1, ListElements, Zenon
<1>3. By(reply) = s[Len(s)].by
  BY DEF By, Last
<1>4. Len(s) \in 1..Len(s)
  BY <1>1, <1>2
<1> HIDE DEF s
<1>5. By(reply) \in Models /\ \E i \in DOMAIN s : By(reply) = s[i].by
  BY <1>1, <1>2, <1>3, <1>4
<1> QED
  BY <1>5 DEF s

\* A reply is the answer that its request may have.
LEMMA ReplyAnswers ==
  ASSUME Scanned, AboutChunks, NEW i \in 1..Len(requests), DOMAIN requests[i] = RequestFields,
         requests[i].task \in {"review", "style", "verify"},
         NEW reply \in MayAnswer(requests[i]), NEW q,
         q.task = requests[i].task, q.about = requests[i].about, q.reply = reply
  PROVE  Answered(q)
<1> DEFINE r == requests[i]
<1>1. CASE r.task \in {"review", "style"}
  <2>1. reply \in Replies(r.task, r.about) /\ r.about \in Range(ChunksIn(Extracted[scan.upload]))
    BY <1>1 DEF MayAnswer, AboutChunks
  <2> HIDE DEF r
  <2>2. ReplyOf(reply) /\ (reply.answer # Null => AnswerOf(reply.answer))
    BY <1>1, <2>1, ReplyAssumption, Zenon DEF Scanned
  <2>3. q.task # "verify"
    BY <1>1 DEF r
  <2> QED
    BY <2>2, <2>3 DEF Answered
<1>2. CASE r.task = "verify"
  <2>1. reply \in Verdicts /\ \A n \in DOMAIN reply.attempts : reply.attempts[n].by \notin r.about.sources
    BY <1>2 DEF MayAnswer
  <2>2. ReplyOf(reply) /\ (reply.answer # Null => VerdictOf(reply.answer))
    BY <2>1, ReplyAssumption, Zenon DEF VerdictOf
  <2>3. ASSUME reply.answer # Null
        PROVE  VerdictOf(reply.answer) /\ By(reply) \notin r.about.sources
    <3>1. \E n \in DOMAIN reply.attempts : By(reply) = reply.attempts[n].by
      BY <2>2, <2>3, AnswerIsBy
    <3> QED
      BY <2>1, <2>2, <2>3, <3>1
  <2>4. q.task = "verify" /\ q.about = r.about
    BY <1>2
  <2> QED
    BY <2>2, <2>3, <2>4 DEF Answered
<1> QED
  BY <1>1, <1>2

\* A step of a request touches this request only, and never one that is over.
LEMMA RequestStepContinues ==
  ASSUME Scanned, AboutChunks, Requests, NEW i \in DOMAIN requests, RequestStep(i)
  PROVE  /\ Requests'
         /\ Len(requests') = Len(requests)
         /\ \A j \in 1..Len(requests) : Continues(requests'[j], requests[j])
         /\ UNCHANGED <<scan, source, chunks, at, tools, static, sources, findings>>
<1> DEFINE N == Len(requests)
           r == requests[i]
<1>1. N \in Nat /\ DOMAIN requests = 1..N /\ requests = [j \in 1..N |-> requests[j]]
  BY ListElements, Zenon DEF Requests
<1>2. DOMAIN r = RequestFields
  BY <1>1 DEF Requests, RequestOf
<1>3. \E q : /\ requests' = [requests EXCEPT ![i] = q]
             /\ RequestOf(q) /\ Continues(q, r)
  <2>1. CASE StartRequest(i)
    <3> DEFINE q == [r EXCEPT !.state = "calling"]
    <3>1. requests' = [requests EXCEPT ![i] = q] /\ r.state = "waiting"
      BY <2>1 DEF StartRequest
    <3>2. DOMAIN q = RequestFields /\ q.task = r.task /\ q.about = r.about /\ q.state = "calling"
      BY <1>2 DEF RequestFields
    <3> HIDE DEF q
    <3>3. RequestOf(q) /\ Continues(q, r)
      BY <3>1, <3>2 DEF RequestOf, Continues
    <3> QED
      BY <3>1, <3>3, Zenon
  <2>2. CASE EndRequest(i)
    <3>1. PICK reply \in MayAnswer(r) : \E records, state :
            /\ requests' = [requests EXCEPT
                 ![i] = [r EXCEPT !.state = state, !.records = records, !.reply = reply]]
            /\ r.state = "calling"
      BY <2>2 DEF EndRequest
    <3>2. PICK records, state :
            requests' = [requests EXCEPT
                 ![i] = [r EXCEPT !.state = state, !.records = records, !.reply = reply]]
      BY <3>1
    <3> DEFINE q == [r EXCEPT !.state = state, !.records = records, !.reply = reply]
    <3>3. DOMAIN q = RequestFields /\ q.task = r.task /\ q.about = r.about /\ q.reply = reply
      BY <1>2 DEF RequestFields
    <3>4. requests' = [requests EXCEPT ![i] = q] /\ r.state = "calling"
      BY <3>1, <3>2
    <3> HIDE DEF q
    <3>5. q.task \in {"review", "style", "verify"} => Answered(q)
      <4>1. SUFFICES ASSUME q.task \in {"review", "style", "verify"} PROVE Answered(q)
        OBVIOUS
      <4> QED
        BY <1>1, <1>2, <3>3, <4>1, ReplyAnswers
    <3>6. RequestOf(q) /\ Continues(q, r)
      BY <3>3, <3>4, <3>5 DEF RequestOf, Continues
    <3> QED
      BY <3>4, <3>6, Zenon
  <2>3. CASE EmitCall(i)
    <3>1. PICK records, state :
            requests' = [requests EXCEPT ![i] = [r EXCEPT !.records = records, !.state = state]]
      BY <2>3 DEF EmitCall
    <3> DEFINE q == [r EXCEPT !.records = records, !.state = state]
    <3>2. DOMAIN q = RequestFields /\ q.task = r.task /\ q.about = r.about /\ q.reply = r.reply
      BY <1>2 DEF RequestFields
    <3>3. requests' = [requests EXCEPT ![i] = q] /\ r.state = "emitting"
      BY <2>3, <3>1 DEF EmitCall
    <3> HIDE DEF q
    <3>4. RequestOf(r)
      BY <1>1 DEF Requests
    <3>5. RequestOf(q) /\ Continues(q, r)
      BY <3>2, <3>3, <3>4 DEF RequestOf, Continues, Answered
    <3> QED
      BY <3>3, <3>5, Zenon
  <2> QED
    BY <2>1, <2>2, <2>3 DEF RequestStep
<1>4. UNCHANGED <<scan, source, chunks, at, tools, static, sources, findings>>
  BY DEF RequestStep, StartRequest, EndRequest, EmitCall
<1>5. PICK q : /\ requests' = [requests EXCEPT ![i] = q]
               /\ RequestOf(q) /\ Continues(q, r)
  BY <1>3
<1>6. /\ requests' = [j \in 1..N |-> requests'[j]]
      /\ \A j \in 1..N : requests'[j] = IF j = i THEN q ELSE requests[j]
  BY <1>1, <1>5
<1>7. IsList(requests') /\ Len(requests') = N
  BY <1>1, <1>6, ListByShape, Zenon
<1>8. \A j \in 1..N : RequestOf(requests'[j])
  BY <1>5, <1>6 DEF Requests
<1>9. \A j \in 1..N : Continues(requests'[j], requests[j])
  <2>1. \A p : Continues(p, p)
    BY DEF Continues
  <2> QED
    BY <1>5, <1>6, <2>1
<1>10. Requests'
  BY <1>7, <1>8 DEF Requests
<1> QED
  BY <1>4, <1>7, <1>9, <1>10

-----------------------------------------------------------------------------
(* The inductive invariant.                                                *)

\* The findings that verification asks about.
TargetsOf(s, from, files) == Kept(s, LAMBDA f :
    NeedsVerification(f, from) /\ f.file \in files)

\* The findings that verification asks about.
LEMMA KeptTargets ==
  ASSUME NEW s, IsList(s), NEW from, NEW files
  PROVE  /\ IsList(TargetsOf(s, from, files))
         /\ \A y \in Range(TargetsOf(s, from, files)) :
              \E k \in 1..Len(s) : s[k] = y /\ (NeedsVerification(y, from) /\ y.file \in files)
         /\ \A k \in 1..Len(s) : 
              NeedsVerification(s[k], from) /\ s[k].file \in files =>
                s[k] \in Range(TargetsOf(s, from, files))
         /\ DistinctIds(s) => DistinctIds(TargetsOf(s, from, files))
<1> DEFINE P(t) == {i \in DOMAIN t : (NeedsVerification(t[i], from) /\ t[i].file \in files)}
           B(t) == AtPlaces(t, Arranged(P(t), <))
           K == TargetsOf(s, from, files)
           I == P(s)
<1>1. \A x : {z \in {x} : z = z} = {x}
  OBVIOUS
<1>2. K = Of(s, B)
  BY DEF TargetsOf, Kept
<1>3. Of(s, B) = B(s)
  <2> HIDE DEF B
  <2>1. {B(z) : z \in {z \in {s} : z = z}} = {B(s)}
    BY <1>1, Zenon
  <2> QED
    BY <2>1, Zenon DEF Of
<1>4. /\ I \in SUBSET (1..Len(s))
      /\ \A i \in I : (NeedsVerification(s[i], from) /\ s[i].file \in files)
      /\ \A i \in 1..Len(s) : (NeedsVerification(s[i], from) /\ s[i].file \in files) => i \in I
  BY ListElements
<1> HIDE DEF I, K
<1>5. B(s) = ElementsIn(s, I)
  BY ArrangedLess, Zenon DEF I, ElementsIn
<1>6. /\ IsList(K) /\ (\A x \in Range(K) : \E i \in I : s[i] = x) /\ \A i \in I : s[i] \in Range(K)
      /\ DistinctIds(s) => DistinctIds(K)
  <2> HIDE DEF B
  <2>1. K = ElementsIn(s, I)
    BY <1>2, <1>3, <1>5, Zenon
  <2>2. I \in SUBSET (1..Len(s))
    BY <1>4, Zenon
  <2> QED
    BY <2>1, <2>2, KeptElements
<1>7. ASSUME NEW y \in Range(K)
      PROVE  \E k \in 1..Len(s) : s[k] = y /\ (NeedsVerification(y, from) /\ y.file \in files)
  <2>1. PICK i \in I : s[i] = y
    BY <1>6
  <2> QED
    BY <2>1, <1>4
<1>8. ASSUME NEW k \in 1..Len(s), (NeedsVerification(s[k], from) /\ s[k].file \in files)
      PROVE  s[k] \in Range(K)
  BY <1>4, <1>6, <1>8
<1> QED
  BY <1>6, <1>7, <1>8 DEF K

\* The requests of a plan, reviews before style.
Asked(rs, review, style) ==
  /\ Len(rs) = Len(review) + Len(style)
  /\ \A i \in 1..Len(review) : rs[i].task = "review" /\ rs[i].about = review[i]
  /\ \A i \in 1..Len(style) : rs[Len(review) + i].task = "style" /\ rs[Len(review) + i].about = style[i]

\* From this severity on, findings of models alone are verified.
From == VerifyFrom[depth]

\* The source directory is what ingestion left, while something reads it; analyzers run
\* in their stage only.
SourceRead ==
  /\ at \in {"preprocessing", "analyzing"} => source = Extracted[scan.upload]
  /\ \A t \in Tools : tools[t].state = "running" => at = "analyzing"

\* The chunks are chunks of the scanned files.
ChunksRead ==
  /\ IsList(chunks)
  /\ \A c \in Range(chunks) : c \in Range(ChunksIn(Extracted[scan.upload])) /\ ChunkOf(c)

\* Every analyzer is in some state, and its result is its own.
ToolsRun == DOMAIN tools = Tools /\ \A t \in Tools : ToolState(t, tools[t])

\* Every static finding stands among the findings.
Standing == Stands(findings, static)

\* The review begins with the static findings.
NotChanged == at \in {"analyzed", "reviewing"} => findings = static

\* Only a scan with a review is in a stage of it.
WithReview ==
  at \in {"reviewing", "reviewed", "verifying", "verified", "summarizing"} => depth # "static"

\* In the review every request is about a reviewed file.
OnReview ==
  at \in {"reviewing", "reviewed"} =>
    \A i \in 1..Len(requests) :
      requests[i].task \in {"review", "style"} /\ requests[i].about.file \in DOMAIN sources

\* In the review the requests are those of a plan within the budget.
InBudget ==
  at = "reviewing" =>
    \E review, style : /\ Planned(review, style, chunks, static, Project.functions, depth, MaxCalls)
                       /\ Asked(requests, review, style)

\* No more requests run than the semaphore lets.
Slots == Cardinality(Calling) <= Concurrency

\* After the merge the findings are those of the analyzers and of all results.
AfterMerge ==
  at = "reviewed" =>
    /\ AllOver
    /\ ReviewResults(Results, DOMAIN sources)
    /\ Merging(findings, static, AiFindings(Results), Len(AiFindings(Results)))

\* In the verification every request is about a finding of models alone, and every such
\* finding that needs it has a request.
OnVerification ==
  at = "verifying" =>
    /\ \A i \in 1..Len(requests) :
         /\ requests[i].task = "verify"
         /\ requests[i].about \in Range(findings)
         /\ AiOnly(requests[i].about) /\ ByModels(requests[i].about)
    /\ \A x \in Range(findings) : (\E f \in Range(static) : Follows(x, f)) \/ ByModels(x)
    /\ \A x \in Range(findings) :
         ByModels(x) /\ AiOnly(x) /\ x.status = "open" /\ x.severity >= From =>
           \E i \in 1..Len(requests) : requests[i].about = x

\* After the verification every finding is checked.
AfterVerification ==
  at \in {"verified", "summarizing", "finishing", "done"} /\ depth # "static" =>
    \A x \in Range(findings) : Checked(x, From)

\* The inductive invariant.
IInv ==
  /\ Scanned /\ SourceRead /\ ChunksRead /\ ToolsRun
  /\ Standing /\ NotChanged /\ WithReview
  /\ Requests /\ AboutChunks /\ OnReview /\ InBudget /\ Slots
  /\ AfterMerge /\ OnVerification /\ AfterVerification

\* The invariant holds before the scan.
LEMMA InitHolds == Init => IInv
<1> SUFFICES ASSUME Init PROVE IInv
  OBVIOUS
<1>0. at = "ingesting"
  BY DEF Init
<1>1. IsList(<<>>) /\ Len(<<>>) = 0 /\ Range(<<>>) = {} /\ 1..0 = {}
  BY EmptyIsList
<1>2. Scanned
  BY DEF Init, Scanned
<1>3. DOMAIN tools = Tools /\ \A t \in Tools : tools[t] = [state |-> "ready", result |-> NoResult]
  BY DEF Init, Tools
<1>4. SourceRead
  BY <1>0, <1>3 DEF SourceRead
<1>5. ChunksRead
  BY <1>1 DEF Init, ChunksRead
<1>6. ToolsRun
  BY <1>3, NoResultYet DEF ToolsRun
<1>7. Standing
  <2>1. DistinctIds(<<>>)
    BY <1>1 DEF DistinctIds
  <2> QED
    BY <1>1, <2>1 DEF Init, Standing, Stands, StaticFindings
<1>8. Requests /\ AboutChunks
  BY <1>1 DEF Init, Requests, AboutChunks
<1>9. Slots
  <2>1. Calling = {}
    BY DEF Init, Calling
  <2>2. Cardinality({}) = 0
    BY FS_EmptySet
  <2> QED
    BY <2>1, <2>2, RunAssumption DEF Slots
<1> QED
  BY <1>0, <1>2, <1>4, <1>5, <1>6, <1>7, <1>8, <1>9
  DEF IInv, NotChanged, WithReview, OnReview, InBudget, AfterMerge, OnVerification, AfterVerification

\* What most steps leave alone.
Core == <<scan, source, chunks, at, tools, static, sources, findings, requests>>

\* The invariant speaks of these variables only.
LEMMA CoreStays == IInv /\ UNCHANGED Core => IInv'
<1> SUFFICES ASSUME IInv, UNCHANGED Core PROVE IInv'
  OBVIOUS
<1> USE DEF Core
<1>1. Scanned' /\ SourceRead' /\ ChunksRead' /\ ToolsRun'
  BY DEF IInv, Scanned, SourceRead, ChunksRead, ToolsRun
<1>2. Standing' /\ NotChanged' /\ WithReview'
  BY DEF IInv, Standing, NotChanged, WithReview, depth
<1>3. Requests' /\ AboutChunks' /\ OnReview'
  BY DEF IInv, Requests, AboutChunks, OnReview
<1>4. Project.functions' = Project.functions
  BY DEF Project
<1>5. InBudget'
  BY <1>4 DEF IInv, InBudget, depth
<1>6. Slots'
  BY DEF IInv, Slots, Calling
<1>7. Results' = Results
  BY DEF Results, ResultOf, ShownTo
<1>8. AfterMerge'
  BY <1>7 DEF IInv, AfterMerge, AllOver
<1>9. OnVerification' /\ AfterVerification'
  BY DEF IInv, OnVerification, AfterVerification, From, depth
<1> QED
  BY <1>1, <1>2, <1>3, <1>5, <1>6, <1>8, <1>9 DEF IInv

-----------------------------------------------------------------------------
(* Steps of requests and analyzers.                                        *)

\* A request begins only when fewer than Concurrency are running.
LEMMA SlotsStay ==
  ASSUME IInv, NEW i \in DOMAIN requests, RequestStep(i)
  PROVE  Slots'
<1> DEFINE N == Len(requests)
<1>1. N \in Nat /\ DOMAIN requests = 1..N /\ requests = [j \in 1..N |-> requests[j]]
  BY ListElements, Zenon DEF IInv, Requests
<1>2. IsFiniteSet(Calling) /\ Cardinality(Calling) \in Nat
  <2>1. Calling \subseteq 1..N /\ IsFiniteSet(1..N)
    BY <1>1, FS_Interval DEF Calling
  <2> QED
    BY <2>1, FS_Subset, FS_CardinalityType
<1>3. Cardinality(Calling) <= Concurrency /\ Concurrency \in Nat
  BY RunAssumption DEF IInv, Slots
<1>4. DOMAIN requests[i] = RequestFields
  BY <1>1 DEF IInv, Requests, RequestOf
<1>5. CASE StartRequest(i)
  <2>1. Calling' \subseteq Calling \cup {i}
    BY <1>1, <1>5 DEF StartRequest, Calling
  <2>2. Cardinality(Calling) < Concurrency
    BY <1>5 DEF StartRequest, Occupied
  <2>3. IsFiniteSet(Calling \cup {i}) /\ Cardinality(Calling \cup {i}) <= Cardinality(Calling) + 1
    <3>1. \A S : IsFiniteSet(S) /\ Cardinality(S) \in Nat =>
                   IsFiniteSet(S \cup {i}) /\ Cardinality(S \cup {i}) <= Cardinality(S) + 1
      <4> SUFFICES ASSUME NEW S, IsFiniteSet(S), Cardinality(S) \in Nat
                   PROVE  IsFiniteSet(S \cup {i}) /\ Cardinality(S \cup {i}) <= Cardinality(S) + 1
        OBVIOUS
      <4>1. /\ IsFiniteSet(S \cup {i})
            /\ Cardinality(S \cup {i}) = IF i \in S THEN Cardinality(S) ELSE Cardinality(S) + 1
        BY FS_AddElement
      <4> QED
        BY <4>1
    <3> QED
      BY <1>2, <3>1, Zenon
  <2>4. Cardinality(Calling') <= Cardinality(Calling \cup {i}) /\ Cardinality(Calling') \in Nat
    BY <2>1, <2>3, FS_Subset, FS_CardinalityType
  <2>5. Cardinality(Calling \cup {i}) \in Nat
    BY <2>3, FS_CardinalityType
  <2>6. Cardinality(Calling') <= Concurrency
    BY <1>2, <1>3, <2>2, <2>3, <2>4, <2>5
  <2> QED
    BY <2>6 DEF Slots
<1>6. CASE EndRequest(i) \/ EmitCall(i)
  <2>1. \E q : requests' = [requests EXCEPT ![i] = q] /\ q.state # "calling"
    <3>1. CASE EndRequest(i)
      <4>1. PICK reply \in MayAnswer(requests[i]) : \E records :
              requests' = [requests EXCEPT
                ![i] = [@ EXCEPT !.state = IF records = <<>> THEN "over" ELSE "emitting",
                                 !.records = records, !.reply = reply]]
        BY <3>1 DEF EndRequest
      <4>4. PICK records :
              requests' = [requests EXCEPT
                ![i] = [@ EXCEPT !.state = IF records = <<>> THEN "over" ELSE "emitting",
                                 !.records = records, !.reply = reply]]
        BY <4>1
      <4> DEFINE r == requests[i]
                 q == [r EXCEPT !.state = IF records = <<>> THEN "over" ELSE "emitting",
                                !.records = records, !.reply = reply]
      <4>2. requests' = [requests EXCEPT ![i] = q]
        BY <4>4
      <4>3. q.state \in {"over", "emitting"}
        BY <1>4 DEF RequestFields
      <4> HIDE DEF q
      <4> QED
        BY <4>2, <4>3
    <3>2. CASE EmitCall(i)
      <4> DEFINE r == requests[i]
                 over == Len(r.records) = 1
      <4>1. /\ requests' = [requests EXCEPT
                 ![i] = [r EXCEPT !.records = Tail(r.records), !.state = IF over THEN "over" ELSE "emitting"]]
            /\ r.state = "emitting"
        BY <3>2 DEF EmitCall
      <4> DEFINE q == [r EXCEPT !.records = Tail(r.records), !.state = IF over THEN "over" ELSE "emitting"]
      <4>2. requests' = [requests EXCEPT ![i] = q]
        BY <4>1
      <4>3. q.state \in {"over", "emitting"}
        <5> HIDE DEF over
        <5> QED
          BY <1>4, <4>1 DEF RequestFields
      <4> HIDE DEF q
      <4> QED
        BY <4>2, <4>3
    <3> QED
      BY <1>6, <3>1, <3>2
  <2>2. Calling' \subseteq Calling
    BY <1>1, <2>1 DEF Calling
  <2>3. Cardinality(Calling') <= Cardinality(Calling) /\ Cardinality(Calling') \in Nat
    BY <1>2, <2>2, FS_Subset, FS_CardinalityType
  <2>4. Cardinality(Calling') <= Concurrency
    BY <1>2, <1>3, <2>3
  <2> QED
    BY <2>4 DEF Slots
<1> QED
  BY <1>5, <1>6 DEF RequestStep

\* The requests of a plan stay those of this plan while they run.
LEMMA AskedStill ==
  ASSUME NEW rs, NEW qs, Len(qs) = Len(rs), \A j \in 1..Len(rs) : Continues(qs[j], rs[j]),
         NEW review, NEW style, IsList(review), IsList(style), Asked(rs, review, style)
  PROVE  Asked(qs, review, style)
<1>1. Len(review) \in Nat /\ Len(style) \in Nat
  BY ListElements, Zenon
<1>2. ASSUME NEW i \in 1..Len(review) PROVE qs[i].task = "review" /\ qs[i].about = review[i]
  BY <1>1, <1>2 DEF Asked, Continues
<1>3. ASSUME NEW i \in 1..Len(style)
      PROVE  qs[Len(review) + i].task = "style" /\ qs[Len(review) + i].about = style[i]
  <2> DEFINE j == Len(review) + i
  <2>1. j \in 1..Len(rs)
    BY <1>1 DEF Asked
  <2>2. rs[j].task = "style" /\ rs[j].about = style[i]
    BY DEF Asked
  <2> HIDE DEF j
  <2>3. qs[j].task = "style" /\ qs[j].about = style[i]
    BY <2>1, <2>2 DEF Continues
  <2> QED
    BY <2>3 DEF j
<1> QED
  BY <1>2, <1>3 DEF Asked

\* A step of a request keeps the invariant.
LEMMA RequestHolds ==
  ASSUME IInv, NEW i \in DOMAIN requests, RequestStep(i)
  PROVE  IInv'
<1> USE DEF Core
<1>1. Scanned /\ AboutChunks /\ Requests
  BY DEF IInv
<1>2. /\ Requests'
      /\ Len(requests') = Len(requests)
      /\ \A j \in 1..Len(requests) : Continues(requests'[j], requests[j])
      /\ UNCHANGED <<scan, source, chunks, at, tools, static, sources, findings>>
  BY <1>1, RequestStepContinues
<1>3. Scanned' /\ SourceRead' /\ ChunksRead' /\ ToolsRun'
  BY <1>2 DEF IInv, Scanned, SourceRead, ChunksRead, ToolsRun
<1>4. Standing' /\ NotChanged' /\ WithReview'
  BY <1>2 DEF IInv, Standing, NotChanged, WithReview, depth
<1>5. AboutChunks'
  BY <1>2 DEF IInv, AboutChunks, Continues
<1>6. OnReview'
  BY <1>2 DEF IInv, OnReview, Continues
<1>7. InBudget'
  <2> SUFFICES ASSUME at' = "reviewing" PROVE InBudget'
    BY DEF InBudget
  <2>1. PICK review, style :
          /\ Planned(review, style, chunks, static, Project.functions, depth, MaxCalls)
          /\ Asked(requests, review, style)
    BY <1>2 DEF IInv, InBudget
  <2>2. Project.functions' = Project.functions /\ depth' = depth
    BY <1>2 DEF Project, depth
  <2>3. IsList(review) /\ IsList(style)
    BY <2>1 DEF Planned
  <2>4. Asked(requests', review, style)
    BY <1>2, <2>1, <2>3, AskedStill, Zenon
  <2> QED
    BY <1>2, <2>1, <2>2, <2>4 DEF InBudget
<1>8. Slots'
  BY SlotsStay
<1>9. AfterMerge'
  <2>1. SUFFICES ASSUME at = "reviewed" PROVE FALSE
    BY <1>2 DEF AfterMerge
  <2>2. requests[i].state = "over"
    BY <2>1 DEF IInv, AfterMerge, AllOver
  <2> QED
    BY <2>2 DEF RequestStep, StartRequest, EndRequest, EmitCall
<1>10. OnVerification'
  <2>1. at = "verifying" =>
          \A j \in 1..Len(requests) :
             /\ requests'[j].task = "verify"
             /\ requests'[j].about \in Range(findings)
             /\ AiOnly(requests'[j].about) /\ ByModels(requests'[j].about)
    BY <1>2 DEF IInv, OnVerification, Continues
  <2>2. at = "verifying" => \A x \in Range(findings) :
          ByModels(x) /\ AiOnly(x) /\ x.status = "open" /\ x.severity >= From =>
            \E j \in 1..Len(requests) : requests'[j].about = x
    BY <1>2 DEF IInv, OnVerification, Continues
  <2>3. From' = From
    BY <1>2 DEF From, depth
  <2> QED
    BY <1>2, <2>1, <2>2, <2>3 DEF IInv, OnVerification
<1>11. AfterVerification'
  BY <1>2 DEF IInv, AfterVerification, From, depth
<1> QED
  BY <1>2, <1>3, <1>4, <1>5, <1>6, <1>7, <1>8, <1>9, <1>10, <1>11 DEF IInv

\* An analyzer that starts keeps the invariant.
LEMMA StartToolHolds ==
  ASSUME IInv, NEW t \in Tools, StartTool(t)
  PROVE  IInv'
<1>1. at = "analyzing" /\ UNCHANGED <<scan, source, chunks, at, static, sources, findings, requests>>
  BY DEF StartTool
<1>2. PICK v : tools' = [tools EXCEPT ![t].state = v]
  BY DEF StartTool
<1>3. ToolsRun'
  <2>1. \A s, u : ToolState(u, s) => ToolState(u, [s EXCEPT !.state = v])
    BY DEF ToolState
  <2> QED
    BY <1>2, <2>1 DEF IInv, ToolsRun
<1>4. Scanned' /\ SourceRead' /\ ChunksRead'
  BY <1>1 DEF IInv, Scanned, SourceRead, ChunksRead
<1>5. Standing' /\ NotChanged' /\ WithReview' /\ Requests' /\ AboutChunks' /\ Slots'
  BY <1>1 DEF IInv, Standing, NotChanged, WithReview, Requests, AboutChunks, Slots, Calling
<1> QED
  BY <1>1, <1>3, <1>4, <1>5
  DEF IInv, OnReview, InBudget, AfterMerge, OnVerification, AfterVerification

\* An analyzer that ends keeps the invariant.
LEMMA EndToolHolds ==
  ASSUME IInv, NEW t \in Tools, EndTool(t)
  PROVE  IInv'
<1>1. at = "analyzing" /\ UNCHANGED <<scan, source, chunks, at, static, sources, findings, requests>>
  BY DEF EndTool, IInv, SourceRead
<1>2. PICK output \in Outputs(t, Files) :
        tools' = [tools EXCEPT ![t] = [state |-> "over", result |-> Result(t, output)]]
  BY DEF EndTool
<1>3. ToolsRun'
  <2>1. source = Extracted[scan.upload] /\ scan \in Scans
    BY <1>1 DEF IInv, SourceRead, Scanned
  <2>2. OutputOf(t, output)
    BY <2>1, OutputAssumption DEF Files, Tools
  <2>3. ToolState(t, [state |-> "over", result |-> Result(t, output)])
    BY <2>2, ResultState
  <2> QED
    BY <1>2, <2>3 DEF IInv, ToolsRun
<1>4. Scanned' /\ SourceRead' /\ ChunksRead'
  BY <1>1 DEF IInv, Scanned, SourceRead, ChunksRead
<1>5. Standing' /\ NotChanged' /\ WithReview' /\ Requests' /\ AboutChunks' /\ Slots'
  BY <1>1 DEF IInv, Standing, NotChanged, WithReview, Requests, AboutChunks, Slots, Calling
<1> QED
  BY <1>1, <1>3, <1>4, <1>5
  DEF IInv, OnReview, InBudget, AfterMerge, OnVerification, AfterVerification

-----------------------------------------------------------------------------
(* Steps of the main task: up to the static findings, and the report.      *)

\* Ingest keeps the invariant.
LEMMA IngestHolds == IInv /\ Ingest => IInv'
<1> SUFFICES ASSUME IInv, Ingest PROVE IInv'
  OBVIOUS
<1>1. /\ at = "ingesting" /\ at' \in {"preprocessing", "failed"}
      /\ source' = Extracted[scan.upload]
      /\ UNCHANGED <<scan, chunks, tools, static, sources, findings, requests>>
  BY DEF Ingest, Go
<1>2. Scanned' /\ SourceRead' /\ ChunksRead' /\ ToolsRun'
  BY <1>1 DEF IInv, Scanned, SourceRead, ChunksRead, ToolsRun
<1>3. Standing' /\ Requests' /\ AboutChunks' /\ Slots'
  BY <1>1 DEF IInv, Standing, Requests, AboutChunks, Slots, Calling
<1> QED
  BY <1>1, <1>2, <1>3
  DEF IInv, NotChanged, WithReview, OnReview, InBudget, AfterMerge, OnVerification, AfterVerification

\* Preprocess keeps the invariant.
LEMMA PreprocessHolds == IInv /\ Preprocess => IInv'
<1> SUFFICES ASSUME IInv, Preprocess PROVE IInv'
  OBVIOUS
<1>1. /\ at = "preprocessing" /\ at' = "analyzing"
      /\ chunks' = ChunksIn(source)
      /\ UNCHANGED <<scan, source, tools, static, sources, findings, requests>>
  BY DEF Preprocess, Go
<1>2. Scanned' /\ SourceRead' /\ ToolsRun'
  BY <1>1 DEF IInv, Scanned, SourceRead, ToolsRun
<1>3. ChunksRead'
  <2>1. source = Extracted[scan.upload] /\ scan \in Scans
    BY <1>1 DEF IInv, SourceRead, Scanned
  <2>2. /\ IsList(ChunksIn(Extracted[scan.upload]))
        /\ \A c \in Range(ChunksIn(Extracted[scan.upload])) : ChunkOf(c)
    BY <2>1, ChunkLists
  <2> QED
    BY <1>1, <2>1, <2>2 DEF ChunksRead
<1>4. Standing' /\ Requests' /\ AboutChunks' /\ Slots'
  BY <1>1 DEF IInv, Standing, Requests, AboutChunks, Slots, Calling
<1> QED
  BY <1>1, <1>2, <1>3, <1>4
  DEF IInv, NotChanged, WithReview, OnReview, InBudget, AfterMerge, OnVerification, AfterVerification

\* Analyze keeps the invariant: the static findings are those of tools, with distinct ids.
LEMMA AnalyzeHolds == IInv /\ Analyze => IInv'
<1> SUFFICES ASSUME IInv, Analyze PROVE IInv'
  OBVIOUS
<1> DEFINE found == [i \in DOMAIN Analyzers |-> tools[Analyzers[i]].result.findings]
           lines == [f \in Files |-> Contents[f].lines]
           all == Combined(found, Values, lines)
<1>1. /\ at = "analyzing" /\ at' = "analyzed"
      /\ static' = all /\ findings' = all
      /\ UNCHANGED <<scan, source, chunks, tools, sources, requests>>
  BY DEF Analyze, Go
<1>2. IsList(found) /\ Len(found) = 8 /\ \A i \in 1..8 : ToolFindings(found[i], Analyzers[i])
  <2>1. \A i \in 1..8 : ToolFindings(tools[Analyzers[i]].result.findings, Analyzers[i])
    BY AnalyzerList DEF IInv, ToolsRun, ToolState
  <2>2. found = [i \in 1..8 |-> found[i]] /\ \A i \in 1..8 : found[i] = tools[Analyzers[i]].result.findings
    BY AnalyzerList
  <2> HIDE DEF found
  <2> QED
    BY <2>1, <2>2, ListByShape
<1> HIDE DEF found, lines
<1>3. StaticFindings(all)
  BY <1>2, CombinedFindings, Zenon
<1> HIDE DEF all
<1>4. Stands(all, all)
  <2>1. \A f \in Range(all) : Follows(f, f)
    BY <1>3, FollowsItself, Zenon DEF StaticFindings
  <2> QED
    BY <1>3, <2>1 DEF Stands, StaticFindings
<1>5. Standing' /\ NotChanged'
  BY <1>1, <1>4 DEF Standing, NotChanged
<1>6. Scanned' /\ SourceRead' /\ ChunksRead' /\ ToolsRun'
  <2>1. \A t \in Tools : tools[t].state # "running"
    BY DEF Analyze, Tools
  <2> QED
    BY <1>1, <2>1 DEF IInv, Scanned, SourceRead, ChunksRead, ToolsRun
<1>7. Requests' /\ AboutChunks' /\ Slots'
  BY <1>1 DEF IInv, Requests, AboutChunks, Slots, Calling
<1> QED
  BY <1>1, <1>5, <1>6, <1>7
  DEF IInv, WithReview, OnReview, InBudget, AfterMerge, OnVerification, AfterVerification

\* Nothing has been asked: what the invariant says of requests.
LEMMA NothingAsked ==
  ASSUME requests' = <<>>
  PROVE  Requests' /\ AboutChunks' /\ Slots'
<1>1. IsList(<<>>) /\ Len(<<>>) = 0 /\ Range(<<>>) = {} /\ 1..0 = {}
  BY EmptyIsList
<1>2. Requests' /\ AboutChunks'
  BY <1>1 DEF Requests, AboutChunks
<1>3. Slots'
  <2>1. Calling' = {}
    BY DEF Calling
  <2>2. Cardinality({}) = 0
    BY FS_EmptySet
  <2> QED
    BY <2>1, <2>2, RunAssumption DEF Slots
<1> QED
  BY <1>2, <1>3

\* StaticOnly keeps the invariant.
LEMMA StaticOnlyHolds == IInv /\ StaticOnly => IInv'
<1> SUFFICES ASSUME IInv, StaticOnly PROVE IInv'
  OBVIOUS
<1>1. /\ at = "analyzed" /\ at' = "finishing" /\ depth = "static"
      /\ requests' = <<>>
      /\ UNCHANGED <<scan, source, chunks, tools, static, sources, findings>>
  BY DEF StaticOnly, Finish, Go
<1>2. Scanned' /\ SourceRead' /\ ChunksRead' /\ ToolsRun' /\ Standing'
  BY <1>1 DEF IInv, Scanned, SourceRead, ChunksRead, ToolsRun, Standing
<1>3. Requests' /\ AboutChunks' /\ Slots'
  BY <1>1, NothingAsked
<1>4. AfterVerification'
  BY <1>1 DEF AfterVerification, depth
<1> QED
  BY <1>1, <1>2, <1>3, <1>4
  DEF IInv, NotChanged, WithReview, OnReview, InBudget, AfterMerge, OnVerification

\* Cancel keeps the invariant.
LEMMA CancelHolds == IInv /\ Cancel => IInv'
<1> SUFFICES ASSUME IInv, Cancel PROVE IInv'
  OBVIOUS
<1>1. /\ at' = "cancelled"
      /\ requests' = <<>> /\ static' = <<>> /\ findings' = <<>>
      /\ tools' = [t \in DOMAIN tools |-> [state |-> "over", result |-> NoResult]]
      /\ UNCHANGED <<scan, source, chunks>>
  BY DEF Cancel
<1>2. DOMAIN tools = Tools
  BY DEF IInv, ToolsRun
<1>3. Scanned' /\ ChunksRead'
  BY <1>1 DEF IInv, Scanned, ChunksRead
<1>4. SourceRead' /\ ToolsRun'
  BY <1>1, <1>2, NoResultYet DEF SourceRead, ToolsRun
<1>5. Standing'
  <2>1. IsList(<<>>) /\ Len(<<>>) = 0 /\ Range(<<>>) = {} /\ 1..0 = {}
    BY EmptyIsList
  <2>2. DistinctIds(<<>>)
    BY <2>1 DEF DistinctIds
  <2> QED
    BY <1>1, <2>1, <2>2 DEF Standing, Stands, StaticFindings
<1>6. Requests' /\ AboutChunks' /\ Slots'
  BY <1>1, NothingAsked
<1> QED
  BY <1>1, <1>3, <1>4, <1>5, <1>6
  DEF IInv, NotChanged, WithReview, OnReview, InBudget, AfterMerge, OnVerification, AfterVerification

\* MakeReport keeps the invariant.
LEMMA MakeReportHolds == IInv /\ MakeReport => IInv'
<1> SUFFICES ASSUME IInv, MakeReport PROVE IInv'
  OBVIOUS
<1>1. /\ at = "finishing" /\ at' = "done"
      /\ UNCHANGED <<scan, source, chunks, tools, static, sources, findings, requests>>
  BY DEF MakeReport, Go
<1>2. Scanned' /\ SourceRead' /\ ChunksRead' /\ ToolsRun' /\ Standing'
  BY <1>1 DEF IInv, Scanned, SourceRead, ChunksRead, ToolsRun, Standing
<1>3. Requests' /\ AboutChunks' /\ Slots'
  BY <1>1 DEF IInv, Requests, AboutChunks, Slots, Calling
<1>4. AfterVerification'
  BY <1>1 DEF IInv, AfterVerification, From, depth
<1> QED
  BY <1>1, <1>2, <1>3, <1>4
  DEF IInv, NotChanged, WithReview, OnReview, InBudget, AfterMerge, OnVerification

\* Emit keeps the invariant.
LEMMA EmitHolds == IInv /\ Emit => IInv'
BY CoreStays DEF Emit, Core

\* Decide keeps the invariant.
LEMMA DecideHolds ==
  ASSUME IInv, NEW i, NEW status, Decide(i, status)
  PROVE  IInv'
BY CoreStays DEF Decide, Core

-----------------------------------------------------------------------------
(* Steps of the main task: the review.                                     *)

\* The functions that were measured are finitely many.
LEMMA ProjectComplex == IInv => Complex(Project.functions)
<1> SUFFICES ASSUME IInv PROVE Complex(Project.functions)
  OBVIOUS
<1> DEFINE w == [t \in Tools |-> tools[t].result.functions]
           S == {w[t] : t \in Tools}
<1>1. \A t \in Tools : Complex(w[t])
  BY DEF IInv, ToolsRun, ToolState
<1>2. Project.functions = UNION S
  BY DEF Project, Tools
<1> HIDE DEF w
<1>3. IsFiniteSet(Tools)
  <2>1. IsList(Analyzers)
    BY AnalyzerList
  <2>2. Analyzers \in Seq(Range(Analyzers))
    BY <2>1 DEF IsList
  <2>3. \A x \in Range(Analyzers) : \E i \in 1..Len(Analyzers) : Analyzers[i] = x
    BY <2>1, InRange, Zenon
  <2>4. IsFiniteSet(Range(Analyzers))
    BY <2>2, <2>3, Zenon DEF IsFiniteSet
  <2> QED
    BY <2>4 DEF Tools
<1>4. IsFiniteSet(S)
  BY <1>3, FiniteImage
<1>5. \A T \in S : IsFiniteSet(T) /\ \A f \in T : f.complexity \in Int
  BY <1>1 DEF Complex
<1> HIDE DEF S
<1>6. IsFiniteSet(UNION S)
  BY <1>4, <1>5, FS_UNION
<1> DEFINE U == UNION S
<1>7. Complex(U)
  BY <1>5, <1>6 DEF Complex
<1> HIDE DEF U
<1>8. Project.functions = U
  BY <1>2 DEF U
<1> QED
  BY <1>7, <1>8

\* The requests of a plan.
PlanRequests(review, style) ==
  [i \in DOMAIN review |-> Request("review", review[i])]
    \o [i \in DOMAIN style |-> Request("style", style[i])]

\* What the requests of a plan are: all waiting, and about chunks of the plan.
Planning(rs, review, style) ==
  /\ IsList(rs)
  /\ Asked(rs, review, style)
  /\ \A i \in 1..Len(rs) :
       /\ DOMAIN rs[i] = RequestFields
       /\ rs[i].state = "waiting" /\ rs[i].records = <<>>
       /\ rs[i].task \in {"review", "style"}
       /\ rs[i].about \in Range(review) \cup Range(style)

\* The requests of a plan: the review requests, then those about style, all waiting.
LEMMA RequestsOfPlan ==
  ASSUME NEW review, IsList(review), NEW style, IsList(style),
         NEW rs, rs = PlanRequests(review, style)
  PROVE  Planning(rs, review, style)
<1> DEFINE a == [i \in DOMAIN review |-> Request("review", review[i])]
           b == [i \in DOMAIN style |-> Request("style", style[i])]
           m == Len(review)
           n == Len(style)
<1>1. m \in Nat /\ n \in Nat /\ DOMAIN review = 1..m /\ DOMAIN style = 1..n
  BY ListElements, Zenon
<1>2. /\ a = [i \in 1..m |-> a[i]] /\ \A i \in 1..m : a[i] = Request("review", review[i])
      /\ b = [i \in 1..n |-> b[i]] /\ \A i \in 1..n : b[i] = Request("style", style[i])
  BY <1>1
<1>3. rs = a \o b
  BY DEF PlanRequests
<1> HIDE DEF a, b
<1>4. IsList(a) /\ Len(a) = m /\ IsList(b) /\ Len(b) = n
  BY <1>1, <1>2, ListByShape, Zenon
<1>5. Joins(rs, a, b)
  BY <1>3, <1>4, ConcatJoins, Zenon
<1>6. /\ IsList(rs) /\ Len(rs) = m + n
      /\ \A i \in 1..m : rs[i] = Request("review", review[i])
      /\ \A i \in 1..n : rs[m + i] = Request("style", style[i])
  BY <1>2, <1>4, <1>5 DEF Joins
<1>7. \A task, about : /\ DOMAIN Request(task, about) = RequestFields
                       /\ Request(task, about).state = "waiting"
                       /\ Request(task, about).records = <<>>
                       /\ Request(task, about).task = task
                       /\ Request(task, about).about = about
  BY DEF Request, RequestFields
<1>8. Asked(rs, review, style)
  BY <1>6, <1>7 DEF Asked
<1>9. ASSUME NEW i \in 1..Len(rs)
      PROVE  \/ \E j \in 1..m : rs[i] = Request("review", review[j])
             \/ \E j \in 1..n : rs[i] = Request("style", style[j])
  <2>1. i \in 1..m \/ (i - m \in 1..n /\ m + (i - m) = i)
    BY <1>1, <1>6
  <2>2. PICK j : j = i - m
    OBVIOUS
  <2> QED
    BY <1>6, <2>1, <2>2
<1>10. (\A j \in 1..m : review[j] \in Range(review)) /\ \A j \in 1..n : style[j] \in Range(style)
  BY InRange
<1>11. ASSUME NEW i \in 1..Len(rs)
       PROVE  /\ DOMAIN rs[i] = RequestFields
              /\ rs[i].state = "waiting" /\ rs[i].records = <<>>
              /\ rs[i].task \in {"review", "style"}
              /\ rs[i].about \in Range(review) \cup Range(style)
  BY <1>7, <1>9, <1>10
<1> QED
  BY <1>6, <1>8, <1>11 DEF Planning

\* Requests that wait are no calls.
LEMMA WaitingRequests ==
  ASSUME IsList(requests'), \A i \in 1..Len(requests') :
           DOMAIN requests'[i] = RequestFields /\ requests'[i].state = "waiting"
  PROVE  Requests' /\ Slots'
<1>1. DOMAIN requests' = 1..Len(requests')
  BY ListElements, Zenon
<1>2. Requests'
  BY DEF Requests, RequestOf
<1>3. Calling' = {}
  BY <1>1 DEF Calling
<1>4. Cardinality({}) = 0
  BY FS_EmptySet
<1>5. Slots'
  BY <1>3, <1>4, RunAssumption DEF Slots
<1> QED
  BY <1>2, <1>5

\* BeginReview keeps the invariant: the requests are those of a plan within the budget.
LEMMA BeginReviewHolds == IInv /\ BeginReview => IInv'
<1> SUFFICES ASSUME IInv, BeginReview PROVE IInv'
  OBVIOUS
<1> DEFINE review == Plan.review
           style == Plan.style
<1>1. /\ at = "analyzed" /\ at' = "reviewing" /\ depth # "static"
      /\ UNCHANGED <<scan, source, chunks, tools, static, findings>>
      /\ requests' = PlanRequests(review, style)
      /\ sources' = [f \in {c.file : c \in Range(review \o style)} |->
                       MaskLines(SecretIndex(static, Values), f, Contents[f].lines)]
  BY DEF BeginReview, Go, PlanRequests
<1>2. Planned(review, style, chunks, static, Project.functions, depth, MaxCalls)
  <2>1. IsList(chunks) /\ \A c \in Range(chunks) : ChunkOf(c)
    BY DEF IInv, ChunksRead
  <2>2. IsList(static) /\ \A f \in Range(static) : f.severity \in Int
    BY DEF IInv, Standing, Stands, StaticFindings, StaticFinding, WellFormed
  <2>3. Complex(Project.functions)
    BY ProjectComplex
  <2>4. MaxCalls \in Nat
    BY RunAssumption
  <2> QED
    BY <2>1, <2>2, <2>3, <2>4, PlannedChunks, Zenon DEF Plan
<1>3. DOMAIN sources' = {c.file : c \in Range(review \o style)}
  BY <1>1
<1> HIDE DEF review, style
<1>4. /\ IsList(review) /\ IsList(style)
      /\ \A c \in Range(review) : c \in Range(chunks)
      /\ \A c \in Range(style) : c \in Range(chunks)
  BY <1>2 DEF Planned
<1>5. /\ IsList(requests')
      /\ Asked(requests', review, style)
      /\ \A i \in 1..Len(requests') :
           /\ DOMAIN requests'[i] = RequestFields
           /\ requests'[i].state = "waiting"
           /\ requests'[i].task \in {"review", "style"}
           /\ requests'[i].about \in Range(review) \cup Range(style)
  <2>1. \A rs : rs = PlanRequests(review, style) => Planning(rs, review, style)
    BY <1>4, RequestsOfPlan, Zenon
  <2>2. Planning(requests', review, style)
    BY <1>1, <2>1, Zenon
  <2> QED
    BY <2>2, Zenon DEF Planning
<1>6. Requests' /\ Slots'
  <2>1. \A i \in 1..Len(requests') :
          DOMAIN requests'[i] = RequestFields /\ requests'[i].state = "waiting"
    BY <1>5, Zenon
  <2> QED
    BY <1>5, <2>1, WaitingRequests, Zenon
<1>7. Scanned' /\ SourceRead' /\ ChunksRead' /\ ToolsRun' /\ Standing' /\ NotChanged' /\ WithReview'
  BY <1>1 DEF IInv, Scanned, SourceRead, ChunksRead, ToolsRun, Standing, NotChanged, WithReview, depth
<1>8. AboutChunks'
  BY <1>1, <1>4, <1>5 DEF IInv, ChunksRead, AboutChunks
<1>9. OnReview'
  <2>1. Range(review \o style) = Range(review) \cup Range(style)
    BY <1>4, ConcatList, Zenon
  <2> QED
    BY <1>3, <1>5, <2>1 DEF OnReview
<1>10. InBudget'
  <2>1. Project.functions' = Project.functions /\ depth' = depth
    BY <1>1 DEF Project, depth
  <2> QED
    BY <1>1, <1>2, <1>5, <2>1 DEF InBudget
<1> QED
  BY <1>1, <1>6, <1>7, <1>8, <1>9, <1>10 DEF IInv, AfterMerge, OnVerification, AfterVerification

\* What the requests of a review result in, once they are all over.
LEMMA ResultsReviewed ==
  ASSUME IInv, at = "reviewing", AllOver
  PROVE  ReviewResults(Results, DOMAIN sources)
<1> DEFINE N == Len(requests)
<1>1. N \in Nat /\ DOMAIN requests = 1..N
  BY ListElements, Zenon DEF IInv, Requests
<1>2. Results = [i \in 1..N |-> Results[i]] /\ \A i \in 1..N : Results[i] = ResultOf(i)
  BY <1>1 DEF Results
<1>3. IsList(Results) /\ Len(Results) = N
  <2>1. PICK rs : rs = Results
    OBVIOUS
  <2> QED
    BY <1>1, <1>2, <2>1, ListByShape
<1>4. ASSUME NEW i \in 1..N
      PROVE  \E file \in DOMAIN sources : ReviewResult(ResultOf(i), i, file)
  <2> DEFINE r == requests[i]
             answer == r.reply.answer
  <2>1. r.task \in {"review", "style"} /\ r.about.file \in DOMAIN sources
    BY DEF IInv, OnReview
  <2>2. r.state = "over"
    BY <1>1 DEF AllOver
  <2>3. Answered(r)
    BY <2>1, <2>2 DEF IInv, Requests, RequestOf
  <2>4. r.about.file \in Int
    <3>1. r.about \in Range(ChunksIn(Extracted[scan.upload])) /\ scan \in Scans
      BY <2>1 DEF IInv, AboutChunks, Scanned
    <3> QED
      BY <3>1, ChunkLists DEF ChunkOf
  <2>5. CASE answer = Null
    <3>1. ResultOf(i) = NoReview
      BY <2>1, <2>5 DEF ResultOf
    <3> QED
      BY <2>1, <3>1, NothingReviewed
  <2>6. CASE answer # Null
    <3>1. ResultOf(i) = ReviewOf(answer, i, r.task, r.about, sources[r.about.file], ShownTo(r), By(r.reply))
      BY <2>1, <2>6 DEF ResultOf
    <3>2. By(r.reply) \in Models /\ AnswerOf(answer)
      BY <2>1, <2>3, <2>6, AnswerIsBy DEF Answered
    <3> HIDE DEF answer, r
    <3>3. ReviewResult(ResultOf(i), i, r.about.file)
      BY <2>4, <3>1, <3>2, ReviewedFindings, Zenon
    <3> QED
      BY <2>1, <3>3
  <2> QED
    BY <2>5, <2>6
<1> QED
  BY <1>2, <1>3, <1>4 DEF ReviewResults

\* MergeReviews keeps the invariant: no static finding is lost or lowered, and no new one.
LEMMA MergeReviewsHolds == IInv /\ MergeReviews => IInv'
<1> SUFFICES ASSUME IInv, MergeReviews PROVE IInv'
  OBVIOUS
<1> DEFINE judged == Judgements(Results)
           new == AiFindings(Results)
           merged == MergeFindings(ApplyJudgements(static, judged), new)
<1>1. /\ AllOver /\ at = "reviewing" /\ at' = "reviewed"
      /\ findings' = merged
      /\ UNCHANGED <<scan, source, chunks, tools, static, sources, requests>>
  BY DEF MergeReviews, Go
<1>2. ReviewResults(Results, DOMAIN sources)
  BY <1>1, ResultsReviewed
<1>3. NewFindings(new) /\ Judging(judged)
  BY <1>2, AllReviewed, Zenon
<1>4. StaticFindings(static)
  BY DEF IInv, Standing, Stands
<1>5. Merging(merged, static, new, Len(new))
  BY <1>3, <1>4, MergedFindings, Zenon
<1> HIDE DEF judged, merged
<1>6. Results' = Results
  BY <1>1 DEF Results, ResultOf, ShownTo
<1>7. AfterMerge'
  BY <1>1, <1>2, <1>5, <1>6 DEF AfterMerge, AllOver
<1>8. Standing'
  BY <1>1, <1>4, <1>5 DEF Standing, Stands, Merging
<1>9. Scanned' /\ SourceRead' /\ ChunksRead' /\ ToolsRun' /\ WithReview'
  BY <1>1 DEF IInv, Scanned, SourceRead, ChunksRead, ToolsRun, WithReview, depth
<1>10. Requests' /\ AboutChunks' /\ OnReview' /\ Slots'
  BY <1>1 DEF IInv, Requests, AboutChunks, OnReview, Slots, Calling
<1> QED
  BY <1>1, <1>7, <1>8, <1>9, <1>10 DEF IInv, NotChanged, InBudget, OnVerification, AfterVerification

-----------------------------------------------------------------------------
(* Steps of the main task: the verification and the summary.               *)

\* Every depth but the static one verifies findings from some severity on.
LEMMA FromWithReview ==
  ASSUME IInv, depth # "static"
  PROVE  From # NoSeverity /\ From \in Int
<1>1. depth \in DOMAIN VerifyFrom
  BY RunAssumption DEF IInv, Scanned, depth
<1> QED
  BY <1>1 DEF From, VerifyFrom, NoSeverity, Critical, High, Medium

\* BeginVerification keeps the invariant: every finding that needs it is asked about.
LEMMA BeginVerificationHolds == IInv /\ BeginVerification => IInv'
<1> SUFFICES ASSUME IInv, BeginVerification PROVE IInv'
  OBVIOUS
<1> DEFINE files == DOMAIN sources
           targets == TargetsOf(findings, From, files)
           new == AiFindings(Results)
           N == Len(targets)
<1>1. /\ at = "reviewed" /\ at' = "verifying"
      /\ requests' = [i \in DOMAIN Targets |-> Request("verify", Targets[i])]
      /\ UNCHANGED <<scan, source, chunks, tools, static, sources, findings>>
  BY DEF BeginVerification, Go
<1>2. Targets = targets
  BY DEF Targets, TargetsOf, From
<1>3. /\ ReviewResults(Results, files)
      /\ Merging(findings, static, new, Len(new))
      /\ depth # "static"
  BY <1>1 DEF IInv, AfterMerge, WithReview
<1>4. IsList(findings) /\ StaticFindings(static)
  BY DEF IInv, Standing, Stands
<1> HIDE DEF targets, files
<1>5. /\ IsList(targets)
      /\ \A y \in Range(targets) :
           \E k \in 1..Len(findings) : findings[k] = y /\ (NeedsVerification(y, From) /\ y.file \in files)
      /\ \A k \in 1..Len(findings) :
           (NeedsVerification(findings[k], From) /\ findings[k].file \in files) =>
             findings[k] \in Range(targets)
  BY <1>4, KeptTargets, Zenon DEF targets
<1>6. N \in Nat /\ DOMAIN targets = 1..N
  BY <1>5, ListElements, Zenon
<1>7. /\ requests' = [i \in 1..N |-> requests'[i]]
      /\ \A i \in 1..N : requests'[i] = Request("verify", targets[i])
  BY <1>1, <1>2, <1>6
<1>8. IsList(requests') /\ Len(requests') = N
  <2>1. PICK rs : rs = requests'
    OBVIOUS
  <2> QED
    BY <1>6, <1>7, <2>1, ListByShape, Zenon
<1>9. \A about : /\ DOMAIN Request("verify", about) = RequestFields
                 /\ Request("verify", about).state = "waiting"
                 /\ Request("verify", about).task = "verify"
                 /\ Request("verify", about).about = about
  BY DEF Request, RequestFields
<1>10. \A i \in 1..N : /\ DOMAIN requests'[i] = RequestFields
                       /\ requests'[i].state = "waiting"
                       /\ requests'[i].task = "verify"
                       /\ requests'[i].about = targets[i]
  BY <1>7, <1>9
<1>11. Requests' /\ Slots'
  BY <1>8, <1>10, WaitingRequests
<1>12. AboutChunks'
  BY <1>8, <1>10 DEF AboutChunks
<1>13. Scanned' /\ SourceRead' /\ ChunksRead' /\ ToolsRun' /\ Standing' /\ WithReview'
  BY <1>1 DEF IInv, Scanned, SourceRead, ChunksRead, ToolsRun, Standing, WithReview, depth
<1>14. \A x \in Range(findings) : (\E f \in Range(static) : Follows(x, f)) \/ ByModels(x)
  BY <1>3 DEF Merging
<1>15. ASSUME NEW x \in Range(findings), AiOnly(x)
       PROVE  ByModels(x) /\ \E k \in 1..Len(new) : x.file = new[k].file
  <2>1. ~ \E f \in Range(static) : Follows(x, f)
    BY <1>4, <1>15, FollowerIsATools DEF StaticFindings
  <2> QED
    BY <1>3, <2>1 DEF Merging
<1>16. \A i \in 1..N : targets[i] \in Range(findings) /\ AiOnly(targets[i]) /\ ByModels(targets[i])
  <2> TAKE i \in 1..N
  <2>1. targets[i] \in Range(targets)
    BY <1>5, InRange
  <2>2. PICK k \in 1..Len(findings) : findings[k] = targets[i] /\ NeedsVerification(targets[i], From)
    BY <1>5, <2>1
  <2>3. targets[i] \in Range(findings) /\ AiOnly(targets[i])
    BY <1>4, <2>2, InRange DEF NeedsVerification
  <2> QED
    BY <1>15, <2>3
<1>17. ASSUME NEW x \in Range(findings), ByModels(x), AiOnly(x), x.status = "open", x.severity >= From
       PROVE  \E i \in 1..N : targets[i] = x
  <2>1. From # NoSeverity
    BY <1>3, FromWithReview
  <2>2. x.file \in files
    <3>1. PICK k \in 1..Len(new) : x.file = new[k].file
      BY <1>15, <1>17
    <3>2. IsList(new) /\ \A y \in Range(new) : y.file \in files
      BY <1>3, AllReviewed, Zenon DEF NewFindings
    <3>3. new[k] \in Range(new)
      BY <3>2, InRange
    <3> QED
      BY <3>1, <3>2, <3>3
  <2>3. PICK k \in 1..Len(findings) : findings[k] = x
    BY <1>4, InRange
  <2>4. NeedsVerification(x, From)
    BY <1>17, <2>1 DEF NeedsVerification
  <2>5. x \in Range(targets)
    BY <1>5, <2>2, <2>3, <2>4
  <2> QED
    BY <1>5, <2>5, InRange
<1>18. OnVerification'
  <2>1. From' = From
    BY <1>1 DEF From, depth
  <2>2. \A i \in 1..Len(requests') :
           /\ requests'[i].task = "verify"
           /\ requests'[i].about \in Range(findings)
           /\ AiOnly(requests'[i].about) /\ ByModels(requests'[i].about)
    BY <1>8, <1>10, <1>16
  <2>3. \A x \in Range(findings) :
          ByModels(x) /\ AiOnly(x) /\ x.status = "open" /\ x.severity >= From =>
            \E i \in 1..Len(requests') : requests'[i].about = x
    BY <1>8, <1>10, <1>17
  <2> QED
    BY <1>1, <1>14, <2>1, <2>2, <2>3 DEF OnVerification
<1> QED
  BY <1>1, <1>11, <1>12, <1>13, <1>18
  DEF IInv, NotChanged, OnReview, InBudget, AfterMerge, AfterVerification

\* What the requests of verification result in, once they are all over: one result for
\* each finding that was asked about, by a model that did not find it.
LEMMA ResultsVerified ==
  ASSUME IInv, at = "verifying", AllOver
  PROVE  Verification(Results, findings, From)
<1> DEFINE N == Len(requests)
<1>1. N \in Nat /\ DOMAIN requests = 1..N
  BY ListElements, Zenon DEF IInv, Requests
<1>2. Results = [i \in 1..N |-> Results[i]] /\ \A i \in 1..N : Results[i] = ResultOf(i)
  BY <1>1 DEF Results
<1>3. IsList(Results) /\ Len(Results) = N
  <2>1. PICK rs : rs = Results
    OBVIOUS
  <2> QED
    BY <1>1, <1>2, <2>1, ListByShape
<1>4. ASSUME NEW i \in 1..N
      PROVE  /\ requests[i].about \in Range(findings) /\ AiOnly(requests[i].about)
             /\ ResultOf(i).id = requests[i].about.id /\ Checked(ResultOf(i), From)
  <2> DEFINE r == requests[i]
             x == r.about
             answer == r.reply.answer
  <2>1. r.task = "verify" /\ x \in Range(findings) /\ AiOnly(x) /\ ByModels(x)
    BY <1>4 DEF IInv, OnVerification
  <2>2. r.state = "over"
    BY <1>1 DEF AllOver
  <2>3. Answered(r)
    BY <2>1, <2>2 DEF IInv, Requests, RequestOf
  <2>4. CASE answer = Null
    <3>1. ResultOf(i) = NotVerified(x)
      BY <2>1, <2>4 DEF ResultOf
    <3> QED
      BY <2>1, <3>1, UnverifiedIsChecked, Zenon
  <2>5. CASE answer # Null
    <3>1. ResultOf(i) = ApplyVerdict(x, answer, By(r.reply))
      BY <2>1, <2>5 DEF ResultOf
    <3>2. VerdictOf(answer) /\ By(r.reply) \notin x.sources
      BY <2>1, <2>3, <2>5 DEF Answered
    <3> HIDE DEF answer, r
    <3>3. ByModels(x)
      BY <2>1
    <3> HIDE DEF x
    <3>4. PICK p : p = By(r.reply)
      OBVIOUS
    <3>5. Checked(ApplyVerdict(x, answer, p), From) /\ ApplyVerdict(x, answer, p).id = x.id
      BY <3>2, <3>3, <3>4, VerdictIsChecked
    <3>6. Checked(ResultOf(i), From) /\ ResultOf(i).id = x.id
      BY <3>1, <3>4, <3>5
    <3> QED
      BY <2>1, <3>6 DEF x, r
  <2> QED
    BY <2>1, <2>4, <2>5
<1>5. \A i \in 1..Len(Results) : \E x \in Range(findings) :
        AiOnly(x) /\ Results[i].id = x.id /\ Checked(Results[i], From)
  <2> TAKE i \in 1..Len(Results)
  <2>1. i \in 1..N
    BY <1>3
  <2>2. PICK r : r = ResultOf(i)
    OBVIOUS
  <2>3. Results[i] = r
    BY <1>2, <2>1, <2>2
  <2>4. requests[i].about \in Range(findings) /\ AiOnly(requests[i].about)
        /\ r.id = requests[i].about.id /\ Checked(r, From)
    BY <1>4, <2>1, <2>2
  <2> QED
    BY <2>3, <2>4
<1>6. ASSUME NEW x \in Range(findings), ByModels(x), AiOnly(x), x.status = "open", x.severity >= From
      PROVE  \E i \in 1..Len(Results) : Results[i].id = x.id
  <2>1. PICK i \in 1..N : requests[i].about = x
    BY <1>6 DEF IInv, OnVerification
  <2> QED
    BY <1>2, <1>3, <1>4, <2>1
<1> QED
  BY <1>3, <1>5, <1>6 DEF Verification

\* EndVerification keeps the invariant.
LEMMA EndVerificationHolds == IInv /\ EndVerification => IInv'
<1> SUFFICES ASSUME IInv, EndVerification PROVE IInv'
  OBVIOUS
<1> DEFINE after == [i \in DOMAIN findings |-> Updated(findings[i], Results)]
<1>1. /\ AllOver /\ at = "verifying" /\ at' = "verified"
      /\ findings' = after
      /\ UNCHANGED <<scan, source, chunks, tools, static, sources, requests>>
  BY DEF EndVerification, Go
<1>2. Verification(Results, findings, From)
  BY <1>1, ResultsVerified
<1>3. /\ Stands(findings, static)
      /\ \A x \in Range(findings) : (\E f \in Range(static) : Follows(x, f)) \/ ByModels(x)
  BY <1>1 DEF IInv, Standing, OnVerification
<1>4. Stands(after, static) /\ \A y \in Range(after) : Checked(y, From)
  BY <1>2, <1>3, VerifiedFindings, Zenon
<1> HIDE DEF after
<1>5. From' = From
  BY <1>1 DEF From, depth
<1>6. Standing' /\ AfterVerification'
  BY <1>1, <1>4, <1>5 DEF Standing, AfterVerification
<1>7. Scanned' /\ SourceRead' /\ ChunksRead' /\ ToolsRun' /\ WithReview'
  BY <1>1 DEF IInv, Scanned, SourceRead, ChunksRead, ToolsRun, WithReview, depth
<1>8. Requests' /\ AboutChunks' /\ Slots'
  BY <1>1 DEF IInv, Requests, AboutChunks, Slots, Calling
<1> QED
  BY <1>1, <1>6, <1>7, <1>8 DEF IInv, NotChanged, OnReview, InBudget, AfterMerge, OnVerification

\* BeginSummary keeps the invariant.
LEMMA BeginSummaryHolds == IInv /\ BeginSummary => IInv'
<1> SUFFICES ASSUME IInv, BeginSummary PROVE IInv'
  OBVIOUS
<1>1. /\ at = "verified" /\ at' = "summarizing"
      /\ requests' = <<Request("summarize", Null)>>
      /\ UNCHANGED <<scan, source, chunks, tools, static, sources, findings>>
  BY DEF BeginSummary, Go
<1>2. /\ DOMAIN Request("summarize", Null) = RequestFields
      /\ Request("summarize", Null).state = "waiting"
      /\ Request("summarize", Null).task = "summarize"
  BY DEF Request, RequestFields
<1>3. IsList(requests') /\ Len(requests') = 1 /\ requests'[1] = Request("summarize", Null)
  <2>1. \A x : IsList(<<x>>) /\ Len(<<x>>) = 1 /\ <<x>>[1] = x
    <3> TAKE x
    <3>1. <<x>> \in Seq({x})
      OBVIOUS
    <3> QED
      BY <3>1, SeqIsList
  <2> QED
    BY <1>1, <2>1
<1>4. \A i \in 1..Len(requests') : requests'[i] = Request("summarize", Null)
  BY <1>3
<1>5. Requests' /\ Slots'
  BY <1>2, <1>3, <1>4, WaitingRequests
<1>6. AboutChunks'
  BY <1>2, <1>4 DEF AboutChunks
<1>7. Scanned' /\ SourceRead' /\ ChunksRead' /\ ToolsRun' /\ Standing' /\ WithReview'
  BY <1>1 DEF IInv, Scanned, SourceRead, ChunksRead, ToolsRun, Standing, WithReview, depth
<1>8. AfterVerification'
  BY <1>1 DEF IInv, AfterVerification, From, depth
<1> QED
  BY <1>1, <1>5, <1>6, <1>7, <1>8 DEF IInv, NotChanged, OnReview, InBudget, AfterMerge, OnVerification

\* EndReview keeps the invariant.
LEMMA EndReviewHolds == IInv /\ EndReview => IInv'
<1> SUFFICES ASSUME IInv, EndReview PROVE IInv'
  OBVIOUS
<1> DEFINE after == Ordered(findings)
<1>1. /\ at = "summarizing" /\ at' = "finishing"
      /\ findings' = after /\ requests' = <<>>
      /\ UNCHANGED <<scan, source, chunks, tools, static, sources>>
  BY DEF EndReview, Finish, Go
<1>2. Stands(findings, static) /\ \A x \in Range(findings) : Checked(x, From)
  BY <1>1 DEF IInv, Standing, WithReview, AfterVerification
<1>3. IsList(findings) /\ DistinctIds(findings)
  BY <1>2 DEF Stands
<1>4. \A i \in 1..Len(findings) : WellFormed(findings[i])
  BY <1>2, <1>3, InRange DEF Checked
<1>5. /\ IsList(after) /\ DistinctIds(after)
      /\ \A x \in Range(after) : x \in Range(findings)
      /\ \A x \in Range(findings) : x \in Range(after)
  BY <1>3, <1>4, OrderedElements, Zenon
<1> HIDE DEF after
<1>6. Standing'
  BY <1>1, <1>2, <1>5 DEF Standing, Stands
<1>7. AfterVerification'
  BY <1>1, <1>2, <1>5 DEF AfterVerification, From, depth
<1>8. Scanned' /\ SourceRead' /\ ChunksRead' /\ ToolsRun'
  BY <1>1 DEF IInv, Scanned, SourceRead, ChunksRead, ToolsRun
<1>9. Requests' /\ AboutChunks' /\ Slots'
  BY <1>1, NothingAsked
<1> QED
  BY <1>1, <1>6, <1>7, <1>8, <1>9
  DEF IInv, NotChanged, WithReview, OnReview, InBudget, AfterMerge, OnVerification

\* Every step keeps the invariant.
LEMMA StepHolds == IInv /\ [Next]_vars => IInv'
<1> SUFFICES ASSUME IInv, [Next]_vars PROVE IInv'
  OBVIOUS
<1>1. CASE MainStep
  BY <1>1, EmitHolds, IngestHolds, PreprocessHolds, AnalyzeHolds, StaticOnlyHolds, BeginReviewHolds,
     MergeReviewsHolds, BeginVerificationHolds, EndVerificationHolds, BeginSummaryHolds,
     EndReviewHolds, MakeReportHolds DEF MainStep
<1>2. CASE \E t \in Range(Analyzers) : ToolStep(t)
  BY <1>2, StartToolHolds, EndToolHolds DEF ToolStep, Tools
<1>3. CASE AnyRequest
  BY <1>3, RequestHolds DEF AnyRequest
<1>4. CASE Cancel
  BY <1>4, CancelHolds
<1>5. CASE \E status \in ReviewerStatuses :
             at = "done" /\ \E i \in DOMAIN report.findings : Decide(i, status)
  BY <1>5, DecideHolds
<1>6. CASE UNCHANGED vars
  BY <1>6, CoreStays DEF vars, Core
<1> QED
  BY <1>1, <1>2, <1>3, <1>4, <1>5, <1>6 DEF Next

\* The inductive invariant holds throughout a scan (run_scan, ReviewSession, gather).
THEOREM Invariant == Spec => []IInv
<1> QED
  BY InitHolds, StepHolds, PTL DEF Spec

-----------------------------------------------------------------------------
(* What the invariant says of a run.                                       *)

\* The budget of planner.py and session.py, whatever the findings and the complexities that
\* the risk of a chunk is computed from: never more requests in flight than Concurrency nor
\* more review calls than MaxCalls, the riskiest chunks first, style only after all reviews.
THEOREM BudgetIsKept == Spec => []BudgetKept
<1>1. IInv => BudgetKept
  <2> SUFFICES ASSUME IInv PROVE BudgetKept
    OBVIOUS
  <2>1. Cardinality(Calling) <= Concurrency
    BY DEF IInv, Slots
  <2>2. SUFFICES ASSUME at = "reviewing"
                 PROVE  /\ Len(requests) <= MaxCalls
                        /\ \A c \in Reviews("review"), d \in Range(chunks) \ Reviews("review") :
                             Risk(c, static, Project.functions) >= Risk(d, static, Project.functions)
                        /\ Reviews("style") # {} => Reviews("review") = Range(chunks)
                        /\ Thorough(depth) /\ Len(requests) < MaxCalls => Reviews("style") = Range(chunks)
    BY <2>1 DEF BudgetKept
  <2>3. PICK review, style :
          /\ Planned(review, style, chunks, static, Project.functions, depth, MaxCalls)
          /\ Asked(requests, review, style)
    BY <2>2 DEF IInv, InBudget
  <2> DEFINE m == Len(review)
             n == Len(style)
  <2>4. /\ IsList(review) /\ IsList(style)
        /\ m \in Nat /\ n \in Nat /\ DOMAIN requests = 1..(m + n) /\ Len(requests) = m + n
    BY <2>3, ListElements DEF Planned, Asked, IInv, Requests
  <2>5. \A i \in 1..(m + n) : \/ i \in 1..m
                              \/ \E j \in 1..n : i = m + j
    <3> TAKE i \in 1..(m + n)
    <3>1. i \in 1..m \/ (i - m \in 1..n /\ i = m + (i - m))
      BY <2>4
    <3> QED
      BY <3>1
  <2>6. (\A i \in 1..m : i \in 1..(m + n)) /\ \A j \in 1..n : m + j \in 1..(m + n)
    BY <2>4
  <2> HIDE DEF m, n
  <2>7. /\ \A i \in 1..m : requests[i].task = "review" /\ requests[i].about = review[i]
        /\ \A j \in 1..n : requests[m + j].task = "style" /\ requests[m + j].about = style[j]
    BY <2>3 DEF Asked, m, n
  <2>8. /\ \A x : x \in Range(review) <=> \E i \in 1..m : review[i] = x
        /\ \A x : x \in Range(style) <=> \E j \in 1..n : style[j] = x
    BY <2>4, ListElements, Zenon DEF m, n
  <2>9. Reviews("review") = Range(review)
    <3>1. ASSUME NEW x \in Reviews("review") PROVE x \in Range(review)
      <4>1. PICK i \in 1..(m + n) : requests[i].task = "review" /\ requests[i].about = x
        BY <2>4, <3>1 DEF Reviews
      <4>2. i \in 1..m
        BY <2>5, <2>7, <4>1
      <4> QED
        BY <2>7, <2>8, <4>1, <4>2
    <3>2. ASSUME NEW x \in Range(review) PROVE x \in Reviews("review")
      <4>1. PICK i \in 1..m : review[i] = x
        BY <2>8
      <4> QED
        BY <2>4, <2>6, <2>7, <4>1 DEF Reviews
    <3> QED
      BY <3>1, <3>2
  <2>10. Reviews("style") = Range(style)
    <3>1. ASSUME NEW x \in Reviews("style") PROVE x \in Range(style)
      <4>1. PICK i \in 1..(m + n) : requests[i].task = "style" /\ requests[i].about = x
        BY <2>4, <3>1 DEF Reviews
      <4>2. PICK j \in 1..n : i = m + j
        BY <2>5, <2>7, <4>1
      <4> QED
        BY <2>7, <2>8, <4>1, <4>2
    <3>2. ASSUME NEW x \in Range(style) PROVE x \in Reviews("style")
      <4>1. PICK j \in 1..n : style[j] = x
        BY <2>8
      <4>2. PICK i \in 1..(m + n) : i = m + j
        BY <2>6
      <4>3. requests[i].task = "style" /\ requests[i].about = x
        BY <2>7, <4>1, <4>2
      <4> QED
        BY <2>4, <4>3 DEF Reviews
    <3> QED
      BY <3>1, <3>2
  <2>11. /\ Len(review) + Len(style) <= MaxCalls
         /\ \A c \in Range(review), d \in Range(chunks) \ Range(review) :
              Risk(c, static, Project.functions) >= Risk(d, static, Project.functions)
         /\ Range(style) # {} => \A c \in Range(chunks) : c \in Range(review)
         /\ Thorough(depth) /\ Len(review) + Len(style) < MaxCalls =>
              \A c \in Range(chunks) : c \in Range(style)
         /\ \A c \in Range(review) : c \in Range(chunks)
         /\ \A c \in Range(style) : c \in Range(chunks)
    BY <2>3 DEF Planned
  <2>12. Range(style) # {} => Range(review) = Range(chunks)
    BY <2>11
  <2>13. Thorough(depth) /\ Len(requests) < MaxCalls => Range(style) = Range(chunks)
    BY <2>4, <2>11 DEF m, n
  <2> QED
    BY <2>4, <2>9, <2>10, <2>11, <2>12, <2>13 DEF m, n
<1> QED
  BY <1>1, Invariant, PTL

\* However many models judge a serious security finding of a tool, or find it again, in
\* whatever order their requests end: apply_judgements and merge_findings neither dismiss it
\* nor lower its severity (merging.py).
THEOREM SeriousIsKept == Spec => []SeriousStays
<1>1. IInv => SeriousStays
  <2> SUFFICES ASSUME IInv, NEW f \in Range(static), Protected(f), NEW g \in Range(findings), g.id = f.id
               PROVE  g.severity >= f.severity /\ g.status # "dismissed_by_ai"
    BY DEF SeriousStays
  <2>1. IsList(findings) /\ DistinctIds(findings)
    BY DEF IInv, Standing, Stands
  <2>2. PICK x \in Range(findings) : Follows(x, f)
    BY DEF IInv, Standing, Stands
  <2>3. g = x
    <3>1. PICK i \in 1..Len(findings) : findings[i] = g
      BY <2>1, InRange, Zenon
    <3>2. PICK j \in 1..Len(findings) : findings[j] = x
      BY <2>1, InRange, Zenon
    <3>3. findings[i].id = findings[j].id
      BY <2>2, <3>1, <3>2 DEF Follows
    <3> QED
      BY <2>1, <3>1, <3>2, <3>3 DEF DistinctIds
  <2> QED
    BY <2>2, <2>3 DEF Follows
<1> QED
  BY <1>1, Invariant, PTL

\* What the tools reported keeps its place in the list through judging, merging and
\* verifying, and after merge_findings every accepted issue of a model has a finding that
\* stands for it (session.py, merging.py).
THEOREM NothingIsLost == Spec => []NothingLost
<1>1. IInv => NothingLost
  <2> SUFFICES ASSUME IInv PROVE NothingLost
    OBVIOUS
  <2>1. \A f \in Range(static) : \E g \in Range(findings) : g.id = f.id /\ f.sources \subseteq g.sources
    BY DEF IInv, Standing, Stands, Follows
  <2>2. ASSUME at = "reviewed", NEW new \in Range(AiFindings(Results))
        PROVE  \E g \in Range(findings) :
                 /\ SameIssue(g, new)
                 /\ new.sources \subseteq g.sources
                 /\ g.status # "dismissed_by_ai"
                 /\ AiOnly(g) => g.severity >= new.severity
    <3> DEFINE s == AiFindings(Results)
    <3>1. ReviewResults(Results, DOMAIN sources) /\ Merging(findings, static, s, Len(s))
      BY <2>2 DEF IInv, AfterMerge
    <3>2. IsList(s)
      BY <3>1, AllReviewed, Zenon DEF NewFindings
    <3> HIDE DEF s
    <3>3. PICK k \in 1..Len(s) : s[k] = new
      BY <3>2, InRange DEF s
    <3>4. PICK g \in Range(findings) : Represents(g, new)
      BY <3>1, <3>3 DEF Merging
    <3> QED
      BY <3>4 DEF Represents
  <2> QED
    BY <2>1, <2>2 DEF NothingLost
<1> QED
  BY <1>1, Invariant, PTL

\* When a scan with a review is done, no finding is verified by a model that found it, and
\* what only models found, serious and open, another has checked or could not
\* (verify in session.py): no finding slips through between planning the verification
\* and applying its results.
THEOREM IsCrossChecked == Spec => []CrossChecked
<1>1. IInv => CrossChecked
  <2> SUFFICES ASSUME IInv, at = "done", depth # "static", NEW f \in Range(findings)
               PROVE  /\ f.verified \cap f.sources = {}
                      /\ AiOnly(f) /\ f.status = "open" /\ f.severity >= VerifyFrom[depth] =>
                           f.verified # {} \/ f.note # "none"
    BY DEF CrossChecked
  <2>1. Checked(f, From)
    BY DEF IInv, AfterVerification
  <2> QED
    BY <2>1 DEF Checked, From
<1> QED
  BY <1>1, Invariant, PTL

-----------------------------------------------------------------------------
(* What the browser shows.                                                 *)

\* The fields of the store.
StoreFields == {"status", "stage", "finished", "tools", "calls", "plan", "findings", "activity"}

\* The announcement of the plan.
ReviewPlan ==
  [kind |-> "review_plan",
   plan |-> [review |-> Len(Plan.review), style |-> Len(Plan.style), skipped |-> Plan.skipped]]

\* The stages entered so far, in order.
Entered ==
  CASE at = "ingesting" -> <<"ingesting">>
    [] at = "preprocessing" -> <<"ingesting", "preprocessing">>
    [] at \in {"analyzing", "analyzed"} -> <<"ingesting", "preprocessing", "analyzing">>
    [] at \in {"reviewing", "reviewed"} -> <<"ingesting", "preprocessing", "analyzing", "reviewing">>
    [] at \in {"verifying", "verified"} ->
         <<"ingesting", "preprocessing", "analyzing", "reviewing", "verifying">>
    [] at = "summarizing" ->
         <<"ingesting", "preprocessing", "analyzing", "reviewing", "verifying", "summarizing">>
    [] OTHER -> Append(StageOrder, "done")

\* The stages that the browser shows.
ShownStages == IF browser.stage = Null THEN <<>> ELSE Append(browser.finished, browser.stage)

\* The store keeps its shape, and no more activity than it means to.
StoreShape ==
  /\ DOMAIN browser = StoreFields
  /\ IsList(browser.activity) /\ Len(browser.activity) <= ActivityLimit
  /\ IsList(browser.tools) /\ IsList(browser.calls) /\ IsList(browser.finished)

\* What the main task has still to emit, at each place.
Emitting ==
  /\ at \in Places
  /\ IsList(outbox)
  /\ at \in {"ingesting", "preprocessing", "analyzing", "verifying", "summarizing"} =>
       outbox \in {<<>>, <<Stage(at)>>}
  /\ at = "reviewing" => outbox \in {<<>>, <<ReviewPlan>>, <<Stage("reviewing"), ReviewPlan>>}
  /\ at = "finishing" => outbox \in {<<>>, <<Stage("done")>>}
  /\ at \in {"analyzed", "reviewed", "verified"} =>
       \A i \in 1..Len(outbox) : outbox[i].kind = "finding" /\ outbox[i].finding \in Range(findings)
  /\ at \in Ended => outbox = <<>>

\* Every finding is shown as it is now, or is to be emitted; nothing else is shown.
FindingsShown ==
  /\ at \in {"ingesting", "preprocessing", "analyzing", "failed"} => findings = <<>>
  /\ at # "cancelled" =>
       /\ \A x \in Range(findings) :
            \/ \E i \in 1..Len(outbox) : outbox[i].kind = "finding" /\ outbox[i].finding = x
            \/ x.id \in DOMAIN browser.findings /\ browser.findings[x.id] = x
       /\ \A id \in DOMAIN browser.findings : \E x \in Range(findings) : x.id = id

\* The session asks at the end for a summary only.
TaskKnown == at = "summarizing" => \A i \in 1..Len(requests) : requests[i].task = "summarize"

\* A finding is asked about once.
AskedOnce ==
  at = "verifying" =>
    \A i, j \in 1..Len(requests) : requests[i].about.id = requests[j].about.id => i = j

\* A request has records left exactly while it emits them; between the stages all are over.
RecordsLeft ==
  /\ \A i \in 1..Len(requests) :
       /\ requests[i].state \in {"waiting", "calling", "emitting", "over"}
       /\ IsList(requests[i].records)
       /\ requests[i].records # <<>> <=> requests[i].state = "emitting"
  /\ at \notin {"reviewing", "verifying", "summarizing"} => AllOver

\* The places of the records that are still to be emitted.
Unshown == {p \in (1..Len(requests)) \X Nat : p[2] \in 1..Len(requests[p[1]].records)}

\* Every call of the session is shown, or is among the records of a request.
CallsShown ==
  /\ IsList(calls) /\ IsFiniteSet(Unshown)
  /\ at # "cancelled" =>
       /\ Range(calls) = Range(browser.calls) \cup {requests[p[1]].records[p[2]] : p \in Unshown}
       /\ Len(calls) = Len(browser.calls) + Cardinality(Unshown)

\* Every analyzer that was started or skipped is shown, once, as it is.
ToolsShown ==
  /\ \A t \in Tools : /\ tools[t].state \in {"ready", "running", "over"}
                      /\ tools[t].state = "ready" => tools[t].result = NoResult
  /\ at \notin {"ingesting", "preprocessing", "analyzing", "failed"} =>
       \A t \in Tools : tools[t].state = "over"
  /\ \A i \in 1..Len(browser.tools) : browser.tools[i].tool \in Tools
  /\ \A i, j \in 1..Len(browser.tools) : browser.tools[i].tool = browser.tools[j].tool => i = j
  /\ at # "cancelled" =>
       /\ \A t \in Tools : tools[t].state # "ready" => \E i \in 1..Len(browser.tools) : browser.tools[i].tool = t
       /\ \A i \in 1..Len(browser.tools) :
            tools[browser.tools[i].tool].state = "over" =>
              /\ browser.tools[i].state # "started"
              /\ browser.tools[i].count = Len(tools[browser.tools[i].tool].result.findings)

\* The stages shown are those entered, but for the one that is to be announced.
StagesShown ==
  at \notin {"failed", "cancelled"} =>
    Entered = IF outbox # <<>> /\ Head(outbox).kind = "stage" THEN Append(ShownStages, Head(outbox).stage)
              ELSE ShownStages

\* The plan shown is the one that is carried out, and what it skips is counted.
PlanShown ==
  /\ DOMAIN stats = DOMAIN NoStats
  /\ at = "reviewing" /\ outbox = <<>> => browser.plan.skipped = Plan.skipped
  /\ at \in {"reviewed", "verifying", "verified", "summarizing", "finishing", "done"} /\ depth # "static" =>
       browser.plan.skipped = stats.skipped

\* What the browser shows, and what it is about to show.
View ==
  /\ StoreShape /\ Emitting /\ FindingsShown /\ AskedOnce /\ RecordsLeft /\ CallsShown
  /\ ToolsShown /\ StagesShown /\ PlanShown /\ TaskKnown

\* The kinds of the events of a scan.
EventKinds == {"stage", "tool", "review_plan", "llm_call", "finding"}

\* What one event does to the store, field by field (reduce, apply).
LEMMA Applied ==
  ASSUME NEW store, DOMAIN store = StoreFields, NEW e, e.kind \in EventKinds
  PROVE  /\ DOMAIN Apply(store, e) = StoreFields
         /\ Apply(store, e).stage = IF e.kind = "stage" THEN e.stage ELSE store.stage
         /\ Apply(store, e).finished =
              IF e.kind = "stage"
              THEN IF store.stage = Null THEN <<>> ELSE Append(store.finished, store.stage)
              ELSE store.finished
         /\ Apply(store, e).tools = IF e.kind = "tool" THEN UpsertTool(store.tools, e) ELSE store.tools
         /\ Apply(store, e).plan = IF e.kind = "review_plan" THEN e.plan ELSE store.plan
         /\ Apply(store, e).calls = IF e.kind = "llm_call" THEN Append(store.calls, e.call) ELSE store.calls
         /\ Apply(store, e).findings =
              IF e.kind = "finding" THEN WithFinding(store.findings, e.finding) ELSE store.findings
         /\ Apply(store, e).activity =
              IF Described(e) THEN Newest(Append(store.activity, e.kind), ActivityLimit) ELSE store.activity
<1> DEFINE r == Reduced(store, e)
           more == IF Described(e) THEN Newest(Append(store.activity, e.kind), ActivityLimit) ELSE store.activity
<1>1. /\ DOMAIN r = StoreFields
      /\ r.stage = IF e.kind = "stage" THEN e.stage ELSE store.stage
      /\ r.finished =
           IF e.kind = "stage"
           THEN IF store.stage = Null THEN <<>> ELSE Append(store.finished, store.stage)
           ELSE store.finished
      /\ r.tools = IF e.kind = "tool" THEN UpsertTool(store.tools, e) ELSE store.tools
      /\ r.plan = IF e.kind = "review_plan" THEN e.plan ELSE store.plan
      /\ r.calls = IF e.kind = "llm_call" THEN Append(store.calls, e.call) ELSE store.calls
      /\ r.findings = IF e.kind = "finding" THEN WithFinding(store.findings, e.finding) ELSE store.findings
      /\ r.activity = store.activity
  <2>1. CASE e.kind = "stage"
    <3> DEFINE after == IF store.stage = Null THEN <<>> ELSE Append(store.finished, store.stage)
    <3>1. r = [store EXCEPT !.stage = e.stage, !.finished = after]
      BY <2>1 DEF Reduced
    <3> HIDE DEF after, r
    <3>2. /\ DOMAIN r = StoreFields /\ r.stage = e.stage /\ r.finished = after
          /\ r.tools = store.tools /\ r.plan = store.plan /\ r.calls = store.calls
          /\ r.findings = store.findings /\ r.activity = store.activity
      BY <3>1 DEF StoreFields
    <3> QED
      BY <2>1, <3>2 DEF after
  <2>2. CASE e.kind = "tool"
    <3> DEFINE after == UpsertTool(store.tools, e)
    <3>1. r = [store EXCEPT !.tools = after]
      BY <2>2 DEF Reduced
    <3> HIDE DEF after, r
    <3>2. /\ DOMAIN r = StoreFields /\ r.tools = after
          /\ r.stage = store.stage /\ r.finished = store.finished /\ r.plan = store.plan
          /\ r.calls = store.calls /\ r.findings = store.findings /\ r.activity = store.activity
      BY <3>1 DEF StoreFields
    <3> QED
      BY <2>2, <3>2 DEF after
  <2>3. CASE e.kind = "review_plan"
    <3>1. r = [store EXCEPT !.plan = e.plan]
      BY <2>3 DEF Reduced
    <3> HIDE DEF r
    <3>2. /\ DOMAIN r = StoreFields /\ r.plan = e.plan
          /\ r.stage = store.stage /\ r.finished = store.finished /\ r.tools = store.tools
          /\ r.calls = store.calls /\ r.findings = store.findings /\ r.activity = store.activity
      BY <3>1 DEF StoreFields
    <3> QED
      BY <2>3, <3>2
  <2>4. CASE e.kind = "llm_call"
    <3> DEFINE after == Append(store.calls, e.call)
    <3>1. r = [store EXCEPT !.calls = after]
      BY <2>4 DEF Reduced
    <3> HIDE DEF after, r
    <3>2. /\ DOMAIN r = StoreFields /\ r.calls = after
          /\ r.stage = store.stage /\ r.finished = store.finished /\ r.tools = store.tools
          /\ r.plan = store.plan /\ r.findings = store.findings /\ r.activity = store.activity
      BY <3>1 DEF StoreFields
    <3> QED
      BY <2>4, <3>2 DEF after
  <2>5. CASE e.kind = "finding"
    <3> DEFINE after == WithFinding(store.findings, e.finding)
    <3>1. r = [store EXCEPT !.findings = after]
      BY <2>5 DEF Reduced
    <3> HIDE DEF after, r
    <3>2. /\ DOMAIN r = StoreFields /\ r.findings = after
          /\ r.stage = store.stage /\ r.finished = store.finished /\ r.tools = store.tools
          /\ r.plan = store.plan /\ r.calls = store.calls /\ r.activity = store.activity
      BY <3>1 DEF StoreFields
    <3> QED
      BY <2>5, <3>2 DEF after
  <2> QED
    BY <2>1, <2>2, <2>3, <2>4, <2>5 DEF EventKinds
<1> HIDE DEF r
<1>2. Apply(store, e) = [r EXCEPT !.activity = more]
  BY <1>1 DEF Apply, r
<1> HIDE DEF more
<1>3. /\ DOMAIN Apply(store, e) = DOMAIN r
      /\ Apply(store, e).activity = more
      /\ Apply(store, e).stage = r.stage /\ Apply(store, e).finished = r.finished
      /\ Apply(store, e).tools = r.tools /\ Apply(store, e).plan = r.plan
      /\ Apply(store, e).calls = r.calls /\ Apply(store, e).findings = r.findings
  BY <1>1, <1>2 DEF StoreFields
<1> QED
  BY <1>1, <1>3, Zenon DEF more

\* The newest entries are a list, no longer than it may be.
LEMMA NewestFew ==
  ASSUME NEW s, IsList(s), NEW n \in Nat
  PROVE  IsList(Newest(s, n)) /\ Len(Newest(s, n)) <= n
<1> DEFINE L == Len(s)
           t == SubSeq(s, L - n + 1, L)
<1>1. L \in Nat /\ s = [i \in 1..L |-> s[i]] /\ s \in Seq(Range(s))
  BY ListElements DEF IsList
<1>2. CASE L > n
  <2>1. Newest(s, n) = t
    BY <1>2 DEF Newest
  <2>2. /\ L - (L - n + 1) + 1 = n
        /\ \A i \in 1..n : i + (L - n + 1) - 1 \in 1..L
    BY <1>1, <1>2
  <2>3. t \in Seq(Range(s)) /\ Len(t) = n
    BY <1>1, <1>2, <2>2
  <2> HIDE DEF t
  <2>4. IsList(t)
    BY <2>3, SeqIsList, Zenon
  <2> QED
    BY <2>1, <2>3, <2>4
<1>3. CASE ~ (L > n)
  BY <1>1, <1>3 DEF Newest
<1> QED
  BY <1>2, <1>3

\* One line for every tool.
OneEach(s) == \A i, j \in 1..Len(s) : s[i].tool = s[j].tool => i = j

\* The lines after an event of a tool: that of the event, and those of the other tools.
LineReplaced(after, s, e) ==
  /\ \E i \in 1..Len(after) : after[i] = e
  /\ \A i \in 1..Len(after) : after[i] = e \/ \E j \in 1..Len(s) : after[i] = s[j] /\ s[j].tool # e.tool
  /\ \A j \in 1..Len(s) : s[j].tool = e.tool \/ \E i \in 1..Len(after) : after[i] = s[j]

\* A tool's line is replaced, or is new; every tool keeps its one line.
LEMMA Upserted ==
  ASSUME NEW s, IsList(s), OneEach(s), NEW e, NEW after, after = UpsertTool(s, e)
  PROVE  IsList(after) /\ OneEach(after) /\ LineReplaced(after, s, e)
<1> DEFINE N == Len(s)
<1>1. N \in Nat /\ DOMAIN s = 1..N /\ s = [i \in 1..N |-> s[i]]
  BY ListElements
<1>2. CASE ToolAt(s, e) = {}
  <2>1. after = Append(s, e)
    BY <1>2 DEF UpsertTool
  <2>2. \A j \in 1..N : s[j].tool # e.tool
    BY <1>1, <1>2 DEF ToolAt
  <2>3. /\ IsList(after) /\ Len(after) = N + 1
        /\ \A i \in 1..N : after[i] = s[i]
        /\ after[N + 1] = e
    BY <2>1, AppendList
  <2>4. \A i \in 1..(N + 1) : i \in 1..N \/ i = N + 1
    BY <1>1
  <2>5. N + 1 \in 1..(N + 1) /\ \A i \in 1..N : i \in 1..(N + 1)
    BY <1>1
  <2> HIDE DEF N
  <2>6. \A i, j \in 1..Len(after) : after[i].tool = after[j].tool => i = j
    BY <2>2, <2>3, <2>4, <2>5 DEF N, OneEach
  <2> QED
    BY <2>2, <2>3, <2>4, <2>5, <2>6 DEF N, OneEach, LineReplaced
<1>3. CASE ToolAt(s, e) # {}
  <2> DEFINE k == CHOOSE i \in ToolAt(s, e) : TRUE
  <2>1. k \in 1..N /\ s[k].tool = e.tool
    BY <1>1, <1>3 DEF ToolAt
  <2>2. after = [s EXCEPT ![k] = e]
    BY <1>3 DEF UpsertTool
  <2> HIDE DEF k
  <2>3. after = [i \in 1..N |-> after[i]] /\ \A i \in 1..N : after[i] = IF i = k THEN e ELSE s[i]
    BY <1>1, <2>2
  <2>4. IsList(after) /\ Len(after) = N
    BY <1>1, <2>3, ListByShape, Zenon
  <2> QED
    BY <1>1, <2>1, <2>3, <2>4 DEF OneEach, LineReplaced
<1> QED
  BY <1>2, <1>3

-----------------------------------------------------------------------------
(* Steps of the view: the main task emits an event.                        *)

\* Every event of the outbox is an event.
LEMMA OutboxKinds ==
  ASSUME Emitting
  PROVE  \A i \in 1..Len(outbox) : outbox[i].kind \in {"stage", "review_plan", "finding"}
<1>1. \A s : Stage(s).kind = "stage"
  BY DEF Stage
<1>2. ReviewPlan.kind = "review_plan"
  BY DEF ReviewPlan
<1>3. outbox = <<>> => 1..Len(outbox) = {}
  BY EmptyIsList
<1>4. ASSUME NEW x, outbox = <<x>>, x.kind \in {"stage", "review_plan"}
      PROVE  \A i \in 1..Len(outbox) : outbox[i].kind \in {"stage", "review_plan", "finding"}
  BY <1>4
<1>5. ASSUME outbox = <<Stage("reviewing"), ReviewPlan>>
      PROVE  \A i \in 1..Len(outbox) : outbox[i].kind \in {"stage", "review_plan", "finding"}
  BY <1>1, <1>2, <1>5
<1> QED
  BY <1>1, <1>2, <1>3, <1>4, <1>5 DEF Emitting, Places, Ended

\* What is left of a list without its first element.
LEMMA TailOfList ==
  ASSUME NEW s, IsList(s), s # <<>>
  PROVE  /\ Len(s) \in Nat /\ Len(s) > 0 /\ Head(s) = s[1]
         /\ IsList(Tail(s)) /\ Len(Tail(s)) = Len(s) - 1
         /\ \A i \in 1..Len(Tail(s)) : Tail(s)[i] = s[i + 1]
<1>1. s \in Seq(Range(s))
  BY DEF IsList
<1>2. Len(s) \in Nat /\ Len(s) > 0 /\ Head(s) = s[1]
  BY <1>1
<1> DEFINE t == Tail(s)
<1>3. t \in Seq(Range(s)) /\ Len(t) = Len(s) - 1 /\ \A i \in 1..Len(t) : t[i] = s[i + 1]
  BY <1>1
<1> HIDE DEF t
<1>4. IsList(t)
  BY <1>3, SeqIsList, Zenon
<1> QED
  BY <1>2, <1>3, <1>4 DEF t

\* The step Emit: the first event goes from the outbox to the store.
LEMMA EmitOne ==
  ASSUME Emitting, Emit
  PROVE  /\ outbox # <<>> /\ IsList(outbox)
         /\ Len(outbox) \in Nat /\ Len(outbox) > 0 /\ Head(outbox) = outbox[1]
         /\ IsList(outbox') /\ Len(outbox') = Len(outbox) - 1
         /\ \A i \in 1..Len(outbox') : outbox'[i] = outbox[i + 1]
         /\ Head(outbox).kind \in {"stage", "review_plan", "finding"}
         /\ browser' = Apply(browser, Head(outbox))
<1>1. outbox # <<>> /\ IsList(outbox) /\ outbox' = Tail(outbox)
  BY DEF Emit, Emitting
<1>2. /\ Len(outbox) \in Nat /\ Len(outbox) > 0 /\ Head(outbox) = outbox[1]
      /\ IsList(outbox') /\ Len(outbox') = Len(outbox) - 1
      /\ \A i \in 1..Len(outbox') : outbox'[i] = outbox[i + 1]
  BY <1>1, TailOfList
<1>3. Head(outbox).kind \in {"stage", "review_plan", "finding"}
  <2>1. 1 \in 1..Len(outbox)
    BY <1>2
  <2> QED
    BY <1>2, <2>1, OutboxKinds
<1> QED
  BY <1>1, <1>2, <1>3 DEF Emit

\* Whatever event comes, the store keeps its shape.
LEMMA ShapeStays ==
  ASSUME StoreShape, ToolsShown, NEW e, e.kind \in EventKinds, browser' = Apply(browser, e)
  PROVE  StoreShape'
<1>1. DOMAIN browser = StoreFields /\ IsList(browser.activity) /\ Len(browser.activity) <= ActivityLimit
  BY DEF StoreShape
<1>2. /\ DOMAIN browser' = StoreFields
      /\ browser'.tools = IF e.kind = "tool" THEN UpsertTool(browser.tools, e) ELSE browser.tools
      /\ browser'.calls = IF e.kind = "llm_call" THEN Append(browser.calls, e.call) ELSE browser.calls
      /\ browser'.finished =
           IF e.kind = "stage"
           THEN IF browser.stage = Null THEN <<>> ELSE Append(browser.finished, browser.stage)
           ELSE browser.finished
      /\ browser'.activity =
           IF Described(e) THEN Newest(Append(browser.activity, e.kind), ActivityLimit) ELSE browser.activity
  BY <1>1, Applied
<1>3. IsList(browser'.activity) /\ Len(browser'.activity) <= ActivityLimit
  <2>1. CASE Described(e)
    <3>1. IsList(Append(browser.activity, e.kind))
      BY <1>1, AppendList
    <3> QED
      BY <1>2, <2>1, <3>1, NewestFew, StoreAssumption, Zenon
  <2>2. CASE ~ Described(e)
    BY <1>1, <1>2, <2>2
  <2> QED
    BY <2>1, <2>2
<1>4. IsList(browser'.tools)
  <2>1. IsList(browser.tools) /\ OneEach(browser.tools)
    BY DEF StoreShape, ToolsShown, OneEach
  <2>2. IsList(UpsertTool(browser.tools, e))
    BY <2>1, Upserted, Zenon
  <2> QED
    BY <1>2, <2>1, <2>2
<1>5. IsList(browser'.calls)
  <2>1. IsList(browser.calls) /\ IsList(Append(browser.calls, e.call))
    BY AppendList DEF StoreShape
  <2> QED
    BY <1>2, <2>1
<1>6. IsList(browser'.finished)
  <2>1. IsList(browser.finished) /\ IsList(Append(browser.finished, browser.stage))
    BY AppendList DEF StoreShape
  <2> QED
    BY <1>2, <2>1, EmptyIsList
<1> QED
  BY <1>2, <1>3, <1>4, <1>5, <1>6 DEF StoreShape

\* A finding that is emitted is shown, and no other finding is hidden.
LEMMA EmitFindings ==
  ASSUME IInv, StoreShape, Emitting, FindingsShown, Emit
  PROVE  FindingsShown'
<1> DEFINE e == Head(outbox)
           shown == browser.findings
<1>1. /\ outbox # <<>> /\ Len(outbox) \in Nat /\ Len(outbox) > 0 /\ e = outbox[1]
      /\ Len(outbox') = Len(outbox) - 1
      /\ \A i \in 1..Len(outbox') : outbox'[i] = outbox[i + 1]
      /\ e.kind \in EventKinds
      /\ browser' = Apply(browser, e)
  BY EmitOne DEF EventKinds
<1>2. UNCHANGED <<at, findings>>
  BY DEF Emit
<1>3. browser'.findings = IF e.kind = "finding" THEN WithFinding(shown, e.finding) ELSE shown
  BY <1>1, Applied DEF StoreShape
<1>4. ASSUME NEW i \in 1..Len(outbox), i # 1
      PROVE  i - 1 \in 1..Len(outbox') /\ outbox'[i - 1] = outbox[i]
  BY <1>1, <1>4
<1>5. CASE e.kind # "finding"
  <2>1. browser'.findings = shown
    BY <1>3, <1>5
  <2>2. \A i \in 1..Len(outbox) : outbox[i].kind = "finding" => i # 1
    BY <1>1, <1>5
  <2> HIDE DEF e
  <2>3. ASSUME NEW x \in Range(findings), at # "cancelled"
        PROVE  \/ \E i \in 1..Len(outbox') : outbox'[i].kind = "finding" /\ outbox'[i].finding = x
               \/ x.id \in DOMAIN browser'.findings /\ browser'.findings[x.id] = x
    <3>1. CASE \E i \in 1..Len(outbox) : outbox[i].kind = "finding" /\ outbox[i].finding = x
      <4>1. PICK i \in 1..Len(outbox) : outbox[i].kind = "finding" /\ outbox[i].finding = x
        BY <3>1
      <4> QED
        BY <1>4, <2>2, <4>1
    <3> QED
      BY <2>1, <2>3, <3>1 DEF FindingsShown
  <2> QED
    BY <1>2, <2>1, <2>3 DEF FindingsShown
<1>6. CASE e.kind = "finding"
  <2> DEFINE y == e.finding
  <2>1. y \in Range(findings)
    <3>1. \A s : Stage(s).kind # "finding"
      BY DEF Stage
    <3>2. ReviewPlan.kind # "finding"
      BY DEF ReviewPlan
    <3>3. at \in {"analyzed", "reviewed", "verified"}
      BY <1>1, <1>6, <3>1, <3>2 DEF Emitting, Places, Ended
    <3>4. 1 \in 1..Len(outbox)
      BY <1>1
    <3> QED
      BY <1>1, <3>3, <3>4 DEF Emitting
  <2>2. /\ DOMAIN browser'.findings = DOMAIN shown \cup {y.id}
        /\ browser'.findings[y.id] = y
        /\ \A id \in DOMAIN shown : id # y.id => browser'.findings[id] = shown[id]
    BY <1>3, <1>6 DEF WithFinding
  <2> HIDE DEF y
  <2>3. ASSUME NEW x \in Range(findings), x.id = y.id PROVE x = y
    <3>1. IsList(findings) /\ DistinctIds(findings)
      BY DEF IInv, Standing, Stands
    <3>2. PICK i \in 1..Len(findings) : findings[i] = x
      BY <3>1, InRange
    <3>3. PICK j \in 1..Len(findings) : findings[j] = y
      BY <2>1, <3>1, InRange
    <3> QED
      BY <2>3, <3>1, <3>2, <3>3 DEF DistinctIds
  <2>4. ASSUME NEW x \in Range(findings), at # "cancelled"
        PROVE  \/ \E i \in 1..Len(outbox') : outbox'[i].kind = "finding" /\ outbox'[i].finding = x
               \/ x.id \in DOMAIN browser'.findings /\ browser'.findings[x.id] = x
    <3>1. CASE x = y
      BY <2>2, <3>1
    <3>2. CASE x # y /\ x.id \in DOMAIN shown /\ shown[x.id] = x
      BY <2>2, <2>3, <3>2
    <3>3. CASE x # y /\ \E i \in 1..Len(outbox) : outbox[i].kind = "finding" /\ outbox[i].finding = x
      <4>1. PICK i \in 1..Len(outbox) : outbox[i].kind = "finding" /\ outbox[i].finding = x
        BY <3>3
      <4>2. i # 1
        BY <1>1, <3>3, <4>1 DEF y
      <4> QED
        BY <1>4, <4>1, <4>2
    <3> QED
      BY <2>4, <3>1, <3>2, <3>3 DEF FindingsShown
  <2>5. ASSUME at # "cancelled", NEW id \in DOMAIN browser'.findings
        PROVE  \E x \in Range(findings) : x.id = id
    BY <2>1, <2>2, <2>5 DEF FindingsShown
  <2> QED
    BY <1>2, <2>4, <2>5 DEF FindingsShown
<1> QED
  BY <1>5, <1>6

\* A step that neither emits nor announces leaves what is shown as it is.
LEMMA ViewStays ==
  ASSUME View, UNCHANGED <<at, outbox, tools, findings, requests, stats, calls, browser>>,
         Plan' = Plan, depth' = depth
  PROVE  View'
<1>1. StoreShape' /\ AskedOnce' /\ TaskKnown' /\ RecordsLeft' /\ ToolsShown' /\ PlanShown'
  BY DEF View, StoreShape, AskedOnce, TaskKnown, RecordsLeft, AllOver, ToolsShown, PlanShown
<1>2. Emitting' /\ FindingsShown'
  BY DEF View, Emitting, ReviewPlan, FindingsShown
<1>3. CallsShown'
  <2>1. Unshown' = Unshown
    BY DEF Unshown
  <2> QED
    BY <2>1 DEF View, CallsShown
<1>4. StagesShown'
  <2>1. Entered' = Entered /\ ShownStages' = ShownStages
    BY DEF Entered, StageOrder, ShownStages
  <2> QED
    BY <2>1 DEF View, StagesShown
<1> QED
  BY <1>1, <1>2, <1>3, <1>4 DEF View

\* Emit keeps the view.
LEMMA EmitViews == IInv /\ View /\ Emit => View'
<1> SUFFICES ASSUME IInv, View, Emit PROVE View'
  OBVIOUS
<1> DEFINE e == Head(outbox)
<1>1. /\ outbox # <<>> /\ IsList(outbox) /\ Len(outbox) \in Nat /\ Len(outbox) > 0 /\ e = outbox[1]
      /\ IsList(outbox') /\ Len(outbox') = Len(outbox) - 1
      /\ \A i \in 1..Len(outbox') : outbox'[i] = outbox[i + 1]
      /\ e.kind \in {"stage", "review_plan", "finding"} /\ e.kind \in EventKinds
      /\ browser' = Apply(browser, e)
  BY EmitOne DEF EventKinds, View
<1>2. UNCHANGED <<scan, source, chunks, at, tools, static, sources, findings, requests, stats, calls, report>>
      /\ outbox' = Tail(outbox)
  BY DEF Emit
<1>3. Plan' = Plan /\ depth' = depth /\ Entered' = Entered /\ ReviewPlan' = ReviewPlan
  BY <1>2 DEF Plan, Project, depth, Entered, StageOrder, ReviewPlan
<1>4. StoreShape' /\ FindingsShown'
  BY <1>1, ShapeStays, EmitFindings DEF View
<1>5. AskedOnce' /\ TaskKnown' /\ RecordsLeft'
  BY <1>2 DEF View, AskedOnce, TaskKnown, RecordsLeft, AllOver
<1>6. /\ browser'.stage = IF e.kind = "stage" THEN e.stage ELSE browser.stage
      /\ browser'.finished =
           IF e.kind = "stage"
           THEN IF browser.stage = Null THEN <<>> ELSE Append(browser.finished, browser.stage)
           ELSE browser.finished
      /\ browser'.plan = IF e.kind = "review_plan" THEN e.plan ELSE browser.plan
      /\ browser'.tools = browser.tools
      /\ browser'.calls = browser.calls
  BY <1>1, Applied DEF View, StoreShape
<1>7. ToolsShown'
  BY <1>2, <1>6 DEF View, ToolsShown
<1>8. CallsShown'
  <2>1. Unshown' = Unshown
    BY <1>2 DEF Unshown
  <2> QED
    BY <1>2, <1>6, <2>1 DEF View, CallsShown
<1> DEFINE a == <<Stage("reviewing"), ReviewPlan>>
           b == <<ReviewPlan>>
<1>9. /\ \A x : Tail(<<x>>) = <<>> /\ Head(<<x>>) = x
      /\ Head(a) = Stage("reviewing") /\ Tail(a) = b
  OBVIOUS
<1>10. \A s : Stage(s).kind = "stage" /\ Stage(s).stage = s
  BY DEF Stage
<1>11. ReviewPlan.kind = "review_plan" /\ ReviewPlan.plan.skipped = Plan.skipped
  BY DEF ReviewPlan
<1>12. /\ at \in {"ingesting", "preprocessing", "analyzing", "verifying", "summarizing"} =>
            e = Stage(at) /\ outbox' = <<>>
       /\ at = "finishing" => e = Stage("done") /\ outbox' = <<>>
       /\ at = "reviewing" => \/ e = ReviewPlan /\ outbox' = <<>>
                              \/ e = Stage("reviewing") /\ outbox' = b
       /\ at \notin Ended
  <2> HIDE DEF a, b
  <2>1. /\ at \in {"ingesting", "preprocessing", "analyzing", "verifying", "summarizing"} => outbox = <<Stage(at)>>
        /\ at = "finishing" => outbox = <<Stage("done")>>
        /\ at = "reviewing" => outbox = b \/ outbox = a
        /\ at \notin Ended
    BY <1>1 DEF View, Emitting, a, b
  <2> QED
    BY <1>2, <1>9, <2>1 DEF b
<1>13. Emitting'
  <2> HIDE DEF e
  <2>1. ASSUME at \in {"analyzed", "reviewed", "verified"}
        PROVE  \A i \in 1..Len(outbox') : outbox'[i].kind = "finding" /\ outbox'[i].finding \in Range(findings)
    <3>1. \A i \in 1..Len(outbox') : i + 1 \in 1..Len(outbox)
      BY <1>1
    <3> QED
      BY <1>1, <2>1, <3>1 DEF View, Emitting
  <2>2. at \in Places
    BY DEF View, Emitting
  <2> QED
    BY <1>1, <1>2, <1>3, <1>12, <2>1, <2>2 DEF Emitting, b
<1>14. PlanShown'
  <2>1. at = "reviewing" /\ outbox' = <<>> => browser'.plan.skipped = Plan.skipped
    <3>1. b # <<>>
      OBVIOUS
    <3> HIDE DEF b, e
    <3>2. at = "reviewing" /\ outbox' = <<>> => e = ReviewPlan
      BY <1>12, <3>1
    <3> QED
      BY <1>6, <1>11, <3>2
  <2>2. at # "reviewing" => browser'.plan = browser.plan
    <3>1. e.kind = "review_plan" => at = "reviewing"
      <4>1. at \in {"analyzed", "reviewed", "verified"} => e.kind = "finding"
        <5>1. 1 \in 1..Len(outbox)
          BY <1>1
        <5> QED
          BY <1>1, <5>1 DEF View, Emitting
      <4> HIDE DEF e
      <4> QED
        BY <1>10, <1>12, <4>1 DEF View, Emitting, Places, Ended
    <3> HIDE DEF e
    <3> QED
      BY <1>6, <3>1
  <2> HIDE DEF e
  <2> QED
    BY <1>2, <1>3, <2>1, <2>2 DEF View, PlanShown
<1>15. StagesShown'
  <2>1. ASSUME at \notin {"failed", "cancelled"} PROVE Entered = ShownStages'
    <3>1. Entered = IF e.kind = "stage" THEN Append(ShownStages, e.stage) ELSE ShownStages
      BY <1>1, <2>1 DEF View, StagesShown
    <3>2. e.kind = "stage" => e.stage \in ScanStage
      <4>1. at \in {"analyzed", "reviewed", "verified"} => e.kind = "finding"
        <5>1. 1 \in 1..Len(outbox)
          BY <1>1
        <5> QED
          BY <1>1, <5>1 DEF View, Emitting
      <4> HIDE DEF e
      <4> QED
        BY <1>10, <1>11, <1>12, <4>1 DEF View, Emitting, Places, Ended, ScanStage
    <3> HIDE DEF e
    <3>3. CASE e.kind = "stage"
      <4>1. browser'.stage # Null /\ browser'.finished = ShownStages
        BY <1>6, <3>2, <3>3, StoreAssumption DEF ShownStages
      <4> QED
        BY <1>6, <3>1, <3>3, <4>1 DEF ShownStages
    <3>4. CASE e.kind # "stage"
      BY <1>6, <3>1, <3>4 DEF ShownStages
    <3> QED
      BY <3>3, <3>4
  <2>2. ASSUME outbox' # <<>> PROVE Head(outbox').kind # "stage"
    <3>1. /\ Len(outbox') > 0 /\ Head(outbox') = outbox'[1]
      BY <1>1, <2>2, TailOfList
    <3>2. CASE at \in {"analyzed", "reviewed", "verified"}
      <4>1. 2 \in 1..Len(outbox) /\ outbox'[1] = outbox[2]
        BY <1>1, <3>1
      <4>2. outbox[2].kind = "finding"
        BY <3>2, <4>1 DEF View, Emitting
      <4> QED
        BY <3>1, <4>1, <4>2
    <3>3. CASE at \notin {"analyzed", "reviewed", "verified"}
      <4> HIDE DEF e
      <4>1. outbox' = b
        BY <1>12, <2>2, <3>3 DEF View, Emitting, Places, Ended
      <4>2. Head(outbox') = ReviewPlan
        BY <1>9, <4>1 DEF b
      <4> QED
        BY <1>11, <4>2
    <3> QED
      BY <3>2, <3>3
  <2> QED
    BY <1>2, <1>3, <2>1, <2>2 DEF StagesShown
<1> QED
  BY <1>4, <1>5, <1>7, <1>8, <1>13, <1>14, <1>15 DEF View

-----------------------------------------------------------------------------
(* Steps of the view: requests and analyzers.                              *)

\* A request without records has none to emit.
LEMMA NoneLeft ==
  ASSUME \A i \in 1..Len(requests) : requests[i].records = <<>>
  PROVE  Unshown = {}
<1>1. Len(<<>>) = 0 /\ 1..0 = {}
  BY EmptyIsList
<1> QED
  BY <1>1 DEF Unshown

\* A request that has changed at one place.
LEMMA OneRequest ==
  ASSUME IInv, NEW i \in DOMAIN requests, NEW q, requests' = [requests EXCEPT ![i] = q]
  PROVE  /\ Len(requests) \in Nat /\ i \in 1..Len(requests)
         /\ IsList(requests') /\ Len(requests') = Len(requests)
         /\ requests'[i] = q
         /\ \A j \in 1..Len(requests) : j # i => requests'[j] = requests[j]
<1> DEFINE N == Len(requests)
<1>1. N \in Nat /\ DOMAIN requests = 1..N /\ requests = [j \in 1..N |-> requests[j]]
  BY ListElements DEF IInv, Requests
<1>2. requests' = [j \in 1..N |-> requests'[j]] /\ \A j \in 1..N : requests'[j] = IF j = i THEN q ELSE requests[j]
  BY <1>1
<1>3. IsList(requests') /\ Len(requests') = N
  BY <1>1, <1>2, ListByShape, Zenon
<1> QED
  BY <1>1, <1>2, <1>3

\* A request that steps is in a stage of the session, and keeps what it is about.
LEMMA RequestInStage ==
  ASSUME IInv, View, NEW i \in DOMAIN requests, RequestStep(i)
  PROVE  /\ at \in {"reviewing", "verifying", "summarizing"}
         /\ Plan' = Plan /\ depth' = depth /\ AskedOnce' /\ TaskKnown'
         /\ UNCHANGED <<at, outbox, tools, findings, stats>>
<1>1. UNCHANGED <<scan, source, chunks, at, outbox, tools, static, sources, findings, stats, report>>
  BY DEF RequestStep, StartRequest, EndRequest, EmitCall
<1>2. requests[i].state # "over"
  BY DEF RequestStep, StartRequest, EndRequest, EmitCall
<1>3. at \in {"reviewing", "verifying", "summarizing"}
  BY <1>2 DEF View, RecordsLeft, AllOver
<1>4. AskedOnce' /\ TaskKnown'
  <2>1. Scanned /\ AboutChunks /\ Requests
    BY DEF IInv
  <2>2. Len(requests') = Len(requests) /\ \A j \in 1..Len(requests) : Continues(requests'[j], requests[j])
    BY <2>1, RequestStepContinues
  <2> QED
    BY <1>1, <2>2 DEF View, AskedOnce, TaskKnown, Continues
<1> QED
  BY <1>1, <1>3, <1>4 DEF Plan, Project, depth

\* Whatever a request does, what the browser shows of findings, stages and the plan stays.
LEMMA RequestViews ==
  ASSUME IInv, View, NEW i \in DOMAIN requests, RequestStep(i),
         UNCHANGED <<browser.findings, browser.stage, browser.finished, browser.plan, browser.tools>>
  PROVE  Emitting' /\ FindingsShown' /\ AskedOnce' /\ TaskKnown' /\ ToolsShown' /\ StagesShown' /\ PlanShown'
<1>1. /\ at \in {"reviewing", "verifying", "summarizing"}
      /\ Plan' = Plan /\ depth' = depth /\ AskedOnce' /\ TaskKnown'
      /\ UNCHANGED <<at, outbox, tools, findings, stats>>
  BY RequestInStage
<1>2. Emitting' /\ FindingsShown'
  BY <1>1 DEF View, Emitting, ReviewPlan, FindingsShown
<1>3. ToolsShown' /\ PlanShown'
  BY <1>1 DEF View, ToolsShown, PlanShown
<1>4. StagesShown'
  <2>1. Entered' = Entered /\ ShownStages' = ShownStages
    BY <1>1 DEF Entered, StageOrder, ShownStages
  <2> QED
    BY <1>1, <2>1 DEF View, StagesShown
<1> QED
  BY <1>1, <1>2, <1>3, <1>4

\* A request that gets its slot keeps the view.
LEMMA StartRequestViews ==
  ASSUME IInv, View, NEW i \in DOMAIN requests, StartRequest(i)
  PROVE  View'
<1> DEFINE r == requests[i]
           q == [r EXCEPT !.state = "calling"]
<1>1. requests' = [requests EXCEPT ![i] = q] /\ r.state = "waiting" /\ UNCHANGED <<browser, calls>>
  BY DEF StartRequest
<1>2. /\ Len(requests) \in Nat /\ i \in 1..Len(requests)
      /\ Len(requests') = Len(requests)
      /\ requests'[i] = q
      /\ \A j \in 1..Len(requests) : j # i => requests'[j] = requests[j]
  BY <1>1, OneRequest
<1>3. DOMAIN r = RequestFields
  BY <1>2 DEF IInv, Requests, RequestOf
<1>4. q.state = "calling" /\ q.records = r.records
  BY <1>3 DEF RequestFields
<1> HIDE DEF q
<1>5. \A j \in 1..Len(requests) : requests'[j].records = requests[j].records
  BY <1>2, <1>4
<1>6. Emitting' /\ FindingsShown' /\ AskedOnce' /\ TaskKnown' /\ ToolsShown' /\ StagesShown' /\ PlanShown'
  BY <1>1, RequestViews DEF RequestStep
<1>7. at \in {"reviewing", "verifying", "summarizing"} /\ UNCHANGED at
  BY RequestInStage DEF RequestStep
<1>8. RecordsLeft'
  <2>1. r.records # <<>> <=> r.state = "emitting"
    BY <1>2 DEF View, RecordsLeft
  <2> QED
    BY <1>1, <1>2, <1>4, <1>5, <1>7, <2>1 DEF View, RecordsLeft
<1>9. CallsShown'
  <2>1. Unshown' = Unshown
    BY <1>2, <1>5 DEF Unshown
  <2>2. \A p \in Unshown : requests'[p[1]].records = requests[p[1]].records
    BY <1>5 DEF Unshown
  <2>3. {requests'[p[1]].records[p[2]] : p \in Unshown'} = {requests[p[1]].records[p[2]] : p \in Unshown}
    BY <2>1, <2>2
  <2> QED
    BY <1>1, <1>7, <2>1, <2>3 DEF View, CallsShown
<1>10. StoreShape'
  BY <1>1 DEF View, StoreShape
<1> QED
  BY <1>6, <1>8, <1>9, <1>10 DEF View

\* So many places of one request.
LEMMA PlacesOfOne ==
  ASSUME NEW i, NEW K \in Nat, NEW S, S = {<<i, n>> : n \in 1..K}
  PROVE  IsFiniteSet(S) /\ Cardinality(S) = K
<1> DEFINE f == [n \in 1..K |-> <<i, n>>]
<1>1. f \in Bijection(1..K, S)
  <2>1. f \in [1..K -> S]
    OBVIOUS
  <2>2. \A m, n \in 1..K : f[m] = f[n] => m = n
    OBVIOUS
  <2>3. \A p \in S : \E n \in 1..K : f[n] = p
    OBVIOUS
  <2> HIDE DEF f
  <2>4. f \in Injection(1..K, S)
    BY <2>1, <2>2 DEF Injection, IsInjective
  <2>5. f \in Surjection(1..K, S)
    BY <2>1, <2>3 DEF Surjection
  <2> QED
    BY <2>4, <2>5 DEF Bijection
<1> HIDE DEF f
<1>2. IsFiniteSet(1..K) /\ Cardinality(1..K) = K
  BY FS_Interval
<1>3. ExistsBijection(1..K, S)
  BY <1>1 DEF ExistsBijection
<1> QED
  BY <1>2, <1>3, FS_Bijection

\* A request that ends keeps the view: its records join the calls and are to be emitted.
LEMMA EndRequestViews ==
  ASSUME IInv, View, NEW i \in DOMAIN requests, EndRequest(i)
  PROVE  View'
<1> DEFINE r == requests[i]
<1>0. PICK reply \in MayAnswer(r) : \E records :
        /\ records = [n \in DOMAIN reply.attempts |-> CallRecord(i, reply.attempts[n])]
        /\ requests' = [requests EXCEPT
             ![i] = [@ EXCEPT !.state = IF records = <<>> THEN "over" ELSE "emitting",
                              !.records = records, !.reply = reply]]
        /\ calls' = calls \o records
        /\ r.state = "calling"
        /\ UNCHANGED browser
  BY DEF EndRequest
<1>1. PICK records :
        /\ records = [n \in DOMAIN reply.attempts |-> CallRecord(i, reply.attempts[n])]
        /\ requests' = [requests EXCEPT
             ![i] = [@ EXCEPT !.state = IF records = <<>> THEN "over" ELSE "emitting",
                              !.records = records, !.reply = reply]]
        /\ calls' = calls \o records
        /\ r.state = "calling"
        /\ UNCHANGED browser
  BY <1>0
<1> DEFINE q == [r EXCEPT !.state = IF records = <<>> THEN "over" ELSE "emitting",
                          !.records = records, !.reply = reply]
<1>2. requests' = [requests EXCEPT ![i] = q]
  BY <1>1
<1>3. /\ Len(requests) \in Nat /\ i \in 1..Len(requests)
      /\ Len(requests') = Len(requests)
      /\ requests'[i] = q
      /\ \A j \in 1..Len(requests) : j # i => requests'[j] = requests[j]
  BY <1>2, OneRequest
<1>4. DOMAIN r = RequestFields
  BY <1>3 DEF IInv, Requests, RequestOf
<1>5. q.state = (IF records = <<>> THEN "over" ELSE "emitting") /\ q.records = records
  BY <1>4 DEF RequestFields
<1> HIDE DEF q
<1>6. at \in {"reviewing", "verifying", "summarizing"} /\ UNCHANGED at
  BY RequestInStage DEF RequestStep
<1>7. ReplyOf(reply)
  <2>1. r.task \in {"review", "style", "verify", "summarize"}
    BY <1>3, <1>6 DEF View, TaskKnown, IInv, OnReview, OnVerification
  <2>2. CASE r.task \in {"review", "style"}
    <3>1. reply \in Replies(r.task, r.about) /\ r.about \in Range(ChunksIn(Extracted[scan.upload])) /\ scan \in Scans
      BY <1>1, <1>3, <2>2 DEF MayAnswer, IInv, AboutChunks, Scanned
    <3> HIDE DEF r
    <3> QED
      BY <2>2, <3>1, ReplyAssumption, Zenon
  <2>3. CASE r.task = "verify"
    BY <1>1, <2>3, ReplyAssumption DEF MayAnswer
  <2>4. CASE r.task = "summarize"
    BY <1>1, <2>4, ReplyAssumption DEF MayAnswer
  <2> QED
    BY <2>1, <2>2, <2>3, <2>4
<1> DEFINE K == Len(records)
<1>8. IsList(records) /\ K \in Nat /\ (records # <<>> <=> K > 0)
  <2>1. IsList(reply.attempts)
    BY <1>7 DEF ReplyOf
  <2>2. Len(reply.attempts) \in Nat /\ DOMAIN reply.attempts = 1..Len(reply.attempts)
    BY <2>1, ListElements, Zenon
  <2>3. records = [n \in 1..Len(reply.attempts) |-> records[n]]
    BY <1>1, <2>2
  <2>4. IsList(records) /\ Len(records) = Len(reply.attempts)
    BY <2>2, <2>3, ListByShape, Zenon
  <2>5. records # <<>> => Len(records) > 0
    BY <2>4, TailOfList
  <2>6. Len(<<>>) = 0
    OBVIOUS
  <2> QED
    BY <2>2, <2>4, <2>5, <2>6
<1> HIDE DEF r
<1>9. Emitting' /\ FindingsShown' /\ AskedOnce' /\ TaskKnown' /\ ToolsShown' /\ StagesShown' /\ PlanShown'
  BY <1>1, RequestViews DEF RequestStep
<1>10. StoreShape'
  BY <1>1 DEF View, StoreShape
<1>11. RecordsLeft'
  BY <1>3, <1>5, <1>6, <1>8 DEF View, RecordsLeft
<1>12. CallsShown'
  <2> DEFINE S == {<<i, n>> : n \in 1..K}
             left == {requests[p[1]].records[p[2]] : p \in Unshown}
             left2 == {requests'[p[1]].records[p[2]] : p \in Unshown'}
  <2>1. r.records = <<>>
    BY <1>1, <1>3 DEF View, RecordsLeft, r
  <2>2. \A n : <<i, n>> \notin Unshown
    BY <2>1, EmptyIsList DEF Unshown, r
  <2>3. Unshown' = Unshown \cup S
    <3>1. \A j \in 1..Len(requests), n \in Nat :
            <<j, n>> \in Unshown' <=> (IF j = i THEN n \in 1..K ELSE <<j, n>> \in Unshown)
      BY <1>3, <1>5 DEF Unshown
    <3>2. \A p \in Unshown' : p = <<p[1], p[2]>> /\ p[1] \in 1..Len(requests) /\ p[2] \in Nat
      BY <1>3 DEF Unshown
    <3>3. \A p \in Unshown : p = <<p[1], p[2]>> /\ p[1] \in 1..Len(requests) /\ p[2] \in Nat
      BY DEF Unshown
    <3>4. ASSUME NEW p \in Unshown' PROVE p \in Unshown \cup S
      BY <3>1, <3>2
    <3>5. ASSUME NEW p \in Unshown PROVE p \in Unshown'
      <4>1. p[1] # i
        BY <2>2, <3>3
      <4> QED
        BY <3>1, <3>3, <4>1
    <3>6. ASSUME NEW p \in S PROVE p \in Unshown'
      BY <1>3, <1>8, <3>1
    <3> QED
      BY <3>4, <3>5, <3>6
  <2>4. IsFiniteSet(S) /\ Cardinality(S) = K
    <3>1. \A k \in Nat : IsFiniteSet({<<i, n>> : n \in 1..k}) /\ Cardinality({<<i, n>> : n \in 1..k}) = k
      BY PlacesOfOne
    <3>2. K \in Nat
      BY <1>8
    <3> HIDE DEF K
    <3> QED
      BY <3>1, <3>2, Zenon
  <2>5. Unshown \cap S = {}
    BY <2>2
  <2>6. IsFiniteSet(Unshown) /\ IsList(calls)
    BY DEF View, CallsShown
  <2>7. IsFiniteSet(Unshown') /\ Cardinality(Unshown') = Cardinality(Unshown) + K
    <3>0. K \in Nat
      BY <1>8
    <3> HIDE DEF S, K
    <3>1. /\ IsFiniteSet(Unshown \cup S)
          /\ Cardinality(Unshown \cup S) = Cardinality(Unshown) + Cardinality(S) - Cardinality(Unshown \cap S)
      BY <2>4, <2>6, FS_Union
    <3>2. Cardinality({}) = 0 /\ Cardinality(Unshown) \in Nat
      BY <2>6, FS_EmptySet, FS_CardinalityType
    <3>3. Cardinality(Unshown \cup S) = Cardinality(Unshown) + K
      <4>1. PICK c : c = Cardinality(Unshown)
        OBVIOUS
      <4>2. PICK d : d = Cardinality(Unshown \cup S)
        OBVIOUS
      <4>3. c \in Nat /\ d = c + K - 0
        BY <2>4, <2>5, <3>1, <3>2, <4>1, <4>2
      <4>4. d = c + K
        BY <3>0, <4>3
      <4> QED
        BY <4>1, <4>2, <4>4
    <3> QED
      BY <2>3, <3>1, <3>3
  <2>8. left2 = left \cup Range(records)
    <3>1. \A n \in 1..K : requests'[i].records[n] = records[n]
      BY <1>3, <1>5
    <3>2. ASSUME NEW p \in Unshown
          PROVE  p \in Unshown' /\ requests'[p[1]].records[p[2]] = requests[p[1]].records[p[2]]
      <4>1. p[1] # i /\ p[1] \in 1..Len(requests)
        BY <2>2 DEF Unshown
      <4> QED
        BY <1>3, <2>3, <4>1
    <3>3. ASSUME NEW x \in left2 PROVE x \in left \cup Range(records)
      <4>1. PICK p \in Unshown' : requests'[p[1]].records[p[2]] = x
        OBVIOUS
      <4>2. CASE p \in Unshown
        BY <3>2, <4>1, <4>2
      <4>3. CASE p \in S
        <5>1. PICK n \in 1..K : p = <<i, n>>
          BY <4>3
        <5>2. x = records[n]
          BY <3>1, <4>1, <5>1
        <5> QED
          BY <1>8, <5>2, InRange
      <4> QED
        BY <2>3, <4>2, <4>3
    <3>4. ASSUME NEW x \in left PROVE x \in left2
      BY <3>2
    <3>5. ASSUME NEW x \in Range(records) PROVE x \in left2
      <4>1. PICK n \in 1..K : records[n] = x
        BY <1>8, InRange
      <4>2. <<i, n>> \in Unshown' /\ requests'[i].records[n] = x
        BY <2>3, <3>1, <4>1
      <4>3. PICK p \in Unshown' : p = <<i, n>>
        BY <4>2
      <4>4. requests'[p[1]].records[p[2]] = x
        BY <4>2, <4>3
      <4> QED
        BY <4>4
    <3> QED
      BY <3>3, <3>4, <3>5
  <2>9. /\ IsList(calls') /\ Len(calls') = Len(calls) + K
        /\ Range(calls') = Range(calls) \cup Range(records)
    <3>1. Joins(calls', calls, records)
      BY <1>1, <1>8, <2>6, ConcatJoins, Zenon
    <3>2. Range(calls \o records) = Range(calls) \cup Range(records)
      BY <1>8, <2>6, ConcatList, Zenon
    <3> QED
      BY <1>1, <3>1, <3>2 DEF Joins
  <2> HIDE DEF left, left2
  <2>10. Range(calls) = Range(browser.calls) \cup left /\ Len(calls) = Len(browser.calls) + Cardinality(Unshown)
    BY <1>6 DEF View, CallsShown, left
  <2>11. Range(calls') = Range(browser'.calls) \cup left2 /\ Len(calls') = Len(browser'.calls) + Cardinality(Unshown')
    <3>1. Len(browser.calls) \in Nat /\ Cardinality(Unshown) \in Nat
      BY <2>6, FS_CardinalityType, ListElements DEF View, StoreShape
    <3> QED
      BY <1>1, <1>8, <2>7, <2>8, <2>9, <2>10, <3>1
  <2> QED
    BY <2>7, <2>9, <2>11 DEF CallsShown, left2
<1> QED
  BY <1>9, <1>10, <1>11, <1>12 DEF View

\* A record that a request emits is shown: one place fewer is left, and the call is there.
LEMMA EmitCallViews ==
  ASSUME IInv, View, NEW i \in DOMAIN requests, EmitCall(i)
  PROVE  View'
<1> DEFINE r == requests[i]
           e == [kind |-> "llm_call", call |-> Head(r.records)]
           q == [r EXCEPT !.records = Tail(r.records), !.state = IF Len(r.records) = 1 THEN "over" ELSE "emitting"]
<1>1. /\ requests' = [requests EXCEPT ![i] = q] /\ r.state = "emitting"
      /\ browser' = Apply(browser, e) /\ UNCHANGED calls
  BY DEF EmitCall
<1>2. /\ Len(requests) \in Nat /\ i \in 1..Len(requests)
      /\ Len(requests') = Len(requests)
      /\ requests'[i] = q
      /\ \A j \in 1..Len(requests) : j # i => requests'[j] = requests[j]
  BY <1>1, OneRequest
<1>3. DOMAIN r = RequestFields
  BY <1>2 DEF IInv, Requests, RequestOf
<1>4. q.records = Tail(r.records) /\ q.state = IF Len(r.records) = 1 THEN "over" ELSE "emitting"
  BY <1>3 DEF RequestFields
<1> HIDE DEF q
<1>5. IsList(r.records) /\ r.records # <<>>
  BY <1>1, <1>2 DEF View, RecordsLeft
<1> DEFINE s == r.records
           t == Tail(s)
           K == Len(s)
<1>6. /\ K \in Nat /\ K > 0 /\ Head(s) = s[1]
      /\ IsList(t) /\ Len(t) = K - 1
      /\ \A n \in 1..Len(t) : t[n] = s[n + 1]
  BY <1>5, TailOfList
<1>7. at \in {"reviewing", "verifying", "summarizing"} /\ UNCHANGED at
  BY RequestInStage DEF RequestStep
<1>8. /\ UNCHANGED <<browser.findings, browser.stage, browser.finished, browser.plan, browser.tools>>
      /\ browser'.calls = Append(browser.calls, Head(s))
  <2>1. e.kind = "llm_call" /\ e.call = Head(s) /\ e.kind \in EventKinds
    BY DEF EventKinds
  <2>2. browser' = Apply(browser, e)
    BY <1>1
  <2> HIDE DEF e, s
  <2>3. /\ UNCHANGED <<browser.findings, browser.stage, browser.finished, browser.plan, browser.tools>>
        /\ browser'.calls = Append(browser.calls, e.call)
    BY <2>1, <2>2, Applied DEF View, StoreShape
  <2> QED
    BY <2>1, <2>3
<1>9. Emitting' /\ FindingsShown' /\ AskedOnce' /\ TaskKnown' /\ ToolsShown' /\ StagesShown' /\ PlanShown'
  BY <1>8, RequestViews DEF RequestStep
<1>10. StoreShape'
  <2>1. e.kind \in EventKinds
    BY DEF EventKinds
  <2> HIDE DEF e
  <2> QED
    BY <1>1, <2>1, ShapeStays DEF View
<1> HIDE DEF r, e
<1>11. RecordsLeft'
  <2>1. t # <<>> <=> K # 1
    <3>1. t # <<>> => Len(t) > 0
      BY <1>6, TailOfList
    <3>2. t = <<>> => Len(t) = 0
      BY EmptyIsList
    <3> HIDE DEF t, K
    <3> QED
      BY <1>6, <3>1, <3>2
  <2>2. IsList(q.records) /\ (q.records # <<>> <=> q.state = "emitting") /\ q.state \in {"over", "emitting"}
    BY <1>4, <1>6, <2>1
  <2> QED
    BY <1>2, <1>7, <2>2 DEF View, RecordsLeft
<1>12. CallsShown'
  <2> DEFINE left == {requests[p[1]].records[p[2]] : p \in Unshown}
             left2 == {requests'[p[1]].records[p[2]] : p \in Unshown'}
  <2>1. /\ requests[i].records = s /\ requests'[i].records = t
        /\ \A j \in 1..Len(requests) : j # i => requests'[j].records = requests[j].records
    BY <1>2, <1>4 DEF r
  <2> HIDE DEF s, t
  <2>2. \A j \in 1..Len(requests), n \in Nat :
          /\ <<j, n>> \in Unshown <=> IF j = i THEN n \in 1..K ELSE n \in 1..Len(requests[j].records)
          /\ <<j, n>> \in Unshown' <=> IF j = i THEN n \in 1..(K - 1) ELSE n \in 1..Len(requests[j].records)
    BY <1>2, <1>6, <2>1 DEF Unshown
  <2>3. \A p \in Unshown \cup Unshown' : p = <<p[1], p[2]>> /\ p[1] \in 1..Len(requests) /\ p[2] \in Nat
    BY <1>2 DEF Unshown
  <2>4. <<i, K>> \in Unshown
    BY <1>2, <1>6, <2>2
  <2>5. Unshown' = Unshown \ {<<i, K>>}
    <3>1. \A n \in Nat : n \in 1..(K - 1) <=> n \in 1..K /\ n # K
      BY <1>6
    <3> HIDE DEF K
    <3>2. \A j \in 1..Len(requests), n \in Nat : <<j, n>> \in Unshown' <=> <<j, n>> \in Unshown /\ <<j, n>> # <<i, K>>
      BY <2>2, <3>1
    <3> QED
      BY <2>3, <3>2
  <2>6. IsFiniteSet(Unshown) /\ IsList(calls)
    BY DEF View, CallsShown
  <2>7. IsFiniteSet(Unshown') /\ Cardinality(Unshown) = Cardinality(Unshown') + 1
    <3>1. PICK U : U = Unshown
      OBVIOUS
    <3>2. PICK p : p = <<i, K>>
      OBVIOUS
    <3>3. IsFiniteSet(U \ {p}) /\ Cardinality(U \ {p}) = Cardinality(U) - 1 /\ Cardinality(U) \in Nat
      BY <2>4, <2>6, <3>1, <3>2, FS_RemoveElement, FS_CardinalityType
    <3>4. Unshown' = U \ {p}
      BY <2>5, <3>1, <3>2
    <3> QED
      BY <3>1, <3>3, <3>4
  <2>8. left = left2 \cup {Head(s)}
    <3>1. ASSUME NEW x \in left PROVE x \in left2 \cup {Head(s)}
      <4>1. PICK p \in Unshown : requests[p[1]].records[p[2]] = x
        OBVIOUS
      <4>2. CASE p[1] # i
        <5>1. <<p[1], p[2]>> \in Unshown' /\ requests'[p[1]].records[p[2]] = x
          BY <2>1, <2>2, <2>3, <4>1, <4>2
        <5>2. p \in Unshown'
          BY <2>3, <5>1
        <5> QED
          BY <5>1, <5>2
      <4>3. CASE p[1] = i
        <5>1. p[2] \in 1..K /\ x = s[p[2]]
          BY <1>2, <2>1, <2>2, <2>3, <4>1, <4>3
        <5>2. CASE p[2] = 1
          BY <1>6, <5>1, <5>2
        <5>3. CASE p[2] # 1
          <6> DEFINE m == p[2] - 1
          <6>1. m \in 1..(K - 1) /\ m \in Nat /\ m + 1 = p[2]
            BY <1>6, <5>1, <5>3
          <6> HIDE DEF m
          <6>2. <<i, m>> \in Unshown' /\ requests'[i].records[m] = x
            BY <1>2, <1>6, <2>1, <2>2, <5>1, <6>1
          <6>3. PICK o : o = <<i, m>>
            OBVIOUS
          <6>4. o[1] = i /\ o[2] = m
            BY <6>3
          <6>5. o \in Unshown' /\ requests'[o[1]].records[o[2]] = x
            BY <6>2, <6>3, <6>4
          <6> QED
            BY <6>5
        <5> QED
          BY <5>2, <5>3
      <4> QED
        BY <4>2, <4>3
    <3>2. ASSUME NEW x \in left2 PROVE x \in left
      <4>1. PICK p \in Unshown' : requests'[p[1]].records[p[2]] = x
        OBVIOUS
      <4>2. CASE p[1] # i
        <5>1. <<p[1], p[2]>> \in Unshown /\ requests[p[1]].records[p[2]] = x
          BY <2>1, <2>2, <2>3, <4>1, <4>2
        <5>2. p \in Unshown
          BY <2>3, <5>1
        <5> QED
          BY <5>1, <5>2
      <4>3. CASE p[1] = i
        <5> DEFINE m == p[2] + 1
        <5>1. p[2] \in 1..(K - 1) /\ x = t[p[2]]
          BY <1>2, <2>1, <2>2, <2>3, <4>1, <4>3
        <5>2. m \in 1..K /\ m \in Nat /\ x = s[m]
          BY <1>6, <5>1
        <5> HIDE DEF m
        <5>3. <<i, m>> \in Unshown /\ requests[i].records[m] = x
          BY <1>2, <2>1, <2>2, <5>2
        <5>4. PICK o : o = <<i, m>>
          OBVIOUS
        <5>5. o[1] = i /\ o[2] = m
          BY <5>4
        <5>6. o \in Unshown /\ requests[o[1]].records[o[2]] = x
          BY <5>3, <5>4, <5>5
        <5> QED
          BY <5>6
      <4> QED
        BY <4>2, <4>3
    <3>3. Head(s) \in left
      <4>1. 1 \in 1..K /\ 1 \in Nat
        BY <1>6
      <4>2. <<i, 1>> \in Unshown /\ requests[i].records[1] = Head(s)
        BY <1>2, <1>6, <2>1, <2>2, <4>1
      <4>3. PICK o : o = <<i, 1>>
        OBVIOUS
      <4>4. o[1] = i /\ o[2] = 1
        BY <4>3
      <4>5. o \in Unshown /\ requests[o[1]].records[o[2]] = Head(s)
        BY <4>2, <4>3, <4>4
      <4> QED
        BY <4>5
    <3> QED
      BY <3>1, <3>2, <3>3
  <2>9. /\ Len(browser'.calls) = Len(browser.calls) + 1 /\ Len(browser.calls) \in Nat
        /\ Range(browser'.calls) = Range(browser.calls) \cup {Head(s)}
    <3>1. IsList(browser.calls)
      BY DEF View, StoreShape
    <3> QED
      BY <1>8, <3>1, AppendList, ListElements
  <2> HIDE DEF left, left2
  <2>10. Range(calls) = Range(browser.calls) \cup left /\ Len(calls) = Len(browser.calls) + Cardinality(Unshown)
    BY <1>7 DEF View, CallsShown, left
  <2>11. Range(calls') = Range(browser'.calls) \cup left2
    BY <1>1, <2>8, <2>9, <2>10
  <2>12. Len(calls') = Len(browser'.calls) + Cardinality(Unshown')
    <3>1. Cardinality(Unshown') \in Nat
      BY <2>7, FS_CardinalityType
    <3> QED
      BY <1>1, <2>7, <2>9, <2>10, <3>1
  <2> QED
    BY <1>1, <2>6, <2>7, <2>11, <2>12 DEF CallsShown, left2
<1> QED
  BY <1>9, <1>10, <1>11, <1>12 DEF View

\* A line of an analyzer appears, or is replaced by what became of it.
LEMMA ToolViews ==
  ASSUME IInv, View, at = "analyzing", NEW t \in Tools, NEW q, NEW s, NEW n,
         tools' = [tools EXCEPT ![t] = q], q.state \in {"running", "over"},
         q.state = "over" => s # "started" /\ n = Len(q.result.findings),
         browser' = Apply(browser, ToolEvent(t, s, n)),
         UNCHANGED <<scan, at, outbox, findings, requests, stats, calls>>
  PROVE  View'
<1> DEFINE e == ToolEvent(t, s, n)
           shown == browser.tools
           now == browser'.tools
<1>1. e.kind = "tool" /\ e.tool = t /\ e.state = s /\ e.count = n /\ e.kind \in EventKinds
  BY DEF ToolEvent, EventKinds
<1>2. browser' = Apply(browser, e)
  OBVIOUS
<1> HIDE DEF e
<1>3. /\ UNCHANGED <<browser.findings, browser.stage, browser.finished, browser.plan, browser.calls>>
      /\ now = UpsertTool(shown, e)
  BY <1>1, <1>2, Applied DEF View, StoreShape
<1>4. StoreShape'
  BY <1>1, <1>2, ShapeStays DEF View
<1>5. IsList(shown) /\ OneEach(shown)
  BY DEF View, StoreShape, ToolsShown, OneEach
<1>6. /\ IsList(now) /\ OneEach(now)
      /\ \E i \in 1..Len(now) : now[i] = e
      /\ \A i \in 1..Len(now) : now[i] = e \/ \E j \in 1..Len(shown) : now[i] = shown[j] /\ shown[j].tool # e.tool
      /\ \A j \in 1..Len(shown) : shown[j].tool = e.tool \/ \E i \in 1..Len(now) : now[i] = shown[j]
  <2> HIDE DEF shown, now
  <2>1. IsList(now) /\ OneEach(now) /\ LineReplaced(now, shown, e)
    BY <1>3, <1>5, Upserted, Zenon
  <2> QED
    BY <2>1 DEF LineReplaced
<1>7. DOMAIN tools = Tools
  BY DEF IInv, ToolsRun
<1>8. tools'[t] = q /\ \A u \in Tools : u # t => tools'[u] = tools[u]
  BY <1>7
<1> HIDE DEF shown, now
<1>9. /\ \A u \in Tools : /\ tools[u].state \in {"ready", "running", "over"}
                          /\ tools[u].state = "ready" => tools[u].result = NoResult
      /\ \A i \in 1..Len(shown) : shown[i].tool \in Tools
      /\ \A u \in Tools : tools[u].state # "ready" => \E i \in 1..Len(shown) : shown[i].tool = u
      /\ \A i \in 1..Len(shown) :
           tools[shown[i].tool].state = "over" =>
             /\ shown[i].state # "started"
             /\ shown[i].count = Len(tools[shown[i].tool].result.findings)
  BY DEF View, ToolsShown, shown
<1>10. ToolsShown'
  <2>1. ASSUME NEW u \in Tools
        PROVE  /\ tools'[u].state \in {"ready", "running", "over"}
               /\ tools'[u].state = "ready" => tools'[u].result = NoResult
               /\ tools'[u].state # "ready" => \E i \in 1..Len(now) : now[i].tool = u
    <3>1. CASE u = t
      BY <1>1, <1>6, <1>8, <3>1
    <3>2. CASE u # t
      <4>1. tools'[u] = tools[u]
        BY <1>8, <3>2
      <4>2. ASSUME tools[u].state # "ready" PROVE \E i \in 1..Len(now) : now[i].tool = u
        <5>1. PICK j \in 1..Len(shown) : shown[j].tool = u
          BY <1>9, <4>2
        <5> QED
          BY <1>1, <1>6, <3>2, <5>1
      <4> QED
        BY <1>9, <4>1, <4>2
    <3> QED
      BY <3>1, <3>2
  <2>2. ASSUME NEW i \in 1..Len(now)
        PROVE  /\ now[i].tool \in Tools
               /\ tools'[now[i].tool].state = "over" =>
                    /\ now[i].state # "started"
                    /\ now[i].count = Len(tools'[now[i].tool].result.findings)
    <3>1. CASE now[i] = e
      BY <1>1, <1>8, <3>1
    <3>2. CASE now[i] # e
      <4>1. PICK j \in 1..Len(shown) : now[i] = shown[j] /\ shown[j].tool # t
        BY <1>1, <1>6, <3>2
      <4>2. shown[j].tool \in Tools /\ tools'[shown[j].tool] = tools[shown[j].tool]
        BY <1>8, <1>9, <4>1
      <4> QED
        BY <1>9, <4>1, <4>2
    <3> QED
      BY <3>1, <3>2
  <2> QED
    BY <1>6, <2>1, <2>2 DEF ToolsShown, now, OneEach
<1>11. Emitting' /\ FindingsShown' /\ AskedOnce' /\ TaskKnown' /\ RecordsLeft' /\ PlanShown'
  BY <1>3 DEF View, Emitting, FindingsShown, AskedOnce, TaskKnown, RecordsLeft, AllOver, PlanShown
<1>12. CallsShown'
  <2>1. Unshown' = Unshown
    BY DEF Unshown
  <2> QED
    BY <1>3, <2>1 DEF View, CallsShown
<1>13. StagesShown'
  <2>1. Entered' = Entered /\ ShownStages' = ShownStages
    BY <1>3 DEF Entered, ShownStages
  <2> QED
    BY <2>1 DEF View, StagesShown
<1> QED
  BY <1>4, <1>10, <1>11, <1>12, <1>13 DEF View

\* An analyzer that starts, or is skipped, keeps the view.
LEMMA StartToolViews ==
  ASSUME IInv, View, NEW t \in Tools, StartTool(t)
  PROVE  View'
<1>1. /\ at = "analyzing" /\ tools[t].state = "ready"
      /\ UNCHANGED <<scan, at, outbox, findings, requests, stats, calls>>
  BY DEF StartTool
<1>2. DOMAIN tools = Tools /\ DOMAIN tools[t] = {"state", "result"}
  BY DEF IInv, ToolsRun, ToolState
<1>3. tools[t].result = NoResult
  BY <1>1 DEF View, ToolsShown
<1>4. Len(NoResult.findings) = 0
  BY DEF NoResult
<1>5. CASE /\ tools' = [tools EXCEPT ![t].state = "running"]
           /\ browser' = Apply(browser, ToolEvent(t, "started", 0))
  <2> DEFINE q == [tools[t] EXCEPT !.state = "running"]
  <2>1. tools' = [tools EXCEPT ![t] = q] /\ q.state = "running"
    BY <1>2, <1>5
  <2> HIDE DEF q
  <2> QED
    BY <1>1, <1>5, <2>1, ToolViews
<1>6. CASE /\ tools' = [tools EXCEPT ![t].state = "over"]
           /\ browser' = Apply(browser, ToolEvent(t, "skipped", 0))
  <2> DEFINE q == [tools[t] EXCEPT !.state = "over"]
  <2>1. tools' = [tools EXCEPT ![t] = q] /\ q.state = "over" /\ q.result = NoResult
    BY <1>2, <1>3, <1>6
  <2> HIDE DEF q
  <2>2. 0 = Len(q.result.findings) /\ "skipped" # "started"
    BY <1>4, <2>1
  <2> QED
    BY <1>1, <1>6, <2>1, <2>2, ToolViews
<1> QED
  BY <1>5, <1>6 DEF StartTool

\* An analyzer that ends keeps the view.
LEMMA EndToolViews ==
  ASSUME IInv, View, NEW t \in Tools, EndTool(t)
  PROVE  View'
<1>1. PICK output : /\ tools' = [tools EXCEPT ![t] = [state |-> "over", result |-> Result(t, output)]]
                    /\ browser' = Apply(browser, ToolEvent(t, Status(t, output), Len(Result(t, output).findings)))
  BY DEF EndTool
<1>2. /\ tools[t].state = "running"
      /\ UNCHANGED <<scan, at, outbox, findings, requests, stats, calls>>
  BY DEF EndTool
<1>3. at = "analyzing"
  BY <1>2 DEF IInv, SourceRead
<1>4. Status(t, output) # "started"
  BY DEF Status
<1> DEFINE r == Result(t, output)
           q == [state |-> "over", result |-> r]
<1>5. q.state = "over" /\ q.result = r
  OBVIOUS
<1>6. tools' = [tools EXCEPT ![t] = q] /\ browser' = Apply(browser, ToolEvent(t, Status(t, output), Len(r.findings)))
  BY <1>1
<1> HIDE DEF q, r
<1> QED
  BY <1>2, <1>3, <1>4, <1>5, <1>6, ToolViews

-----------------------------------------------------------------------------
(* Steps of the view: the main task goes on.                               *)

\* The elements of a list that were not in another one (_emit_changed).
LEMMA KeptChanged ==
  ASSUME NEW before, NEW s, IsList(s)
  PROVE  /\ IsList(Changed(before, s))
         /\ \A y \in Range(Changed(before, s)) : y \in Range(s)
         /\ \A y \in Range(s) : y \in Range(before) \/ y \in Range(Changed(before, s))
<1> DEFINE P(t) == {i \in DOMAIN t : t[i] \notin Range(before)}
           B(t) == AtPlaces(t, Arranged(P(t), <))
           K == Changed(before, s)
           I == P(s)
<1>1. \A x : {z \in {x} : z = z} = {x}
  OBVIOUS
<1>2. K = Of(s, B)
  BY DEF Changed, Kept
<1>3. Of(s, B) = B(s)
  <2> HIDE DEF B
  <2>1. {B(z) : z \in {z \in {s} : z = z}} = {B(s)}
    BY <1>1, Zenon
  <2> QED
    BY <2>1, Zenon DEF Of
<1>4. /\ I \in SUBSET (1..Len(s))
      /\ \A i \in 1..Len(s) : s[i] \notin Range(before) => i \in I
  BY ListElements
<1> HIDE DEF I, K
<1>5. B(s) = ElementsIn(s, I)
  BY ArrangedLess, Zenon DEF I, ElementsIn
<1>6. IsList(K) /\ (\A x \in Range(K) : \E i \in I : s[i] = x) /\ \A i \in I : s[i] \in Range(K)
  <2> HIDE DEF B
  <2>1. K = ElementsIn(s, I)
    BY <1>2, <1>3, <1>5, Zenon
  <2>2. I \in SUBSET (1..Len(s))
    BY <1>4, Zenon
  <2> QED
    BY <2>1, <2>2, KeptElements
<1>7. \A y \in Range(K) : y \in Range(s)
  BY <1>4, <1>6, InRange
<1>8. \A y \in Range(s) : y \in Range(before) \/ y \in Range(K)
  BY <1>4, <1>6, InRange
<1> QED
  BY <1>6, <1>7, <1>8 DEF K

\* The events that announce these findings.
Announcing(events, fs) ==
  /\ IsList(events) /\ Len(events) = Len(fs)
  /\ \A i \in 1..Len(fs) : events[i].kind = "finding" /\ events[i].finding = fs[i]
  /\ events # <<>> => Head(events).kind = "finding"

LEMMA EventsOfFindings ==
  ASSUME NEW fs, IsList(fs)
  PROVE  Announcing(FindingEvents(fs), fs)
<1> DEFINE e == FindingEvents(fs)
           N == Len(fs)
<1>1. N \in Nat /\ DOMAIN fs = 1..N
  BY ListElements, Zenon
<1>2. e = [i \in 1..N |-> e[i]] /\ \A i \in 1..N : e[i].kind = "finding" /\ e[i].finding = fs[i]
  BY <1>1 DEF FindingEvents
<1> HIDE DEF e
<1>3. IsList(e) /\ Len(e) = N
  BY <1>1, <1>2, ListByShape, Zenon
<1>4. ASSUME e # <<>> PROVE Head(e).kind = "finding"
  <2>1. Len(e) \in Nat /\ Len(e) > 0 /\ Head(e) = e[1]
    BY <1>3, <1>4, TailOfList
  <2>2. 1 \in 1..N
    BY <1>3, <2>1
  <2> QED
    BY <1>2, <2>1, <2>2
<1>5. Announcing(e, fs)
  BY <1>2, <1>3, <1>4 DEF Announcing
<1> QED
  BY <1>5 DEF e

\* When the requests are all over and none has a record left, the calls are those shown.
LEMMA QuietCalls ==
  ASSUME IInv, View, AllOver, at # "cancelled", UNCHANGED <<calls, browser>>,
         \/ requests' = requests
         \/ \A i \in 1..Len(requests') : requests'[i].records = <<>>
  PROVE  CallsShown'
<1>1. DOMAIN requests = 1..Len(requests)
  BY ListElements, Zenon DEF IInv, Requests
<1>2. \A i \in 1..Len(requests) : requests[i].records = <<>>
  BY <1>1 DEF View, RecordsLeft, AllOver
<1>3. \A i \in 1..Len(requests') : requests'[i].records = <<>>
  BY <1>2
<1>4. Unshown = {}
  BY <1>2, NoneLeft
<1>5. Unshown' = {}
  <2>1. Len(<<>>) = 0 /\ 1..0 = {}
    BY EmptyIsList
  <2> QED
    BY <1>3, <2>1 DEF Unshown
<1> QED
  BY <1>4, <1>5 DEF View, CallsShown

\* Requests that stay, all over; that are gone; or that are all new, in a stage of the session.
LEMMA QuietRecords ==
  ASSUME IInv, View,
         \/ requests' = requests /\ AllOver
         \/ requests' = <<>>
         \/ /\ at' \in {"reviewing", "verifying", "summarizing"}
            /\ \A i \in 1..Len(requests') : requests'[i].state = "waiting" /\ requests'[i].records = <<>>
  PROVE  RecordsLeft'
<1>1. DOMAIN requests = 1..Len(requests)
  BY ListElements, Zenon DEF IInv, Requests
<1>2. IsList(<<>>) /\ Len(<<>>) = 0 /\ 1..0 = {} /\ DOMAIN <<>> = {}
  BY EmptyIsList
<1>3. CASE requests' = requests /\ AllOver
  BY <1>3 DEF View, RecordsLeft, AllOver
<1>4. CASE requests' = <<>>
  BY <1>2, <1>4 DEF RecordsLeft, AllOver
<1>5. CASE /\ at' \in {"reviewing", "verifying", "summarizing"}
           /\ \A i \in 1..Len(requests') : requests'[i].state = "waiting" /\ requests'[i].records = <<>>
  BY <1>2, <1>5 DEF RecordsLeft
<1> QED
  BY <1>3, <1>4, <1>5

\* Between the stages of the session the requests are over.
LEMMA BetweenStages ==
  ASSUME View, at \notin {"reviewing", "verifying", "summarizing"}
  PROVE  AllOver
BY DEF View, RecordsLeft

\* A stage is announced when it is entered.
LEMMA StageAnnounced ==
  ASSUME View, NEW from, NEW to, NEW events, Go(from, to, events), from \notin Ended,
         NEW s, events # <<>>, Head(events) = Stage(s), Entered' = Append(Entered, s)
  PROVE  StagesShown'
<1>1. at = from /\ outbox = <<>> /\ outbox' = events /\ UNCHANGED browser
  BY DEF Go
<1>2. Entered = ShownStages
  BY <1>1 DEF View, StagesShown, Ended
<1>3. ShownStages' = ShownStages
  BY <1>1 DEF ShownStages
<1>4. Stage(s).kind = "stage" /\ Stage(s).stage = s
  BY DEF Stage
<1> QED
  BY <1>1, <1>2, <1>3, <1>4 DEF StagesShown

\* No stage is entered.
LEMMA NoStageEntered ==
  ASSUME View, NEW from, NEW to, NEW events, Go(from, to, events), from \notin Ended,
         events = <<>> \/ Head(events).kind = "finding", Entered' = Entered
  PROVE  StagesShown'
<1>1. at = from /\ outbox = <<>> /\ outbox' = events /\ UNCHANGED browser
  BY DEF Go
<1>2. Entered = ShownStages
  BY <1>1 DEF View, StagesShown, Ended
<1>3. ShownStages' = ShownStages
  BY <1>1 DEF ShownStages
<1> QED
  BY <1>1, <1>2, <1>3 DEF StagesShown

\* What the main task emits when it goes on: a stage, or findings of the list.
LEMMA StageToEmit ==
  ASSUME NEW s, outbox' \in {<<>>, <<Stage(s)>>}, at' \in Places,
         \/ at' = s /\ at' \in {"ingesting", "preprocessing", "analyzing", "verifying", "summarizing"}
         \/ at' = "finishing" /\ s = "done"
         \/ at' \in Ended /\ outbox' = <<>>
  PROVE  Emitting'
<1>1. IsList(outbox')
  <2>1. \A x : IsList(<<x>>)
    <3> TAKE x
    <3>1. <<x>> \in Seq({x})
      OBVIOUS
    <3> QED
      BY <3>1, SeqIsList
  <2> QED
    BY <2>1, EmptyIsList
<1> QED
  BY <1>1 DEF Emitting, Ended

LEMMA FindingsToEmit ==
  ASSUME at' \in {"analyzed", "reviewed", "verified"}, NEW fs, IsList(fs),
         Announcing(outbox', fs), \A i \in 1..Len(fs) : fs[i] \in Range(findings')
  PROVE  Emitting'
BY DEF Emitting, Announcing, Places, Ended

\* Findings that stay, as they are shown.
LEMMA FindingsStay ==
  ASSUME View, at \notin Ended, outbox = <<>>, UNCHANGED browser,
         Range(findings') = Range(findings),
         at' \in {"ingesting", "preprocessing", "analyzing", "failed"} => findings' = <<>>
  PROVE  FindingsShown'
<1>1. 1..Len(outbox) = {}
  BY EmptyIsList
<1>2. /\ \A x \in Range(findings) : x.id \in DOMAIN browser.findings /\ browser.findings[x.id] = x
      /\ \A id \in DOMAIN browser.findings : \E x \in Range(findings) : x.id = id
  BY <1>1 DEF View, FindingsShown, Ended
<1> QED
  BY <1>2 DEF FindingsShown

\* A step of the main task up to the review, or after it: tools, calls and plan stay.
LEMMA GoKeeps ==
  ASSUME IInv, View, NEW from, NEW to, NEW events, Go(from, to, events)
  PROVE  /\ at = from /\ at' = to /\ outbox = <<>> /\ outbox' = events /\ UNCHANGED <<browser, scan>>
         /\ depth' = depth
         /\ StoreShape'
BY DEF Go, View, StoreShape, depth

\* The lines of the analyzers stay as they are.
LEMMA ToolsStay ==
  ASSUME View, UNCHANGED <<browser, tools>>, at \notin Ended,
         \/ at' \in {"ingesting", "preprocessing", "analyzing", "failed"}
         \/ \A t \in Tools : tools[t].state = "over"
  PROVE  ToolsShown'
BY DEF View, ToolsShown, Ended

\* Before anything is emitted nothing is shown.
LEMMA InitViews == Init => View
<1> SUFFICES ASSUME Init PROVE View
  OBVIOUS
<1>1. /\ at = "ingesting" /\ outbox = <<Stage("ingesting")>>
      /\ tools = [t \in Tools |-> [state |-> "ready", result |-> NoResult]]
      /\ findings = <<>> /\ requests = <<>> /\ stats = NoStats /\ calls = <<>> /\ browser = EmptyStore
  BY DEF Init, Tools
<1>2. IsList(<<>>) /\ Len(<<>>) = 0 /\ Range(<<>>) = {} /\ 1..0 = {} /\ DOMAIN <<>> = {}
  BY EmptyIsList
<1>3. /\ DOMAIN browser = StoreFields /\ browser.stage = Null /\ browser.finished = <<>>
      /\ browser.tools = <<>> /\ browser.calls = <<>> /\ browser.findings = <<>> /\ browser.activity = <<>>
  BY <1>1 DEF EmptyStore, StoreFields
<1>4. StoreShape
  BY <1>2, <1>3, StoreAssumption DEF StoreShape
<1>5. Emitting
  <2>1. \A x : IsList(<<x>>)
    <3> TAKE x
    <3>1. <<x>> \in Seq({x})
      OBVIOUS
    <3> QED
      BY <3>1, SeqIsList
  <2> QED
    BY <1>1, <2>1 DEF Emitting, Places, Ended
<1>6. FindingsShown
  BY <1>1, <1>2, <1>3 DEF FindingsShown
<1>7. AskedOnce /\ TaskKnown /\ RecordsLeft
  BY <1>1, <1>2 DEF AskedOnce, TaskKnown, RecordsLeft, AllOver
<1>8. CallsShown
  <2>1. Unshown = {}
    BY <1>1, <1>2 DEF Unshown
  <2>2. IsFiniteSet({}) /\ Cardinality({}) = 0
    BY FS_EmptySet
  <2> QED
    BY <1>1, <1>2, <1>3, <2>1, <2>2 DEF CallsShown
<1>9. ToolsShown
  <2>1. \A t \in Tools : tools[t].state = "ready" /\ tools[t].result = NoResult
    BY <1>1
  <2> QED
    BY <1>1, <1>2, <1>3, <2>1 DEF ToolsShown
<1>10. StagesShown
  <2>1. \A x : Head(<<x>>) = x /\ <<x>> # <<>> /\ Append(<<>>, x) = <<x>>
    OBVIOUS
  <2>2. Stage("ingesting").kind = "stage" /\ Stage("ingesting").stage = "ingesting"
    BY DEF Stage
  <2> QED
    BY <1>1, <1>3, <2>1, <2>2 DEF StagesShown, ShownStages, Entered
<1>11. PlanShown
  BY <1>1 DEF PlanShown
<1> QED
  BY <1>4, <1>5, <1>6, <1>7, <1>8, <1>9, <1>10, <1>11 DEF View

\* Ingest keeps the view.
LEMMA IngestViews == IInv /\ View /\ Ingest => View'
<1> SUFFICES ASSUME IInv, View, Ingest PROVE View'
  OBVIOUS
<1>1. /\ UNCHANGED <<tools, findings, requests, stats, calls>>
      /\ \/ Go("ingesting", "preprocessing", <<Stage("preprocessing")>>)
         \/ Go("ingesting", "failed", <<>>)
  BY DEF Ingest
<1>2. PICK to, events : Go("ingesting", to, events)
                        /\ \/ to = "preprocessing" /\ events = <<Stage("preprocessing")>>
                           \/ to = "failed" /\ events = <<>>
  BY <1>1
<1>3. /\ at = "ingesting" /\ at' = to /\ outbox = <<>> /\ outbox' = events /\ UNCHANGED browser
      /\ StoreShape'
  BY <1>2, GoKeeps
<1>4. Emitting'
  BY <1>2, <1>3, StageToEmit DEF Places, Ended
<1>5. FindingsShown'
  BY <1>1, <1>3, FindingsStay DEF View, FindingsShown, Ended
<1>6. AskedOnce' /\ TaskKnown' /\ PlanShown'
  BY <1>1, <1>2, <1>3 DEF View, AskedOnce, TaskKnown, PlanShown
<1>7. RecordsLeft' /\ CallsShown'
  BY <1>1, <1>3, BetweenStages, QuietRecords, QuietCalls
<1>8. ToolsShown'
  BY <1>1, <1>2, <1>3, ToolsStay DEF Ended
<1>9. StagesShown'
  <2>1. CASE to = "failed"
    BY <1>3, <2>1 DEF StagesShown
  <2>2. CASE to = "preprocessing" /\ events = <<Stage("preprocessing")>>
    <3>1. events # <<>> /\ Head(events) = Stage("preprocessing")
      BY <2>2
    <3>2. Entered' = Append(Entered, "preprocessing")
      BY <1>3, <2>2 DEF Entered
    <3> QED
      BY <1>2, <3>1, <3>2, StageAnnounced DEF Ended
  <2> QED
    BY <1>2, <2>1, <2>2
<1> QED
  BY <1>3, <1>4, <1>5, <1>6, <1>7, <1>8, <1>9 DEF View

\* Preprocess keeps the view.
LEMMA PreprocessViews == IInv /\ View /\ Preprocess => View'
<1> SUFFICES ASSUME IInv, View, Preprocess PROVE View'
  OBVIOUS
<1> DEFINE events == <<Stage("analyzing")>>
<1>1. /\ UNCHANGED <<tools, findings, requests, stats, calls>>
      /\ Go("preprocessing", "analyzing", events)
  BY DEF Preprocess
<1>2. events # <<>> /\ Head(events) = Stage("analyzing")
  OBVIOUS
<1>3. /\ at = "preprocessing" /\ at' = "analyzing" /\ outbox = <<>> /\ outbox' = events /\ UNCHANGED browser
      /\ StoreShape'
  BY <1>1, GoKeeps
<1>4. Emitting'
  BY <1>3, StageToEmit DEF Places
<1> HIDE DEF events
<1>5. FindingsShown'
  BY <1>1, <1>3, FindingsStay DEF View, FindingsShown, Ended
<1>6. AskedOnce' /\ TaskKnown' /\ PlanShown'
  BY <1>1, <1>3 DEF View, AskedOnce, TaskKnown, PlanShown
<1>7. RecordsLeft' /\ CallsShown'
  BY <1>1, <1>3, BetweenStages, QuietRecords, QuietCalls
<1>8. ToolsShown'
  BY <1>1, <1>3, ToolsStay DEF Ended
<1>9. StagesShown'
  <2>1. Entered' = Append(Entered, "analyzing")
    BY <1>3 DEF Entered
  <2> QED
    BY <1>1, <1>2, <2>1, StageAnnounced DEF Ended
<1> QED
  BY <1>3, <1>4, <1>5, <1>6, <1>7, <1>8, <1>9 DEF View

\* Analyze keeps the view: every static finding is to be emitted.
LEMMA AnalyzeViews == IInv /\ View /\ Analyze => View'
<1> SUFFICES ASSUME IInv, View, Analyze PROVE View'
  OBVIOUS
<1>1. PICK found : /\ Go("analyzing", "analyzed", FindingEvents(found))
                   /\ findings' = found
  BY DEF Analyze
<1>2. /\ UNCHANGED <<tools, requests, stats, calls>>
      /\ \A t \in Tools : tools[t].state = "over"
  BY DEF Analyze, Tools
<1> DEFINE events == FindingEvents(found)
<1>3. /\ at = "analyzing" /\ at' = "analyzed" /\ outbox = <<>> /\ outbox' = events /\ UNCHANGED browser
      /\ StoreShape'
  BY <1>1, GoKeeps
<1>4. IsList(found)
  <2>1. Standing'
    BY AnalyzeHolds DEF IInv
  <2> QED
    BY <1>1, <2>1 DEF Standing, Stands
<1>5. Announcing(events, found)
  BY <1>4, EventsOfFindings
<1> HIDE DEF events
<1>6. Emitting'
  BY <1>1, <1>3, <1>4, <1>5, InRange, FindingsToEmit
<1>7. FindingsShown'
  <2>1. findings = <<>> /\ Range(<<>>) = {}
    BY <1>3, EmptyIsList DEF View, FindingsShown
  <2>2. DOMAIN browser.findings = {}
    BY <1>3, <2>1 DEF View, FindingsShown
  <2>3. \A x \in Range(found) : \E i \in 1..Len(found) : found[i] = x
    BY <1>4, InRange
  <2>4. \A x \in Range(findings') : \E i \in 1..Len(outbox') : outbox'[i].kind = "finding" /\ outbox'[i].finding = x
    BY <1>1, <1>3, <1>5, <2>3 DEF Announcing
  <2> QED
    BY <1>3, <2>2, <2>4 DEF FindingsShown
<1>8. AskedOnce' /\ TaskKnown' /\ PlanShown'
  BY <1>2, <1>3 DEF View, AskedOnce, TaskKnown, PlanShown
<1>9. RecordsLeft' /\ CallsShown'
  BY <1>2, <1>3, BetweenStages, QuietRecords, QuietCalls
<1>10. ToolsShown'
  BY <1>2, <1>3, ToolsStay DEF Ended
<1>11. StagesShown'
  <2>1. Entered' = Entered
    BY <1>3 DEF Entered
  <2>2. events = <<>> \/ Head(events).kind = "finding"
    BY <1>5 DEF Announcing
  <2>3. Go("analyzing", "analyzed", events)
    BY <1>1 DEF events
  <2> QED
    BY <2>1, <2>2, <2>3, NoStageEntered DEF Ended
<1> QED
  BY <1>3, <1>6, <1>7, <1>8, <1>9, <1>10, <1>11 DEF View

\* StaticOnly keeps the view.
LEMMA StaticOnlyViews == IInv /\ View /\ StaticOnly => View'
<1> SUFFICES ASSUME IInv, View, StaticOnly PROVE View'
  OBVIOUS
<1> DEFINE events == <<Stage("done")>>
<1>1. /\ UNCHANGED <<tools, findings, stats, calls>> /\ requests' = <<>> /\ depth = "static"
      /\ Go("analyzed", "finishing", events)
  BY DEF StaticOnly, Finish
<1>2. events # <<>> /\ Head(events) = Stage("done")
  OBVIOUS
<1>3. /\ at = "analyzed" /\ at' = "finishing" /\ outbox = <<>> /\ outbox' = events /\ UNCHANGED browser
      /\ depth' = depth
      /\ StoreShape'
  BY <1>1, GoKeeps
<1>4. Emitting'
  BY <1>3, StageToEmit DEF Places
<1> HIDE DEF events
<1>5. FindingsShown'
  BY <1>1, <1>3, FindingsStay DEF View, FindingsShown, Ended
<1>6. AskedOnce' /\ TaskKnown' /\ PlanShown'
  BY <1>1, <1>3 DEF View, AskedOnce, TaskKnown, PlanShown
<1>7. RecordsLeft' /\ CallsShown'
  <2>1. 1..Len(<<>>) = {}
    BY EmptyIsList
  <2> QED
    BY <1>1, <1>3, <2>1, BetweenStages, QuietRecords, QuietCalls
<1>8. ToolsShown'
  BY <1>1, <1>3, ToolsStay DEF View, ToolsShown, Ended
<1>9. StagesShown'
  <2>1. StageOrder' = <<"ingesting", "preprocessing", "analyzing">>
    BY <1>1, <1>3 DEF StageOrder
  <2>2. Entered' = Append(Entered, "done")
    BY <1>3, <2>1 DEF Entered
  <2> QED
    BY <1>1, <1>2, <2>2, StageAnnounced DEF Ended
<1> QED
  BY <1>3, <1>4, <1>5, <1>6, <1>7, <1>8, <1>9 DEF View

\* BeginReview keeps the view: its stage and its plan are to be emitted.
LEMMA BeginReviewViews == IInv /\ View /\ BeginReview => View'
<1> SUFFICES ASSUME IInv, View, BeginReview PROVE View'
  OBVIOUS
<1> DEFINE events == <<Stage("reviewing"), ReviewPlan>>
           review == Plan.review
           style == Plan.style
<1>1. /\ UNCHANGED <<scan, source, chunks, tools, static, findings, stats, calls>> /\ depth # "static"
      /\ requests' = PlanRequests(review, style)
  BY DEF BeginReview, Go, PlanRequests
<1>2. Go("analyzed", "reviewing", events)
  BY DEF BeginReview, ReviewPlan
<1>3. /\ at = "analyzed" /\ at' = "reviewing" /\ outbox = <<>> /\ outbox' = events /\ UNCHANGED browser
      /\ depth' = depth
      /\ StoreShape'
  BY <1>2, GoKeeps
<1>4. events # <<>> /\ Head(events) = Stage("reviewing")
  OBVIOUS
<1>5. Plan' = Plan /\ ReviewPlan' = ReviewPlan
  BY <1>1, <1>3 DEF Plan, Project, ReviewPlan
<1>6. Emitting'
  <2>1. \A x, y : IsList(<<x, y>>)
    <3> TAKE x, y
    <3>1. <<x, y>> \in Seq({x, y})
      OBVIOUS
    <3> QED
      BY <3>1, SeqIsList
  <2> QED
    BY <1>3, <1>5, <2>1 DEF Emitting, Places, Ended
<1> HIDE DEF events
<1>7. FindingsShown'
  BY <1>1, <1>3, FindingsStay DEF View, FindingsShown, Ended
<1>8. AskedOnce' /\ TaskKnown' /\ PlanShown'
  BY <1>1, <1>3, <1>4 DEF View, AskedOnce, TaskKnown, PlanShown
<1>9. \A i \in 1..Len(requests') : requests'[i].state = "waiting" /\ requests'[i].records = <<>>
  <2>1. Planned(review, style, chunks, static, Project.functions, depth, MaxCalls)
    <3>1. IsList(chunks) /\ \A c \in Range(chunks) : ChunkOf(c)
      BY DEF IInv, ChunksRead
    <3>2. IsList(static) /\ \A f \in Range(static) : f.severity \in Int
      BY DEF IInv, Standing, Stands, StaticFindings, StaticFinding, WellFormed
    <3>3. Complex(Project.functions)
      BY ProjectComplex
    <3>4. MaxCalls \in Nat
      BY RunAssumption
    <3> QED
      BY <3>1, <3>2, <3>3, <3>4, PlannedChunks, Zenon DEF Plan
  <2> HIDE DEF review, style
  <2>2. IsList(review) /\ IsList(style)
    BY <2>1 DEF Planned
  <2>3. \A rs : rs = PlanRequests(review, style) => Planning(rs, review, style)
    BY <2>2, RequestsOfPlan, Zenon
  <2> QED
    BY <1>1, <2>3 DEF Planning
<1> HIDE DEF review, style
<1>10. RecordsLeft' /\ CallsShown'
  BY <1>1, <1>3, <1>9, BetweenStages, QuietRecords, QuietCalls
<1>11. ToolsShown'
  BY <1>1, <1>3, ToolsStay DEF View, ToolsShown, Ended
<1>12. StagesShown'
  <2>1. Entered' = Append(Entered, "reviewing")
    BY <1>3 DEF Entered
  <2> QED
    BY <1>2, <1>4, <2>1, StageAnnounced DEF Ended
<1> QED
  BY <1>3, <1>6, <1>7, <1>8, <1>10, <1>11, <1>12 DEF View

\* MergeReviews keeps the view: what it changed is to be emitted, all else is shown.
LEMMA MergeReviewsViews == IInv /\ View /\ MergeReviews => View'
<1> SUFFICES ASSUME IInv, View, MergeReviews PROVE View'
  OBVIOUS
<1>1. /\ AllOver
      /\ UNCHANGED <<scan, source, chunks, tools, static, requests, calls>>
      /\ \E reviewed : /\ Go("reviewing", "reviewed", FindingEvents(Changed(static, reviewed)))
                       /\ findings' = reviewed
      /\ \E a, b, c, d, e :
           stats' = [stats EXCEPT !.chunks = a, !.skipped = Plan.skipped, !.failed = b,
                                  !.found = c, !.discarded = d, !.judgements = e]
  <2>1. AllOver /\ UNCHANGED <<source, chunks, tools, static, requests, calls>>
    BY DEF MergeReviews
  <2>2. PICK results, judged, new, reviewed :
          /\ Go("reviewing", "reviewed", FindingEvents(Changed(static, reviewed)))
          /\ findings' = reviewed
          /\ stats' = [stats EXCEPT
               !.chunks = Cardinality({requests[i].about : i \in DOMAIN requests}),
               !.skipped = Plan.skipped,
               !.failed = Count(results, LAMBDA r : r.failed),
               !.found = Len(new),
               !.discarded = MapThenSumSet(LAMBDA i : results[i].discarded, DOMAIN results),
               !.judgements = Len(judged)]
    BY Zenon DEF MergeReviews
  <2> DEFINE a0 == Cardinality({requests[i].about : i \in DOMAIN requests})
             b0 == Count(results, LAMBDA r : r.failed)
             d0 == MapThenSumSet(LAMBDA i : results[i].discarded, DOMAIN results)
  <2>3. stats' = [stats EXCEPT !.chunks = a0, !.skipped = Plan.skipped, !.failed = b0,
                               !.found = Len(new), !.discarded = d0, !.judgements = Len(judged)]
    BY <2>2
  <2> HIDE DEF a0, b0, d0
  <2>4. UNCHANGED scan
    BY <2>2 DEF Go
  <2>5. \E reviewed_ : /\ Go("reviewing", "reviewed", FindingEvents(Changed(static, reviewed_)))
                       /\ findings' = reviewed_
    BY <2>2, Zenon
  <2>6. \E a, b, c, d, e :
          stats' = [stats EXCEPT !.chunks = a, !.skipped = Plan.skipped, !.failed = b,
                                 !.found = c, !.discarded = d, !.judgements = e]
    BY <2>3, Zenon
  <2> QED
    BY <2>1, <2>4, <2>5, <2>6
<1>2. PICK reviewed : /\ Go("reviewing", "reviewed", FindingEvents(Changed(static, reviewed)))
                      /\ findings' = reviewed
  BY <1>1
<1> DEFINE changed == Changed(static, reviewed)
           events == FindingEvents(changed)
<1>3. /\ at = "reviewing" /\ at' = "reviewed" /\ outbox = <<>> /\ outbox' = events /\ UNCHANGED browser
      /\ depth' = depth
      /\ StoreShape'
  BY <1>2, GoKeeps
<1>4. Standing' /\ IsList(reviewed)
  BY <1>2, MergeReviewsHolds DEF IInv, Standing, Stands
<1>5. /\ IsList(changed)
      /\ \A y \in Range(changed) : y \in Range(reviewed)
      /\ \A y \in Range(reviewed) : y \in Range(static) \/ y \in Range(changed)
  BY <1>4, KeptChanged
<1> HIDE DEF changed
<1>6. Announcing(events, changed)
  BY <1>5, EventsOfFindings
<1>7. Go("reviewing", "reviewed", events)
  BY <1>2 DEF changed
<1> HIDE DEF events
<1>8. Emitting'
  BY <1>2, <1>3, <1>5, <1>6, InRange, FindingsToEmit
<1>9. FindingsShown'
  <2>1. 1..Len(outbox) = {}
    BY <1>3, EmptyIsList
  <2>2. findings = static
    BY <1>3 DEF IInv, NotChanged
  <2>3. /\ \A x \in Range(static) : x.id \in DOMAIN browser.findings /\ browser.findings[x.id] = x
        /\ \A id \in DOMAIN browser.findings : \E x \in Range(static) : x.id = id
    BY <1>3, <2>1, <2>2 DEF View, FindingsShown
  <2>4. \A x \in Range(changed) : \E i \in 1..Len(outbox') : outbox'[i].kind = "finding" /\ outbox'[i].finding = x
    BY <1>3, <1>5, <1>6, InRange DEF Announcing
  <2>5. \A id \in DOMAIN browser.findings : \E x \in Range(reviewed) : x.id = id
    <3>1. \A f \in Range(static) : \E x \in Range(reviewed) : x.id = f.id
      BY <1>1, <1>2, <1>4 DEF Standing, Stands, Follows
    <3> QED
      BY <2>3, <3>1
  <2> QED
    BY <1>2, <1>3, <1>5, <2>3, <2>4, <2>5 DEF FindingsShown
<1>10. AskedOnce' /\ TaskKnown'
  BY <1>3 DEF AskedOnce, TaskKnown
<1>11. PlanShown'
  <2>1. PICK a, b, c, d, e :
           stats' = [stats EXCEPT !.chunks = a, !.skipped = Plan.skipped, !.failed = b,
                                  !.found = c, !.discarded = d, !.judgements = e]
    BY <1>1
  <2>2. PICK s : s = Plan.skipped
    OBVIOUS
  <2>3. stats' = [stats EXCEPT !.chunks = a, !.skipped = s, !.failed = b, !.found = c, !.discarded = d, !.judgements = e]
    BY <2>1, <2>2
  <2>4. DOMAIN stats = DOMAIN NoStats /\ browser.plan.skipped = Plan.skipped
    BY <1>3 DEF View, PlanShown
  <2>5. "skipped" \in DOMAIN NoStats
    BY DEF NoStats
  <2>6. DOMAIN stats' = DOMAIN NoStats /\ stats'.skipped = s
    BY <2>3, <2>4, <2>5
  <2> QED
    BY <1>3, <2>2, <2>4, <2>6 DEF PlanShown
<1>12. RecordsLeft' /\ CallsShown'
  BY <1>1, <1>3, QuietRecords, QuietCalls
<1>13. ToolsShown'
  BY <1>1, <1>3, ToolsStay DEF View, ToolsShown, Ended
<1>14. StagesShown'
  <2>1. Entered' = Entered
    BY <1>3 DEF Entered
  <2>2. events = <<>> \/ Head(events).kind = "finding"
    BY <1>6 DEF Announcing
  <2> QED
    BY <1>7, <2>1, <2>2, NoStageEntered DEF Ended
<1> QED
  BY <1>3, <1>8, <1>9, <1>10, <1>11, <1>12, <1>13, <1>14 DEF View

\* BeginVerification keeps the view: no finding is asked about twice.
LEMMA BeginVerificationViews == IInv /\ View /\ BeginVerification => View'
<1> SUFFICES ASSUME IInv, View, BeginVerification PROVE View'
  OBVIOUS
<1> DEFINE events == <<Stage("verifying")>>
           targets == TargetsOf(findings, From, DOMAIN sources)
           N == Len(targets)
<1>1. /\ UNCHANGED <<scan, tools, findings, stats, calls>>
      /\ requests' = [i \in DOMAIN Targets |-> Request("verify", Targets[i])]
      /\ Go("reviewed", "verifying", events)
  BY DEF BeginVerification, Go
<1>2. events # <<>> /\ Head(events) = Stage("verifying")
  OBVIOUS
<1>3. /\ at = "reviewed" /\ at' = "verifying" /\ outbox = <<>> /\ outbox' = events /\ UNCHANGED browser
      /\ depth' = depth
      /\ StoreShape'
  BY <1>1, GoKeeps
<1>4. Emitting'
  BY <1>3, StageToEmit DEF Places
<1> HIDE DEF events
<1>5. Targets = targets
  BY DEF Targets, TargetsOf, From
<1> HIDE DEF targets
<1>6. IsList(targets) /\ DistinctIds(targets)
  <2>1. IsList(findings) /\ DistinctIds(findings)
    BY DEF IInv, Standing, Stands
  <2> QED
    BY <2>1, KeptTargets, Zenon DEF targets
<1>7. N \in Nat /\ DOMAIN targets = 1..N
  BY <1>6, ListElements, Zenon
<1>8. /\ requests' = [i \in 1..N |-> requests'[i]]
      /\ \A i \in 1..N : requests'[i] = Request("verify", targets[i])
  BY <1>1, <1>5, <1>7
<1>9. IsList(requests') /\ Len(requests') = N
  <2>1. PICK rs : rs = requests'
    OBVIOUS
  <2> QED
    BY <1>7, <1>8, <2>1, ListByShape, Zenon
<1>10. \A about : /\ Request("verify", about).state = "waiting"
                  /\ Request("verify", about).records = <<>>
                  /\ Request("verify", about).about = about
  BY DEF Request
<1>11. \A i \in 1..N : /\ requests'[i].state = "waiting"
                       /\ requests'[i].records = <<>>
                       /\ requests'[i].about = targets[i]
  BY <1>8, <1>10
<1>12. AskedOnce'
  BY <1>6, <1>9, <1>11 DEF AskedOnce, DistinctIds
<1>13. FindingsShown'
  BY <1>1, <1>3, FindingsStay DEF View, FindingsShown, Ended
<1>14. TaskKnown' /\ PlanShown'
  BY <1>1, <1>3 DEF View, TaskKnown, PlanShown
<1>15. RecordsLeft' /\ CallsShown'
  BY <1>1, <1>3, <1>9, <1>11, BetweenStages, QuietRecords, QuietCalls
<1>16. ToolsShown'
  BY <1>1, <1>3, ToolsStay DEF View, ToolsShown, Ended
<1>17. StagesShown'
  <2>1. Entered' = Append(Entered, "verifying")
    BY <1>3 DEF Entered
  <2> QED
    BY <1>1, <1>2, <2>1, StageAnnounced DEF Ended
<1> QED
  BY <1>3, <1>4, <1>12, <1>13, <1>14, <1>15, <1>16, <1>17 DEF View

\* Two lists of three make one of six.
LEMMA SixInOrder ==
  ASSUME NEW a, NEW b, NEW c, NEW d, NEW e, NEW f
  PROVE  <<a, b, c>> \o <<d, e, f>> = <<a, b, c, d, e, f>>
<1> DEFINE S == {a, b, c, d, e, f}
           s == <<a, b, c>>
           t == <<d, e, f>>
           u == <<a, b, c, d, e, f>>
<1>1. s \in Seq(S) /\ t \in Seq(S) /\ u \in Seq(S) /\ Len(s) = 3 /\ Len(t) = 3 /\ Len(u) = 6
  OBVIOUS
<1>2. PICK v : v = s \o t
  OBVIOUS
<1>3. v \in Seq(S) /\ Len(v) = 6
  BY <1>1, <1>2
<1>4. v[1] = a /\ v[2] = b /\ v[3] = c /\ v[4] = d /\ v[5] = e /\ v[6] = f
  BY <1>2
<1>5. \A i \in 1..6 : v[i] = u[i]
  <2> TAKE i \in 1..6
  <2>1. i = 1 \/ i = 2 \/ i = 3 \/ i = 4 \/ i = 5 \/ i = 6
    OBVIOUS
  <2> QED
    BY <1>4, <2>1
<1>6. v = u
  <2> HIDE DEF s, t, u, S
  <2> QED
    BY <1>1, <1>3, <1>5, SeqEqual
<1> QED
  BY <1>2, <1>6

\* EndVerification keeps the view: every result is the finding as it is now, and is emitted.
LEMMA EndVerificationViews == IInv /\ View /\ EndVerification => View'
<1> SUFFICES ASSUME IInv, View, EndVerification PROVE View'
  OBVIOUS
<1> DEFINE events == FindingEvents(Results)
           after == [i \in DOMAIN findings |-> Updated(findings[i], Results)]
<1>1. /\ AllOver
      /\ UNCHANGED <<tools, requests, calls>>
      /\ Go("verifying", "verified", events)
      /\ findings' = after
      /\ \E a, b, c : stats' = [stats EXCEPT !.verified = a, !.disputed = b, !.unverified = c]
  <2>1. /\ AllOver
        /\ UNCHANGED <<tools, requests, calls>>
        /\ Go("verifying", "verified", events)
        /\ findings' = after
    BY DEF EndVerification, Announced
  <2> DEFINE a0 == Count(Results, LAMBDA f : f.verified # {})
             b0 == Count(Results, LAMBDA f : f.status = "needs_review")
             c0 == Count(Results, LAMBDA f : f.note = "unverified")
  <2>2. stats' = [stats EXCEPT !.verified = a0, !.disputed = b0, !.unverified = c0]
    BY DEF EndVerification
  <2> HIDE DEF a0, b0, c0
  <2> QED
    BY <2>1, <2>2
<1>2. /\ at = "verifying" /\ at' = "verified" /\ outbox = <<>> /\ outbox' = events /\ UNCHANGED browser
      /\ depth' = depth
      /\ StoreShape'
  BY <1>1, GoKeeps
<1>3. Verification(Results, findings, From)
  BY <1>1, <1>2, ResultsVerified
<1>4. IsList(findings) /\ DistinctIds(findings)
  BY DEF IInv, Standing, Stands
<1>5. IsList(after) /\ Standing'
  BY <1>1, EndVerificationHolds DEF IInv, Standing, Stands
<1> DEFINE N == Len(findings)
           M == Len(requests)
<1>6. N \in Nat /\ DOMAIN findings = 1..N /\ M \in Nat /\ DOMAIN requests = 1..M
  BY <1>4, ListElements DEF IInv, Requests
<1>7. Len(Results) = M /\ IsList(Results) /\ DOMAIN Results = 1..M
  <2>1. Results = [i \in 1..M |-> Results[i]]
    BY <1>6 DEF Results
  <2>2. PICK rs : rs = Results
    OBVIOUS
  <2> QED
    BY <1>6, <2>1, <2>2, ListByShape
<1>8. \A i \in 1..M : requests[i].about \in Range(findings) /\ Results[i].id = requests[i].about.id
  <2> TAKE i \in 1..M
  <2> DEFINE r == requests[i]
             x == r.about
             answer == r.reply.answer
  <2>1. r.task = "verify" /\ x \in Range(findings)
    BY <1>2 DEF IInv, OnVerification
  <2>2. r.state = "over" /\ Answered(r)
    BY <1>1, <1>6, <2>1 DEF AllOver, IInv, Requests, RequestOf
  <2>3. Results[i] = ResultOf(i)
    BY <1>6 DEF Results
  <2>4. CASE answer = Null
    <3>1. ResultOf(i) = NotVerified(x)
      BY <2>1, <2>4 DEF ResultOf
    <3>2. ByModels(x)
      BY <1>2 DEF IInv, OnVerification
    <3> HIDE DEF x
    <3>3. Checked(NotVerified(x), From) /\ NotVerified(x).id = x.id
      BY <3>2, UnverifiedIsChecked
    <3>4. PICK y : y = NotVerified(x)
      OBVIOUS
    <3>5. Results[i].id = x.id
      BY <2>3, <3>1, <3>3, <3>4
    <3> QED
      BY <2>1, <3>5 DEF x
  <2>5. CASE answer # Null
    <3>1. ResultOf(i) = ApplyVerdict(x, answer, By(r.reply))
      BY <2>1, <2>5 DEF ResultOf
    <3>2. VerdictOf(answer) /\ By(r.reply) \notin x.sources
      BY <2>1, <2>2, <2>5 DEF Answered
    <3>3. ByModels(x)
      BY <1>2 DEF IInv, OnVerification
    <3> HIDE DEF answer, r, x
    <3>4. PICK p : p = By(r.reply)
      OBVIOUS
    <3>5. PICK y : y = ApplyVerdict(x, answer, p)
      OBVIOUS
    <3>6. Checked(ApplyVerdict(x, answer, p), From) /\ ApplyVerdict(x, answer, p).id = x.id
      BY <3>2, <3>3, <3>4, VerdictIsChecked
    <3>7. Results[i].id = x.id
      BY <2>3, <3>1, <3>4, <3>5, <3>6
    <3> QED
      BY <2>1, <3>7 DEF x, r
  <2> QED
    BY <2>4, <2>5
<1>9. \A i, j \in 1..M : Results[i].id = Results[j].id => i = j
  BY <1>2, <1>8 DEF View, AskedOnce
<1>10. \A x \in Range(findings) : Updated(x, Results).id = x.id
  BY <1>7 DEF Updated
<1>11. \A i \in 1..M : Results[i] \in Range(after)
  <2> TAKE i \in 1..M
  <2>1. PICK k \in 1..N : findings[k] = requests[i].about
    BY <1>4, <1>8, InRange
  <2>2. Results[i].id = findings[k].id
    BY <1>8, <2>1
  <2>3. PICK results : results = Results
    OBVIOUS
  <2>4. Updated(findings[k], results) = results[i]
    BY <1>7, <1>9, <2>2, <2>3 DEF Updated
  <2>5. after[k] = results[i] /\ k \in DOMAIN after
    BY <1>6, <2>3, <2>4
  <2> QED
    BY <2>3, <2>5 DEF Range
<1> HIDE DEF M
<1>12. \A y \in Range(after) : \E k \in 1..N : y = Updated(findings[k], Results)
  BY <1>6 DEF Range
<1>13. \A x \in Range(findings) : Updated(x, Results) \in Range(after)
  <2> TAKE x \in Range(findings)
  <2>1. PICK k \in 1..N : findings[k] = x
    BY <1>4, InRange
  <2>2. k \in DOMAIN after /\ after[k] = Updated(x, Results)
    BY <1>6, <2>1
  <2> QED
    BY <2>2 DEF Range
<1>14. Announcing(events, Results)
  BY <1>7, EventsOfFindings
<1> HIDE DEF events
<1>15. Emitting'
  BY <1>1, <1>2, <1>7, <1>11, <1>14, FindingsToEmit
<1>16. FindingsShown'
  <2>1. 1..Len(outbox) = {}
    BY <1>2, EmptyIsList
  <2>2. /\ \A x \in Range(findings) : x.id \in DOMAIN browser.findings /\ browser.findings[x.id] = x
        /\ \A id \in DOMAIN browser.findings : \E x \in Range(findings) : x.id = id
    BY <1>2, <2>1 DEF View, FindingsShown
  <2>3. ASSUME NEW y \in Range(after)
        PROVE  \/ \E i \in 1..Len(outbox') : outbox'[i].kind = "finding" /\ outbox'[i].finding = y
               \/ y.id \in DOMAIN browser'.findings /\ browser'.findings[y.id] = y
    <3>1. PICK k \in 1..N : y = Updated(findings[k], Results)
      BY <1>12
    <3>2. findings[k] \in Range(findings)
      BY <1>4, InRange
    <3>3. PICK results : results = Results
      OBVIOUS
    <3>4. CASE \E i \in DOMAIN results : results[i].id = findings[k].id
      <4>1. \E i \in 1..M : y = results[i]
        BY <1>7, <3>1, <3>3, <3>4 DEF Updated
      <4> QED
        BY <1>2, <1>7, <1>14, <3>3, <4>1 DEF Announcing
    <3>5. CASE ~ \E i \in DOMAIN results : results[i].id = findings[k].id
      <4>1. y = findings[k]
        BY <3>1, <3>3, <3>5 DEF Updated
      <4> QED
        BY <1>2, <2>2, <3>2, <4>1
    <3> QED
      BY <3>4, <3>5
  <2>4. \A id \in DOMAIN browser.findings : \E y \in Range(after) : y.id = id
    BY <1>10, <1>13, <2>2
  <2> HIDE DEF after
  <2> QED
    BY <1>1, <1>2, <2>3, <2>4 DEF FindingsShown
<1>17. AskedOnce' /\ TaskKnown'
  BY <1>2 DEF AskedOnce, TaskKnown
<1>18. PlanShown'
  <2>1. PICK a, b, c : stats' = [stats EXCEPT !.verified = a, !.disputed = b, !.unverified = c]
    BY <1>1
  <2>2. DOMAIN stats = DOMAIN NoStats
    BY DEF View, PlanShown
  <2>3. "skipped" \in DOMAIN NoStats
    BY DEF NoStats
  <2>4. DOMAIN stats' = DOMAIN NoStats /\ stats'.skipped = stats.skipped
    BY <2>1, <2>2, <2>3
  <2> QED
    BY <1>2, <2>4 DEF View, PlanShown
<1>19. RecordsLeft' /\ CallsShown'
  BY <1>1, <1>2, QuietRecords, QuietCalls
<1>20. ToolsShown'
  BY <1>1, <1>2, ToolsStay DEF View, ToolsShown, Ended
<1>21. StagesShown'
  <2>1. Entered' = Entered
    BY <1>2 DEF Entered
  <2>2. events = <<>> \/ Head(events).kind = "finding"
    BY <1>14 DEF Announcing
  <2> QED
    BY <1>1, <2>1, <2>2, NoStageEntered DEF Ended
<1> QED
  BY <1>2, <1>15, <1>16, <1>17, <1>18, <1>19, <1>20, <1>21 DEF View

\* BeginSummary keeps the view.
LEMMA BeginSummaryViews == IInv /\ View /\ BeginSummary => View'
<1> SUFFICES ASSUME IInv, View, BeginSummary PROVE View'
  OBVIOUS
<1> DEFINE events == <<Stage("summarizing")>>
           q == Request("summarize", Null)
<1>1. /\ UNCHANGED <<tools, findings, stats, calls>>
      /\ requests' = <<q>>
      /\ Go("verified", "summarizing", events)
  BY DEF BeginSummary
<1>2. events # <<>> /\ Head(events) = Stage("summarizing")
  OBVIOUS
<1>3. /\ at = "verified" /\ at' = "summarizing" /\ outbox = <<>> /\ outbox' = events /\ UNCHANGED browser
      /\ depth' = depth
      /\ StoreShape'
  BY <1>1, GoKeeps
<1>4. Emitting'
  BY <1>3, StageToEmit DEF Places
<1> HIDE DEF events
<1>5. q.state = "waiting" /\ q.records = <<>> /\ q.task = "summarize"
  BY DEF Request
<1> HIDE DEF q
<1>6. \A i \in 1..Len(requests') : requests'[i] = q
  BY <1>1
<1>7. FindingsShown'
  BY <1>1, <1>3, FindingsStay DEF View, FindingsShown, Ended
<1>8. AskedOnce' /\ TaskKnown' /\ PlanShown'
  BY <1>1, <1>3, <1>5, <1>6 DEF View, AskedOnce, TaskKnown, PlanShown
<1>9. RecordsLeft' /\ CallsShown'
  BY <1>1, <1>3, <1>5, <1>6, BetweenStages, QuietRecords, QuietCalls
<1>10. ToolsShown'
  BY <1>1, <1>3, ToolsStay DEF View, ToolsShown, Ended
<1>11. StagesShown'
  <2>1. Entered' = Append(Entered, "summarizing")
    BY <1>3 DEF Entered
  <2> QED
    BY <1>1, <1>2, <2>1, StageAnnounced DEF Ended
<1> QED
  BY <1>3, <1>4, <1>7, <1>8, <1>9, <1>10, <1>11 DEF View

\* EndReview keeps the view: it orders the findings, which are those that are shown.
LEMMA EndReviewViews == IInv /\ View /\ EndReview => View'
<1> SUFFICES ASSUME IInv, View, EndReview PROVE View'
  OBVIOUS
<1> DEFINE events == <<Stage("done")>>
<1>1. /\ AllOver
      /\ UNCHANGED <<tools, stats, calls>> /\ requests' = <<>>
      /\ findings' = Ordered(findings)
      /\ Go("summarizing", "finishing", events)
  BY DEF EndReview, Finish
<1>2. events # <<>> /\ Head(events) = Stage("done")
  OBVIOUS
<1>3. /\ at = "summarizing" /\ at' = "finishing" /\ outbox = <<>> /\ outbox' = events /\ UNCHANGED browser
      /\ depth' = depth /\ depth # "static"
      /\ StoreShape'
  BY <1>1, GoKeeps DEF IInv, WithReview
<1>4. Emitting'
  BY <1>3, StageToEmit DEF Places
<1> HIDE DEF events
<1>5. FindingsShown'
  <2>1. IsList(findings) /\ \A i \in 1..Len(findings) : WellFormed(findings[i])
    BY <1>3, InRange DEF IInv, Standing, Stands, AfterVerification, Checked
  <2>2. Range(Ordered(findings)) = Range(findings)
    BY <2>1, OrderedElements
  <2> QED
    BY <1>1, <1>3, <2>2, FindingsStay DEF Ended
<1>6. AskedOnce' /\ TaskKnown' /\ PlanShown'
  BY <1>1, <1>3 DEF View, AskedOnce, TaskKnown, PlanShown
<1>7. RecordsLeft' /\ CallsShown'
  <2>1. 1..Len(<<>>) = {}
    BY EmptyIsList
  <2> QED
    BY <1>1, <1>3, <2>1, QuietRecords, QuietCalls
<1>8. ToolsShown'
  BY <1>1, <1>3, ToolsStay DEF View, ToolsShown, Ended
<1>9. StagesShown'
  <2>1. StageOrder' = <<"ingesting", "preprocessing", "analyzing">> \o <<"reviewing", "verifying", "summarizing">>
    BY <1>3 DEF StageOrder
  <2>2. StageOrder' = <<"ingesting", "preprocessing", "analyzing", "reviewing", "verifying", "summarizing">>
    BY <2>1, SixInOrder
  <2>3. Entered' = Append(Entered, "done")
    BY <1>3, <2>2 DEF Entered
  <2> QED
    BY <1>1, <1>2, <2>3, StageAnnounced DEF Ended
<1> QED
  BY <1>3, <1>4, <1>5, <1>6, <1>7, <1>8, <1>9 DEF View

\* MakeReport keeps the view.
LEMMA MakeReportViews == IInv /\ View /\ MakeReport => View'
<1> SUFFICES ASSUME IInv, View, MakeReport PROVE View'
  OBVIOUS
<1>1. /\ UNCHANGED <<tools, findings, requests, stats, calls>>
      /\ Go("finishing", "done", <<>>)
  BY DEF MakeReport
<1>2. /\ at = "finishing" /\ at' = "done" /\ outbox = <<>> /\ outbox' = <<>> /\ UNCHANGED browser
      /\ depth' = depth
      /\ StoreShape'
  BY <1>1, GoKeeps
<1>3. Emitting'
  BY <1>2, EmptyIsList, StageToEmit DEF Places, Ended
<1>4. FindingsShown'
  BY <1>1, <1>2, FindingsStay DEF View, FindingsShown, Ended
<1>5. AskedOnce' /\ TaskKnown' /\ PlanShown'
  BY <1>1, <1>2 DEF View, AskedOnce, TaskKnown, PlanShown
<1>6. RecordsLeft' /\ CallsShown'
  BY <1>1, <1>2, BetweenStages, QuietRecords, QuietCalls
<1>7. ToolsShown'
  BY <1>1, <1>2, ToolsStay DEF View, ToolsShown, Ended
<1>8. StagesShown'
  <2>1. Entered' = Entered
    BY <1>2 DEF Entered, StageOrder
  <2> QED
    BY <1>1, <2>1, NoStageEntered DEF Ended
<1> QED
  BY <1>2, <1>3, <1>4, <1>5, <1>6, <1>7, <1>8 DEF View

\* Cancel keeps the view: what is shown stays, and nothing more is to come.
LEMMA CancelViews == IInv /\ View /\ Cancel => View'
<1> SUFFICES ASSUME IInv, View, Cancel PROVE View'
  OBVIOUS
<1>1. /\ at' = "cancelled" /\ outbox' = <<>> /\ requests' = <<>> /\ calls' = <<>>
      /\ findings' = <<>> /\ stats' = NoStats
      /\ tools' = [t \in DOMAIN tools |-> [state |-> "over", result |-> NoResult]]
      /\ UNCHANGED browser
  BY DEF Cancel
<1>2. IsList(<<>>) /\ Len(<<>>) = 0 /\ 1..0 = {} /\ DOMAIN <<>> = {}
  BY EmptyIsList
<1>3. DOMAIN tools = Tools
  BY DEF IInv, ToolsRun
<1>4. StoreShape' /\ Emitting'
  BY <1>1, <1>2 DEF View, StoreShape, Emitting, Places, Ended
<1>5. FindingsShown' /\ AskedOnce' /\ TaskKnown' /\ StagesShown' /\ PlanShown'
  BY <1>1 DEF FindingsShown, AskedOnce, TaskKnown, StagesShown, PlanShown
<1>6. RecordsLeft'
  BY <1>1, QuietRecords
<1>7. CallsShown'
  <2>1. Unshown' = {}
    BY <1>1, <1>2 DEF Unshown
  <2>2. IsFiniteSet({})
    BY FS_EmptySet
  <2> QED
    BY <1>1, <1>2, <2>1, <2>2 DEF CallsShown
<1>8. ToolsShown'
  <2>1. \A t \in Tools : tools'[t].state = "over"
    BY <1>1, <1>3
  <2> QED
    BY <1>1, <2>1 DEF View, ToolsShown
<1> QED
  BY <1>4, <1>5, <1>6, <1>7, <1>8 DEF View

\* A reviewer's decision keeps the view.
LEMMA DecideViews ==
  ASSUME View, NEW i, NEW status, Decide(i, status)
  PROVE  View'
<1>1. UNCHANGED <<scan, source, chunks, at, outbox, tools, static, sources, findings, requests, stats, calls, browser>>
  BY DEF Decide
<1>2. Plan' = Plan /\ depth' = depth
  BY <1>1 DEF Plan, Project, depth
<1> QED
  BY <1>1, <1>2, ViewStays

\* Every step keeps the view.
LEMMA StepViews == IInv /\ View /\ [Next]_vars => View'
<1> SUFFICES ASSUME IInv, View, [Next]_vars PROVE View'
  OBVIOUS
<1>1. CASE MainStep
  BY <1>1, EmitViews, IngestViews, PreprocessViews, AnalyzeViews, StaticOnlyViews, BeginReviewViews,
     MergeReviewsViews, BeginVerificationViews, EndVerificationViews, BeginSummaryViews, EndReviewViews,
     MakeReportViews DEF MainStep
<1>2. ASSUME NEW t \in Range(Analyzers), ToolStep(t) PROVE View'
  BY <1>2, StartToolViews, EndToolViews DEF ToolStep, Tools
<1>3. ASSUME NEW i \in DOMAIN requests, RequestStep(i) PROVE View'
  BY <1>3, StartRequestViews, EndRequestViews, EmitCallViews DEF RequestStep
<1>4. CASE Cancel
  BY <1>4, CancelViews
<1>5. ASSUME NEW status, NEW i, Decide(i, status) PROVE View'
  BY <1>5, DecideViews
<1>6. CASE UNCHANGED vars
  <2>1. UNCHANGED <<scan, source, chunks, at, outbox, tools, findings, static, requests, stats, calls, browser>>
    BY <1>6 DEF vars
  <2>2. Plan' = Plan /\ depth' = depth
    BY <2>1 DEF Plan, Project, depth
  <2> QED
    BY <2>1, <2>2, ViewStays
<1> QED
  BY <1>1, <1>2, <1>3, <1>4, <1>5, <1>6 DEF Next, AnyRequest

\* The browser's view is kept in every run.
THEOREM ViewIsKept == Spec => []View
<1>1. Init => View
  BY InitViews
<1>2. IInv /\ View /\ [Next]_vars => View'
  BY StepViews
<1> QED
  BY <1>1, <1>2, Invariant, PTL DEF Spec

\* The first n elements of s are all different.
Different(s, n) == \A i, j \in 1..n : s[i] = s[j] => i = j

\* Every one of the first m elements of s is one of the first n of t.
Among(s, m, t, n) == \A i \in 1..m : \E j \in 1..n : t[j] = s[i]

\* Two lists without repetition that have the same elements are equally long.
LEMMA SameLength ==
  ASSUME NEW m \in Nat, NEW n \in Nat, NEW f, NEW h,
         Different(f, m), Different(h, n), Among(f, m, h, n), Among(h, n, f, m)
  PROVE  m = n
<1> DEFINE g == [j \in 1..n |-> CHOOSE i \in 1..m : f[i] = h[j]]
<1>1. \A j \in 1..n : g[j] \in 1..m /\ f[g[j]] = h[j]
  BY DEF Among
<1>2. g \in [1..n -> 1..m]
  BY <1>1
<1>3. \A j, k \in 1..n : g[j] = g[k] => j = k
  BY <1>1 DEF Different
<1>4. \A i \in 1..m : \E j \in 1..n : g[j] = i
  BY <1>1 DEF Different, Among
<1> HIDE DEF g
<1>5. g \in Bijection(1..n, 1..m)
  BY <1>2, <1>3, <1>4 DEF Bijection, Injection, Surjection, IsInjective
<1>6. ExistsBijection(1..n, 1..m)
  BY <1>5 DEF ExistsBijection
<1>7. \A k \in Nat : IsFiniteSet(1..k) /\ Cardinality(1..k) = k
  <2> TAKE k \in Nat
  <2>1. IsFiniteSet(1..k) /\ Cardinality(1..k) = IF 1 > k THEN 0 ELSE k - 1 + 1
    BY FS_Interval
  <2> QED
    BY <2>1
<1>8. Cardinality(1..m) = Cardinality(1..n)
  BY <1>6, <1>7, FS_Bijection
<1> QED
  BY <1>7, <1>8

\* A list determines what was appended last and what it was appended to.
LEMMA SameAppended ==
  ASSUME NEW s, IsList(s), NEW t, IsList(t), NEW x, NEW y, Append(s, x) = Append(t, y)
  PROVE  s = t /\ x = y
<1> DEFINE S == Range(s) \cup Range(t) \cup {x, y}
<1>1. s \in Seq(S) /\ t \in Seq(S) /\ x \in S /\ y \in S
  <2>1. s \in Seq(Range(s)) /\ t \in Seq(Range(t))
    BY DEF IsList
  <2> QED
    BY <2>1, SeqMonotonic
<1> HIDE DEF S
<1> QED
  BY <1>1, AppendInjective

\* When the last event is there, the browser shows the result of the scan (events.py:71,
\* scan-store.ts reduce and apply): its findings, every call the session recorded, every
\* analyzer once and the stages in order, in whatever order the tasks emitted them.
THEOREM ShownIsTheResult == Spec => []ShownIsResult
<1>1. IInv /\ View => ShownIsResult
  <2> SUFFICES ASSUME IInv, View, at \in {"finishing", "done"}, outbox = <<>>
               PROVE  /\ Range(browser.findings) = Range(findings)
                      /\ Range(browser.calls) = Range(calls) /\ Len(browser.calls) = Len(calls)
                      /\ {e.tool : e \in Range(browser.tools)} = Range(Analyzers)
                      /\ Len(browser.tools) = Len(Analyzers)
                      /\ \A e \in Range(browser.tools) :
                           e.state # "started" /\ e.count = Len(tools[e.tool].result.findings)
                      /\ browser.finished = StageOrder /\ browser.stage = "done"
                      /\ depth # "static" => browser.plan.skipped = stats.skipped
    BY Zenon DEF ShownIsResult
  <2>1. Range(browser.findings) = Range(findings)
    <3>1. 1..Len(outbox) = {}
      BY EmptyIsList
    <3>2. /\ \A x \in Range(findings) : x.id \in DOMAIN browser.findings /\ browser.findings[x.id] = x
          /\ \A id \in DOMAIN browser.findings : \E x \in Range(findings) : x.id = id
      BY <3>1 DEF View, FindingsShown
    <3>3. \A y : y \in Range(browser.findings) <=> \E id \in DOMAIN browser.findings : browser.findings[id] = y
      BY Zenon DEF Range
    <3>4. \A y : y \in Range(browser.findings) <=> y \in Range(findings)
      BY <3>2, <3>3
    <3> QED
      BY <3>4
  <2>2. Range(browser.calls) = Range(calls) /\ Len(browser.calls) = Len(calls)
    <3>1. \A i \in 1..Len(requests) : requests[i].records = <<>>
      <4>1. AllOver
        BY BetweenStages
      <4>2. DOMAIN requests = 1..Len(requests)
        BY ListElements DEF IInv, Requests
      <4> QED
        BY <4>1, <4>2 DEF View, RecordsLeft, AllOver
    <3>2. Unshown = {}
      BY <3>1, EmptyIsList DEF Unshown
    <3>3. Cardinality(Unshown) = 0
      BY <3>2, FS_EmptySet
    <3>4. Len(browser.calls) \in Nat
      BY ListElements DEF View, StoreShape
    <3>5. /\ Range(calls) = Range(browser.calls) \cup {requests[p[1]].records[p[2]] : p \in Unshown}
          /\ Len(calls) = Len(browser.calls) + Cardinality(Unshown)
      BY DEF View, CallsShown
    <3>6. {requests[p[1]].records[p[2]] : p \in Unshown} = {}
      BY <3>2
    <3> QED
      BY <3>3, <3>4, <3>5, <3>6
  <2> DEFINE m == Len(Analyzers)
             n == Len(browser.tools)
  <2>3. /\ m \in Nat /\ n \in Nat
        /\ \A x : x \in Tools <=> \E i \in 1..m : Analyzers[i] = x
        /\ \A x : x \in Range(browser.tools) <=> \E j \in 1..n : browser.tools[j] = x
    BY AnalyzerList, ListElements DEF View, StoreShape, Tools
  <2> HIDE DEF m, n
  <2>4. /\ \A t \in Tools : tools[t].state = "over"
        /\ \A t \in Tools : \E j \in 1..n : browser.tools[j].tool = t
        /\ \A j \in 1..n : browser.tools[j].tool \in Tools
        /\ \A i, j \in 1..n : browser.tools[i].tool = browser.tools[j].tool => i = j
        /\ \A j \in 1..n : /\ browser.tools[j].state # "started"
                           /\ browser.tools[j].count = Len(tools[browser.tools[j].tool].result.findings)
    BY DEF View, ToolsShown, n
  <2>5. {e.tool : e \in Range(browser.tools)} = Range(Analyzers)
    BY <2>3, <2>4 DEF Tools
  <2>6. n = m
    <3> DEFINE h == [j \in 1..n |-> browser.tools[j].tool]
    <3>1. Among(Analyzers, m, h, n)
      BY <2>3, <2>4 DEF Among
    <3>2. Among(h, n, Analyzers, m)
      BY <2>3, <2>4 DEF Among
    <3>3. Different(h, n)
      BY <2>3, <2>4 DEF Different
    <3>4. Different(Analyzers, m)
      BY AnalyzerList DEF Different, m
    <3> HIDE DEF h
    <3>5. m = n
      BY <2>3, <3>1, <3>2, <3>3, <3>4, SameLength
    <3> QED
      BY <3>5
  <2>7. \A e \in Range(browser.tools) :
          e.state # "started" /\ e.count = Len(tools[e.tool].result.findings)
    BY <2>3, <2>4
  <2>8. browser.finished = StageOrder /\ browser.stage = "done"
    <3>1. Entered = Append(StageOrder, "done") /\ Entered = ShownStages
      BY DEF View, StagesShown, Entered
    <3> DEFINE Names == {"ingesting", "preprocessing", "analyzing", "reviewing", "verifying", "summarizing"}
    <3>2. StageOrder \in Seq(Names)
      <4>1. StageOrder = <<"ingesting", "preprocessing", "analyzing">> \o <<>>
            \/ StageOrder = <<"ingesting", "preprocessing", "analyzing">> \o <<"reviewing", "verifying", "summarizing">>
        BY Zenon DEF StageOrder
      <4>2. /\ <<"ingesting", "preprocessing", "analyzing">> \in Seq(Names)
            /\ <<"reviewing", "verifying", "summarizing">> \in Seq(Names)
            /\ <<>> \in Seq(Names)
        OBVIOUS
      <4>3. \A s, t \in Seq(Names) : s \o t \in Seq(Names)
        OBVIOUS
      <4> QED
        BY <4>1, <4>2, <4>3, Zenon
    <3>3. IsList(StageOrder) /\ Append(StageOrder, "done") # <<>>
      <4>1. StageOrder \in Seq(Names \cup {"done"}) /\ "done" \in Names \cup {"done"}
        BY <3>2
      <4> HIDE DEF Names
      <4> QED
        BY <4>1, SeqIsList, AppendProperties
    <3>4. ShownStages = Append(browser.finished, browser.stage)
      BY <3>1, <3>3 DEF ShownStages
    <3>5. IsList(browser.finished)
      BY DEF View, StoreShape
    <3>6. PICK s, t, x : s = browser.finished /\ t = StageOrder /\ x = browser.stage
      OBVIOUS
    <3>7. Append(s, x) = Append(t, "done") /\ IsList(s) /\ IsList(t)
      BY <3>1, <3>3, <3>4, <3>5, <3>6
    <3>8. s = t /\ x = "done"
      BY <3>7, SameAppended
    <3> QED
      BY <3>6, <3>8
  <2>9. depth # "static" => browser.plan.skipped = stats.skipped
    BY DEF View, PlanShown
  <2> QED
    BY <2>1, <2>2, <2>5, <2>6, <2>7, <2>8, <2>9 DEF m, n
<1> QED
  BY <1>1, Invariant, ViewIsKept, PTL

-----------------------------------------------------------------------------
(* Every finding and every count in good form.                             *)

\* A finding with all that a finding has.
GoodForm(x) == DOMAIN x = Fields /\ WellFormed(x)

\* At every moment the findings are in good form, what the session counts are numbers, and
\* the source directory is empty or as ingestion left it.
Formed ==
  /\ \A x \in Range(findings) : GoodForm(x)
  /\ stats \in [DOMAIN NoStats -> Nat]
  /\ source \in {Nothing, Extracted[scan.upload]}

\* The statistics of nothing.
LEMMA NoStatsCount == NoStats \in [DOMAIN NoStats -> Nat]
BY DEF NoStats

\* A scan that has just begun is in good form.
LEMMA InitFormed == Init => Formed
<1>1. Range(<<>>) = {}
  BY EmptyIsList
<1> QED
  BY <1>1, NoStatsCount DEF Init, Formed

\* What most steps leave in good form.
LEMMA FormedStays ==
  ASSUME Formed, UNCHANGED <<scan, source, findings, stats>>
  PROVE  Formed'
BY DEF Formed

\* The static findings are in good form.
LEMMA AnalyzeFormed ==
  ASSUME IInv', Formed, Analyze
  PROVE  Formed'
<1>1. UNCHANGED <<scan, source, stats>> /\ at' = "analyzed"
  BY DEF Analyze, Go
<1>2. \A x \in Range(findings') : GoodForm(x)
  <2>1. findings' = static' /\ StaticFindings(static')
    BY <1>1 DEF IInv, NotChanged, Standing, Stands
  <2> QED
    BY <2>1 DEF StaticFindings, StaticFinding, GoodForm
<1> QED
  BY <1>1, <1>2 DEF Formed

\* What the merge of the reviews finds is in good form, and what it counts are numbers.
LEMMA MergeFormed ==
  ASSUME IInv, IInv', Formed, MergeReviews
  PROVE  Formed'
<1> DEFINE new == AiFindings(Results)
           judged == Judgements(Results)
           chunksRead == Cardinality({requests[i].about : i \in DOMAIN requests})
           failed == Count(Results, LAMBDA r : r.failed)
           discarded == DiscardedOf(Results)
<1>1. /\ at = "reviewing" /\ at' = "reviewed" /\ AllOver
      /\ UNCHANGED <<scan, source, requests, static, sources>>
  BY DEF MergeReviews, Go
<1>2. stats' = [stats EXCEPT !.chunks = chunksRead, !.skipped = Plan.skipped, !.failed = failed,
                             !.found = Len(new), !.discarded = discarded, !.judgements = Len(judged)]
  BY DEF MergeReviews, DiscardedOf
<1>3. ReviewResults(Results, DOMAIN sources)
  BY <1>1, ResultsReviewed
<1>4. Len(new) \in Nat /\ Len(judged) \in Nat
  <2>1. IsList(new) /\ IsList(judged)
    BY <1>3, AllReviewed, Zenon DEF NewFindings, Judging
  <2> QED
    BY <2>1, ListElements, Zenon
<1>5. discarded \in Nat
  BY <1>3, DiscardedIsNat, Zenon
<1>6. Plan.skipped \in Nat
  <2>1. IsList(chunks) /\ \A c \in Range(chunks) : ChunkOf(c)
    BY DEF IInv, ChunksRead
  <2>2. IsList(static) /\ \A f \in Range(static) : f.severity \in Int
    BY DEF IInv, Standing, Stands, StaticFindings, StaticFinding, WellFormed
  <2>3. Complex(Project.functions) /\ MaxCalls \in Nat
    BY ProjectComplex, RunAssumption
  <2> QED
    BY <2>1, <2>2, <2>3, PlannedChunks, Zenon DEF Plan
<1>7. failed \in Nat
  <2>1. Len(Results) \in Nat /\ DOMAIN Results = 1..Len(Results)
    BY <1>3, ListElements, Zenon DEF ReviewResults
  <2>2. failed = Cardinality({i \in DOMAIN Results : Results[i].failed})
    BY DEF Count
  <2> HIDE DEF failed
  <2>3. {i \in DOMAIN Results : Results[i].failed} \in SUBSET (1..Len(Results))
    BY <2>1
  <2> QED
    BY <2>1, <2>2, <2>3, FewPlaces
<1>8. chunksRead \in Nat
  <2> DEFINE f == [i \in DOMAIN requests |-> requests[i].about]
  <2>1. DOMAIN requests = 1..Len(requests) /\ Len(requests) \in Nat
    BY ListElements, Zenon DEF IInv, Requests
  <2>2. IsFiniteSet(DOMAIN requests)
    BY <2>1, FS_Interval
  <2>3. {requests[i].about : i \in DOMAIN requests} = {f[i] : i \in DOMAIN requests}
    OBVIOUS
  <2> HIDE DEF f
  <2>4. IsFiniteSet({f[i] : i \in DOMAIN requests})
    BY <2>2, FiniteImage, Zenon
  <2> QED
    BY <2>3, <2>4, FS_CardinalityType, Zenon
<1> HIDE DEF new, judged, chunksRead, failed, discarded
<1>9. stats' \in [DOMAIN NoStats -> Nat]
  <2>1. stats \in [DOMAIN NoStats -> Nat]
    BY DEF Formed
  <2> QED
    BY <1>2, <1>4, <1>5, <1>6, <1>7, <1>8, <2>1
<1>10. \A x \in Range(findings') : GoodForm(x)
  <2>1. \A x \in Range(findings') : (\E f \in Range(static') : Follows(x, f)) \/ ByModels(x)
    BY <1>1 DEF IInv, AfterMerge, Merging
  <2> QED
    BY <2>1 DEF Follows, ByModels, GoodForm
<1> QED
  BY <1>1, <1>9, <1>10 DEF Formed

\* What verification leaves is in good form, and what it counts are numbers.
LEMMA EndVerificationFormed ==
  ASSUME IInv, IInv', Formed, EndVerification
  PROVE  Formed'
<1> DEFINE verified == Cardinality({i \in DOMAIN Results : Results[i].verified # {}})
           disputed == Cardinality({i \in DOMAIN Results : Results[i].status = "needs_review"})
           unverified == Cardinality({i \in DOMAIN Results : Results[i].note = "unverified"})
<1>1. /\ at = "verifying" /\ at' = "verified" /\ AllOver
      /\ UNCHANGED <<scan, source>>
  BY DEF EndVerification, Go
<1>2. stats' = [stats EXCEPT !.verified = verified, !.disputed = disputed, !.unverified = unverified]
  BY DEF EndVerification, Count
<1>3. Len(Results) \in Nat /\ DOMAIN Results = 1..Len(Results)
  BY <1>1, ResultsVerified, ListElements, Zenon DEF Verification
<1>4. verified \in Nat /\ disputed \in Nat /\ unverified \in Nat
  <2>1. /\ {i \in DOMAIN Results : Results[i].verified # {}} \in SUBSET (1..Len(Results))
        /\ {i \in DOMAIN Results : Results[i].status = "needs_review"} \in SUBSET (1..Len(Results))
        /\ {i \in DOMAIN Results : Results[i].note = "unverified"} \in SUBSET (1..Len(Results))
    BY <1>3
  <2> QED
    BY <1>3, <2>1, FewPlaces
<1> HIDE DEF verified, disputed, unverified
<1>5. stats' \in [DOMAIN NoStats -> Nat]
  BY <1>2, <1>4 DEF Formed
<1>6. \A x \in Range(findings') : GoodForm(x)
  <2>1. depth' # "static"
    BY <1>1 DEF IInv, WithReview
  <2> QED
    BY <1>1, <2>1 DEF IInv, AfterVerification, Checked, GoodForm
<1> QED
  BY <1>1, <1>5, <1>6 DEF Formed

\* The findings in their order are in good form.
LEMMA EndReviewFormed ==
  ASSUME IInv', Formed, IInv, EndReview
  PROVE  Formed'
<1>1. at = "summarizing" /\ at' = "finishing" /\ UNCHANGED <<scan, source, stats>>
  BY DEF EndReview, Finish, Go
<1>2. depth' # "static"
  BY <1>1 DEF IInv, WithReview, depth
<1>3. \A x \in Range(findings') : GoodForm(x)
  BY <1>1, <1>2 DEF IInv, AfterVerification, Checked, GoodForm
<1> QED
  BY <1>1, <1>3 DEF Formed

\* Every step leaves them in good form.
LEMMA StepFormed == IInv /\ IInv' /\ Formed /\ [Next]_vars => Formed'
<1> SUFFICES ASSUME IInv, IInv', Formed, [Next]_vars PROVE Formed'
  OBVIOUS
<1>1. CASE Ingest
  <2>1. UNCHANGED <<scan, findings, stats>> /\ source' = Extracted[scan.upload]
    BY <1>1 DEF Ingest, Go
  <2> QED
    BY <2>1 DEF Formed
<1>2. CASE Emit \/ Preprocess \/ StaticOnly \/ BeginReview \/ BeginVerification \/ BeginSummary \/ MakeReport
  <2>1. UNCHANGED <<scan, source, findings, stats>>
    BY <1>2 DEF Emit, Preprocess, StaticOnly, BeginReview, BeginVerification, BeginSummary, MakeReport,
                Finish, Go
  <2> QED
    BY <2>1, FormedStays
<1>3. CASE Analyze \/ MergeReviews \/ EndVerification \/ EndReview
  BY <1>3, AnalyzeFormed, MergeFormed, EndVerificationFormed, EndReviewFormed
<1>4. CASE \E t \in Range(Analyzers) : ToolStep(t)
  <2>1. UNCHANGED <<scan, source, findings, stats>>
    BY <1>4 DEF ToolStep, StartTool, EndTool
  <2> QED
    BY <2>1, FormedStays
<1>5. CASE AnyRequest
  <2>1. UNCHANGED <<scan, source, findings, stats>>
    BY <1>5 DEF AnyRequest, RequestStep, StartRequest, EndRequest, EmitCall
  <2> QED
    BY <2>1, FormedStays
<1>6. CASE Cancel
  <2>1. UNCHANGED <<scan, source>> /\ findings' = <<>> /\ stats' = NoStats
    BY <1>6 DEF Cancel
  <2>2. Range(<<>>) = {}
    BY EmptyIsList
  <2> QED
    BY <2>1, <2>2, NoStatsCount DEF Formed
<1>7. ASSUME NEW i, NEW status, Decide(i, status) PROVE Formed'
  BY <1>7, FormedStays DEF Decide
<1>8. CASE UNCHANGED vars
  BY <1>8, FormedStays DEF vars
<1> QED
  BY <1>1, <1>2, <1>3, <1>4, <1>5, <1>6, <1>7, <1>8 DEF Next, MainStep

\* In every run everything is in good form.
LEMMA FormKept == Spec => []Formed
<1> QED
  BY InitFormed, StepFormed, Invariant, PTL DEF Spec

\* A scan's state has the shape that the code gives it (findings.py, session.py,
\* scan-store.ts): every finding is in the ranges of its fields, no two have the same id,
\* and the browser keeps no more activity than it means to.
THEOREM TypeIsKept == Spec => []TypeOK
<1>1. IInv /\ View /\ Formed => TypeOK
  <2> SUFFICES ASSUME IInv, View, Formed PROVE TypeOK
    OBVIOUS
  <2>1. at \in Places
    BY DEF View, Emitting
  <2>2. \A t \in DOMAIN tools : tools[t].state \in {"ready", "running", "over"}
    BY DEF IInv, ToolsRun, View, ToolsShown
  <2>3. \A fs \in {static, findings} : /\ IsList(fs) /\ DistinctIds(fs)
                                       /\ \A f \in Range(fs) : IsFinding(f)
    BY DEF IInv, Standing, Stands, StaticFindings, StaticFinding, Formed, GoodForm, WellFormed
  <2>4. \A fs \in {static, findings} : Cardinality({f.id : f \in Range(fs)}) = Len(fs)
    BY <2>3, DistinctCount, Zenon
  <2>5. \A i \in DOMAIN requests : requests[i].state \in {"waiting", "calling", "emitting", "over"}
    <3>1. DOMAIN requests = 1..Len(requests)
      BY ListElements, Zenon DEF IInv, Requests
    <3> QED
      BY <3>1 DEF View, RecordsLeft
  <2>6. stats \in [DOMAIN NoStats -> Nat]
    BY DEF Formed
  <2>7. Len(browser.activity) <= ActivityLimit
    BY DEF View, StoreShape
  <2> QED
    BY <2>1, <2>2, <2>3, <2>4, <2>5, <2>6, <2>7 DEF TypeOK
<1> QED
  BY <1>1, Invariant, ViewIsKept, FormKept, PTL

-----------------------------------------------------------------------------
(* The report.                                                             *)

\* The greatest of finitely many numbers is one of them.
LEMMA MaxOfFinite ==
  ASSUME NEW S, IsFiniteSet(S), S # {}, \A x \in S : x \in Int
  PROVE  Max(S) \in S
<1>1. PICK s \in Seq(S) : \A x \in S : \E n \in 1..Len(s) : s[n] = x
  BY DEF IsFiniteSet
<1> DEFINE N == Len(s)
<1>2. N \in Nat /\ \A i \in 1..N : s[i] \in S
  OBVIOUS
<1>3. N # 0 /\ S = {s[i] : i \in 1..N}
  <2>1. PICK x : x \in S
    OBVIOUS
  <2>2. \E n \in 1..N : s[n] = x
    BY <1>1, <2>1
  <2>3. \A y \in S : y \in {s[i] : i \in 1..N}
    BY <1>1
  <2>4. \A y \in {s[i] : i \in 1..N} : y \in S
    BY <1>2
  <2> HIDE DEF N
  <2>5. N # 0
    BY <2>2
  <2>6. S = {s[i] : i \in 1..N}
    BY <2>3, <2>4, Zenon
  <2> QED
    BY <2>5, <2>6, Zenon
<1> HIDE DEF N
<1>4. \A i \in 1..N : s[i] \in Int
  BY <1>2
<1>5. Max({s[i] : i \in 1..N}) \in {s[i] : i \in 1..N}
  BY <1>2, <1>3, <1>4, MaxOfList
<1> QED
  BY <1>3, <1>5, Zenon

\* What the analyzers measured of files.
LEMMA SourcesMeasured ==
  ASSUME IInv
  PROVE  SourceMeasured(UNION {tools[t].result.measured : t \in Range(Analyzers)})
<1> DEFINE w == [t \in Tools |-> tools[t].result.measured]
           S == {w[t] : t \in Tools}
           U == UNION S
<1>1. \A t \in Tools : SourceMeasured(w[t])
  BY DEF IInv, ToolsRun, ToolState
<1>2. UNION {tools[t].result.measured : t \in Range(Analyzers)} = U
  BY DEF Tools
<1> HIDE DEF w
<1>3. IsFiniteSet(Tools)
  <2>1. IsList(Analyzers)
    BY AnalyzerList
  <2>2. Analyzers \in Seq(Range(Analyzers))
    BY <2>1 DEF IsList
  <2>3. \A x \in Range(Analyzers) : \E i \in 1..Len(Analyzers) : Analyzers[i] = x
    BY <2>1, InRange, Zenon
  <2>4. IsFiniteSet(Range(Analyzers))
    BY <2>2, <2>3, Zenon DEF IsFiniteSet
  <2> QED
    BY <2>4 DEF Tools
<1>4. IsFiniteSet(S)
  BY <1>3, FiniteImage
<1>5. \A T \in S : IsFiniteSet(T) /\ \A m \in T : m.source \in Nat
  BY <1>1 DEF SourceMeasured
<1> HIDE DEF S
<1>6. IsFiniteSet(U)
  BY <1>4, <1>5, FS_UNION
<1>7. \A m \in U : m.source \in Nat
  BY <1>5
<1> HIDE DEF U
<1>8. SourceMeasured(U)
  BY <1>6, <1>7 DEF SourceMeasured
<1> QED
  BY <1>2, <1>8, Zenon

\* What a report is made from can be measured: finitely many files and functions.
LEMMA ProjectMeasurable == IInv /\ Formed => Measurable(Project)
<1> SUFFICES ASSUME IInv, Formed PROVE Measurable(Project)
  OBVIOUS
<1> DEFINE measured == UNION {tools[t].result.measured : t \in Range(Analyzers)}
           here(f) == {m \in measured : m.file = f}
           File(f) == [file |-> f, lines |-> Len(Contents[f].lines),
                       source |-> Max({0} \cup {m.source : m \in here(f)})]
           R == Range(Reviewed)
           g == [f \in R |-> File(f)]
           files == {g[f] : f \in R}
<1>1. SourceMeasured(measured)
  BY SourcesMeasured
<1> HIDE DEF measured
<1>2. Project.files = files
  <2>1. Project.files = {File(f) : f \in R}
    BY DEF Project, measured
  <2> HIDE DEF File, R
  <2> QED
    BY <2>1
<1>3. OnDisk(source)
  <2>1. scan \in Scans /\ source \in {Nothing, Extracted[scan.upload]}
    BY DEF IInv, Scanned, Formed
  <2>2. Extracted[scan.upload] = Ingested(scan.upload)
    BY <2>1 DEF Extracted
  <2>3. OnDisk(Ingested(scan.upload))
    BY <2>1, IngestedOnDisk
  <2> QED
    BY <2>1, <2>2, <2>3, NothingOnDisk
<1>4. IsList(Reviewed) /\ \A i \in 1..Len(Reviewed) : Reviewed[i] \in DOMAIN Contents
  BY <1>3, ReviewedFiles, Zenon DEF Reviewed
<1>5. IsFiniteSet(R) /\ \A f \in R : f \in DOMAIN Contents
  <2>1. Reviewed \in Seq(R)
    BY <1>4 DEF IsList
  <2>2. \A f \in R : \E i \in 1..Len(Reviewed) : Reviewed[i] = f
    BY <1>4, InRange, Zenon
  <2> HIDE DEF R
  <2>3. IsFiniteSet(R)
    BY <2>1, <2>2, Zenon DEF IsFiniteSet
  <2> QED
    BY <1>4, <2>2, <2>3
<1> HIDE DEF R
<1>6. ASSUME NEW f \in R PROVE g[f].lines \in Int /\ g[f].source \in Int
  <2> DEFINE S == {0} \cup {m.source : m \in here(f)}
             h == [m \in here(f) |-> m.source]
  <2>1. IsFiniteSet(here(f))
    BY <1>1, FS_Subset DEF SourceMeasured
  <2>2. {m.source : m \in here(f)} = {h[m] : m \in here(f)}
    OBVIOUS
  <2> HIDE DEF h
  <2>3. IsFiniteSet({h[m] : m \in here(f)})
    BY <2>1, FiniteImage
  <2>4. IsFiniteSet(S)
    BY <2>2, <2>3, FS_Singleton, FS_Union
  <2>5. S # {} /\ \A x \in S : x \in Int
    BY <1>1 DEF SourceMeasured
  <2>6. g[f].source = Max(S) /\ g[f].lines = Len(Contents[f].lines)
    OBVIOUS
  <2> HIDE DEF S, g
  <2>7. Max(S) \in Int
    BY <2>4, <2>5, MaxOfFinite
  <2>8. Len(Contents[f].lines) \in Int
    <3>1. IsList(Contents[f].lines)
      BY <1>5, ContentsAssumption
    <3> QED
      BY <3>1, ListElements
  <2> QED
    BY <2>6, <2>7, <2>8
<1> HIDE DEF g
<1>7. IsFiniteSet(files)
  BY <1>5, FiniteImage
<1>8. Measuring(files)
  BY <1>6, <1>7 DEF Measuring
<1> HIDE DEF files
<1> QED
  BY <1>2, <1>8, ProjectComplex DEF Measurable

\* The report of a finished scan is the one of the findings it lists; before there is none.
ReportMade ==
  /\ report # Null => at = "done"
  /\ at = "done" => FindingList(report.findings) /\ report = BuildReport(report.findings, Project)

\* A report lists its findings.
LEMMA ReportLists ==
  ASSUME NEW fs, NEW project
  PROVE  BuildReport(fs, project).findings = fs
BY DEF BuildReport

\* What most steps leave of a report.
LEMMA ReportStays ==
  ASSUME ReportMade, UNCHANGED <<at, source, tools, report>>
  PROVE  ReportMade'
<1>1. Project' = Project
  BY DEF Project, Reviewed
<1> QED
  BY <1>1 DEF ReportMade

\* The report that is made is one of the findings.
LEMMA MakeReportMade ==
  ASSUME IInv, Formed, MakeReport
  PROVE  ReportMade'
<1>1. at' = "done" /\ report' = BuildReport(findings, Project) /\ UNCHANGED <<source, tools>>
  BY DEF MakeReport, Go
<1>2. Project' = Project
  BY <1>1 DEF Project, Reviewed
<1>3. report'.findings = findings
  BY <1>1, ReportLists
<1>4. FindingList(findings)
  <2>1. IsList(findings)
    BY DEF IInv, Standing, Stands
  <2>2. \A i \in 1..Len(findings) : findings[i] \in Range(findings)
    BY <2>1, InRange, Zenon
  <2> QED
    BY <2>1, <2>2 DEF FindingList, Formed, GoodForm
<1> QED
  BY <1>1, <1>2, <1>3, <1>4 DEF ReportMade

\* The findings, the one with this id under this status.
WithStatus(fs, id, status) ==
  [i \in DOMAIN fs |-> IF fs[i].id = id THEN [fs[i] EXCEPT !.status = status] ELSE fs[i]]

\* SetFindingStatus (set_finding_status), with what it binds put in its place.
LEMMA StatusSet ==
  ASSUME NEW r, NEW id, NEW status, NEW project
  PROVE  SetFindingStatus(r, id, status, project) = BuildReport(WithStatus(r.findings, id, status), project)
<1> DEFINE With(f) == IF f.id = id THEN [f EXCEPT !.status = status] ELSE f
           changed == [i \in DOMAIN r.findings |-> With(r.findings[i])]
           Recounted(fs) == Of(project, LAMBDA measured : BuildReport(fs, measured))
<1>1. \A x : {z \in {x} : z = z} = {x}
  OBVIOUS
<1>2. ASSUME NEW fs PROVE Recounted(fs) = BuildReport(fs, project)
  <2>1. {BuildReport(fs, z) : z \in {z \in {project} : z = z}} = {BuildReport(fs, project)}
    BY <1>1, Zenon
  <2> QED
    BY <2>1, Zenon DEF Of
<1>3. SetFindingStatus(r, id, status, project) = Of(changed, Recounted)
  BY DEF SetFindingStatus
<1>4. changed = WithStatus(r.findings, id, status)
  BY DEF WithStatus
<1> HIDE DEF changed, Recounted
<1>5. {Recounted(z) : z \in {z \in {changed} : z = z}} = {Recounted(changed)}
  BY <1>1, Zenon
<1>6. Of(changed, Recounted) = Recounted(changed)
  BY <1>5, Zenon DEF Of
<1> QED
  BY <1>2, <1>3, <1>4, <1>6, Zenon

\* A reviewer's decision makes the report anew.
LEMMA DecideMade ==
  ASSUME ReportMade, NEW i, NEW status \in ReviewerStatuses, Decide(i, status)
  PROVE  ReportMade'
<1> DEFINE fs == report.findings
           id == fs[i].id
           N == Len(fs)
<1>1. at = "done" /\ report' = SetFindingStatus(report, id, status, Project) /\ UNCHANGED <<at, source, tools>>
  BY DEF Decide
<1>2. Project' = Project
  BY <1>1 DEF Project, Reviewed
<1>3. FindingList(fs)
  BY <1>1 DEF ReportMade
<1>4. PICK after : after = WithStatus(fs, id, status)
  OBVIOUS
<1>5. report' = BuildReport(after, Project)
  BY <1>1, <1>4, StatusSet, Zenon
<1>6. N \in Nat /\ DOMAIN fs = 1..N /\ \A j \in 1..N : WellFormed(fs[j])
  BY <1>3, ListElements, Zenon DEF FindingList
<1> HIDE DEF fs, N, id
<1>7. \A j \in 1..N : after[j] = IF fs[j].id = id THEN [fs[j] EXCEPT !.status = status] ELSE fs[j]
  BY <1>4, <1>6 DEF WithStatus
<1>8. after = [j \in 1..N |-> after[j]]
  BY <1>4, <1>6 DEF WithStatus
<1>9. IsList(after) /\ Len(after) = N
  BY <1>6, <1>8, ListByShape, Zenon
<1>10. ASSUME NEW x, WellFormed(x) PROVE WellFormed([x EXCEPT !.status = status])
  <2>1. status \in FindingStatuses
    BY DEF ReviewerStatuses, FindingStatuses
  <2> QED
    BY <1>10, <2>1 DEF WellFormed, IsFinding
<1>11. FindingList(after)
  BY <1>6, <1>7, <1>9, <1>10 DEF FindingList
<1>12. report'.findings = after
  BY <1>5, ReportLists
<1> QED
  BY <1>1, <1>2, <1>5, <1>11, <1>12 DEF ReportMade

\* Every step leaves the report one of its findings.
LEMMA StepMade == IInv /\ Formed /\ ReportMade /\ [Next]_vars => ReportMade'
<1> SUFFICES ASSUME IInv, Formed, ReportMade, [Next]_vars PROVE ReportMade'
  OBVIOUS
<1>1. CASE Ingest \/ Preprocess \/ Analyze \/ StaticOnly \/ BeginReview \/ MergeReviews \/ BeginVerification
           \/ EndVerification \/ BeginSummary \/ EndReview
  <2>1. at # "done" /\ at' # "done" /\ UNCHANGED report
    BY <1>1 DEF Ingest, Preprocess, Analyze, StaticOnly, BeginReview, MergeReviews, BeginVerification,
                EndVerification, BeginSummary, EndReview, Finish, Go
  <2> QED
    BY <2>1 DEF ReportMade
<1>2. CASE Emit
  BY <1>2, ReportStays DEF Emit
<1>3. CASE MakeReport
  BY <1>3, MakeReportMade
<1>4. CASE \E t \in Range(Analyzers) : ToolStep(t)
  <2>1. at = "analyzing" /\ UNCHANGED <<at, report>>
    BY <1>4 DEF ToolStep, StartTool, EndTool, IInv, SourceRead, Tools
  <2> QED
    BY <2>1 DEF ReportMade
<1>5. CASE AnyRequest
  <2>1. UNCHANGED <<at, source, tools, report>>
    BY <1>5 DEF AnyRequest, RequestStep, StartRequest, EndRequest, EmitCall
  <2> QED
    BY <2>1, ReportStays
<1>6. CASE Cancel
  <2>1. at # "done" /\ at' # "done" /\ UNCHANGED report
    BY <1>6 DEF Cancel, Ended
  <2> QED
    BY <2>1 DEF ReportMade
<1>7. ASSUME NEW status \in ReviewerStatuses, NEW i, Decide(i, status) PROVE ReportMade'
  BY <1>7, DecideMade
<1>8. CASE UNCHANGED vars
  BY <1>8, ReportStays DEF vars
<1> QED
  BY <1>1, <1>2, <1>3, <1>4, <1>5, <1>6, <1>7, <1>8 DEF Next, MainStep

\* In every run there is a report at the end only, and it is one of its findings.
LEMMA ReportIsMade == Spec => []ReportMade
<1>1. Init => ReportMade
  BY DEF Init, ReportMade
<1> QED
  BY <1>1, StepMade, Invariant, FormKept, PTL DEF Spec

\* Through every decision of a reviewer the counts of the report are those of its
\* findings, each of which is reported or counted under exactly one reason, and the score
\* is a share of a hundred (document.py:166-195, score.py).
THEOREM ReportIsKept == Spec => []ReportAddsUp
<1>1. IInv /\ Formed /\ ReportMade => ReportAddsUp
  <2> SUFFICES ASSUME IInv, Formed, ReportMade, report # Null PROVE ReportAddsUp
    BY DEF ReportAddsUp
  <2>1. FindingList(report.findings) /\ report = BuildReport(report.findings, Project)
    BY DEF ReportMade
  <2>2. Measurable(Project)
    BY ProjectMeasurable
  <2>3. PICK r : r = BuildReport(report.findings, Project)
    OBVIOUS
  <2>4. AddsUp(r, report.findings, Project.functions)
    BY <2>1, <2>2, <2>3, ReportCounts, Zenon
  <2>5. report = r
    BY <2>1, <2>3
  <2> QED
    BY <2>4, <2>5, Zenon DEF ReportAddsUp, AddsUp
<1> QED
  BY <1>1, Invariant, FormKept, ReportIsMade, PTL

-----------------------------------------------------------------------------
(* What ingestion leaves on disk.                                          *)

\* In every run what is on disk is safe, and nothing of an upload is forgotten
\* (zipsafe.py:1-9, directory.py:66-73): the source directory is empty or as ingestion
\* left it, and whatever was uploaded that is sound.
THEOREM IngestionIsSafe == Spec => []IngestSafe
<1>1. IInv /\ Formed => IngestSafe
  <2> SUFFICES ASSUME IInv, Formed PROVE IngestSafe
    OBVIOUS
  <2>1. scan \in Scans
    BY DEF IInv, Scanned
  <2>2. PICK u : u = scan.upload
    BY Zenon
  <2>3. Sound(u, source)
    <3>1. CASE source = Nothing
      <4>1. source.files = <<>>
        BY <3>1 DEF Nothing
      <4> QED
        BY <3>1, <4>1, NoFilesSound, Zenon
    <3>2. CASE source = Extracted[u]
      <4>1. Extracted[u] = Ingested(u)
        BY <2>1, <2>2 DEF Extracted
      <4> QED
        BY <2>1, <2>2, <3>2, <4>1, IngestedSound, Zenon
    <3> QED
      BY <2>2, <3>1, <3>2 DEF Formed
  <2>4. \A i, j \in DOMAIN source.files : i # j =>
          NameOf(u, source, j) \notin Parents(NameOf(u, source, i)) \cup {NameOf(u, source, i)}
    BY <2>3, Zenon DEF Sound
  <2> QED
    BY <2>2, <2>3, <2>4, Zenon
       DEF IngestSafe, Sound, InPlace, Complete, NameOf, PlaceOf, Stored, Skipped
<1> QED
  BY <1>1, Invariant, FormKept, PTL

-----------------------------------------------------------------------------
(* The chunks that the review is planned from.                             *)

\* What preprocessing left is there while the analyzers run.
ChunksMade == at = "analyzing" => chunks = ChunksIn(Extracted[scan.upload])

\* Preprocess makes them, and nothing else happens to them in that stage.
LEMMA StepMakesChunks == IInv /\ ChunksMade /\ [Next]_vars => ChunksMade'
<1> SUFFICES ASSUME IInv, ChunksMade, [Next]_vars PROVE ChunksMade'
  OBVIOUS
<1>1. ASSUME UNCHANGED <<scan, chunks, at>> PROVE ChunksMade'
  BY <1>1 DEF ChunksMade
<1>2. CASE Preprocess
  <2>1. at = "preprocessing" /\ chunks' = ChunksIn(source) /\ scan' = scan
    BY <1>2 DEF Preprocess, Go
  <2>2. source = Extracted[scan.upload]
    BY <2>1 DEF IInv, SourceRead
  <2> QED
    BY <2>1, <2>2, Zenon DEF ChunksMade
<1>3. CASE Ingest \/ Analyze \/ StaticOnly \/ BeginReview \/ MergeReviews \/ BeginVerification
             \/ EndVerification \/ BeginSummary \/ EndReview \/ MakeReport \/ Cancel
  <2>1. at' # "analyzing"
    BY <1>3 DEF Ingest, Analyze, StaticOnly, BeginReview, MergeReviews, BeginVerification,
                EndVerification, BeginSummary, EndReview, MakeReport, Cancel, Finish, Go
  <2> QED
    BY <2>1 DEF ChunksMade
<1>4. CASE Emit
  BY <1>1, <1>4 DEF Emit
<1>5. CASE \E t \in Range(Analyzers) : ToolStep(t)
  BY <1>1, <1>5 DEF ToolStep, StartTool, EndTool
<1>6. CASE AnyRequest
  BY <1>1, <1>6 DEF AnyRequest, RequestStep, StartRequest, EndRequest, EmitCall
<1>7. ASSUME NEW i, NEW status, Decide(i, status) PROVE ChunksMade'
  BY <1>1, <1>7 DEF Decide
<1>8. CASE UNCHANGED vars
  BY <1>1, <1>8 DEF vars
<1> QED
  BY <1>2, <1>3, <1>4, <1>5, <1>6, <1>7, <1>8 DEF Next, MainStep

\* A line with code is in the body of one chunk of its file, and of no other.
LEMMA OnceChunked ==
  ASSUME NEW t, NEW files, ScanChunked(t, files), NEW f \in files,
         NEW n \in 1..Len(Contents[f].lines), Contents[f].lines[n].size > 0
  PROVE  Cardinality({i \in {i \in 1..Len(t) : t[i].file = f} : n \in t[i].first..t[i].last}) = 1
<1> DEFINE own == {i \in {i \in 1..Len(t) : t[i].file = f} : n \in t[i].first..t[i].last}
<1>1. /\ IsList(t)
      /\ \A i \in 1..Len(t) : \E g \in files : Promised(t[i], g, BrokenIn(g))
      /\ \A i, j \in 1..Len(t) : i < j /\ t[i].file = t[j].file => t[i].last < t[j].first
      /\ \A g \in files : \A k \in 1..Len(Contents[g].lines) :
           Contents[g].lines[k].size > 0 =>
             \E i \in 1..Len(t) : t[i].file = g /\ k \in t[i].first..t[i].last
  BY Zenon DEF ScanChunked
<1>2. PICK i \in 1..Len(t) : t[i].file = f /\ n \in t[i].first..t[i].last
  BY <1>1, Zenon
<1>3. \A j \in 1..Len(t) : t[j].first \in Int /\ t[j].last \in Int
  BY <1>1, Zenon DEF Promised, Ranged
<1>4. Len(t) \in Nat /\ n \in Int
  <2>1. Len(t) \in Nat
    BY <1>1, ListElements, Zenon
  <2> QED
    BY <1>2, <1>3, <2>1
<1>5. ASSUME NEW j \in own PROVE j = i
  <2>1. j \in 1..Len(t) /\ t[j].file = f /\ n \in t[j].first..t[j].last
    OBVIOUS
  <2>2. j < i => t[j].last < t[i].first
    BY <1>1, <1>2, <2>1
  <2>3. i < j => t[i].last < t[j].first
    BY <1>1, <1>2, <2>1
  <2>4. /\ t[j].first \in Int /\ t[j].last \in Int /\ t[i].first \in Int /\ t[i].last \in Int
    BY <1>3, <2>1, Zenon
  <2>5. n <= t[j].last /\ t[j].first <= n /\ n <= t[i].last /\ t[i].first <= n
    BY <1>2, <1>4, <2>1, <2>4
  <2>6. ~ (j < i) /\ ~ (i < j)
    BY <1>4, <2>2, <2>3, <2>4, <2>5
  <2> QED
    BY <1>4, <2>1, <2>6
<1>6. i \in own
  BY <1>2
<1>7. own = {i}
  BY <1>5, <1>6
<1> HIDE DEF own
<1>8. Cardinality({i}) = 1
  BY FS_Singleton
<1> QED
  BY <1>7, <1>8, Zenon DEF own

\* Every chunk of a file is as promised.
LEMMA AllPromised ==
  ASSUME NEW t, NEW files, ScanChunked(t, files), NEW f, NEW i \in 1..Len(t), t[i].file = f
  PROVE  Promised(t[i], f, BrokenIn(f))
<1>1. PICK g \in files : Promised(t[i], g, BrokenIn(g))
  BY Zenon DEF ScanChunked
<1>2. g = f
  BY <1>1, Zenon DEF Promised
<1> QED
  BY <1>1, <1>2, Zenon

\* In every run the analyzers and the review get all code, each line once, in chunks that
\* keep their limits, with context from before the body and what failed to parse marked
\* (structure.py:1-13, chunker.py).
THEOREM CodeIsCovered == Spec => []CodeCovered
<1>1. IInv /\ ChunksMade => CodeCovered
  <2> SUFFICES ASSUME IInv, ChunksMade, at = "analyzing", NEW f \in Range(Reviewed)
               PROVE  LET own == {i \in DOMAIN chunks : chunks[i].file = f}
                          lines == Contents[f].lines
                      IN  /\ \A n \in DOMAIN lines : lines[n].size > 0 =>
                               Cardinality({i \in own : n \in chunks[i].first..chunks[i].last}) = 1
                          /\ \A i \in own :
                               LET c == chunks[i]
                               IN  /\ Length(c) <= MaxLines
                                   /\ \A n \in LinesIn(c.context) : n \in 1..(c.first - 1)
                                   /\ Cardinality(LinesIn(c.context)) <= MaxContextLines
                                   /\ LinesIn(c.partial) = BrokenIn(f) \cap c.first..c.last
    BY Zenon DEF CodeCovered, LinesIn, BrokenIn
  <2>1. scan \in Scans /\ source = Extracted[scan.upload]
    BY DEF IInv, Scanned, SourceRead
  <2>2. PICK files : files = Range(ReviewedIn(source))
    BY Zenon
  <2>3. f \in files
    BY <2>2, Zenon DEF Reviewed
  <2>4. ScanChunked(chunks, files)
    <3>1. chunks = ChunksIn(source)
      BY <2>1, Zenon DEF ChunksMade
    <3> QED
      BY <2>1, <2>2, <3>1, ScanChunks, Zenon
  <2>5. IsList(Contents[f].lines) /\ IsList(chunks)
    <3>1. f \in DOMAIN Contents
      BY <2>1, <2>2, <2>3, ReviewedHere, Zenon
    <3> QED
      BY <2>4, <3>1, ContentsAssumption DEF ScanChunked
  <2>6. DOMAIN Contents[f].lines = 1..Len(Contents[f].lines) /\ DOMAIN chunks = 1..Len(chunks)
    BY <2>5, ListElements, Zenon
  <2>7. ASSUME NEW n \in DOMAIN Contents[f].lines, Contents[f].lines[n].size > 0
        PROVE  Cardinality({i \in {i \in DOMAIN chunks : chunks[i].file = f} :
                              n \in chunks[i].first..chunks[i].last}) = 1
    <3>1. n \in 1..Len(Contents[f].lines)
      BY <2>6
    <3>2. Cardinality({i \in {i \in 1..Len(chunks) : chunks[i].file = f} :
                         n \in chunks[i].first..chunks[i].last}) = 1
      BY <2>3, <2>4, <2>7, <3>1, OnceChunked
    <3> QED
      BY <2>6, <3>2, Zenon
  <2>8. ASSUME NEW i \in DOMAIN chunks, chunks[i].file = f
        PROVE  Promised(chunks[i], f, BrokenIn(f))
    <3>1. i \in 1..Len(chunks)
      BY <2>6
    <3> QED
      BY <2>4, <2>8, <3>1, AllPromised, Zenon
  <2> QED
    BY <2>7, <2>8, Zenon DEF Promised
<1>2. Init => ChunksMade
  BY DEF Init, ChunksMade
<1> QED
  BY <1>1, <1>2, StepMakesChunks, Invariant, PTL DEF Spec

-----------------------------------------------------------------------------
(* What is hidden of the scanned code.                                     *)

\* What findings may show of every file.
Allowed(values, reported) ==
  [f \in DOMAIN Contents |->
     {Contents[f].lines[n].says : n \in DOMAIN Contents[f].lines \ SecretLines(f, values, reported)}]

\* A decent finding hides what is secret.
LEMMA DecentHides ==
  ASSUME NEW values, NEW reported, NEW x, Decent(x, Allowed(values, reported))
  PROVE  Hides(x.file, SecretLines(x.file, values, reported), x.evidence)
<1>1. CASE x.evidence = {}
  BY <1>1 DEF Hides
<1>2. CASE /\ x.file \in DOMAIN Contents
           /\ \A t \in x.evidence : t > 0 => t \in Allowed(values, reported)[x.file]
  BY <1>2 DEF Hides, Allowed
<1>3. DOMAIN Allowed(values, reported) = DOMAIN Contents
  BY DEF Allowed
<1> QED
  BY <1>1, <1>2, <1>3 DEF Decent

\* What models see of a file hides what is secret, and the inside of its first key block.
LEMMA SourceMasked ==
  ASSUME NEW f \in DOMAIN Contents, NEW s, NEW reported, Hiding(s, reported), NEW values
  PROVE  Hides(f, SecretLines(f, values, reported) \cup KeyLines(f),
               {line.says : line \in Range(MaskLines(SecretIndex(s, values), f, Contents[f].lines))})
<1>1. PICK lines : lines = Contents[f].lines
  BY Zenon
<1>2. IsList(lines) /\ (\A line \in Range(lines) : IsLine(line)) /\ DOMAIN lines = 1..Len(lines)
  BY <1>1, ContentsAssumption, ListElements, Zenon
<1>3. PICK index : index = SecretIndex(s, values)
  BY Zenon
<1>4. PICK hidden : hidden = SecretLines(f, values, reported) \cup KeyLines(f)
  BY Zenon
<1>5. ASSUME NEW n \in SecretLines(f, values, reported) PROVE IsSensitive(index, f, n, lines[n])
  <2>1. \/ lines[n].secret \in values
        \/ \E r \in reported : r.redacted /\ r.file = f /\ n \in r.first..r.last
    BY <1>1, <1>5 DEF SecretLines
  <2>2. CASE lines[n].secret \in values
    BY <1>3, <2>2 DEF IsSensitive, SecretIndex
  <2>3. CASE \E r \in reported : r.redacted /\ r.file = f /\ n \in r.first..r.last
    <3>1. PICK r \in reported : r.redacted /\ r.file = f /\ n \in r.first..r.last
      BY <2>3, Zenon
    <3>2. PICK g \in Range(s) : Covers(g, r)
      BY <3>1, Zenon DEF Hiding
    <3>3. WellFormed(r) /\ \A y \in Range(s) : WellFormed(y)
      BY Zenon DEF Hiding
    <3>4. <<r.file, n>> \in SecretIndex(s, values).lines
      BY <3>1, <3>2, <3>3, CoveredIsSecret, Zenon
    <3> QED
      BY <1>3, <3>1, <3>4, Zenon DEF IsSensitive
  <2> QED
    BY <2>1, <2>2, <2>3
<1>6. ASSUME NEW n \in KeyLines(f) PROVE InBlock(lines, n)
  <2>1. n \in DOMAIN lines
    BY <1>1, <1>6 DEF KeyLines
  <2>2. PICK b \in Larger(1, n - MaxKeyBlock)..(n - 1) :
          lines[b].key = "begin" /\ \A m \in 1..n : m = b \/ lines[m].key = "no"
    BY <1>1, <1>6 DEF KeyLines
  <2>3. FirstBlock(lines, b, n)
    BY <2>2, Zenon DEF FirstBlock
  <2>4. b \in 1..(n - 1) /\ n - b <= MaxKeyBlock
    <3>1. n \in Int /\ MaxKeyBlock \in Int
      BY <1>2, <2>1, KeyBlockAssumption
    <3>2. Larger(1, n - MaxKeyBlock) \in Int /\ 1 <= Larger(1, n - MaxKeyBlock)
          /\ n - MaxKeyBlock <= Larger(1, n - MaxKeyBlock)
      BY <3>1 DEF Larger
    <3> QED
      BY <3>1, <3>2
  <2> QED
    BY <2>3, <2>4, Zenon DEF InBlock
<1>7. PICK m : m = MaskLines(index, f, lines)
  BY Zenon
<1>8. Open({line.says : line \in Range(m)}, lines, hidden)
  <2>1. \A n \in hidden : n \in DOMAIN lines => IsSensitive(index, f, n, lines[n]) \/ InBlock(lines, n)
    BY <1>4, <1>5, <1>6
  <2> QED
    BY <1>2, <1>7, <2>1, MaskedLines, Zenon
<1>9. Hides(f, hidden, {line.says : line \in Range(m)})
  BY <1>1, <1>8 DEF Open, Hides
<1> QED
  BY <1>1, <1>3, <1>4, <1>7, <1>9, Zenon

\* What static analysis finds covers what is to be hidden, and shows only what is allowed.
LEMMA CombinedShown ==
  ASSUME NEW found, IsList(found), Len(found) = 8,
         \A i \in 1..8 : ToolFindings(found[i], Analyzers[i]),
         NEW values, NEW files, files \subseteq DOMAIN Contents,
         NEW lines, lines = [f \in files |-> Contents[f].lines]
  PROVE  /\ Hiding(Combined(found, values, lines), Range(FlattenSeq(found)))
         /\ DecentList(Combined(found, values, lines), Allowed(values, Range(FlattenSeq(found))))
<1> DEFINE s == Combined(found, values, lines)
           reported == Range(FlattenSeq(found))
<1>3. /\ StaticFindings(s)
      /\ \A x \in reported : x.redacted => \E f \in Range(s) : Covers(f, x)
      /\ \A f \in Range(s) : \A v \in f.evidence :
           \E n \in DOMAIN LinesRead(lines, f.file) :
             /\ v = LinesRead(lines, f.file)[n].says
             /\ Unreported(reported, values, f.file, n, LinesRead(lines, f.file)[n])
  BY CombinedFindings, Zenon
<1>2. \A x \in reported : Fresh(x)
  BY AllReports, Zenon
<1> HIDE DEF s, reported
<1>4. Hiding(s, reported)
  <2>1. \A x \in reported : WellFormed(x)
    BY <1>2, Zenon DEF Fresh, Reporting
  <2>2. \A x \in Range(s) : WellFormed(x)
    BY <1>3 DEF StaticFindings, StaticFinding
  <2> QED
    BY <1>3, <2>1, <2>2 DEF Hiding
<1>5. ASSUME NEW f \in Range(s) PROVE Decent(f, Allowed(values, reported))
  <2>1. DOMAIN f = Fields
    BY <1>3, <1>5 DEF StaticFindings, StaticFinding
  <2>2. CASE f.file \in files
    <3>1. LinesRead(lines, f.file) = Contents[f.file].lines /\ f.file \in DOMAIN Contents
      BY <2>2 DEF LinesRead
    <3>2. ASSUME NEW v \in f.evidence PROVE v \in Allowed(values, reported)[f.file]
      <4>1. PICK ls : ls = LinesRead(lines, f.file)
        BY Zenon
      <4>2. PICK n \in DOMAIN ls :
              v = ls[n].says /\ Unreported(reported, values, f.file, n, ls[n])
        BY <1>3, <3>2, <4>1, Zenon
      <4>3. ls = Contents[f.file].lines
        BY <3>1, <4>1, Zenon
      <4>4. n \notin SecretLines(f.file, values, reported)
        BY <4>2, <4>3 DEF Unreported, SecretLines
      <4> QED
        BY <3>1, <4>2, <4>3, <4>4 DEF Allowed
    <3>3. f.file \in DOMAIN Allowed(values, reported)
      BY <3>1 DEF Allowed
    <3> QED
      BY <2>1, <3>2, <3>3, Zenon DEF Decent
  <2>3. CASE f.file \notin files
    <3>1. LinesRead(lines, f.file) = <<>>
      BY <2>3 DEF LinesRead
    <3>2. DOMAIN LinesRead(lines, f.file) = {}
      BY <3>1
    <3>3. f.evidence = {}
      BY <1>3, <3>2, Zenon
    <3> QED
      BY <2>1, <3>3, Zenon DEF Decent
  <2> QED
    BY <2>2, <2>3
<1>6. IsList(s)
  BY <1>3 DEF StaticFindings
<1> QED
  BY <1>4, <1>5, <1>6 DEF DecentList, s, reported

\* What findings may show, by what the analyzers have reported and detected so far.
Permitted == Allowed(Values, ToolReports)

\* Nothing has been found yet.
Early == {"ingesting", "preprocessing", "analyzing"}

\* The code that models see, as far as there is any.
SourcesMasked ==
  \A f \in DOMAIN sources :
    /\ f \in DOMAIN Contents
    /\ Hides(f, SecretLines(f, Values, ToolReports) \cup KeyLines(f),
             {line.says : line \in Range(sources[f])})

\* What is secret stays hidden: nothing is found and no code is shown before all analyzers
\* are over, from then on the static findings cover every report that is to be hidden, and
\* all that findings show is permitted.
Hidden ==
  /\ at \in Early => findings = <<>> /\ static = <<>> /\ sources = <<>>
  /\ at \notin Early \cup {"failed", "cancelled"} => Hiding(static, ToolReports)
  /\ DecentList(findings, Permitted)
  /\ SourcesMasked

\* Nothing shows nothing.
LEMMA NothingShown ==
  /\ \A allowed : DecentList(<<>>, allowed)
  /\ DOMAIN <<>> = {}
BY EmptyIsList DEF DecentList

\* Where there are no findings and there is no code, nothing is shown.
LEMMA HiddenByNothing ==
  ASSUME at' \in Early \cup {"failed", "cancelled"},
         findings' = <<>>, static' = <<>>, sources' = <<>>
  PROVE  Hidden'
<1>1. DecentList(findings', Permitted')
  BY NothingShown
<1>2. DOMAIN sources' = {}
  BY NothingShown
<1>3. SourcesMasked'
  BY <1>2 DEF SourcesMasked
<1> QED
  BY <1>1, <1>3 DEF Hidden

\* What the analyzers reported and detected stays.
LEMMA ReportsStay ==
  ASSUME tools' = tools
  PROVE  UNCHANGED <<Values, ToolReports, Permitted>>
<1>1. Values' = Values /\ ToolReports' = ToolReports
  BY DEF Values, ToolReports
<1> QED
  BY <1>1 DEF Permitted, Allowed

\* What most steps leave hidden.
LEMMA HiddenStays ==
  ASSUME Hidden, UNCHANGED <<tools, static, sources, findings>>,
         at' = at \/ (at \notin Early \cup {"failed", "cancelled"} /\ at' \notin Early)
  PROVE  Hidden'
<1>1. UNCHANGED <<Values, ToolReports, Permitted>>
  BY ReportsStay
<1>2. SourcesMasked'
  BY <1>1 DEF Hidden, SourcesMasked
<1> QED
  BY <1>1, <1>2 DEF Hidden

\* All that the analyzers report is what static analysis combines.
LEMMA AllToolReports ==
  ASSUME ToolsRun,
         NEW found, found = [i \in DOMAIN Analyzers |-> tools[Analyzers[i]].result.findings]
  PROVE  /\ IsList(found) /\ Len(found) = 8
         /\ \A i \in 1..8 : ToolFindings(found[i], Analyzers[i])
         /\ ToolReports = Range(FlattenSeq(found))
<1>1. \A i \in 1..8 : ToolFindings(tools[Analyzers[i]].result.findings, Analyzers[i])
  BY AnalyzerList DEF ToolsRun, ToolState
<1>2. found = [i \in 1..8 |-> found[i]] /\ \A i \in 1..8 : found[i] = tools[Analyzers[i]].result.findings
  BY AnalyzerList
<1>3. IsList(found) /\ Len(found) = 8
  BY <1>2, ListByShape
<1>4. \A i \in 1..8 : ToolFindings(found[i], Analyzers[i])
  BY <1>1, <1>2
<1>5. \A x : x \in Range(FlattenSeq(found)) <=> \E i \in 1..8 : x \in Range(found[i])
  <2>1. \A i \in 1..Len(found) : IsList(found[i])
    BY <1>3, <1>4 DEF ToolFindings, Reports
  <2> QED
    BY <1>3, <2>1, Flattened
<1>6. \A x : x \in ToolReports <=> \E t \in Range(Analyzers) : x \in Range(tools[t].result.findings)
  BY DEF ToolReports
<1>7. \A t : t \in Range(Analyzers) <=> \E i \in 1..8 : Analyzers[i] = t
  <2>1. PICK s : s = Analyzers
    BY Zenon
  <2>2. IsList(s) /\ Len(s) = 8
    BY <2>1, AnalyzerList
  <2>3. \A t : t \in Range(s) <=> \E i \in 1..Len(s) : s[i] = t
    BY <2>2, ListElements, Zenon
  <2> QED
    BY <2>1, <2>2, <2>3
<1>8. \A x : x \in ToolReports <=> x \in Range(FlattenSeq(found))
  BY <1>2, <1>5, <1>6, <1>7
<1> QED
  BY <1>3, <1>4, <1>8

\* The static findings show what is permitted, and cover what is to be hidden.
LEMMA AnalyzeHides ==
  ASSUME IInv, Hidden, Analyze
  PROVE  Hidden'
<1> DEFINE found == [i \in DOMAIN Analyzers |-> tools[Analyzers[i]].result.findings]
           lines == [f \in Files |-> Contents[f].lines]
           all == Combined(found, Values, lines)
<1>1. /\ at = "analyzing" /\ at' = "analyzed"
      /\ static' = all /\ findings' = all
      /\ UNCHANGED <<tools, sources>>
  BY DEF Analyze, Go
<1>2. Files \subseteq DOMAIN Contents
  <2>1. scan \in Scans /\ source = Extracted[scan.upload]
    BY <1>1 DEF IInv, Scanned, SourceRead
  <2>2. OnDisk(source)
    <3>1. Extracted[scan.upload] = Ingested(scan.upload)
      BY <2>1 DEF Extracted
    <3> QED
      BY <2>1, <3>1, IngestedOnDisk, Zenon
  <2>3. \A f \in Range(source.files) : f.entry.file \in DOMAIN Contents
    BY <2>2, InRange, Zenon DEF OnDisk
  <2> QED
    BY <2>3 DEF Files, FilesIn
<1>3. Hiding(all, ToolReports) /\ DecentList(all, Permitted)
  <2>1. ToolsRun
    BY DEF IInv
  <2>2. /\ IsList(found) /\ Len(found) = 8
        /\ \A i \in 1..8 : ToolFindings(found[i], Analyzers[i])
        /\ ToolReports = Range(FlattenSeq(found))
    BY <2>1, AllToolReports, Zenon
  <2> HIDE DEF found
  <2>3. /\ Hiding(all, Range(FlattenSeq(found)))
        /\ DecentList(all, Allowed(Values, Range(FlattenSeq(found))))
    BY <1>2, <2>2, CombinedShown, Zenon
  <2> HIDE DEF all
  <2> QED
    BY <2>2, <2>3, Zenon DEF Permitted
<1> HIDE DEF all
<1>4. UNCHANGED <<Values, ToolReports, Permitted>>
  BY <1>1, ReportsStay
<1>5. SourcesMasked'
  BY <1>1, <1>4 DEF Hidden, SourcesMasked
<1> QED
  BY <1>1, <1>3, <1>4, <1>5 DEF Hidden, Early

\* The file of a chunk has contents.
LEMMA ChunksHere ==
  ASSUME NEW s \in Scans, NEW c \in Range(ChunksIn(Extracted[s.upload]))
  PROVE  c.file \in DOMAIN Contents
<1>1. PICK dir, t, files :
        /\ dir = Extracted[s.upload] /\ t = ChunksIn(dir) /\ files = Range(ReviewedIn(dir))
  BY Zenon
<1>2. ScanChunked(t, files) /\ \A f \in files : f \in DOMAIN Contents
  BY <1>1, ScanChunks, ReviewedHere, Zenon
<1>3. c \in Range(t)
  BY <1>1, Zenon
<1>4. IsList(t) /\ \A i \in 1..Len(t) : \E f \in files : Promised(t[i], f, BrokenIn(f))
  BY <1>2, Zenon DEF ScanChunked
<1>5. PICK i \in 1..Len(t) : t[i] = c
  BY <1>3, <1>4, InRange, Zenon
<1>6. PICK f \in files : Promised(c, f, BrokenIn(f))
  BY <1>4, <1>5, Zenon
<1> QED
  BY <1>2, <1>6, Zenon DEF Promised

\* The code that models see hides what is secret.
LEMMA BeginReviewHides ==
  ASSUME IInv, Hidden, BeginReview
  PROVE  Hidden'
<1> DEFINE review == Plan.review
           style == Plan.style
           files == {c.file : c \in Range(review \o style)}
<1>1. /\ at = "analyzed" /\ at' = "reviewing"
      /\ UNCHANGED <<tools, static, findings>>
      /\ sources' = [f \in files |-> MaskLines(SecretIndex(static, Values), f, Contents[f].lines)]
  BY DEF BeginReview, Go
<1>2. Planned(review, style, chunks, static, Project.functions, depth, MaxCalls)
  <2>1. IsList(chunks) /\ \A c \in Range(chunks) : ChunkOf(c)
    BY DEF IInv, ChunksRead
  <2>2. IsList(static) /\ \A f \in Range(static) : f.severity \in Int
    BY DEF IInv, Standing, Stands, StaticFindings, StaticFinding, WellFormed
  <2>3. Complex(Project.functions) /\ MaxCalls \in Nat
    BY ProjectComplex, RunAssumption
  <2> QED
    BY <2>1, <2>2, <2>3, PlannedChunks, Zenon DEF Plan
<1> HIDE DEF review, style
<1>3. \A c \in Range(review \o style) : c \in Range(chunks)
  <2>1. Range(review \o style) = Range(review) \cup Range(style)
    BY <1>2, ConcatList, Zenon DEF Planned
  <2> QED
    BY <1>2, <2>1 DEF Planned
<1>4. ASSUME NEW f \in files PROVE f \in DOMAIN Contents
  <2>1. PICK c \in Range(chunks) : c.file = f
    BY <1>3
  <2>2. scan \in Scans /\ c \in Range(ChunksIn(Extracted[scan.upload]))
    BY DEF IInv, Scanned, ChunksRead
  <2> QED
    BY <2>1, <2>2, ChunksHere, Zenon
<1>5. Hiding(static, ToolReports)
  BY <1>1 DEF Hidden, Early
<1>6. UNCHANGED <<Values, ToolReports, Permitted>>
  BY <1>1, ReportsStay
<1>7. SourcesMasked'
  <2>1. DOMAIN sources' = files
    BY <1>1
  <2>2. ASSUME NEW f \in files
        PROVE  Hides(f, SecretLines(f, Values, ToolReports) \cup KeyLines(f),
                     {line.says : line \in Range(sources'[f])})
    <3>1. sources'[f] = MaskLines(SecretIndex(static, Values), f, Contents[f].lines)
      BY <1>1
    <3>2. PICK code : code = MaskLines(SecretIndex(static, Values), f, Contents[f].lines)
      BY Zenon
    <3>3. Hides(f, SecretLines(f, Values, ToolReports) \cup KeyLines(f),
                {line.says : line \in Range(code)})
      BY <1>4, <1>5, <3>2, SourceMasked
    <3> QED
      BY <3>1, <3>2, <3>3
  <2> HIDE DEF files
  <2> QED
    BY <1>4, <1>6, <2>1, <2>2 DEF SourcesMasked
<1> QED
  BY <1>1, <1>5, <1>6, <1>7 DEF Hidden, Early

\* What a request of the review found quotes what it was shown.
LEMMA ResultsDecent ==
  ASSUME IInv, Hidden, at = "reviewing", AllOver, NEW i \in DOMAIN Results
  PROVE  \A x \in Range(Results[i].findings) : Decent(x, Permitted)
<1> DEFINE r == requests[i]
           answer == r.reply.answer
           file == r.about.file
<1>1. i \in 1..Len(requests) /\ i \in DOMAIN requests /\ Results[i] = ResultOf(i)
  <2>1. DOMAIN requests = 1..Len(requests)
    BY ListElements, Zenon DEF IInv, Requests
  <2> QED
    BY <2>1 DEF Results
<1>2. r.task \in {"review", "style"} /\ file \in DOMAIN sources
  BY <1>1 DEF IInv, OnReview
<1>3. Answered(r)
  <2>1. r.state = "over"
    BY <1>1 DEF AllOver
  <2> QED
    BY <1>1, <1>2, <2>1 DEF IInv, Requests, RequestOf
<1>4. CASE answer = Null
  <2>1. Results[i] = NoReview
    BY <1>1, <1>2, <1>4 DEF ResultOf
  <2>2. Results[i].findings = <<>>
    BY <2>1 DEF NoReview
  <2>3. Range(<<>>) = {}
    BY EmptyIsList
  <2> QED
    BY <2>2, <2>3
<1>5. CASE answer # Null
  <2>1. ResultOf(i) = ReviewOf(answer, i, r.task, r.about, sources[file], ShownTo(r), By(r.reply))
    BY <1>2, <1>5 DEF ResultOf
  <2>2. By(r.reply) \in Models /\ AnswerOf(answer)
    BY <1>2, <1>3, <1>5, AnswerIsBy DEF Answered
  <2>3. /\ file \in DOMAIN Contents
        /\ Hides(file, SecretLines(file, Values, ToolReports) \cup KeyLines(file),
                 {line.says : line \in Range(sources[file])})
    BY <1>2 DEF Hidden, SourcesMasked
  <2>4. file \in Int /\ file \in DOMAIN Permitted
    BY <2>3, ContentsAssumption DEF Permitted, Allowed
  <2>5. PICK code : code = sources[file]
    BY Zenon
  <2>6. ASSUME NEW n \in DOMAIN code, code[n].says > 0 PROVE code[n].says \in Permitted[file]
    <3>1. code[n].says \in {line.says : line \in Range(code)}
      BY DEF Range
    <3>2. code[n].says \in {Contents[file].lines[m].says :
            m \in DOMAIN Contents[file].lines \ (SecretLines(file, Values, ToolReports) \cup KeyLines(file))}
      BY <2>3, <2>5, <2>6, <3>1 DEF Hides
    <3>3. Permitted[file] = {Contents[file].lines[m].says :
            m \in DOMAIN Contents[file].lines \ SecretLines(file, Values, ToolReports)}
      BY <2>3 DEF Permitted, Allowed
    <3> QED
      BY <3>2, <3>3
  <2> HIDE DEF answer, r
  <2>7. \A x \in Range(ReviewOf(answer, i, r.task, r.about, code, ShownTo(r), By(r.reply)).findings) :
          Decent(x, Permitted)
    <3>1. PICK about, p : about = r.about /\ p = By(r.reply)
      BY Zenon
    <3>2. about.file = file
      BY <3>1
    <3> HIDE DEF file
    <3>3. p \in Models /\ about.file \in Int /\ about.file \in DOMAIN Permitted
      BY <2>2, <2>4, <3>1, <3>2, Zenon
    <3>4. \A n \in DOMAIN code : code[n].says > 0 => code[n].says \in Permitted[about.file]
      BY <2>6, <3>2, Zenon
    <3>5. \A x \in Range(ReviewOf(answer, i, r.task, about, code, ShownTo(r), p).findings) :
            Decent(x, Permitted)
      BY <2>2, <3>3, <3>4, ReviewDecent, Zenon
    <3> QED
      BY <3>1, <3>5, Zenon
  <2> QED
    BY <1>1, <2>1, <2>5, <2>7, Zenon
<1> QED
  BY <1>4, <1>5

\* What the merge of the reviews finds shows what is permitted.
LEMMA MergeReviewsHides ==
  ASSUME IInv, Hidden, MergeReviews
  PROVE  Hidden'
<1> DEFINE judged == Judgements(Results)
           new == AiFindings(Results)
           applied == ApplyJudgements(static, judged)
           merged == MergeFindings(applied, new)
<1>1. /\ AllOver /\ at = "reviewing" /\ at' = "reviewed"
      /\ findings' = merged
      /\ UNCHANGED <<tools, static, sources>>
  BY DEF MergeReviews, Go
<1>2. DecentList(static, Permitted)
  BY <1>1 DEF IInv, NotChanged, Hidden
<1>3. DecentList(new, Permitted)
  <2>1. ReviewResults(Results, DOMAIN sources)
    BY <1>1, ResultsReviewed
  <2>2. \A i \in DOMAIN Results : \A x \in Range(Results[i].findings) : Decent(x, Permitted)
    BY <1>1, ResultsDecent
  <2> QED
    BY <2>1, <2>2, AllDecent, Zenon
<1> HIDE DEF judged, new
<1>4. DecentList(applied, Permitted)
  BY <1>2, JudgedDecent, Zenon
<1> HIDE DEF applied
<1>5. DecentList(merged, Permitted)
  BY <1>3, <1>4, MergedDecent, Zenon
<1> HIDE DEF merged
<1>6. UNCHANGED <<Values, ToolReports, Permitted>>
  BY <1>1, ReportsStay
<1>7. Hiding(static, ToolReports) /\ SourcesMasked
  BY <1>1 DEF Hidden, Early
<1>8. SourcesMasked'
  BY <1>1, <1>6, <1>7 DEF SourcesMasked
<1> QED
  BY <1>1, <1>5, <1>6, <1>7, <1>8 DEF Hidden, Early

\* What verification leaves shows what is permitted.
LEMMA EndVerificationHides ==
  ASSUME IInv, Hidden, EndVerification
  PROVE  Hidden'
<1> DEFINE after == [i \in DOMAIN findings |-> Updated(findings[i], Results)]
<1>1. /\ AllOver /\ at = "verifying" /\ at' = "verified"
      /\ findings' = after
      /\ UNCHANGED <<tools, static, sources>>
  BY DEF EndVerification, Go
<1>2. DecentList(findings, Permitted)
  BY DEF Hidden
<1>3. ASSUME NEW i \in DOMAIN Results PROVE Decent(Results[i], Permitted)
  <2> DEFINE r == requests[i]
             x == r.about
             answer == r.reply.answer
  <2>1. i \in 1..Len(requests) /\ Results[i] = ResultOf(i)
    <3>1. DOMAIN requests = 1..Len(requests)
      BY ListElements, Zenon DEF IInv, Requests
    <3> QED
      BY <3>1 DEF Results
  <2>2. r.task = "verify" /\ x \in Range(findings)
    BY <1>1, <2>1 DEF IInv, OnVerification
  <2>3. Decent(x, Permitted) /\ DOMAIN x = Fields
    BY <1>2, <2>2, Zenon DEF DecentList, Decent
  <2>4. Results[i] = NotVerified(x) \/ Results[i] = ApplyVerdict(x, answer, By(r.reply))
    BY <2>1, <2>2 DEF ResultOf
  <2> HIDE DEF x, answer, r
  <2>5. ShowsAs(NotVerified(x), x) /\ ShowsAs(ApplyVerdict(x, answer, By(r.reply)), x)
    BY <2>3, ChangeShows, Zenon
  <2>6. ShowsAs(Results[i], x)
    BY <2>4, <2>5, Zenon
  <2> QED
    BY <2>3, <2>6, ShowsDecent, Zenon
<1>4. DecentList(after, Permitted)
  BY <1>2, <1>3, UpdatedDecent, Zenon
<1> HIDE DEF after
<1>5. UNCHANGED <<Values, ToolReports, Permitted>>
  BY <1>1, ReportsStay
<1>6. Hiding(static, ToolReports) /\ SourcesMasked
  BY <1>1 DEF Hidden, Early
<1>7. SourcesMasked'
  BY <1>1, <1>5, <1>6 DEF SourcesMasked
<1> QED
  BY <1>1, <1>4, <1>5, <1>6, <1>7 DEF Hidden, Early

\* The findings in their order show the same.
LEMMA EndReviewHides ==
  ASSUME Formed, Hidden, EndReview
  PROVE  Hidden'
<1>1. /\ at = "summarizing" /\ at' = "finishing"
      /\ findings' = Ordered(findings)
      /\ UNCHANGED <<tools, static, sources>>
  BY DEF EndReview, Finish, Go
<1>2. DecentList(findings, Permitted)
  BY DEF Hidden
<1>3. \A x \in Range(findings) : WellFormed(x)
  BY DEF Formed, GoodForm
<1>4. DecentList(Ordered(findings), Permitted)
  BY <1>2, <1>3, OrderedDecent, Zenon
<1>5. UNCHANGED <<Values, ToolReports, Permitted>>
  BY <1>1, ReportsStay
<1>6. Hiding(static, ToolReports) /\ SourcesMasked
  BY <1>1 DEF Hidden, Early
<1>7. SourcesMasked'
  BY <1>1, <1>5, <1>6 DEF SourcesMasked
<1> QED
  BY <1>1, <1>4, <1>5, <1>6, <1>7 DEF Hidden, Early

\* Every step leaves hidden what is secret.
LEMMA StepHides == IInv /\ Formed /\ Hidden /\ [Next]_vars => Hidden'
<1> SUFFICES ASSUME IInv, Formed, Hidden, [Next]_vars PROVE Hidden'
  OBVIOUS
<1>1. CASE Ingest \/ Preprocess
  <2>1. /\ at \in Early /\ at' \in Early \cup {"failed"}
        /\ UNCHANGED <<static, sources, findings>>
    BY <1>1 DEF Ingest, Preprocess, Go, Early
  <2> QED
    BY <2>1, HiddenByNothing DEF Hidden
<1>2. CASE StaticOnly \/ BeginVerification \/ BeginSummary \/ MakeReport
  <2>1. /\ UNCHANGED <<tools, static, sources, findings>>
        /\ at \in {"analyzed", "reviewed", "verified", "finishing"}
        /\ at' \in {"finishing", "verifying", "summarizing", "done"}
    BY <1>2 DEF StaticOnly, BeginVerification, BeginSummary, MakeReport, Finish, Go
  <2>2. at \notin Early \cup {"failed", "cancelled"} /\ at' \notin Early
    BY <2>1 DEF Early
  <2> QED
    BY <2>1, <2>2, HiddenStays
<1>3. CASE Analyze \/ BeginReview \/ MergeReviews \/ EndVerification \/ EndReview
  BY <1>3, AnalyzeHides, BeginReviewHides, MergeReviewsHides, EndVerificationHides, EndReviewHides
<1>4. CASE \E t \in Range(Analyzers) : ToolStep(t)
  <2>1. at = "analyzing" /\ UNCHANGED <<at, static, sources, findings>>
    BY <1>4 DEF ToolStep, StartTool, EndTool, IInv, SourceRead, Tools
  <2>2. at \in Early
    BY <2>1 DEF Early
  <2> QED
    BY <2>1, <2>2, HiddenByNothing DEF Hidden
<1>5. CASE Cancel
  <2>1. at' = "cancelled" /\ findings' = <<>> /\ static' = <<>> /\ sources' = <<>>
    BY <1>5 DEF Cancel
  <2> QED
    BY <2>1, HiddenByNothing
<1>6. CASE Emit
  BY <1>6, HiddenStays DEF Emit
<1>7. CASE AnyRequest
  <2>1. UNCHANGED <<at, tools, static, sources, findings>>
    BY <1>7 DEF AnyRequest, RequestStep, StartRequest, EndRequest, EmitCall
  <2> QED
    BY <2>1, HiddenStays
<1>8. ASSUME NEW i, NEW status, Decide(i, status) PROVE Hidden'
  BY <1>8, HiddenStays DEF Decide
<1>9. CASE UNCHANGED vars
  BY <1>9, HiddenStays DEF vars
<1> QED
  BY <1>1, <1>2, <1>3, <1>4, <1>5, <1>6, <1>7, <1>8, <1>9 DEF Next, MainStep

\* In every run all that is legible in the evidence of a finding, or in code that models
\* see, is what lines of that file say that no detector reported, that hold no value that
\* one detected, and that are, in code, not inside the first key block (findings.py:79,
\* redaction.py:1-13).
THEOREM SecretsAreHidden == Spec => []SecretsHidden
<1>1. Hidden => SecretsHidden
  <2> SUFFICES ASSUME Hidden PROVE SecretsHidden
    OBVIOUS
  <2>1. \A f \in Range(findings) : Decent(f, Permitted)
    BY DEF Hidden, DecentList
  <2>2. \A f \in Range(findings) :
          Hides(f.file, SecretLines(f.file, Values, ToolReports), f.evidence)
    BY <2>1, DecentHides, Zenon DEF Permitted
  <2>3. \A f \in DOMAIN sources :
          Hides(f, SecretLines(f, Values, ToolReports) \cup KeyLines(f),
                {line.says : line \in Range(sources[f])})
    BY Zenon DEF Hidden, SourcesMasked
  <2> QED
    BY <2>2, <2>3, Zenon DEF SecretsHidden
<1>2. Init => Hidden
  <2> SUFFICES ASSUME Init PROVE Hidden
    OBVIOUS
  <2>1. at \in Early /\ at \notin {"failed", "cancelled"}
        /\ findings = <<>> /\ static = <<>> /\ sources = <<>>
    BY DEF Init, Early
  <2>2. DecentList(findings, Permitted) /\ DOMAIN sources = {}
    BY <2>1, NothingShown
  <2>3. SourcesMasked
    BY <2>2 DEF SourcesMasked
  <2> QED
    BY <2>1, <2>2, <2>3 DEF Hidden
<1> QED
  BY <1>1, <1>2, StepHides, Invariant, FormKept, PTL DEF Spec

=============================================================================
