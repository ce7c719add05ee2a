---------------------------- MODULE Preprocessing ----------------------------
(***************************************************************************)
(* From a parsed file to the chunks that models review: segments at the    *)
(* boundaries of the code (app/preprocess/structure.py), packed into       *)
(* chunks with some context (chunker.py, source_file.py), and the lines    *)
(* that could not be parsed (parse.py).                                    *)
(*                                                                         *)
(* A node of the syntax tree, which tree-sitter builds, is a record of     *)
(* kind ("comment", "header", "code", "error"), its first and last line,   *)
(* wraps (the node in one of the adapter's wrapper fields), body (the node *)
(* in its field "body") and children (its named children); wraps and body  *)
(* are sequences of at most one node.                                      *)
(***************************************************************************)
EXTENDS Lists

CONSTANTS
  TargetLines, MaxLines, MaxContextLines,   \* ChunkingConfig
  MaxSplitDepth,                            \* MAX_SPLIT_DEPTH
  Nodes,                                    \* the nodes of all syntax trees
  MaxNodes                                  \* bound: how many nodes a file's tree has

ASSUME ChunkingAssumption ==
  /\ MaxLines \in Nat \ {0}
  /\ TargetLines \in 1..MaxLines
  /\ MaxContextLines \in Nat \ {0}
  /\ MaxSplitDepth \in Nat
  /\ MaxNodes \in Nat

\* In the order of the source.
InSourceOrder(nodes) == \A i, j \in DOMAIN nodes : i <= j => nodes[i].first <= nodes[j].first

ASSUME TreeAssumption ==
  \A node \in Nodes :
    /\ node.first \in Nat \ {0} /\ node.last \in Nat /\ node.first <= node.last
    /\ \A below \in {node.wraps, node.body, node.children} :
         IsList(below) /\ Range(below) \subseteq Nodes /\ InSourceOrder(below)

-----------------------------------------------------------------------------
(* Segments: a region is a range of lines with its context, the signatures *)
(* around it, and its depth.                                               *)

Region(first, last, context, depth) ==
  [first |-> first, last |-> last, context |-> context, depth |-> depth]

Windows(region) ==
  [n \in 1..((Length(region) + MaxLines - 1) \div MaxLines) |->
     LET first == region.first + (n - 1) * MaxLines
     IN  [first |-> first, last |-> Smaller(first + MaxLines - 1, region.last),
          context |-> region.context]]

SpansFurther(node, current) == node.first = current.first /\ node.last > current.last

\* What the loop of _boundaries knows: the boundaries so far, the last line they
\* cover, and the comment block that waits for a statement, if any.
NoComment == [first |-> 0, last |-> 0]

WithComment(s, node) ==
  CASE node.first <= s.covered -> s   \* a trailing comment
    [] node.first > s.covered /\ (s.comment.first = 0 \/ node.first > s.comment.last + 1) ->
         [s EXCEPT !.comment = Lines(node.first, node.last)]
    [] OTHER -> [s EXCEPT !.comment.last = node.last]

WithStatement(s, node, region) ==
  LET attached == s.comment.first # 0 /\ node.first <= s.comment.last + 1
      first == IF attached THEN s.comment.first ELSE node.first
      found == s.found
  IN  [found |->
         IF first > s.covered
         THEN Append(found, [first |-> Larger(first, region.first), node |-> node])
         ELSE IF found # <<>> /\ SpansFurther(node, Last(found).node)
         THEN Append(Front(found), [first |-> Last(found).first, node |-> node])
         ELSE found,
       covered |-> Larger(s.covered, node.last),
       comment |-> NoComment]

WithNode(s, node, region) ==
  IF node.kind = "comment" THEN WithComment(s, node) ELSE WithStatement(s, node, region)

\* _boundaries: up to the first node that begins below the region.
Boundaries(region, nodes) ==
  LET before == {i \in DOMAIN nodes : \A j \in 1..i : nodes[j].first <= region.last}
  IN  FoldedOver(LAMBDA s, node : WithNode(s, node, region),
                 [found |-> <<>>, covered |-> region.first - 1, comment |-> NoComment],
                 FirstN(nodes, Cardinality(before))).found

\* Down the wrappers, at most so many.
Unwrap(node) == IF node.wraps = <<>> THEN node ELSE node.wraps[1]
Unwrapped(node) == Repeated(Unwrap, node, MaxSplitDepth)

Signature(node, body) ==
  Lines(node.first, IF body.first > node.first THEN body.first - 1 ELSE node.first)

HasStructure(declaration) == declaration.body # <<>> /\ declaration.body[1].children # <<>>
GoesOn(node) == ~ HasStructure(Unwrapped(node)) /\ Len(Unwrapped(node).children) = 1
Descend(node) == IF GoesOn(node) THEN Unwrapped(node).children[1] ELSE node

\* _inner_structure: the statements inside a node and the signature above them, as
\* sequences; no statements where there is no structure left.
Inner(node) ==
  LET current == Repeated(Descend, node, MaxSplitDepth - 1)
      declaration == Unwrapped(current)
  IN  CASE MaxSplitDepth = 0 \/ GoesOn(current) -> [nodes |-> <<>>, signature |-> <<>>]
        [] MaxSplitDepth > 0 /\ HasStructure(declaration) ->
             [nodes |-> declaration.body[1].children,
              signature |-> <<Signature(current, declaration.body[1])>>]
        [] OTHER -> [nodes |-> declaration.children, signature |-> <<>>]

\* A piece of a file is a region and the statements to split it at; with none it is
\* done, or is cut into windows.
Piece(region, nodes) == [region |-> region, nodes |-> nodes]

\* _fit
Fit(region, node) ==
  IF Length(region) <= MaxLines \/ region.depth >= MaxSplitDepth THEN Piece(region, <<>>)
  ELSE LET inner == Inner(node)
       IN  IF inner.nodes = <<>> THEN Piece(region, <<>>)
           ELSE Piece(Region(region.first, region.last,
                             region.context \o inner.signature, region.depth + 1),
                      inner.nodes)

\* _split_region: a piece from every boundary, the first from where the region begins.
SplitRegion(piece) ==
  LET region == piece.region
      found == Boundaries(region, piece.nodes)
      First(i) == IF i = 1 THEN region.first ELSE found[i].first
      Final(i) == IF i = Len(found) THEN region.last ELSE found[i + 1].first - 1
  IN  IF found = <<>> THEN <<Piece(region, <<>>)>>
      ELSE [i \in DOMAIN found |->
             Fit(Region(First(i), Final(i), region.context, region.depth), found[i].node)]

SplitAll(pieces) == FlattenSeq([i \in DOMAIN pieces |-> SplitRegion(pieces[i])])

\* Depth by depth, where the code splits each piece before the next.
SegmentFile(nodes, count) ==
  LET pieces == Repeated(SplitAll, <<Piece(Region(1, count, <<>>, 0), nodes)>>, MaxSplitDepth + 1)
  IN  IF count = 0 THEN <<>>
      ELSE FlattenSeq([i \in DOMAIN pieces |-> Windows(pieces[i].region)])

-----------------------------------------------------------------------------
(* Chunks.                                                                 *)

\* A plausible slip: a group may span one line too many.
PackTooMuch(segments) ==
  LET Packing(groups, s) ==
        IF groups = <<>> \/ s.last - Last(groups)[1].first > TargetLines
        THEN Append(groups, <<s>>)
        ELSE Append(Front(groups), Append(Last(groups), s))
  IN  FoldedOver(Packing, <<>>, segments)

\* pack_segments
Packed(groups, s) ==
  IF groups = <<>> \/ s.last - Last(groups)[1].first + 1 > TargetLines
  THEN Append(groups, <<s>>)
  ELSE Append(Front(groups), Append(Last(groups), s))
PackSegments(segments) == FoldedOver(Packed, <<>>, segments)

\* select_context: signatures first, then headers, only lines before the body, each
\* once, as many as there is room for.
SelectContext(body, signatures, headers) ==
  LET Before(r) == Kept(Outside(r, body), LAMBDA p : p.last < body.first)
      merged == MergeRanges(signatures)
      candidates == FlattenSeq([i \in DOMAIN merged |-> Before(merged[i])]
                                 \o [i \in DOMAIN headers |-> Before(headers[i])])
      Without(parts, r) == FlattenSeq([i \in DOMAIN parts |-> Outside(parts[i], r)])
      Taken(s, part) ==
        IF s.room = 0 THEN s
        ELSE LET last == Smaller(part.last, part.first + s.room - 1)
             IN  [selected |-> Append(s.selected, Lines(part.first, last)),
                  room |-> s.room - (last - part.first + 1)]
      Tried(s, c) == FoldedOver(Taken, s, FoldedOver(Without, <<c>>, s.selected))
  IN  MergeRanges(FoldedOver(Tried, [selected |-> <<>>, room |-> MaxContextLines],
                             candidates).selected)

HeaderRanges(nodes) ==
  LET headers == Kept(nodes, LAMBDA node : node.kind = "header")
  IN  MergeRanges([i \in DOMAIN headers |-> Lines(headers[i].first, headers[i].last)])

\* build_chunks, for the file with this number.
BuildChunks(file, segments, headers, partial, blank) ==
  LET groups == PackSegments(segments)
      Body(g) == Lines(g[1].first, Last(g).last)
      kept == Kept(groups, LAMBDA g : \E n \in Body(g).first..Body(g).last : n \notin blank)
      Signatures(g) == FlattenSeq([i \in DOMAIN g |-> g[i].context])
  IN  [i \in DOMAIN kept |->
         [file |-> file, index |-> i - 1,
          first |-> Body(kept[i]).first, last |-> Body(kept[i]).last,
          context |-> SelectContext(Body(kept[i]), Signatures(kept[i]), headers),
          partial |-> FlattenSeq([j \in DOMAIN partial |-> Common(partial[j], Body(kept[i]))])]]

\* One round of find_partial_regions: errors, not what is inside them.
Walked(s) ==
  IF s.pending = <<>> THEN s
  ELSE LET node == Last(s.pending)
       IN  IF node.kind = "error"
           THEN [pending |-> Front(s.pending), found |-> Append(s.found, Lines(node.first, node.last))]
           ELSE [s EXCEPT !.pending = Front(@) \o node.children \o node.body \o node.wraps]

Errors(nodes) == Repeated(Walked, [pending |-> nodes, found |-> <<>>], MaxNodes).found

\* _within_file: a token that is missing at the end is one line past it.
PartialRegions(nodes, count) ==
  LET found == Errors(nodes)
  IN  IF count = 0 THEN <<>>
      ELSE MergeRanges([i \in DOMAIN found |->
             Lines(Smaller(found[i].first, count), Smaller(found[i].last, count))])

=============================================================================
