------------------------------ MODULE DocChunks ------------------------------
(***************************************************************************)
(* How a document becomes chunks, entities and evidence                    *)
(* (parsers/markdown.py, indexing/doc_indexer.py).                         *)
(*                                                                         *)
(* A text is a sequence of the pieces that matching tells apart: parts of  *)
(* words, "_", " " between words, and "ue" for letters that are not Latin. *)
(* A Markdown line is <<"atx", level, text>>, <<"text", text>>, <<"blank">>, *)
(* <<"=">>, <<"-">> (an underline; "-" also bounds front matter),          *)
(* <<"fence", char>> or <<"field", name, items>>.  A line of HTML is a     *)
(* sequence of <<"open", tag>>, <<"close", tag>> and <<"data", text>>.     *)
(***************************************************************************)
EXTENDS Integers, Sequences, FiniteSets, SequencesExt, FiniteSetsExt, Functions

CONSTANTS
  MarkdownLines, HtmlLines,  \* the lines a document may hold
  Openings,                  \* how a Markdown document may begin
  MaxAdded,                  \* bound: lines after the opening
  Categories                 \* the directories of knowledge-sources

ASSUME DocAssumption == MaxAdded \in Nat

VARIABLES
  document,  \* [format, category, opening (its length), lines]
  bundle     \* what collect returns for it

docVars == <<document, bundle>>

-----------------------------------------------------------------------------
\* The text of a Markdown line; _normalize_text and the slug of a heading.
JoinTexts(texts) ==
  FoldLeft(LAMBDA all, t : IF t = <<>> THEN all ELSE IF all = <<>> THEN t ELSE all \o <<" ">> \o t, <<>>, texts)

WordsOf(line) ==
  CASE line[1] = "atx" -> line[3]
    [] line[1] = "text" -> line[2]
    [] line[1] = "field" -> JoinTexts(<<<<line[2]>>>> \o line[3])
    [] OTHER -> <<>>

IsBlank(line) == line = <<"blank">>
Normalized(text) == SelectSeq(text, LAMBDA w : w # "ue")
Dashed(text, marks) == [i \in DOMAIN text |-> IF text[i] \in marks THEN "-" ELSE text[i]]
Slug(text) == LET slug == Dashed(Normalized(text), {"_", " "}) IN IF slug = <<>> THEN <<"section">> ELSE slug
AnchorFromName(text) == Dashed(Normalized(text), {" "})

Within(part, text) == part \in {SubSeq(text, i, i + Len(part) - 1) : i \in 1..(Len(text) + 1 - Len(part))}

-----------------------------------------------------------------------------
\* split_front_matter: the index of the closing line, 0 without front matter.
Closing(lines) ==
  LET marks == {i \in 2..Len(lines) : lines[i] = <<"-">>}
  IN IF lines # <<>> /\ Head(lines) = <<"-">> /\ marks # {} THEN Min(marks) ELSE 0

\* yaml.safe_load: comments and fields; anything else is no mapping, or no YAML.
Yaml(lines) ==
  IF \A l \in ToSet(lines) : l[1] \in {"atx", "blank", "field"}
  THEN SelectSeq(lines, LAMBDA l : l[1] = "field") ELSE <<>>

\* normalize_front_matter, _iter_api_items and _iter_widget_items: the fields
\* that a category knows.
KnownField == [c \in {"api", "widgets"} |-> IF c = "api" THEN "code_symbols" ELSE "widget"]

ItemsOf(doc) ==
  LET given == SelectSeq(Yaml(SubSeq(doc.lines, 2, Closing(doc.lines) - 1)),
                         LAMBDA l : doc.category \in DOMAIN KnownField /\ l[2] = KnownField[doc.category])
  IN IF doc.format = "html" \/ given = <<>> THEN <<>> ELSE Last(given)[3]

-----------------------------------------------------------------------------
\* A unit is a line of Markdown or a block of HTML.
MarkdownUnits(lines) ==
  LET closed == Closing(lines)
  IN [i \in 1..(Len(lines) - closed) |->
        [from |-> closed + i, to |-> closed + i, line |-> lines[closed + i], text |-> WordsOf(lines[closed + i])]]

\* scan_markdown_headings
Marker(at, level, text) == [at |-> at, level |-> level, title |-> text]

ScanLine(units, scan, i) ==
  LET line == units[i].line
      underlined == i < Len(units) /\ ~IsBlank(line) /\ units[i + 1].line[1] \in {"=", "-"}
  IN CASE scan.skip -> [scan EXCEPT !.skip = FALSE]
       [] line[1] = "fence" ->
            [scan EXCEPT !.fence = IF @ = "none" THEN line[2] ELSE IF @ = line[2] THEN "none" ELSE @]
       [] line[1] # "fence" /\ scan.fence # "none" -> scan
       [] line[1] = "atx" -> [scan EXCEPT !.markers = Append(@, Marker(i, line[2], line[3]))]
       [] underlined ->
            [scan EXCEPT !.skip = TRUE,
                         !.markers = Append(@, Marker(i, IF units[i + 1].line[1] = "=" THEN 1 ELSE 2, WordsOf(line)))]
       [] OTHER -> scan

ScanHeadings(units) ==
  FoldLeftDomain(LAMBDA scan, i : ScanLine(units, scan, i), [skip |-> FALSE, fence |-> "none", markers |-> <<>>], units).markers

\* _StructuredHTMLParser.  An open cell takes the data, else the innermost
\* capture; the rest is only used when the document has no blocks.
Level == [h1 |-> 1, h2 |-> 2]
Captured == {"p", "li"} \cup DOMAIN Level
NoRow == [open |-> FALSE, from |-> 0, cells |-> <<>>]
NoCell == [open |-> FALSE, text |-> <<>>]
NewParser == [captures |-> <<>>, row |-> NoRow, cell |-> NoCell, loose |-> <<>>, blocks |-> <<>>, failed |-> FALSE]

Emit(blocks, tag, from, to, text) ==
  IF text = <<>> THEN blocks ELSE Append(blocks, [tag |-> tag, from |-> from, to |-> to, text |-> text])

StartTag(parser, tag, at) ==
  CASE tag = "tr" -> [parser EXCEPT !.row = [open |-> TRUE, from |-> at, cells |-> <<>>]]
    [] tag = "td" -> IF parser.row.open THEN [parser EXCEPT !.cell = [open |-> TRUE, text |-> <<>>]] ELSE parser
    [] tag \in Captured -> [parser EXCEPT !.captures = Append(@, [tag |-> tag, from |-> at, text |-> <<>>])]
    [] OTHER -> parser

EndCell(parser) ==
  LET text == parser.cell.text
  IN IF ~parser.cell.open THEN parser
     ELSE [parser EXCEPT !.cell = NoCell,
                         !.failed = @ \/ (text # <<>> /\ ~parser.row.open),
                         !.row.cells = IF text = <<>> THEN @ ELSE Append(@, text)]

EndRow(parser, at) ==
  IF ~parser.row.open THEN parser
  ELSE [parser EXCEPT !.row = NoRow, !.blocks = Emit(@, "tr", parser.row.from, at, JoinTexts(parser.row.cells))]

EndCapture(parser, tag, at) ==
  LET open == {i \in DOMAIN parser.captures : parser.captures[i].tag = tag}
  IN IF open = {} THEN parser
     ELSE LET capture == parser.captures[Max(open)]
          IN [parser EXCEPT !.captures = RemoveAt(@, Max(open)),
                            !.blocks = Emit(@, tag, capture.from, at, capture.text)]

Data(parser, text, at) ==
  CASE parser.cell.open -> [parser EXCEPT !.cell.text = JoinTexts(<<@, text>>)]
    [] ~parser.cell.open /\ parser.captures # <<>> ->
         [parser EXCEPT !.captures[Len(parser.captures)].text = JoinTexts(<<@, text>>)]
    [] OTHER -> [parser EXCEPT !.loose = Append(@, [at |-> at, text |-> text])]

Feed(parser, token, at) ==
  CASE parser.failed -> parser
    [] token[1] = "open" -> StartTag(parser, token[2], at)
    [] token[1] = "data" -> Data(parser, token[2], at)
    [] token = <<"close", "td">> -> EndCell(parser)
    [] token = <<"close", "tr">> -> EndRow(parser, at)
    [] OTHER -> EndCapture(parser, token[2], at)

Parsed(lines) ==
  FoldLeftDomain(LAMBDA parser, i : FoldLeft(LAMBDA p, token : Feed(p, token, i), parser, lines[i]), NewParser, lines)

HtmlUnits(parser) ==
  IF parser.blocks # <<>> \/ parser.loose = <<>> THEN parser.blocks
  ELSE <<[tag |-> "body", from |-> Head(parser.loose).at, to |-> Last(parser.loose).at,
          text |-> JoinTexts([i \in DOMAIN parser.loose |-> parser.loose[i].text])]>>

\* The headings among the blocks: build_html_headings.
HtmlHeadings(blocks) ==
  LET at == SetToSortSeq({i \in DOMAIN blocks : blocks[i].tag \in DOMAIN Level}, <)
  IN [n \in DOMAIN at |-> Marker(at[n], Level[blocks[at[n]].tag], blocks[at[n]].text)]

-----------------------------------------------------------------------------
\* build_heading_tree: the path of each heading.
\* Mutant: a heading does not close the one of its own level.
PopToOver(stack, level) == SelectSeq(stack, LAMBDA h : h.level <= level)
PopTo(stack, level) == SelectSeq(stack, LAMBDA h : h.level < level)

HeadingPaths(markers) ==
  FoldLeft(LAMBDA tree, m :
             LET stack == Append(PopTo(tree.stack, m.level), m)
             IN [stack |-> stack, paths |-> Append(tree.paths, [i \in DOMAIN stack |-> stack[i].title])],
           [stack |-> <<>>, paths |-> <<>>], markers).paths

\* make_unique_anchor: a slug and how often it has been seen.
Anchor(markers, n) ==
  <<Slug(markers[n].title), Cardinality({k \in 1..n : Slug(markers[k].title) = Slug(markers[n].title)})>>

\* build_markdown_chunks and build_html_chunks: the stretches between headings ...
Stretches(units, markers) ==
  LET paths == HeadingPaths(markers)
      end(n) == IF n < Len(markers) THEN markers[n + 1].at - 1 ELSE Len(units)
      section(n) == [type |-> "section", first |-> markers[n].at, last |-> end(n), path |-> paths[n],
                     level |-> markers[n].level, anchor |-> Anchor(markers, n)]
      other(type, last) == [type |-> type, first |-> 1, last |-> last, path |-> <<>>, level |-> 0, anchor |-> <<>>]
  IN IF markers = <<>> THEN <<other("body", Len(units))>>
     ELSE (IF Head(markers).at > 1 THEN <<other("lead", Head(markers).at - 1)>> ELSE <<>>)
          \o [n \in DOMAIN markers |-> section(n)]

\* ... without the blank lines around them, and without those that are all blank.
Chunks(units, markers, blank) ==
  FoldLeft(LAMBDA chunks, s :
             LET kept == (s.first..s.last) \ blank
             IN IF kept = {} THEN chunks
                ELSE Append(chunks, [ordinal |-> Len(chunks), type |-> s.type, path |-> s.path, level |-> s.level,
                                     anchor |-> s.anchor, from |-> units[Min(kept)].from, to |-> units[Max(kept)].to,
                                     text |-> JoinTexts([i \in 1..(s.last + 1 - s.first) |-> units[s.first + i - 1].text])]),
           <<>>, Stretches(units, markers))

ParseDocument(doc) ==
  IF doc.format = "markdown"
  THEN LET units == MarkdownUnits(doc.lines)
       IN Chunks(units, ScanHeadings(units), {i \in DOMAIN units : IsBlank(units[i].line)})
  ELSE LET units == HtmlUnits(Parsed(doc.lines)) IN Chunks(units, HtmlHeadings(units), {})

-----------------------------------------------------------------------------
\* _fallback_parsed_chunk and _select_chunk_for_item
Fallback(chunks) == IF Len(chunks) > 1 /\ Head(chunks).type = "lead" THEN chunks[2] ELSE Head(chunks)

ItemScore(item, chunk) ==
  LET name == Normalized(item)
      tail == Normalized(Last(chunk.path))
      heading == IF chunk.path = <<>> THEN 0
                 ELSE IF tail = name THEN 6 ELSE IF Within(name, tail) \/ Within(tail, name) THEN 4 ELSE 0
      anchor == IF chunk.anchor = <<AnchorFromName(item), 1>> THEN 4 ELSE 0
  IN heading + anchor + (IF Within(name, Normalized(chunk.text)) THEN 2 ELSE 0)

SelectFor(item, chunks) ==
  LET best == Max({ItemScore(item, c) : c \in ToSet(chunks)})
  IN IF Normalized(item) = <<>> \/ best = 0 THEN Fallback(chunks)
     ELSE CHOOSE c \in ToSet(chunks) :
            ItemScore(item, c) = best /\ \A d \in ToSet(chunks) : ItemScore(item, d) = best => c.ordinal <= d.ordinal

\* _collect_document_entry: chunks, a chunk for each item, and what they are
\* evidence of.  Ids are made of what is listed here; the same item twice is
\* the same object.
ItemChunk(item, base) == [type |-> "item", item |-> item, from |-> base.from, to |-> base.to, text |-> base.text]
Evidence(name, chunk) == [of |-> name, from |-> chunk.from, to |-> chunk.to, text |-> chunk.text]

CollectEntry(doc) ==
  LET chunks == ParseDocument(doc)
      items == IF chunks = <<>> THEN {} ELSE ToSet(ItemsOf(doc))
      chosen == [item \in items |-> SelectFor(item, chunks)]
  IN [chunks |-> chunks,
      synthetic |-> {ItemChunk(item, chosen[item]) : item \in items},
      entities |-> {<<"document">>} \cup ({"item"} \X items),
      evidence |-> (IF chunks = <<>> THEN {} ELSE {Evidence(<<"document">>, Fallback(chunks))}) \cup
                   {Evidence(<<"item", item>>, chosen[item]) : item \in items}]

\* collect: a document whose parser raises is skipped with a warning.
Failed(doc) == doc.format = "html" /\ Parsed(doc.lines).failed

-----------------------------------------------------------------------------
Unread == [read |-> FALSE]

WriteDocLine(line) ==
  /\ Len(document.lines) < document.opening + MaxAdded
  /\ document' = [document EXCEPT !.lines = Append(@, line)]
  /\ UNCHANGED bundle

CollectDocument ==
  /\ bundle' = IF Failed(document) THEN [read |-> TRUE, ok |-> FALSE]
               ELSE [read |-> TRUE, ok |-> TRUE, records |-> CollectEntry(document)]
  /\ UNCHANGED document

DocInit ==
  /\ bundle = Unread
  /\ \/ \E opening \in Openings, c \in Categories :
          document = [format |-> "markdown", category |-> c, opening |-> Len(opening), lines |-> opening]
     \/ document = [format |-> "html", category |-> "engineering", opening |-> 0, lines |-> <<>>]

DocNext ==
  /\ bundle = Unread
  /\ \/ document.format = "markdown" /\ \E line \in MarkdownLines : WriteDocLine(line)
     \/ document.format = "html" /\ \E line \in HtmlLines : WriteDocLine(line)
     \/ CollectDocument

-----------------------------------------------------------------------------
\* Every line of a Markdown document that is neither blank nor front matter is
\* in exactly one chunk, the chunks are numbered in the order of the lines, and
\* none begins between the first fence and the next one like it.
LinesCited(doc, chunks) ==
  LET bounds == {i \in DOMAIN doc.lines : doc.lines[i] = <<"-">>}
      front == IF 1 \in bounds /\ bounds # {1} THEN 1..Min(bounds \ {1}) ELSE {}
  IN /\ doc.format = "markdown" =>
          \A i \in DOMAIN doc.lines \ front : ~IsBlank(doc.lines[i]) =>
             /\ Cardinality({c \in ToSet(chunks) : i \in c.from..c.to}) = 1
             /\ LET fences == {f \in DOMAIN doc.lines \ front : doc.lines[f][1] = "fence"}
                IN fences # {} /\ i > Min(fences)
                   /\ (\A g \in fences \ {Min(fences)} : doc.lines[g] = doc.lines[Min(fences)] => i < g)
                   => \A c \in ToSet(chunks) : c.from # i
     /\ \A c, d \in ToSet(chunks) : doc.format = "markdown" /\ c.ordinal < d.ordinal => c.to < d.from

\* A section lies under those before it that no heading of the same or a
\* higher rank has closed.
PathsEnclose(chunks) ==
  LET enclosing(k) == {j \in 1..k : chunks[j].type = "section" /\ \A i \in (j + 1)..k : chunks[i].level > chunks[j].level}
  IN \A k \in DOMAIN chunks : chunks[k].type = "section" =>
       LET outer == SetToSortSeq(enclosing(k), <)
       IN chunks[k].path = [n \in DOMAIN outer |-> Last(chunks[outer[n]].path)]

\* The elements that are open after some tokens of an HTML document; <<"bad">>
\* when they do not nest, a cell is outside of a row or a table inside a table.
OpenAfter(tokens) ==
  LET step(open, t) ==
        CASE t[1] = "data" \/ open = <<"bad">> -> open
          [] t[1] = "open" /\ open # <<"bad">> ->
               IF \/ t[2] = "td" /\ (open = <<>> \/ Last(open) # "tr")
                  \/ t[2] = "tr" /\ "tr" \in ToSet(open)
               THEN <<"bad">> ELSE Append(open, t[2])
          [] OTHER -> IF open # <<>> /\ Last(open) = t[2] THEN Front(open) ELSE <<"bad">>
  IN FoldLeft(step, <<>>, tokens)

\* In a document that nests, everything an element or a cell holds is cited
\* once; or, when nothing is held, everything there is.
TextsCited(doc, chunks) ==
  LET tokens == FlattenSeq(doc.lines)
      data == {i \in DOMAIN tokens : tokens[i][1] = "data"}
      held == {i \in data : ToSet(OpenAfter(SubSeq(tokens, 1, i))) \cap (Captured \cup {"td"}) # {}}
      cited == FlattenSeq([k \in DOMAIN chunks |-> SelectSeq(chunks[k].text, LAMBDA w : w # " ")])
      times(w, places) == Cardinality({i \in places : tokens[i][2] = <<w>>})
  IN OpenAfter(tokens) = <<>> =>
       \A w \in {tokens[i][2][1] : i \in data} :
         Cardinality({n \in DOMAIN cited : cited[n] = w}) = times(w, IF held = {} THEN data ELSE held)

\* An item is cited to a section that is called like it, if there is one; and
\* if no heading contains the item or is contained in it, to a chunk that names
\* it, if there is one.  (A heading without Latin letters is contained in all.)
ItemsCited(records) ==
  \A s \in records.synthetic :
    LET name == Normalized(s.item)
        base == {c \in ToSet(records.chunks) : c.from = s.from /\ c.to = s.to /\ c.text = s.text}
        heading(c) == IF c.path = <<>> THEN <<"no", "heading">> ELSE Normalized(Last(c.path))
        called == {c \in ToSet(records.chunks) : heading(c) = name}
        near == {c \in ToSet(records.chunks) : Within(name, heading(c)) \/ Within(heading(c), name)}
        naming == {c \in ToSet(records.chunks) : Within(name, Normalized(c.text))}
    IN /\ base # {} /\ [of |-> <<"item", s.item>>, from |-> s.from, to |-> s.to, text |-> s.text] \in records.evidence
       /\ called # {} => base \subseteq called
       /\ near = {} /\ naming # {} => base \subseteq naming

\* Whatever a document looks like: every line of it is cited once and under the
\* headings that enclose it, what stands in HTML elements is not lost, and the
\* items a document lists are cited to the sections that are about them
\* (parsers/markdown.py parse_source_document, doc_indexer.py _collect_document_entry).
DocumentsAreCited ==
  bundle.read =>
    /\ document.format = "html" /\ OpenAfter(FlattenSeq(document.lines)) = <<>> => bundle.ok
    /\ bundle.ok =>
         /\ LinesCited(document, bundle.records.chunks)
         /\ PathsEnclose(bundle.records.chunks)
         /\ document.format = "html" => TextsCited(document, bundle.records.chunks)
         /\ ItemsCited(bundle.records)
=============================================================================
