----------------------------- MODULE Extraction -----------------------------
(***************************************************************************)
(* What the code and the document indexer make of a file: the rows of the  *)
(* metadata store and the vector references, with their ids.  A path       *)
(* stands for a C source, a makefile or a document; its content is a       *)
(* revision.  What matters of a revision is at which line the one symbol   *)
(* of a source stands (Line), since ids of symbols are made of it.         *)
(***************************************************************************)
EXTENDS Naturals, FiniteSets

CONSTANTS
  Sources,    \* C files, all of them files of every makefile's module
  Makefiles,  \* makefiles, each defining one module
  Docs,       \* documents, each with a section and an API item
  Line        \* Line[v]: where the symbol stands in revision v, 0 for nowhere

CodePaths == Sources \cup Makefiles
Paths == CodePaths \cup Docs

\* Directory anchors are left out: the incremental pipeline drops them.
FileRows(p, v) == {[id |-> p, text |-> v]}

Row(p, kind, id, v) == [id |-> id, file |-> p, key |-> kind, text |-> v]

\* The chunk of a section is named after its text; the header, a symbol and an
\* item are not.
SourceChunkRows(p, v) ==
  {Row(p, "header", <<p, "header">>, v)} \cup
  {Row(p, "symbol", <<p, "symbol", l>>, v) : l \in {Line[v]} \ {0}}

DocChunkRows(p, v) ==
  {Row(p, "section", <<p, "section", v>>, v), Row(p, "item", <<p, "item">>, v)}

ChunkRows(p, v) ==
  CASE p \in Sources -> SourceChunkRows(p, v)
    [] p \in Docs -> DocChunkRows(p, v)
    [] OTHER -> {}

SourceEntityRows(p, v) ==
  {Row(p, "File", <<p, "File">>, v)} \cup
  {Row(p, "symbol", <<p, "Symbol", l>>, v) : l \in {Line[v]} \ {0}}

ModuleRows(p, v) == {Row(p, "File", <<p, "File">>, v), Row(p, "Module", <<p, "Module">>, v)}

DocEntityRows(p, v) == {Row(p, "Document", <<p, "Document">>, v), Row(p, "API", <<p, "API">>, v)}

EntityRows(p, v) ==
  CASE p \in Sources -> SourceEntityRows(p, v)
    [] p \in Makefiles -> ModuleRows(p, v)
    [] OTHER -> DocEntityRows(p, v)

Relation(type, src, dst) == [id |-> <<type, src, dst>>, type |-> type, src |-> src, dst |-> dst]

Defines(p, v) ==
  CASE p \in Sources ->
         {Relation("defines", <<p, "File">>, <<p, "Symbol", l>>) : l \in {Line[v]} \ {0}}
    [] p \in Makefiles -> {Relation("defines", <<p, "File">>, <<p, "Module">>)}
    [] OTHER -> {}

\* A module contains the files its makefile names, of those collected with it.
Membership(m, collected) ==
  UNION {{Relation("contains", <<m, "Module">>, <<s, "File">>),
          Relation("belongs_to_module", <<s, "File">>, <<m, "Module">>)} :
         s \in Sources \cap collected}

Evidence(p, object, chunk) ==
  [id |-> <<"evidence", object, chunk>>, file |-> p, about |-> "entity",
   object |-> object, chunk |-> chunk]

SourceEvidence(p, v) ==
  {Evidence(p, <<p, "File">>, <<p, "header">>)} \cup
  {Evidence(p, <<p, "Symbol", l>>, <<p, "symbol", l>>) : l \in {Line[v]} \ {0}}

DocEvidence(p, v) ==
  {Evidence(p, <<p, "Document">>, <<p, "section", v>>), Evidence(p, <<p, "API">>, <<p, "item">>)}

EvidenceRows(p, v) ==
  CASE p \in Sources -> SourceEvidence(p, v)
    [] p \in Makefiles -> {Evidence(p, <<p, "Module">>, <<>>)}
    [] OTHER -> DocEvidence(p, v)

\* One vector for each chunk of a document.
RefRows(p, v) ==
  IF p \in Docs
  THEN {[id |-> <<"ref", c.id>>, object |-> c.id, hash |-> c.text] : c \in ChunkRows(p, v)}
  ELSE {}

\* Relations go with the bundle of the file of either endpoint.
RelationRows(p, v, collected) ==
  Defines(p, v) \cup
  UNION {{r \in Membership(m, collected) : p \in {r.src[1], r.dst[1]}} : m \in Makefiles \cap collected}

\* _code_bundles_by_path, _doc_bundle_from_indexed
Bundle(p, v, collected) ==
  [file |-> FileRows(p, v), chunk |-> ChunkRows(p, v), entity |-> EntityRows(p, v),
   relation |-> RelationRows(p, v, collected), evidence |-> EvidenceRows(p, v)]
=============================================================================
