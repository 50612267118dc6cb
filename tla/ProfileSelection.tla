-------------------------- MODULE ProfileSelection ---------------------------
(***************************************************************************)
(* Which profile a question is about (indexing/profile.py): the candidates *)
(* made of configured seeds, .config files and defconfigs, how duplicates  *)
(* are merged, and how one of them is chosen.                              *)
(*                                                                         *)
(* A configuration file is a record: path, its rank among the file names;  *)
(* kind; apps and boards, the clues in the order they are found            *)
(* (parsers/kconfig.py); preferred, the board of this file alone; text;    *)
(* clean, that every line was understood; scanned, that the connector      *)
(* found it.  A workspace has files, seeds (configured profiles), default  *)
(* (the configured profile or "auto") and baseline (that of the manifest). *)
(***************************************************************************)
EXTENDS Integers, Sequences, FiniteSets, SequencesExt

NoFile == [path |-> 0, kind |-> "none", apps |-> <<>>, boards |-> <<>>, preferred |-> "none",
           text |-> "missing", clean |-> TRUE, scanned |-> FALSE]

FirstClue(clues) == IF clues = <<>> THEN "none" ELSE clues[1]

\* derive_profile_id: a profile without clues is named after its file.
ProfileId(app, board, path) ==
  IF {app, board} = {"none"} THEN <<"path", path>> ELSE <<board, app>>

\* classify_profile_candidate, in hundredths.
Quality(app, board, dotconfig, clean) ==
  LET known == Cardinality({app, board} \ {"none"})
  IN IF app # "none" /\ board # "none"
     THEN [status |-> "candidate",
           confidence |-> IF dotconfig THEN IF clean THEN 93 ELSE 88 ELSE IF clean THEN 76 ELSE 72]
     ELSE IF known > 0 THEN [status |-> "stale", confidence |-> IF dotconfig THEN 60 ELSE 55]
     ELSE [status |-> "invalid", confidence |-> 30]

\* _build_candidate: the clues of .config come before those of the defconfig.
BuildCandidate(def, dot, source, seed) ==
  LET app == IF seed.app # "none" THEN seed.app ELSE FirstClue(dot.apps \o def.apps)
      board == IF seed.board # "none" THEN seed.board ELSE FirstClue(dot.boards \o def.boards)
      quality == Quality(app, board, dot # NoFile, dot.clean /\ def.clean)
      id == IF seed.id # <<>> THEN seed.id
            ELSE ProfileId(app, board, IF dot # NoFile THEN dot.path ELSE def.path)
  IN [id |-> id, record |-> <<id, def.text, dot.text>>, signature |-> <<dot.path, def.path, app, board>>,
      source |-> source, priority |-> seed.priority,
      status |-> quality.status, confidence |-> quality.confidence]

NoSeed == [id |-> <<>>, def |-> 0, dot |-> 0, app |-> "none", board |-> "none", priority |-> 10000]

FileAt(files, path) == IF \E f \in files : f.path = path THEN CHOOSE f \in files : f.path = path ELSE NoFile
Scanned(workspace, kind) == {f \in workspace.files : f.kind = kind /\ f.scanned}

\* _candidate_from_known_seed: a seed may name files the scan does not know.
SeedCandidates(workspace, seed) ==
  LET def == FileAt(workspace.files, seed.def)
      dot == FileAt(workspace.files, seed.dot)
  IN IF {def, dot} = {NoFile} THEN <<>> ELSE <<BuildCandidate(def, dot, 3, seed)>>

\* _match_defconfig.  It compares the board of each file alone.
MatchScore(dot, def) ==
  LET app(f) == FirstClue(f.apps)
      same(a, b) == a # "none" /\ a = b
  IN (IF same(dot.preferred, def.preferred) THEN 6 ELSE 0) + (IF same(app(dot), app(def)) THEN 4 ELSE 0) +
     (IF ProfileId(app(dot), dot.preferred, dot.path) = ProfileId(app(def), def.preferred, def.path) THEN 3 ELSE 0)

MatchDefconfig(dot, defs) ==
  LET better(d, e) == MatchScore(dot, d) > MatchScore(dot, e) \/ (MatchScore(dot, d) = MatchScore(dot, e) /\ d.path < e.path)
      matches == {d \in defs : MatchScore(dot, d) > 0}
  IN IF matches = {} THEN NoFile ELSE CHOOSE d \in matches : \A e \in matches \ {d} : better(d, e)

\* candidate_preference_key; candidates that are merged have the same files.
Richer(c, d) ==
  \/ c.source > d.source
  \/ c.source = d.source /\ c.priority < d.priority
  \/ c.source = d.source /\ c.priority = d.priority /\ c.confidence > d.confidence

\* add_profile_candidate: of candidates with one signature, or one record, the
\* richer is kept.
AddCandidate(state, c) ==
  LET signed == {d \in state.found : <<c.signature, d.record>> \in state.signed}
      same == IF signed # {} THEN signed ELSE {d \in state.found : d.record = c.record}
      kept == IF \E d \in same : ~Richer(c, d) THEN CHOOSE d \in same : ~Richer(c, d) ELSE c
  IN [found |-> {d \in state.found \ same : d.record # kept.record} \cup {kept},
      signed |-> {s \in state.signed : s[1] # c.signature} \cup {<<c.signature, kept.record>>}]

\* _discover_candidates: seeds, then .config files with the defconfig they
\* match, then the other defconfigs, in the order of their names.
Candidates(workspace) ==
  LET byPath(files) == SetToSortSeq(files, LAMBDA f, g : f.path < g.path)
      defs == Scanned(workspace, "defconfig")
      dots == Scanned(workspace, "dotconfig")
      matched == {MatchDefconfig(d, defs) : d \in dots}
      seeded == FlattenSeq([i \in DOMAIN workspace.seeds |-> SeedCandidates(workspace, workspace.seeds[i])])
      dotted == [i \in 1..Cardinality(dots) |->
                   LET dot == byPath(dots)[i] IN BuildCandidate(MatchDefconfig(dot, defs), dot, 2, NoSeed)]
      rest == defs \ matched
      defined == [i \in 1..Cardinality(rest) |-> BuildCandidate(byPath(rest)[i], NoFile, 1, NoSeed)]
  IN FoldLeft(AddCandidate, [found |-> {}, signed |-> {}], seeded \o dotted \o defined).found

\* A defconfig alone is never trusted enough.
AutoEligible(c) == c.signature[1] # 0 /\ c.status = "candidate" /\ c.confidence >= 80

NoProfile == <<>>
ProfileResolution(status, id, candidates) == [status |-> status, id |-> id, candidates |-> candidates]

\* _resolve_requested_profile, of the profile a question names or "auto".
ResolveProfile(workspace, requested) ==
  LET candidates == Candidates(workspace)
      wanted == IF requested = <<"auto">> THEN workspace.default ELSE requested
      named(id) == {c \in candidates : c.id = id}
      auto == {c \in candidates : AutoEligible(c)}
      only(set) == (CHOOSE c \in set : TRUE).id
  IN IF wanted # <<"auto">>
     THEN IF Cardinality(named(wanted)) = 1 THEN ProfileResolution("resolved", wanted, {})
          ELSE ProfileResolution("invalid", NoProfile, named(wanted))
     ELSE IF Cardinality(auto) = 1 THEN ProfileResolution("resolved", only(auto), {})
     ELSE IF auto # {} THEN ProfileResolution("multiple_candidates", NoProfile, auto)
     ELSE IF Cardinality(named(workspace.baseline)) = 1 THEN ProfileResolution("resolved", workspace.baseline, {})
     ELSE ProfileResolution("unresolved", NoProfile, {c \in candidates : c.status # "invalid"})
=============================================================================
