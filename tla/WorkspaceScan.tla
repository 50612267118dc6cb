---------------------------- MODULE WorkspaceScan -----------------------------
(***************************************************************************)
(* The walk over the workspace (connectors/workspace.py), over the         *)
(* documents (connectors/source_docs.py) and over the configurations and   *)
(* compile databases of builds (connectors/build_outputs.py), directory by *)
(* directory, while files come, go and change, directories cannot be read  *)
(* and git does not answer; what it finds is the inventory that runs are   *)
(* planned from.                                                           *)
(*                                                                         *)
(* A path is a sequence of names, <<>> the root.  A node is a file with    *)
(* its content, a directory, a link, or nothing.                           *)
(***************************************************************************)
EXTENDS Integers, Sequences, FiniteSets, SequencesExt, FiniteSetsExt

CONSTANTS
  PathList,    \* every path below the root, in the order of the walk
  Trees,       \* initial states of the tree: [root, node]; root is "workspace", "docs" or "outputs"
  GitWorlds,   \* [markers, listed, ignored]: directories with a .git, submodules
               \* that git lists, and what the rules of each repository ignore
  Include, Exclude,  \* patterns
  DocAreas,    \* the names of supported categories
  ConfigAreas, \* defconfig_roots, a sequence of paths
  BuildCandidates,  \* dotconfig_candidates and compile_db_candidates, a sequence of paths
  Defconfigs,  \* the names that end with "defconfig"
  Outside,     \* a target outside of the allowed roots
  MaxChanges,  \* bound: changes of the tree during a walk
  MaxTrouble   \* bound: directories that cannot be read, probes that fail

ASSUME ScanAssumption == MaxChanges \in Nat /\ MaxTrouble \in Nat

VARIABLES
  tree,     \* [root, node]
  git,
  walk,     \* the walk: pc, todo, found, candidates, warnings, inventory
  touched   \* what changed since the walk began

scanVars == <<tree, git, walk, touched>>

Paths == ToSet(PathList)
Nothing == [kind |-> "none"]
Node(p) == IF p \in Paths THEN tree.node[p] ELSE IF p = <<>> THEN [kind |-> "dir"] ELSE Nothing

\* stat, which follows a link
Target(p) == IF Node(p).kind = "link" THEN Node(Node(p).to) ELSE Node(p)

-----------------------------------------------------------------------------
\* PathGuard.guard with must_exist: the real path lies under an allowed root.
Guarded(p) == Target(p).kind # "none" /\ (Node(p).kind = "link" => Node(p).to # Outside)

\* path_matches_pattern
Matches(p, pattern) ==
  CASE pattern[1] = "name" -> pattern[2] \in ToSet(p)
    [] pattern[1] = "below" -> IsPrefix(pattern[2], p)
    [] pattern[1] = "anywhere" -> \E s \in Suffixes(p) : IsPrefix(pattern[2], s)
    [] pattern[1] = "path" -> IsSuffix(pattern[2], p)

IsExcluded(p) == \E pattern \in Exclude : Matches(p, pattern)
IsIncluded(p) == Include = {} \/ \E pattern \in Include : Matches(p, pattern)

ChildrenOf(d) == SelectSeq(PathList, LAMBDA p : Len(p) = Len(d) + 1 /\ IsPrefix(d, p) /\ Node(p).kind # "none")

\* nearest_repository
Deepest(p, repositories) ==
  LET above == {r \in repositories : IsPrefix(r, p)}
  IN IF above = {} THEN <<"none">> ELSE <<"repo", CHOOSE r \in above : \A s \in above : Len(s) <= Len(r)>>

-----------------------------------------------------------------------------
NoRepo == <<"none">>
Entry(p, repo) == [path |-> p, dir |-> Target(p).kind = "dir", link |-> Node(p).kind = "link", repo |-> repo, role |-> "listed"]
Warn(code, p) == [walk EXCEPT !.warnings = @ \cup {<<code, p>>}, !.todo = Tail(@)]

\* git_marker_kind: the innermost repository on the way down.
\* Mutant: a nested repository does not change whose rules are asked for.
OutermostRepo(entry) == IF entry.path \in git.markers /\ entry.repo = NoRepo THEN <<"repo", entry.path>> ELSE entry.repo
ActiveRepo(entry) == IF entry.path \in git.markers THEN <<"repo", entry.path>> ELSE entry.repo

\* _gitignored_paths: a probe that fails ignores nothing.
Ignored(repo, answers) == IF repo = NoRepo \/ ~answers THEN {} ELSE git.ignored[repo[2]]

\* _scan_directory, up to its loop over the entries.  A directory that cannot be
\* read is warned of; a .git that is there has been noted before.
ListDirectory(entry, answers) ==
  LET repo == ActiveRepo(entry)
      children == ChildrenOf(entry.path)
      kept == SelectSeq(children, LAMBDA p : Guarded(p) /\ ~IsExcluded(p))
      entries == SelectSeq(kept, LAMBDA p : p \notin Ignored(repo, answers))
  IN [walk EXCEPT
        !.todo = [i \in DOMAIN entries |-> Entry(entries[i], repo)] \o Tail(@),
        !.candidates = IF entry.path \in git.markers THEN @ \cup {entry.path} ELSE @,
        !.warnings = @ \cup {<<"blocked", p>> : p \in {q \in ToSet(children) : ~Guarded(q)}}
                       \cup (IF repo # NoRepo /\ kept # <<>> /\ ~answers THEN {<<"probe failed", repo[2]>>} ELSE {})]

OpenDirectory(readable, answers) ==
  /\ walk.pc = "walk" /\ tree.root = "workspace" /\ walk.todo # <<>>
  /\ LET entry == Head(walk.todo)
     IN /\ entry.dir /\ ~entry.link
        /\ IF readable /\ Node(entry.path).kind = "dir"
           THEN walk' = ListDirectory(entry, answers)
           ELSE walk' = [Warn("unreadable", entry.path) EXCEPT
                           !.candidates = IF entry.path \in git.markers /\ Node(entry.path).kind = "dir"
                                          THEN @ \cup {entry.path} ELSE @]
  /\ UNCHANGED <<tree, git, touched>>

\* hash_file: the entry was listed before, its content is read now.  A file that
\* is reached twice, through overlapping roots, counts as it was read last.
ReadFile(entry, readable) ==
  IF readable /\ Target(entry.path).kind = "file"
  THEN [walk EXCEPT !.todo = Tail(@),
                    !.found = {f \in @ : f.path # entry.path} \cup
                      {[path |-> entry.path, content |-> Target(entry.path).content, link |-> entry.link]}]
  ELSE Warn("unreadable", entry.path)

VisitEntry(readable) ==
  /\ walk.pc = "walk" /\ tree.root = "workspace" /\ walk.todo # <<>>
  /\ LET entry == Head(walk.todo)
     IN \/ entry.dir /\ entry.link /\ walk' = Warn("link skipped", entry.path)
        \/ ~entry.dir /\ ~IsIncluded(entry.path) /\ walk' = [walk EXCEPT !.todo = Tail(@)]
        \/ ~entry.dir /\ IsIncluded(entry.path) /\ walk' = ReadFile(entry, readable)
  /\ UNCHANGED <<tree, git, touched>>

\* SourceDocsConnector: no patterns and no git; of the root, only the supported
\* categories.
Supported(p) == Len(p) > 1 \/ p[1] \in DocAreas

\* What a path is, is looked up when it is its turn.
ListDocs(entry) ==
  LET children == ChildrenOf(entry.path)
      kept == SelectSeq(children, LAMBDA p : Guarded(p) /\ Supported(p))
  IN [walk EXCEPT !.todo = [i \in DOMAIN kept |-> Entry(kept[i], NoRepo)] \o Tail(@),
                  !.warnings = @ \cup {<<"blocked", p>> : p \in ToSet(children) \ ToSet(kept)}]

VisitDoc(readable) ==
  /\ walk.pc = "walk" /\ tree.root = "docs" /\ walk.todo # <<>>
  /\ LET entry == Head(walk.todo)
         kind == Target(entry.path).kind
     IN CASE kind = "none" -> walk' = Warn("unreadable", entry.path)
          [] kind = "dir" /\ Node(entry.path).kind = "link" -> walk' = Warn("link skipped", entry.path)
          [] kind = "dir" /\ Node(entry.path).kind = "dir" ->
               walk' = IF readable THEN ListDocs(entry) ELSE Warn("unreadable", entry.path)
          [] kind = "file" -> walk' = ReadFile([entry EXCEPT !.link = Node(entry.path).kind = "link"], readable)
  /\ UNCHANGED <<tree, git, touched>>

\* build_artifact_entry
ReadOutput(entry, readable) == ReadFile([entry EXCEPT !.link = Node(entry.path).kind = "link"], readable)

\* BuildOutputsConnector: every defconfig below the configured roots, and the
\* candidates that are files.  Nothing is said of a root or a candidate that is
\* not there; a candidate may be a link.
VisitOutput(readable) ==
  /\ walk.pc = "walk" /\ tree.root = "outputs" /\ walk.todo # <<>>
  /\ LET entry == Head(walk.todo)
         p == entry.path
         kind == Target(p).kind
         isLink == Node(p).kind = "link"
         given == entry.role # "listed"
         passed == [walk EXCEPT !.todo = Tail(@)]
         children == [i \in DOMAIN ChildrenOf(p) |-> Entry(ChildrenOf(p)[i], NoRepo)]
     IN \/ given /\ Node(p).kind = "none" /\ walk' = passed
        \/ ~Guarded(p) /\ (given => isLink) /\ walk' = Warn("blocked", p)
        \/ /\ Guarded(p) /\ kind = "dir"
           /\ walk' = IF isLink \/ entry.role = "candidate" THEN Warn("not taken", p)
                      ELSE IF readable THEN [passed EXCEPT !.todo = children \o @] ELSE Warn("unreadable", p)
        \/ /\ Guarded(p) /\ kind = "file"
           /\ walk' = IF entry.role = "area" THEN Warn("not taken", p)
                      ELSE IF entry.role = "listed" /\ Last(p) \notin Defconfigs THEN passed
                      ELSE ReadOutput(entry, readable)
  /\ UNCHANGED <<tree, git, touched>>

StartingAt(paths, role) == [i \in DOMAIN paths |-> [Entry(paths[i], NoRepo) EXCEPT !.role = role]]

\* Where each connector begins.
Beginning ==
  IF tree.root = "outputs" THEN StartingAt(ConfigAreas, "area") \o StartingAt(BuildCandidates, "candidate")
  ELSE <<[path |-> <<>>, dir |-> TRUE, link |-> FALSE, repo |-> NoRepo, role |-> "listed"]>>

\* read_submodule_status: asked for only in a root that is a repository.
Repositories == walk.candidates \cup (IF <<>> \in walk.candidates THEN git.listed ELSE {})

\* discover_repositories raises when a repository has gone.
FinishWalk ==
  /\ walk.pc = "walk" /\ walk.todo = <<>>
  /\ walk' = IF \E r \in walk.candidates : Target(r).kind = "none" THEN [walk EXCEPT !.pc = "failed"]
             ELSE [walk EXCEPT !.pc = "done",
                               !.inventory = {[path |-> f.path, content |-> f.content, link |-> f.link,
                                               repo |-> Deepest(f.path, Repositories)] : f \in walk.found}]
  /\ UNCHANGED <<tree, git, touched>>

-----------------------------------------------------------------------------
\* Developers meanwhile.
Change(p, node) ==
  /\ walk.pc = "walk" /\ Cardinality(touched) < MaxChanges /\ p \notin touched
  /\ Node(Front(p)).kind = "dir" /\ Node(p) # node
  /\ tree' = [tree EXCEPT !.node = [q \in Paths |-> IF q = p THEN node ELSE IF IsPrefix(p, q) THEN Nothing ELSE @[q]]]
  /\ touched' = touched \cup {p}
  /\ UNCHANGED <<git, walk>>

Troubles == Cardinality({w \in walk.warnings : w[1] \in {"unreadable", "probe failed"}})

ScanInit ==
  /\ tree \in Trees /\ touched = {}
  /\ git \in (IF tree.root = "workspace" THEN GitWorlds ELSE {CHOOSE g \in GitWorlds : TRUE})
  /\ walk = [pc |-> "walk", todo |-> Beginning, found |-> {}, candidates |-> {}, warnings |-> {}, inventory |-> {}]

ScanNext ==
  \/ \E readable, answers \in BOOLEAN :
       ((readable /\ answers) \/ Troubles < MaxTrouble) /\ OpenDirectory(readable, answers)
  \/ \E readable \in BOOLEAN : (readable \/ Troubles < MaxTrouble) /\ (VisitEntry(readable) \/ VisitDoc(readable) \/ VisitOutput(readable))
  \/ FinishWalk
  \/ \E p \in Paths : \E node \in {Nothing, [kind |-> "file", content |-> 2]} : Change(p, node)

-----------------------------------------------------------------------------
Above(p) == {SubSeq(p, 1, n) : n \in 1..Len(p)}
Steady(p) == \A q \in touched : ~IsPrefix(q, p) /\ (Node(p).kind = "link" => ~IsPrefix(q, Node(p).to))

\* The rules of the repository a path lies in, or one of its directories, ignore it.
IgnoringRepos(p) ==
  {r \in git.markers : \E q \in Above(p) : Deepest(Front(q), git.markers) = <<"repo", r>> /\ q \in git.ignored[r]}

IsOutput(p) ==
  \/ p \in ToSet(BuildCandidates)
  \/ Last(p) \in Defconfigs /\ \E a \in ToSet(ConfigAreas) : IsStrictPrefix(a, p)

Wanted(p) ==
  /\ Target(p).kind = "file" /\ Guarded(p) /\ \A q \in Above(p) \ {p} : Node(q).kind = "dir"
  /\ IF tree.root = "docs" THEN p[1] \in DocAreas
     ELSE IF tree.root = "outputs" THEN IsOutput(p)
     ELSE IsIncluded(p) /\ IgnoringRepos(p) = {} /\ \A q \in Above(p) : ~IsExcluded(q)

\* An inventory, taken while the workspace changes and parts of it fail, may be
\* taken for the workspace: every file that was there throughout is in it, with
\* its content, or it or a directory above it is named in a warning; what was
\* there throughout and is listed is wanted, or git did not answer for the
\* repository that ignores it; and each file counts for the innermost repository
\* around it (the scan of connectors/workspace.py,
\* connectors/source_docs.py and connectors/build_outputs.py).
InventoryIsTrue ==
  walk.pc = "done" =>
    LET listed == {f.path : f \in walk.inventory}
        repositories == IF tree.root # "workspace" THEN {}
                        ELSE git.markers \cup (IF <<>> \in git.markers THEN git.listed ELSE {})
    IN /\ \A p \in Paths : Steady(p) /\ Wanted(p) =>
            \/ \E f \in walk.inventory : f.path = p /\ f.content = Target(p).content
            \/ \E q \in Above(p) \cup {<<>>} : <<"unreadable", q>> \in walk.warnings
       /\ \A p \in listed : Steady(p) /\ ~Wanted(p) =>
            \E r \in IgnoringRepos(p) : <<"probe failed", r>> \in walk.warnings
       /\ \A f \in walk.inventory :
            (\A r \in repositories : Steady(r) /\ IgnoringRepos(r) = {}) => f.repo = Deepest(f.path, repositories)
=============================================================================
