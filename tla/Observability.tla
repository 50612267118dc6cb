---------------------------- MODULE Observability ----------------------------
(***************************************************************************)
(* The persisted counters (observability/metrics.py): query tools of MCP   *)
(* servers, index commands and status requests each load the snapshot,     *)
(* change it and write it back through one temporary file, without a lock. *)
(***************************************************************************)
EXTENDS Integers, FiniteSetsExt, SequencesExt

CONSTANTS
  Callers,     \* processes, each of which makes one call
  Calls,       \* Calls: what they may call, as functions from Callers to calls
  RecentLimit  \* _RECENT_QUERY_LIMIT and _RECENT_INDEX_LIMIT, 20 in the code

ASSUME ObservabilityAssumption ==
  /\ RecentLimit \in Nat \ {0} /\ IsFiniteSet(Callers)
  /\ \A c \in Calls : \A p \in Callers :
       /\ c[p].kind \in {"query", "index", "status"}
       /\ c[p].kind # "status" => c[p].time \in Nat
       /\ c[p].kind = "query" => c[p].warnings \in Nat
       /\ c[p].kind = "index" => c[p].files \in Nat

VARIABLES
  call,        \* call[p]: what p calls
  caller,      \* caller[p]: how far it is, what it has loaded, which file it writes
  snapshots,   \* the directory: the inodes of the snapshot and of its temporary file
  contents,    \* what the inodes hold
  told,        \* told[p]: the health a status request was told
  recorded,    \* history: the calls whose snapshot was put in place, newest first
  overlapped   \* history: whether two calls were ever under way at once

metricVars == <<call, caller, snapshots, contents, told, recorded, overlapped>>

-----------------------------------------------------------------------------
(* The snapshot: totals, durations, the newest calls, the gauges.          *)

NoTimes == [count |-> 0, sum |-> 0, min |-> 0, max |-> 0, last |-> 0]

\* _default_snapshot, and what is left of a snapshot that is being written.
EmptySnapshot ==
  [whole |-> TRUE, files |-> 0, failed |-> 0, candidates |-> 0, evidence |-> 0, warnings |-> 0, queue |-> 0,
   size |-> 0, times |-> [query |-> NoTimes, index |-> NoTimes], recent |-> [query |-> <<>>, index |-> <<>>]]
Broken == [whole |-> FALSE]

\* _observe_histogram.
Observed(h, value) ==
  [count |-> h.count + 1, sum |-> h.sum + value, last |-> value,
   min |-> IF h.count = 0 THEN value ELSE Min({h.min, value}),
   max |-> IF h.count = 0 THEN value ELSE Max({h.max, value})]

Newest(list) == SubSeq(list, 1, Min({Len(list), RecentLimit}))

\* record_query_run and record_index_run.  Only queries count their warnings.
Recorded(s, p) ==
  LET c == call[p]
      kept == IF c.kind = "status" THEN s
              ELSE [s EXCEPT !.times[c.kind] = Observed(@, c.time), !.recent[c.kind] = Newest(<<p>> \o @)]
  IN CASE c.kind = "query" ->
            [kept EXCEPT !.candidates = @ + c.candidates, !.evidence = @ + c.evidence, !.warnings = @ + c.warnings]
       [] c.kind = "index" -> [kept EXCEPT !.files = @ + c.files, !.failed = @ + c.failed]
       [] c.kind = "status" -> [kept EXCEPT !.queue = c.queue, !.size = c.size]

\* _query_health and _index_health: live is what validation says of the store.
QueryHealth(latest) ==
  IF latest = {} THEN "missing"
  ELSE LET q == call[CHOOSE p \in latest : TRUE]
       IN CASE q.status \in {"error", "blocked"} -> "blocked"
            [] q.status \notin {"error", "blocked"} /\ (q.status = "partial_ready" \/ q.warnings > 0) -> "degraded"
            [] OTHER -> "ok"

IndexHealth(latest, live) ==
  LET status == IF live # "none" \/ latest = {} THEN live ELSE call[CHOOSE p \in latest : TRUE].status
  IN CASE status \in {"failed", "blocked"} -> "blocked"
       [] status = "partial_ready" -> "degraded"
       [] status \in {"missing", "none"} -> "missing"
       [] OTHER -> "ok"

\* _overall_health_status
Worst(states) ==
  CASE "blocked" \in states -> "blocked"
    [] "blocked" \notin states /\ "degraded" \in states -> "degraded"
    [] states \cap {"blocked", "degraded"} = {} /\ "missing" \in states -> "missing"
    [] OTHER -> "ok"

LatestOf(list) == ToSet(SubSeq(list, 1, Min({Len(list), 1})))
Health(queries, runs, p) ==
  Worst({QueryHealth(LatestOf(queries)), IndexHealth(LatestOf(runs), call[p].live)})

-----------------------------------------------------------------------------
(* The files.  Each process that creates the temporary file makes an inode *)
(* of its own; a process writes to the inode it opened, whatever its name  *)
(* is by then.                                                             *)

NoSnapshot == <<>>
SnapshotFiles == {<<p>> : p \in Callers}

\* Mutant: the snapshot is written where it is.
InPlace == "live"
TempName == "temp"

\* load_snapshot: what cannot be read counts as nothing.
SnapshotIn(name) ==
  IF snapshots[name] = NoSnapshot \/ ~contents[snapshots[name]].whole THEN EmptySnapshot ELSE contents[snapshots[name]]

Waiting == [pc |-> "load", snapshot |-> EmptySnapshot, fd |-> NoSnapshot]

MetricsInit ==
  /\ call \in Calls
  /\ caller = [p \in Callers |-> Waiting]
  /\ snapshots = [live |-> NoSnapshot, temp |-> NoSnapshot]
  /\ contents = [i \in SnapshotFiles |-> Broken]
  /\ told = [p \in Callers |-> "nothing"]
  /\ recorded = <<>> /\ overlapped = FALSE

UnderWay == {p \in Callers : caller[p].pc \notin {"load", "done", "failed", "dead"}}

\* The first step of each call; its result is known by then.
Load(p) ==
  /\ caller[p].pc = "load"
  /\ caller' = [caller EXCEPT ![p].pc = "open", ![p].snapshot = Recorded(SnapshotIn("live"), p)]
  /\ overlapped' = (overlapped \/ UnderWay # {})
  /\ UNCHANGED <<call, snapshots, contents, told, recorded>>

\* save_snapshot: write_text opens (and empties) the temporary file, writes it ...
OpenSnapshot(p) ==
  /\ caller[p].pc = "open"
  /\ LET inode == IF snapshots[TempName] = NoSnapshot THEN <<p>> ELSE snapshots[TempName]
     IN /\ snapshots' = [snapshots EXCEPT ![TempName] = inode]
        /\ contents' = [contents EXCEPT ![inode] = Broken]
        /\ caller' = [caller EXCEPT ![p].pc = "write", ![p].fd = inode]
  /\ UNCHANGED <<call, told, recorded, overlapped>>

\* ... over what another process wrote there, which may be longer ...
WriteSnapshot(p) ==
  /\ caller[p].pc = "write"
  /\ \E left \in {caller[p].snapshot} \cup (IF contents[caller[p].fd].whole THEN {Broken} ELSE {}) :
       contents' = [contents EXCEPT ![caller[p].fd] = left]
  /\ caller' = [caller EXCEPT ![p].pc = "replace"]
  /\ UNCHANGED <<call, snapshots, told, recorded, overlapped>>

\* ... and moves it into place.  The status is answered from what was loaded.
ReplaceSnapshot(p) ==
  /\ caller[p].pc = "replace" /\ snapshots[TempName] # NoSnapshot
  /\ snapshots' = [snapshots EXCEPT !.live = snapshots[TempName], !.temp = NoSnapshot]
  /\ caller' = [caller EXCEPT ![p].pc = "done"]
  /\ recorded' = <<p>> \o recorded
  /\ told' = [told EXCEPT ![p] = IF call[p].kind # "status" THEN @
                ELSE Health(caller[p].snapshot.recent.query, caller[p].snapshot.recent.index, p)]
  /\ UNCHANGED <<call, contents, overlapped>>

\* Another process has moved the file away: the index command ignores the
\* OSError, the query and the status request fail with it.
ReplaceFails(p) ==
  /\ caller[p].pc = "replace" /\ snapshots[TempName] = NoSnapshot
  /\ caller' = [caller EXCEPT ![p].pc = IF call[p].kind = "index" THEN "done" ELSE "failed"]
  /\ UNCHANGED <<call, snapshots, contents, told, recorded, overlapped>>

Die(p) ==
  /\ p \in UnderWay
  /\ caller' = [caller EXCEPT ![p].pc = "dead"]
  /\ UNCHANGED <<call, snapshots, contents, told, recorded, overlapped>>

MetricsNext ==
  \E p \in Callers :
    \/ Load(p) \/ OpenSnapshot(p) \/ WriteSnapshot(p)
    \/ ReplaceSnapshot(p) \/ ReplaceFails(p) \/ Die(p)

-----------------------------------------------------------------------------
CallsOf(k, list) == FlattenSeq([n \in DOMAIN list |-> IF call[list[n]].kind = k THEN <<list[n]>> ELSE <<>>])
Queries(list) == CallsOf("query", list)
Runs(list) == CallsOf("index", list)
Total(list, field) == SumFunction([n \in DOMAIN list |-> call[list[n]][field]])

\* A snapshot lists no call twice, and as many as it counts, up to the limit.
CountsOnce(s) ==
  \A k \in {"query", "index"} :
    /\ IsInjective(s.recent[k])
    /\ Len(s.recent[k]) = Min({RecentLimit, s.times[k].count})

\* The totals are those of the calls listed, as long as none has left the list.
SnapshotAddsUp(s) ==
  /\ CountsOnce(s)
  /\ \A k \in {"query", "index"} : s.times[k].count <= RecentLimit =>
       /\ s.times[k].sum = Total(s.recent[k], "time")
       /\ k = "query" => s.warnings = Total(s.recent[k], "warnings")
       /\ k = "index" => s.files = Total(s.recent[k], "files")

\* While no two calls overlap, none fails, and each that returned is recorded.
CallsReturn ==
  ~overlapped =>
    \A p \in Callers :
      caller[p].pc # "failed" /\ (caller[p].pc = "done" => p \in ToSet(recorded))

\* Whatever writes over whatever, a snapshot that can be read counts no call
\* twice and none in part.  And as long as no two calls overlap, wherever calls
\* are killed, the snapshot counts every call that returned and no other, no
\* call fails over it, and a status request is told the health of the newest
\* query and index run.
MetricsTellRuns ==
  /\ \A i \in SnapshotFiles : contents[i].whole => SnapshotAddsUp(contents[i])
  /\ CallsReturn
  /\ ~overlapped =>
       /\ LET s == SnapshotIn("live")
          IN /\ s.recent.query = Newest(Queries(recorded)) /\ s.recent.index = Newest(Runs(recorded))
             /\ s.times.query.count = Len(Queries(recorded)) /\ s.times.index.count = Len(Runs(recorded))
       /\ \A p \in Callers : told[p] # "nothing" =>
            LET earlier == SubSeq(recorded, CHOOSE i \in DOMAIN recorded : recorded[i] = p, Len(recorded))
            IN told[p] = Health(Queries(earlier), Runs(earlier), p)
=============================================================================
