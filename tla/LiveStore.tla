----------------------------- MODULE LiveStore ------------------------------
(***************************************************************************)
(* What publishing promises to whoever queries the index: the live store   *)
(* is replaced as a whole by a validated full build, or changed in place   *)
(* by an incremental run, and by nothing else.  Staging, moving files,     *)
(* crashes, failures and clean-ups do not show.                            *)
(* The store is told by one document: `chunk` is the generation of its     *)
(* chunk row, `ref` of its vector_ref row, `row` of its vector.            *)
(***************************************************************************)
CONSTANTS Versions, Updaters, Anchor

VARIABLES
  live,       \* the generations a reader that opens the store now finds
  disowned    \* some running full index was cancelled: nothing is promised

Built(v) == [chunk |-> v, ref |-> v, row |-> v]

Init ==
  /\ live = Built(Anchor)
  /\ disowned = FALSE

\* A full build goes live, all parts at once.
Replace ==
  /\ \E v \in Versions : live' = Built(v)
  /\ UNCHANGED disowned

\* An incremental run overwrites one part.
Update ==
  /\ \E u \in Updaters :
       \/ live' = [live EXCEPT !.chunk = u]
       \/ live' = [live EXCEPT !.ref = u]
       \/ live' = [live EXCEPT !.row = u]
  /\ UNCHANGED disowned

Disown ==
  /\ disowned' = TRUE
  /\ UNCHANGED live

Next == Replace \/ Update \/ Disown \/ (disowned /\ UNCHANGED disowned)

Spec == Init /\ [][Next]_<<live, disowned>>
=============================================================================
