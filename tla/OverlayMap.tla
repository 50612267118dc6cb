----------------------------- MODULE OverlayMap -----------------------------
(***************************************************************************)
(* What the overlay promises: for each path readers see nothing or exactly *)
(* one content that an index run planned for it, and each commit replaces  *)
(* the content of the paths of one batch, as a whole, and of no other.     *)
(* Module IncrementalIndex builds on this.                                 *)
(***************************************************************************)
CONSTANTS Paths, Contents

VARIABLES
  planned,  \* what the run in progress wants readers to see
  shown     \* what they see

vars == <<planned, shown>>

Init ==
  /\ planned \in [Paths -> Contents]
  /\ shown \in [Paths -> Contents]

Plan ==
  /\ planned' \in [Paths -> Contents]
  /\ UNCHANGED shown

\* A batch of paths at a time.
Commit ==
  /\ LET before == shown
         after == shown'
     IN \A p \in Paths : after[p] \in {before[p], planned[p]}
  /\ DOMAIN shown' = Paths
  /\ UNCHANGED planned

Next == Plan \/ Commit

Spec == Init /\ [][Next]_vars
=============================================================================
