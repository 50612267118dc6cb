----------------------------- MODULE WriteLease -----------------------------
(***************************************************************************)
(* What the overlay write lock promises to its users: an index process     *)
(* applies batches only while it holds the lease, and the lease has at     *)
(* most one holder.                                                        *)
(***************************************************************************)
CONSTANT Processes

VARIABLES
  holders,   \* the processes that hold the lease
  writers    \* the processes that are applying a batch

Init == holders = {} /\ writers = {}

Acquire(p) == holders = {} /\ holders' = {p} /\ UNCHANGED writers

Begin(p) == p \in holders /\ writers' = writers \cup {p} /\ UNCHANGED holders

End(p) == p \in writers /\ writers' = writers \ {p} /\ UNCHANGED holders

\* Also the death of the process, in the middle of a batch or not.
Release(p) == p \in holders /\ holders' = holders \ {p} /\ writers' = writers \ {p}

Next == \E p \in Processes : Acquire(p) \/ Begin(p) \/ End(p) \/ Release(p)

Spec == Init /\ [][Next]_<<holders, writers>>
=============================================================================
