----------------------------- MODULE MCJobQueue -----------------------------
(* JobQueue with two users; in the liveness run every enqueue for one of     *)
(* them may fail.                                                            *)
EXTENDS JobQueue, TLC

Symmetry == Permutations(Processes) \cup Permutations(Slots)
=============================================================================
