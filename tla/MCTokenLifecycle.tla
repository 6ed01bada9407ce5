-------------------------- MODULE MCTokenLifecycle --------------------------
(***************************************************************************)
(* TokenLifecycle for TLC: workers and requests are model values, and the  *)
(* constants get their values in the .cfg files.                           *)
(***************************************************************************)
EXTENDS TokenLifecycle, TLC

\* Workers differ only by their calls, and so do requests.  Sound for safety:
\* no liveness run uses it.
Interchangeable == Permutations(Workers) \cup Permutations(Requests)
=============================================================================
