------------------------- MODULE MCReminderService -------------------------
(***************************************************************************)
(* ReminderService for TLC: reviews and workers are model values, and the  *)
(* constants get their values in the .cfg files.                           *)
(***************************************************************************)
EXTENDS ReminderService, TLC

\* Reviews differ only by their comments, workers by their jobs.  Sound for
\* safety: no liveness run uses it.
Interchangeable == Permutations(Reviews) \cup Permutations(Workers)
=============================================================================
