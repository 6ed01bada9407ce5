---------------------------- MODULE ReviewRules ----------------------------
(***************************************************************************)
(* The rules of src/discovery.rs that the service and the prn-check CLI    *)
(* share: when a pending review is stale, and which reviews are backlog.   *)
(* Both are free of the database and of GitHub, so they are operators over *)
(* their arguments alone.  Time is counted in ticks; a threshold is a      *)
(* number of ticks.                                                        *)
(***************************************************************************)
EXTENDS Integers

\* What is stored of a review before a sweep: nothing, a row flagged backlog,
\* or a row the service is watching.
PriorState == {"new", "backlog", "watched"}

\* A review is stale once its last comment is OLDER than the threshold: at
\* exactly the threshold it is not.
IsStale(lastCommentAt, threshold, at) == at - lastCommentAt > threshold

\* Faulty variant: a review nobody has seen before is always watched.
ResolveBacklog_NewIsWatched(previous, staleNow) ==
  previous = "backlog" /\ staleNow

\* Faulty variant: the flag follows staleness, whatever was stored.
ResolveBacklog_Recomputed(previous, staleNow) == staleNow

\* The anti-flood rule: a new review is backlog when it is already stale; a
\* backlog row stays backlog while it is stale; a watched row stays watched.
ResolveBacklog(previous, staleNow) == previous \in {"new", "backlog"} /\ staleNow
=============================================================================
