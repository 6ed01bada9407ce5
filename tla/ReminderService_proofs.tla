----------------------- MODULE ReminderService_proofs -----------------------
(***************************************************************************)
(* Theorems about ReminderService, for every set of workers and reviews,   *)
(* every threshold, cap and window, and every bound.                       *)
(***************************************************************************)
EXTENDS ReminderService, FiniteSetTheorems, WellFoundedInduction, TLAPS

-----------------------------------------------------------------------------
(* Type correctness *)

\* What a worker holds is decided by where it stands.
LEMMA JobByPc ==
  ASSUME NEW j \in Job
  PROVE  /\ j.pc = "discover" => j \in DiscoverJob
         /\ j.pc = "previous" => j \in PreviousJob
         /\ j.pc = "upsert"   => j \in UpsertJob
         /\ j.pc = "select"   => j \in SelectJob
         /\ j.pc = "send"     => j \in SendJob
         /\ j.pc = "stamp"    => j \in StampJob
  BY DEF Job, Idle, DiscoverJob, PreviousJob, UpsertJob, SelectJob, SendJob,
         StampJob

\* Deleting rows only shrinks the ids the other workers hold.
LEMMA DropIdsType ==
  ASSUME job \in [Workers -> Job], NEW gone
  PROVE  DropIds(gone) \in [Workers -> Job]
  <1> SUFFICES ASSUME NEW w \in Workers, job[w].pc \in {"send", "stamp"}
               PROVE  [job[w] EXCEPT !.ids = @ \ gone] \in Job
    BY DEF DropIds
  <1>1. CASE job[w].pc = "send"
    <2>1. job[w] \in SendJob
      BY <1>1, JobByPc
    <2>2. [job[w] EXCEPT !.ids = @ \ gone] \in SendJob
      BY <2>1 DEF SendJob
    <2> QED  BY <2>2 DEF Job
  <1>2. CASE job[w].pc = "stamp"
    <2>1. job[w] \in StampJob
      BY <1>2, JobByPc
    <2>2. [job[w] EXCEPT !.ids = @ \ gone] \in StampJob
      BY <2>1 DEF StampJob
    <2> QED  BY <2>2 DEF Job
  <1> QED  BY <1>1, <1>2

\* A worker that moves to a well-typed job leaves the jobs well typed.
LEMMA BecomesType ==
  ASSUME job \in [Workers -> Job], NEW w \in Workers, NEW next \in Job,
         Becomes(w, next)
  PROVE  job' \in [Workers -> Job]
  BY DEF Becomes

\* What the upsert writes is a row, whether it inserts or updates.
LEMMA UpsertedType ==
  ASSUME NEW old \in Row \cup {Null}, NEW last \in Time, NEW at \in Time,
         NEW backlog \in BOOLEAN
  PROVE  Upserted(old, last, at, backlog) \in Row
  <1>1. CASE old = Null
    BY <1>1 DEF Upserted, Row
  <1>2. CASE old # Null
    <2>1. old \in Row
      BY <1>2
    <2> QED  BY <1>2, <2>1 DEF Upserted, Row
  <1> QED  BY <1>1, <1>2

LEMMA ResolveBacklogType ==
  ASSUME NEW previous, NEW staleNow
  PROVE  ResolveBacklog(previous, staleNow) \in BOOLEAN
  BY DEF ResolveBacklog

LEMMA InitTypeOK == Init => TypeOK
  <1> SUFFICES ASSUME Init PROVE TypeOK
    OBVIOUS
  <1>1. 0 \in Time
    BY BoundAssumption DEF Time
  <1>2. user \in User
    BY ThresholdAssumption DEF Init, User, Thresholds
  <1>3. job \in [Workers -> Job]
    BY DEF Init, Job
  <1> QED  BY <1>1, <1>2, <1>3, BoundAssumption DEF Init, TypeOK, Fate

\* Every step keeps every variable in its type: one case per action.
LEMMA NextTypeOK == TypeOK /\ [Next]_vars => TypeOK'
  <1> SUFFICES ASSUME TypeOK, [Next]_vars PROVE TypeOK'
    OBVIOUS
  <1> USE DEF TypeOK
  <1>1. CASE Tick
    BY <1>1, BoundAssumption DEF Tick, Time, github, bounds, history
  <1>2. ASSUME NEW r \in Reviews, Comment(r) PROVE TypeOK'
    BY <1>2, BoundAssumption DEF Comment, Move, history
  <1>u. ASSUME NEW r \in Reviews, Uncomment(r) PROVE TypeOK'
    BY <1>u, BoundAssumption DEF Uncomment, Move, history
  <1>3. ASSUME NEW r \in Reviews, Withdraw(r) \/ Close(r) \/ Reopen(r)
        PROVE  TypeOK'
    BY <1>3, BoundAssumption DEF Withdraw, Close, Reopen, Move, history
  <1>4. ASSUME NEW r \in Reviews, Dismiss(r) PROVE TypeOK'
    <2>1. row[r] \in Row
      BY <1>4 DEF Dismiss, Tracked
    <2>2. [row[r] EXCEPT !.dismissed = TRUE] \in Row
      BY <2>1 DEF Row
    <2>3. row' \in [Reviews -> Row \cup {Null}]
      BY <1>4, <2>2 DEF Dismiss
    <2> QED  BY <1>4, <2>3, BoundAssumption DEF Dismiss, Move, github, history
  <1>5. ASSUME NEW h \in FormThresholds, NEW paused \in BOOLEAN,
               UpdateSettings(h, paused)
        PROVE  TypeOK'
    <2>1. user \in User /\ h \in Thresholds
      BY <1>5 DEF UpdateSettings, Thresholds
    <2>2. user' \in User
      BY <1>5, <2>1 DEF UpdateSettings, User
    <2> QED  BY <1>5, <2>2, BoundAssumption
             DEF UpdateSettings, Move, Resumes, github
  <1>6. CASE UnsubscribePause
    <2>1. user' \in User
      BY <1>6 DEF UnsubscribePause, User
    <2> QED  BY <1>6, <2>1, BoundAssumption
             DEF UnsubscribePause, Move, Resumes, github
  <1>7. CASE SignInAgain
    <2>1. user' \in User
      BY <1>7 DEF SignInAgain, User
    <2> QED  BY <1>7, <2>1, BoundAssumption
             DEF SignInAgain, Move, Resumes, github
  <1>8. CASE Disconnect
    <2>1. job' \in [Workers -> Job]
      BY <1>8, DropIdsType DEF Disconnect
    <2> QED  BY <1>8, <2>1, BoundAssumption DEF Disconnect, Move, Resumes, github
  <1>9. ASSUME NEW w \in Workers, SyncStart(w) PROVE TypeOK'
    <2>1. user \in User
      BY <1>9 DEF SyncStart
    <2>2. user' \in User
      BY <1>9, <2>1 DEF SyncStart, User
    <2>3. [pc |-> "discover", threshold |-> user.threshold] \in Job
      BY <2>1 DEF User, Job, DiscoverJob
    <2>4. job' \in [Workers -> Job]
      BY <1>9, <2>3, BecomesType DEF SyncStart
    <2> QED  BY <1>9, <2>2, <2>4 DEF SyncStart, Resumes, github, bounds
  <1>10. ASSUME NEW w \in Workers, SyncRejected(w) PROVE TypeOK'
    <2>1. user' \in User
      BY <1>10 DEF SyncRejected, User
    <2> QED  BY <1>10, <2>1, BoundAssumption
             DEF SyncRejected, Mishap, Resumes, github
  <1>11. ASSUME NEW w \in Workers, SyncDiscover(w) PROVE TypeOK'
    <2>1. job[w] \in DiscoverJob
      BY <1>11, JobByPc DEF SyncDiscover
    <2>2. PICK found \in SUBSET live :
            /\ IF found = live THEN UNCHANGED bounds ELSE Mishap
            /\ Becomes(w, [pc |-> "previous", threshold |-> job[w].threshold,
                           found |-> found, last |-> commentAt])
      BY <1>11 DEF SyncDiscover
    <2>3. [pc |-> "previous", threshold |-> job[w].threshold,
           found |-> found, last |-> commentAt] \in PreviousJob
      BY <2>1 DEF DiscoverJob, PreviousJob, live
    <2>4. job' \in [Workers -> Job]
      BY <2>2, <2>3, BecomesType DEF Job
    <2>5. moves' \in 0 .. MaxMoves /\ aborts' \in 0 .. MaxAborts
      BY <2>2, BoundAssumption DEF bounds, Mishap
    <2> QED  BY <1>11, <2>4, <2>5 DEF SyncDiscover, github, history
  <1>12. ASSUME NEW w \in Workers, SyncReadPrevious(w) PROVE TypeOK'
    <2>1. job[w] \in PreviousJob
      BY <1>12, JobByPc DEF SyncReadPrevious
    <2>2. [r \in Reviews |-> Prior(r)] \in [Reviews -> PriorState]
      BY DEF Prior, PriorState
    <2>3. [pc |-> "upsert", threshold |-> job[w].threshold,
           found |-> job[w].found, last |-> job[w].last,
           prev |-> [r \in Reviews |-> Prior(r)],
           sweepAt |-> now, todo |-> job[w].found] \in UpsertJob
      BY <2>1, <2>2 DEF PreviousJob, UpsertJob
    <2>4. job' \in [Workers -> Job]
      BY <1>12, <2>3, BecomesType DEF SyncReadPrevious, Job
    <2> QED  BY <1>12, <2>4 DEF SyncReadPrevious, github, bounds, history
  <1>13. ASSUME NEW w \in Workers, NEW r \in Reviews, SyncUpsert(w, r)
         PROVE  TypeOK'
    <2> DEFINE stale == IsStale(job[w].last[r], job[w].threshold, job[w].sweepAt)
               flag  == ResolveBacklog(job[w].prev[r], stale)
    <2>1. job[w] \in UpsertJob
      BY <1>13, JobByPc DEF SyncUpsert
    <2>2. Upserted(row[r], job[w].last[r], job[w].sweepAt, flag) \in Row
      BY <2>1, UpsertedType, ResolveBacklogType DEF UpsertJob
    <2>3. row' \in [Reviews -> Row \cup {Null}]
      BY <1>13, <2>2 DEF SyncUpsert
    <2>4. [job[w] EXCEPT !.todo = @ \ {r}] \in UpsertJob
      BY <2>1 DEF UpsertJob
    <2>5. job' \in [Workers -> Job]
      BY <1>13, <2>4, BecomesType DEF SyncUpsert, Job
    <2>6. watched' \subseteq Reviews /\ record' \in [Reviews -> Fate]
      BY <1>13 DEF SyncUpsert, FoundFresh, Fate
    <2> QED  BY <1>13, <2>3, <2>5, <2>6 DEF SyncUpsert, github, bounds
  <1>14. ASSUME NEW w \in Workers, SyncOrphaned(w) PROVE TypeOK'
    <2>1. job' \in [Workers -> Job]
      BY <1>14, BecomesType DEF SyncOrphaned, Job
    <2> QED  BY <1>14, <2>1 DEF SyncOrphaned, github, bounds, history
  <1>15. ASSUME NEW w \in Workers, SyncReap(w) PROVE TypeOK'
    <2>1. job' \in [Workers -> Job]
      BY <1>15, DropIdsType DEF SyncReap, Job
    <2>2. row' \in [Reviews -> Row \cup {Null}]
      BY <1>15 DEF SyncReap
    <2>3. record' \in [Reviews -> Fate]
      BY <1>15 DEF SyncReap, Fate
    <2> QED  BY <1>15, <2>1, <2>2, <2>3 DEF SyncReap, github, bounds
  <1>16. ASSUME NEW w \in Workers, RemindStart(w) PROVE TypeOK'
    <2>1. user \in User
      BY <1>16 DEF RemindStart, OptedOut
    <2>2. [pc |-> "select", threshold |-> user.threshold] \in Job
      BY <2>1 DEF User, Job, SelectJob
    <2>3. job' \in [Workers -> Job]
      BY <1>16, <2>2, BecomesType DEF RemindStart
    <2> QED  BY <1>16, <2>3 DEF RemindStart, github, bounds, history
  <1>17. ASSUME NEW w \in Workers, RemindNothing(w) PROVE TypeOK'
    <2>1. job' \in [Workers -> Job]
      BY <1>17, BecomesType DEF RemindNothing, Job
    <2> QED  BY <1>17, <2>1 DEF RemindNothing, github, bounds, history
  <1>18. ASSUME NEW w \in Workers, RemindSelect(w) PROVE TypeOK'
    <2>1. PICK batch \in SUBSET Reviews :
            /\ \A r \in batch : Tracked(r)
            /\ Becomes(w, [pc |-> "send", ids |-> batch,
                           about |-> [r \in Reviews |->
                             IF r \in batch THEN row[r].last ELSE Null]])
      BY <1>18 DEF RemindSelect, Eligible
    <2>2. [r \in Reviews |-> IF r \in batch THEN row[r].last ELSE Null]
            \in [Reviews -> Time \cup {Null}]
      BY <2>1 DEF Tracked, Row
    <2>3. [pc |-> "send", ids |-> batch,
           about |-> [r \in Reviews |->
             IF r \in batch THEN row[r].last ELSE Null]] \in SendJob
      BY <2>2 DEF SendJob
    <2>4. job' \in [Workers -> Job]
      BY <2>1, <2>3, BecomesType DEF Job
    <2> QED  BY <1>18, <2>4 DEF RemindSelect, github, bounds, history
  <1>19. ASSUME NEW w \in Workers, RemindSend(w) PROVE TypeOK'
    <2>1. job[w] \in SendJob
      BY <1>19, JobByPc DEF RemindSend
    <2>2. ASSUME NEW r \in Selected(w)
          PROVE  [at |-> now, about |-> job[w].about[r]] \in Mail
      BY <2>1 DEF Selected, SendJob, Mail
    <2>3. mail' \in [Reviews -> Mail \cup {Null}]
      BY <1>19, <2>2 DEF RemindSend
    <2>4. [pc |-> "stamp", ids |-> job[w].ids] \in Job
      BY <2>1 DEF SendJob, StampJob, Job
    <2>5. job' \in [Workers -> Job]
      BY <1>19, <2>4, BecomesType DEF RemindSend
    <2>6. /\ owed' \subseteq Reviews /\ late' \subseteq Workers
          /\ record' \in [Reviews -> Fate]
      BY <1>19 DEF RemindSend, Selected, Fate
    <2> QED  BY <1>19, <2>3, <2>5, <2>6 DEF RemindSend, github, bounds
  <1>20. ASSUME NEW w \in Workers, RemindStamp(w) PROVE TypeOK'
    <2>1. ASSUME NEW r \in Reviews, Tracked(r)
          PROVE  [row[r] EXCEPT !.notified = now] \in Row
      BY <2>1 DEF Tracked, Row
    <2>2. row' \in [Reviews -> Row \cup {Null}]
      BY <1>20, <2>1 DEF RemindStamp
    <2>3. job' \in [Workers -> Job]
      BY <1>20, BecomesType DEF RemindStamp, Job
    <2> QED  BY <1>20, <2>2, <2>3 DEF RemindStamp, github, bounds
  <1>21. ASSUME NEW w \in Workers, Abort(w) PROVE TypeOK'
    <2>1. job' \in [Workers -> Job]
      BY <1>21, BecomesType DEF Abort, Job
    <2> QED  BY <1>21, <2>1, BoundAssumption DEF Abort, Mishap, github, history
  <1>22. CASE UNCHANGED vars
    BY <1>22 DEF vars
  <1> QED
    BY <1>1, <1>2, <1>u, <1>3, <1>4, <1>5, <1>6, <1>7, <1>8, <1>9, <1>10, <1>11,
       <1>12, <1>13, <1>14, <1>15, <1>16, <1>17, <1>18, <1>19, <1>20, <1>21,
       <1>22
    DEF Next, GitHubUser, Website, Worker, SyncSteps, RemindSteps

\* Every variable keeps its type in every behaviour of the service.
THEOREM TypeCorrect == Spec => []TypeOK
  BY InitTypeOK, NextTypeOK, PTL DEF Spec

-----------------------------------------------------------------------------
(* Safety, whatever the number of workers *)

\* Wherever the service holds the fact that a review is watched, some sweep
\* has found it fresh: in its row, in what a sync read of that row, in what a
\* reminder selected, and in the emails that left.
WatchedEvidence ==
  /\ \A r \in Reviews : Tracked(r) /\ ~row[r].backlog => r \in watched
  /\ \A w \in Workers, r \in Reviews :
       job[w].pc = "upsert" /\ job[w].prev[r] = "watched" => r \in watched
  /\ \A w \in Workers, r \in Reviews :
       job[w].pc = "send" /\ job[w].about[r] # Null => r \in watched
  /\ WatchedOnly

\* While the user accepts emails there is nothing late to remember.
OptOutState == OptOutHonoured /\ (~OptedOut => late = {})

SafetyInv == TypeOK /\ NoOrphans /\ WatchedEvidence /\ OptOutState

LEMMA InitSafety == Init => SafetyInv
  <1> SUFFICES ASSUME Init PROVE SafetyInv
    OBVIOUS
  <1>1. NoOrphans
    BY DEF Init, NoOrphans, Tracked
  <1>2. WatchedEvidence
    BY DEF Init, WatchedEvidence, WatchedOnly, Tracked, Idle
  <1>3. OptOutState
    BY DEF Init, OptOutState, OptOutHonoured
  <1> QED  BY <1>1, <1>2, <1>3, InitTypeOK DEF SafetyInv

\* A user's row, once changed, is still a user's row.
LEMMA UserUpdated ==
  ASSUME user \in User, NEW status \in {"active", "needs_reauth"},
         NEW h \in Thresholds, NEW paused \in BOOLEAN
  PROVE  /\ [user EXCEPT !.status = status] \in User
         /\ [user EXCEPT !.threshold = h, !.paused = paused] \in User
         /\ [user EXCEPT !.paused = TRUE] \in User
  BY DEF User

\* Only the deletion of the account takes the user's row away.
LEMMA UserStays ==
  ASSUME TypeOK, [Next]_vars, user # Null, ~Disconnect
  PROVE  user' # Null
  <1> USE DEF TypeOK
  <1>1. user \in User
    OBVIOUS
  <1>2. ASSUME NEW h \in FormThresholds, NEW paused \in BOOLEAN,
               UpdateSettings(h, paused)
        PROVE  user' \in User
    <2>1. h \in Thresholds
      BY <1>2 DEF UpdateSettings, Thresholds
    <2> QED  BY <1>1, <1>2, <2>1 DEF UpdateSettings, User
  <1>3. CASE UnsubscribePause \/ SignInAgain
    <2>1. user' \in User
      BY <1>1, <1>3 DEF UnsubscribePause, SignInAgain, User
    <2> QED  BY <2>1, NullAssumption
  <1>4. ASSUME NEW w \in Workers, SyncStart(w) \/ SyncRejected(w)
        PROVE  user' \in User
    BY <1>1, <1>4 DEF SyncStart, SyncRejected, User
  <1>5. ASSUME NEW w \in Workers,
               SyncSteps(w) \/ RemindStart(w) \/ RemindSteps(w) \/ Abort(w)
        PROVE  user' = user
    BY <1>5 DEF SyncSteps, SyncDiscover, SyncReadPrevious, SyncUpsert,
       SyncOrphaned, SyncReap, RemindStart, RemindSteps, RemindNothing,
       RemindSelect, RemindSend, RemindStamp, Abort
  <1>6. CASE Tick \/ GitHubUser \/ (\E r \in Reviews : Dismiss(r)) \/ UNCHANGED vars
    BY <1>6 DEF Tick, GitHubUser, Comment, Uncomment, Withdraw, Close, Reopen,
       Dismiss, vars
  <1> QED
    BY <1>2, <1>3, <1>4, <1>5, <1>6, NullAssumption DEF Next, Website, Worker

\* A row appears only in an upsert, and only for a user who exists.
LEMMA RowAppears ==
  ASSUME TypeOK, [Next]_vars, NEW r \in Reviews, ~Tracked(r), Tracked(r)'
  PROVE  \E w \in Workers : SyncUpsert(w, r)
  <1> USE DEF TypeOK, Tracked
  <1>1. ASSUME NEW s \in Reviews, Dismiss(s) PROVE row'[r] = row[r]
    BY <1>1 DEF Dismiss
  <1>2. CASE Disconnect
    BY <1>2 DEF Disconnect
  <1>3. ASSUME NEW w \in Workers, NEW s \in Reviews, SyncUpsert(w, s), s # r
        PROVE  row'[r] = row[r]
    BY <1>3 DEF SyncUpsert
  <1>4. ASSUME NEW w \in Workers, SyncReap(w) \/ RemindStamp(w)
        PROVE  row'[r] = row[r]
    BY <1>4 DEF SyncReap, RemindStamp
  <1>5. ASSUME NEW w \in Workers,
               \/ SyncStart(w) \/ SyncRejected(w) \/ SyncDiscover(w)
               \/ SyncReadPrevious(w) \/ SyncOrphaned(w) \/ RemindStart(w)
               \/ RemindNothing(w) \/ RemindSelect(w) \/ RemindSend(w)
               \/ Abort(w)
        PROVE  row' = row
    BY <1>5 DEF SyncStart, SyncRejected, SyncDiscover, SyncReadPrevious,
       SyncOrphaned, RemindStart, RemindNothing, RemindSelect, RemindSend, Abort
  <1>6. CASE \/ Tick \/ GitHubUser \/ UnsubscribePause \/ SignInAgain
             \/ \E h \in FormThresholds, paused \in BOOLEAN :
                  UpdateSettings(h, paused)
             \/ UNCHANGED vars
    BY <1>6 DEF Tick, GitHubUser, Comment, Uncomment, Withdraw, Close, Reopen,
       UnsubscribePause, SignInAgain, UpdateSettings, vars
  <1> QED
    BY <1>1, <1>2, <1>3, <1>4, <1>5, <1>6
    DEF Next, Website, Worker, SyncSteps, RemindSteps

\* Orphans could come only from an upsert, which the foreign key guards, or
\* from the deletion of the user, which cascades.
LEMMA NextNoOrphans ==
  ASSUME TypeOK, NoOrphans, [Next]_vars
  PROVE  NoOrphans'
  <1>1. CASE Disconnect
    BY <1>1 DEF Disconnect, NoOrphans, Tracked
  <1>2. CASE ~Disconnect /\ user' = Null
    <2>1. user = Null
      BY <1>2, UserStays
    <2>2. \A r \in Reviews, w \in Workers : ~SyncUpsert(w, r)
      BY <2>1 DEF SyncUpsert
    <2> QED  BY <2>1, <2>2, RowAppears DEF NoOrphans
  <1> QED  BY <1>1, <1>2 DEF NoOrphans

\* A worker's step leaves the other workers' jobs alone.
LEMMA BecomesJobs ==
  ASSUME TypeOK, NEW w \in Workers, NEW next, Becomes(w, next)
  PROVE  job'[w] = next /\ \A v \in Workers : v # w => job'[v] = job[v]
  BY DEF TypeOK, Becomes

\* What a search leaves its job with.
LEMMA DiscoverWrites ==
  ASSUME TypeOK, NEW w \in Workers, SyncDiscover(w)
  PROVE  /\ UNCHANGED <<now, open, pending, commentAt, user, row>>
         /\ UNCHANGED <<mail, owed, watched, record, late>>
         /\ job[w].pc = "discover" /\ job'[w].pc = "previous"
         /\ job'[w].found \subseteq live /\ job'[w].last = commentAt
         /\ \A v \in Workers : v # w => job'[v] = job[v]
  <1>1. PICK found \in SUBSET live :
          Becomes(w, [pc |-> "previous", threshold |-> job[w].threshold,
                      found |-> found, last |-> commentAt])
    BY DEF SyncDiscover
  <1> QED  BY <1>1, BecomesJobs DEF SyncDiscover, github, history

\* Deleting rows changes nothing of a job but the ids it holds.
LEMMA DropIdsKeeps ==
  ASSUME TypeOK, NEW gone, NEW w \in Workers
  PROVE  /\ DropIds(gone)[w].pc = job[w].pc
         /\ job[w].pc = "upsert" => DropIds(gone)[w].prev = job[w].prev
         /\ job[w].pc = "send" => DropIds(gone)[w].about = job[w].about
  <1>1. CASE job[w].pc \notin {"send", "stamp"}
    BY <1>1 DEF DropIds
  <1>2. CASE job[w].pc = "send"
    <2>1. job[w] \in SendJob
      BY <1>2, JobByPc DEF TypeOK
    <2> QED  BY <1>2, <2>1 DEF DropIds, SendJob
  <1>3. CASE job[w].pc = "stamp"
    <2>1. job[w] \in StampJob
      BY <1>3, JobByPc DEF TypeOK
    <2> QED  BY <1>3, <2>1 DEF DropIds, StampJob
  <1> QED  BY <1>1, <1>2, <1>3

\* Evidence is never created out of nothing: one case per action that touches
\* a row, a job or an email.
LEMMA NextWatched ==
  ASSUME TypeOK, WatchedEvidence, [Next]_vars
  PROVE  WatchedEvidence'
  <1> USE DEF WatchedEvidence, WatchedOnly
  <1>1. CASE \/ Tick \/ GitHubUser \/ UnsubscribePause \/ SignInAgain
             \/ \E h \in FormThresholds, paused \in BOOLEAN :
                  UpdateSettings(h, paused)
             \/ UNCHANGED vars
    BY <1>1 DEF Tick, GitHubUser, Comment, Uncomment, Withdraw, Close, Reopen,
       UnsubscribePause, SignInAgain, UpdateSettings, history, vars, Tracked
  <1>2. ASSUME NEW r \in Reviews, Dismiss(r) PROVE WatchedEvidence'
    <2>1. row[r] \in Row
      BY <1>2 DEF TypeOK, Dismiss, Tracked
    <2>2. \A s \in Reviews : Tracked(s)' /\ ~row'[s].backlog =>
            Tracked(s) /\ ~row[s].backlog
      BY <1>2, <2>1 DEF TypeOK, Dismiss, Tracked, Row
    <2> QED  BY <1>2, <2>2 DEF Dismiss, history
  <1>3. CASE Disconnect
    <2>1. \A r \in Reviews : ~Tracked(r)'
      BY <1>3 DEF Disconnect, Tracked
    <2> QED  BY <1>3, <2>1, DropIdsKeeps DEF Disconnect
  <1>4. ASSUME NEW w \in Workers,
               \/ SyncStart(w) \/ SyncDiscover(w) \/ SyncOrphaned(w)
               \/ RemindStart(w) \/ RemindNothing(w) \/ Abort(w)
        PROVE  WatchedEvidence'
    <2>1. job'[w].pc \notin {"upsert", "send"}
          /\ \A v \in Workers : v # w => job'[v] = job[v]
      BY <1>4, BecomesJobs, DiscoverWrites DEF SyncStart, SyncOrphaned,
         RemindStart, RemindNothing, Abort, Idle
    <2>2. row' = row /\ watched' = watched /\ mail' = mail
      BY <1>4 DEF SyncStart, SyncDiscover, SyncOrphaned, RemindStart,
         RemindNothing, Abort, history
    <2> QED  BY <2>1, <2>2 DEF Tracked
  <1>5. ASSUME NEW w \in Workers, SyncRejected(w) PROVE WatchedEvidence'
    BY <1>5 DEF SyncRejected, Tracked
  <1>6. ASSUME NEW w \in Workers, SyncReadPrevious(w) PROVE WatchedEvidence'
    <2>1. /\ job'[w].pc = "upsert"
          /\ job'[w].prev = [r \in Reviews |-> Prior(r)]
          /\ \A v \in Workers : v # w => job'[v] = job[v]
      BY <1>6, BecomesJobs DEF SyncReadPrevious
    <2>2. \A r \in Reviews : Prior(r) = "watched" => r \in watched
      BY DEF Prior
    <2>3. row' = row /\ watched' = watched /\ mail' = mail
      BY <1>6 DEF SyncReadPrevious, history
    <2> QED  BY <2>1, <2>2, <2>3 DEF Tracked
  <1>7. ASSUME NEW w \in Workers, NEW r \in Reviews, SyncUpsert(w, r)
        PROVE  WatchedEvidence'
    <2> DEFINE stale == IsStale(job[w].last[r], job[w].threshold, job[w].sweepAt)
               flag  == ResolveBacklog(job[w].prev[r], stale)
               next  == [job[w] EXCEPT !.todo = @ \ {r}]
    <2>1. job[w] \in UpsertJob
      BY <1>7, JobByPc DEF SyncUpsert, TypeOK
    <2>2. /\ job'[w] = next
          /\ \A v \in Workers : v # w => job'[v] = job[v]
      BY <1>7, BecomesJobs DEF SyncUpsert
    <2>3. next.pc = "upsert" /\ next.prev = job[w].prev
      BY <2>1 DEF UpsertJob
    <2>4. watched \subseteq watched' /\ mail' = mail
      BY <1>7 DEF SyncUpsert, FoundFresh
    <2>5. ~flag => r \in watched'
      <3>1. job[w].prev[r] \in PriorState
        BY <2>1 DEF UpsertJob
      <3>2. CASE ~stale
        BY <1>7, <3>2 DEF SyncUpsert, FoundFresh
      <3>3. CASE stale
        BY <1>7, <2>4, <3>1, <3>3 DEF ResolveBacklog, PriorState, SyncUpsert
      <3> QED  BY <3>2, <3>3
    <2>6. row'[r].backlog = flag
      <3>1. row'[r] = Upserted(row[r], job[w].last[r], job[w].sweepAt, flag)
        BY <1>7 DEF SyncUpsert, TypeOK
      <3>2. row[r] \in Row \cup {Null}
        BY DEF TypeOK
      <3> QED  BY <3>1, <3>2 DEF Upserted, Row
    <2>7. \A s \in Reviews : s # r => row'[s] = row[s]
      BY <1>7 DEF SyncUpsert, TypeOK
    <2>8. \A s \in Reviews : Tracked(s)' /\ ~row'[s].backlog => s \in watched'
      BY <2>4, <2>5, <2>6, <2>7 DEF Tracked
    <2> QED  BY <1>7, <2>2, <2>3, <2>4, <2>8 DEF SyncUpsert
  <1>8. ASSUME NEW w \in Workers, SyncReap(w) PROVE WatchedEvidence'
    <2>1. PICK gone : job' = [DropIds(gone) EXCEPT ![w] = Idle]
      BY <1>8 DEF SyncReap
    <2>2. job'[w] = Idle /\ \A v \in Workers : v # w => job'[v] = DropIds(gone)[v]
      BY <2>1 DEF DropIds
    <2>3. \A r \in Reviews : Tracked(r)' => Tracked(r) /\ row'[r] = row[r]
      BY <1>8 DEF SyncReap, Tracked
    <2>4. watched' = watched /\ mail' = mail
      BY <1>8 DEF SyncReap
    <2>5. ASSUME NEW v \in Workers, v # w
          PROVE  /\ job'[v].pc = job[v].pc
                 /\ job[v].pc = "upsert" => job'[v].prev = job[v].prev
                 /\ job[v].pc = "send" => job'[v].about = job[v].about
      BY <2>2, <2>5, DropIdsKeeps
    <2> QED  BY <2>2, <2>3, <2>4, <2>5 DEF Idle
  <1>9. ASSUME NEW w \in Workers, RemindSelect(w) PROVE WatchedEvidence'
    <2>1. PICK batch \in SUBSET {r \in Reviews : Eligible(r, job[w].threshold)} :
            Becomes(w, [pc |-> "send", ids |-> batch,
                        about |-> [r \in Reviews |->
                          IF r \in batch THEN row[r].last ELSE Null]])
      BY <1>9 DEF RemindSelect
    <2>2. /\ job'[w].pc = "send"
          /\ \A r \in Reviews : job'[w].about[r] # Null => r \in batch
          /\ \A v \in Workers : v # w => job'[v] = job[v]
      BY <2>1, BecomesJobs
    <2>3. \A r \in batch : r \in watched
      BY DEF Eligible
    <2>4. row' = row /\ watched' = watched /\ mail' = mail
      BY <1>9 DEF RemindSelect, history
    <2> QED  BY <2>2, <2>3, <2>4 DEF Tracked
  <1>10. ASSUME NEW w \in Workers, RemindSend(w) PROVE WatchedEvidence'
    <2>1. job'[w].pc = "stamp" /\ \A v \in Workers : v # w => job'[v] = job[v]
      BY <1>10, BecomesJobs DEF RemindSend
    <2>2. \A r \in Reviews : mail'[r] # Null => r \in watched
      BY <1>10 DEF RemindSend, Selected
    <2>3. row' = row /\ watched' = watched
      BY <1>10 DEF RemindSend
    <2> QED  BY <2>1, <2>2, <2>3 DEF Tracked
  <1>11. ASSUME NEW w \in Workers, RemindStamp(w) PROVE WatchedEvidence'
    <2>1. job'[w] = Idle /\ \A v \in Workers : v # w => job'[v] = job[v]
      BY <1>11, BecomesJobs DEF RemindStamp
    <2>2. ASSUME NEW r \in Reviews, Tracked(r)', ~row'[r].backlog
          PROVE  Tracked(r) /\ ~row[r].backlog
      <3>1. CASE Tracked(r)
        <4>1. row[r] \in Row
          BY <3>1 DEF Tracked, TypeOK
        <4> QED  BY <1>11, <2>2, <3>1, <4>1 DEF RemindStamp, Row
      <3>2. CASE ~Tracked(r)
        BY <1>11, <2>2, <3>2 DEF RemindStamp, Tracked
      <3> QED  BY <3>1, <3>2
    <2>3. watched' = watched /\ mail' = mail
      BY <1>11 DEF RemindStamp
    <2> QED  BY <2>1, <2>2, <2>3 DEF Idle
  <1> QED
    BY <1>1, <1>2, <1>3, <1>4, <1>5, <1>6, <1>7, <1>8, <1>9, <1>10, <1>11
    DEF Next, Website, Worker, SyncSteps, RemindSteps

\* A worker gets past the gate of SendReminder only while emails are wanted,
\* and sending takes it past the point where it could send again.
LEMMA NextOptOut ==
  ASSUME TypeOK, OptOutState, [Next]_vars
  PROVE  OptOutState'
  <1> DEFINE Gate(w) == job[w].pc \in {"select", "send"}
  <1> USE DEF OptOutState, OptOutHonoured
  <1>1. ASSUME Resumes, job' = job PROVE OptOutState'
    BY <1>1 DEF Resumes
  <1>2. CASE \/ UnsubscribePause \/ SignInAgain
             \/ \E h \in FormThresholds, paused \in BOOLEAN :
                  UpdateSettings(h, paused)
    BY <1>1, <1>2 DEF UnsubscribePause, SignInAgain, UpdateSettings
  <1>3. CASE Disconnect
    <2>1. \A w \in Workers : job'[w].pc = job[w].pc
      BY <1>3, DropIdsKeeps DEF Disconnect
    <2> QED  BY <1>3, <2>1 DEF Disconnect, Resumes, TypeOK
  <1>4. ASSUME NEW w \in Workers, SyncRejected(w) PROVE OptOutState'
    BY <1>1, <1>4 DEF SyncRejected
  <1>5. ASSUME NEW w \in Workers, SyncStart(w) PROVE OptOutState'
    <2>1. job'[w].pc = "discover" /\ \A v \in Workers : v # w => job'[v] = job[v]
      BY <1>5, BecomesJobs DEF SyncStart
    <2> QED  BY <1>5, <2>1 DEF SyncStart, Resumes, TypeOK
  <1>6. CASE \/ Tick \/ GitHubUser \/ (\E r \in Reviews : Dismiss(r))
             \/ UNCHANGED vars
    BY <1>6 DEF Tick, GitHubUser, Comment, Uncomment, Withdraw, Close, Reopen,
       Dismiss, history, vars, OptedOut
  <1>7. ASSUME late' = late, user' = user,
               \A w \in Workers : Gate(w)' => Gate(w) \/ ~OptedOut
        PROVE  OptOutState'
    BY <1>7 DEF OptedOut, TypeOK
  <1>8. ASSUME NEW w \in Workers,
               \/ SyncDiscover(w) \/ SyncReadPrevious(w) \/ SyncOrphaned(w)
               \/ RemindStart(w) \/ RemindNothing(w) \/ RemindStamp(w)
               \/ Abort(w)
        PROVE  OptOutState'
    <2>1. /\ job'[w].pc \in {"previous", "upsert", "idle", "select"}
          /\ job'[w].pc = "select" => ~OptedOut
          /\ \A v \in Workers : v # w => job'[v] = job[v]
      BY <1>8, BecomesJobs, DiscoverWrites DEF SyncReadPrevious, SyncOrphaned,
         RemindStart, RemindNothing, RemindStamp, Abort, Idle
    <2>2. late' = late /\ user' = user
      BY <1>8 DEF SyncDiscover, SyncReadPrevious, SyncOrphaned, RemindStart,
         RemindNothing, RemindStamp, Abort, history
    <2> QED  BY <1>7, <2>1, <2>2
  <1>9. ASSUME NEW w \in Workers, NEW r \in Reviews, SyncUpsert(w, r)
        PROVE  OptOutState'
    <2>1. job[w] \in UpsertJob
      BY <1>9, JobByPc DEF SyncUpsert, TypeOK
    <2>2. /\ job'[w] = [job[w] EXCEPT !.todo = @ \ {r}]
          /\ \A v \in Workers : v # w => job'[v] = job[v]
      BY <1>9, BecomesJobs DEF SyncUpsert
    <2>3. job'[w].pc = "upsert"
      BY <2>1, <2>2 DEF UpsertJob
    <2> QED  BY <1>7, <1>9, <2>2, <2>3 DEF SyncUpsert
  <1>10. ASSUME NEW w \in Workers, SyncReap(w) PROVE OptOutState'
    <2>1. PICK gone : job' = [DropIds(gone) EXCEPT ![w] = Idle]
      BY <1>10 DEF SyncReap
    <2>2. job'[w] = Idle /\ \A v \in Workers : v # w => job'[v] = DropIds(gone)[v]
      BY <2>1 DEF DropIds
    <2>3. \A v \in Workers : v # w => job'[v].pc = job[v].pc
      BY <2>2, DropIdsKeeps
    <2>4. late' = late /\ user' = user
      BY <1>10 DEF SyncReap
    <2>5. \A v \in Workers : Gate(v)' => Gate(v)
      BY <2>2, <2>3 DEF Idle
    <2> QED  BY <1>7, <2>4, <2>5
  <1>11. ASSUME NEW w \in Workers, RemindSelect(w) PROVE OptOutState'
    <2>1. \A v \in Workers : v # w => job'[v] = job[v]
      BY <1>11, BecomesJobs DEF RemindSelect
    <2> QED  BY <1>7, <1>11, <2>1 DEF RemindSelect, history
  <1>12. ASSUME NEW w \in Workers, RemindSend(w) PROVE OptOutState'
    <2>1. job'[w].pc = "stamp" /\ \A v \in Workers : v # w => job'[v] = job[v]
      BY <1>12, BecomesJobs DEF RemindSend
    <2> QED  BY <1>12, <2>1 DEF RemindSend, OptedOut, TypeOK
  <1> QED
    BY <1>2, <1>3, <1>4, <1>5, <1>6, <1>8, <1>9, <1>10, <1>11, <1>12
    DEF Next, Website, Worker, SyncSteps, RemindSteps

\* The inductive invariant holds in every behaviour.
THEOREM SafetyInvariant == Spec => []SafetyInv
  <1>1. SafetyInv /\ [Next]_vars => SafetyInv'
    BY NextTypeOK, NextNoOrphans, NextWatched, NextOptOut DEF SafetyInv
  <1> QED  BY <1>1, InitSafety, PTL DEF Spec

\* Deleting the account leaves no row behind, whatever syncs are running.
THEOREM NoOrphansHolds == Spec => []NoOrphans
  <1>1. SafetyInv => NoOrphans
    BY DEF SafetyInv
  <1> QED  BY <1>1, SafetyInvariant, PTL

\* Nobody is ever emailed about a review that was never found fresh.
THEOREM WatchedOnlyHolds == Spec => []WatchedOnly
  <1>1. SafetyInv => WatchedOnly
    BY DEF SafetyInv, WatchedEvidence
  <1> QED  BY <1>1, SafetyInvariant, PTL

\* After the user opts out no worker sends more than the email it was at.
THEOREM OptOutHolds == Spec => []OptOutHonoured
  <1>1. SafetyInv => OptOutHonoured
    BY DEF SafetyInv, OptOutState
  <1> QED  BY <1>1, SafetyInvariant, PTL

-----------------------------------------------------------------------------
(* What a sync may not overwrite *)

\* A reminder is never recorded for a moment that has not come.
StampsPast == \A r \in Reviews :
  Tracked(r) /\ row[r].notified # Null => row[r].notified <= now

\* What one step may do to the row of a review that has one before and after.
KeepsFlags(r) ==
  /\ row[r].dismissed => row'[r].dismissed
  /\ row[r].notified # Null =>
       row'[r].notified # Null /\ row'[r].notified >= row[r].notified

RowKept(r) == row'[r].dismissed = row[r].dismissed
              /\ row'[r].notified = row[r].notified

\* How a step can change the row of a review: not at all or by a sync that
\* keeps the user's and the reminder's columns, by a dismissal, by a stamp, by
\* an insertion, or by a deletion.
LEMMA RowChanges ==
  ASSUME TypeOK, [Next]_vars, NEW r \in Reviews
  PROVE  \/ Tracked(r) /\ Tracked(r)' /\ RowKept(r)
         \/ /\ Tracked(r) /\ row'[r].dismissed
            /\ row'[r].notified = row[r].notified
         \/ /\ Tracked(r) /\ row'[r].notified = now
            /\ row'[r].dismissed = row[r].dismissed
         \/ ~Tracked(r) /\ row'[r].notified = Null
         \/ ~Tracked(r)'
  <1> USE DEF TypeOK, Tracked, RowKept
  <1>1. ASSUME row' = row
        PROVE  row[r] = Null \/ RowKept(r)
    BY <1>1
  <1>2. ASSUME NEW s \in Reviews, Dismiss(s)
        PROVE  \/ ~Tracked(r)'
               \/ Tracked(r) /\ Tracked(r)' /\ RowKept(r)
               \/ /\ Tracked(r) /\ row'[r].dismissed
                  /\ row'[r].notified = row[r].notified
    <2>1. CASE s = r
      <3>1. row[r] \in Row /\ row'[r] = [row[r] EXCEPT !.dismissed = TRUE]
        BY <1>2, <2>1 DEF Dismiss
      <3> QED  BY <3>1, NullAssumption DEF Row
    <2>2. CASE s # r
      BY <1>2, <2>2 DEF Dismiss
    <2> QED  BY <2>1, <2>2
  <1>3. CASE Disconnect
    BY <1>3 DEF Disconnect
  <1>4. ASSUME NEW w \in Workers, NEW s \in Reviews, SyncUpsert(w, s)
        PROVE  \/ Tracked(r) /\ Tracked(r)' /\ RowKept(r)
               \/ ~Tracked(r) /\ row'[r].notified = Null
               \/ ~Tracked(r)'
    <2> DEFINE stale == IsStale(job[w].last[s], job[w].threshold, job[w].sweepAt)
               flag  == ResolveBacklog(job[w].prev[s], stale)
    <2>1. CASE s = r
      <3>1. row'[r] = Upserted(row[r], job[w].last[s], job[w].sweepAt, flag)
        BY <1>4, <2>1 DEF SyncUpsert
      <3>2. CASE row[r] = Null
        BY <3>1, <3>2 DEF Upserted
      <3>3. CASE row[r] \in Row /\ row[r] # Null
        <4>1. row'[r] = [row[r] EXCEPT !.last = job[w].last[s],
                           !.seen = job[w].sweepAt, !.backlog = flag]
          BY <3>1, <3>3 DEF Upserted
        <4>2. RowKept(r)
          BY <3>3, <4>1 DEF Row
        <4> QED  BY <3>3, <4>2
      <3> QED  BY <3>2, <3>3
    <2>2. CASE s # r
      BY <1>4, <2>2 DEF SyncUpsert
    <2> QED  BY <2>1, <2>2
  <1>5. ASSUME NEW w \in Workers, SyncReap(w)
        PROVE  row'[r] = Null \/ row'[r] = row[r]
    BY <1>5 DEF SyncReap
  <1>6. ASSUME NEW w \in Workers, RemindStamp(w)
        PROVE  \/ row'[r] = row[r]
               \/ /\ Tracked(r) /\ row'[r].notified = now
                  /\ row'[r].dismissed = row[r].dismissed
    <2>1. CASE r \in job[w].ids /\ Tracked(r)
      <3>1. row[r] \in Row /\ row'[r] = [row[r] EXCEPT !.notified = now]
        BY <1>6, <2>1 DEF RemindStamp
      <3> QED  BY <2>1, <3>1 DEF Row
    <2>2. CASE ~(r \in job[w].ids /\ Tracked(r))
      BY <1>6, <2>2 DEF RemindStamp
    <2> QED  BY <2>1, <2>2
  <1>7. ASSUME NEW w \in Workers,
               \/ SyncStart(w) \/ SyncRejected(w) \/ SyncDiscover(w)
               \/ SyncReadPrevious(w) \/ SyncOrphaned(w) \/ RemindStart(w)
               \/ RemindNothing(w) \/ RemindSelect(w) \/ RemindSend(w)
               \/ Abort(w)
        PROVE  row' = row
    BY <1>7 DEF SyncStart, SyncRejected, SyncDiscover, SyncReadPrevious,
       SyncOrphaned, RemindStart, RemindNothing, RemindSelect, RemindSend, Abort
  <1>8. CASE \/ Tick \/ GitHubUser \/ UnsubscribePause \/ SignInAgain
             \/ \E h \in FormThresholds, paused \in BOOLEAN :
                  UpdateSettings(h, paused)
             \/ UNCHANGED vars
    BY <1>8 DEF Tick, GitHubUser, Comment, Uncomment, Withdraw, Close, Reopen,
       UnsubscribePause, SignInAgain, UpdateSettings, vars
  <1> QED
    BY <1>1, <1>2, <1>3, <1>4, <1>5, <1>6, <1>7, <1>8
    DEF Next, Website, Worker, SyncSteps, RemindSteps

\* Time only advances.
LEMMA ClockAdvances == TypeOK /\ [Next]_vars => now' \in Int /\ now' >= now
  <1> SUFFICES ASSUME TypeOK, [Next]_vars PROVE now' = now \/ now' = now + 1
    BY DEF TypeOK, Time
  <1> QED
    BY DEF Next, Tick, GitHubUser, Comment, Uncomment, Withdraw, Close, Reopen,
       Website, Dismiss, UpdateSettings, UnsubscribePause, SignInAgain,
       Disconnect, Worker, SyncStart, SyncRejected, SyncSteps, SyncDiscover,
       SyncReadPrevious, SyncUpsert, SyncOrphaned, SyncReap, RemindStart,
       RemindSteps, RemindNothing, RemindSelect, RemindSend, RemindStamp, Abort,
       vars

\* No dismissal is undone and no reminder forgotten while a row exists.
THEOREM FlagsKeptHolds == Spec => FlagsKept
  <1>1. Init => StampsPast
    BY DEF Init, StampsPast, Tracked
  <1>2. TypeOK /\ StampsPast /\ [Next]_vars => StampsPast'
    <2> SUFFICES ASSUME TypeOK, StampsPast, [Next]_vars,
                        NEW r \in Reviews, Tracked(r)', row'[r].notified # Null
                 PROVE  row'[r].notified <= now'
      BY DEF StampsPast
    <2>1. \/ row'[r].notified = now
          \/ Tracked(r) /\ row'[r].notified = row[r].notified
      BY RowChanges DEF RowKept
    <2>2. Tracked(r) /\ row[r].notified # Null =>
            row[r].notified \in Time /\ row[r].notified <= now
      BY DEF StampsPast, TypeOK, Tracked, Row
    <2> QED  BY <2>1, <2>2, ClockAdvances DEF TypeOK, Time
  <1>3. TypeOK /\ StampsPast /\ [Next]_vars =>
          \A r \in Reviews : Tracked(r) /\ Tracked(r)' => KeepsFlags(r)
    <2> SUFFICES ASSUME TypeOK, StampsPast, [Next]_vars,
                        NEW r \in Reviews, Tracked(r), Tracked(r)'
                 PROVE  KeepsFlags(r)
      OBVIOUS
    <2>1. row[r] \in Row
      BY DEF TypeOK, Tracked
    <2>2. row[r].notified # Null =>
            row[r].notified \in Time /\ row[r].notified <= now
      BY <2>1 DEF StampsPast, Row
    <2>3. now \in Time /\ now # Null
      BY NullAssumption DEF TypeOK
    <2>4. CASE RowKept(r)
      BY <2>2, <2>4 DEF RowKept, KeepsFlags, Time
    <2>5. CASE row'[r].dismissed /\ row'[r].notified = row[r].notified
      BY <2>2, <2>5 DEF KeepsFlags, Time
    <2>6. CASE row'[r].notified = now /\ row'[r].dismissed = row[r].dismissed
      BY <2>2, <2>3, <2>6 DEF KeepsFlags, Time
    <2> QED  BY <2>4, <2>5, <2>6, RowChanges
  <1>4. TypeOK /\ StampsPast /\ [Next]_vars =>
          [\A r \in Reviews : Tracked(r) /\ Tracked(r)' =>
             /\ row[r].dismissed => row'[r].dismissed
             /\ row[r].notified # Null =>
                  row'[r].notified # Null /\ row'[r].notified >= row[r].notified]_vars
    BY <1>3 DEF KeepsFlags
  <1> QED  BY <1>1, <1>2, <1>4, TypeCorrect, PTL DEF Spec, FlagsKept

-----------------------------------------------------------------------------
(* What the next email is about *)

\* A set of naturals has a least one.
LEMMA LeastExists ==
  ASSUME NEW T \in SUBSET Nat, T # {}
  PROVE  \E m \in T : \A n \in T : m <= n
<1>1. PICK m \in T : \A n \in T : <<n, m>> \notin OpToRel(<, Nat)
  BY NatLessThanWellFounded, WFMin
<1>2. \A n \in T : ~(n < m)
  BY <1>1 DEF OpToRel
<1> QED BY <1>2

\* An oldest row of several.
LEMMA OldestExists ==
  ASSUME TypeOK, NEW rows \in SUBSET Reviews, rows # {}, \A r \in rows : Tracked(r)
  PROVE  \E r \in rows : \A s \in rows : row[r].last <= row[s].last
<1> DEFINE Lasts == {row[r].last : r \in rows}
<1>1. \A r \in rows : row[r].last \in Nat
  BY DEF TypeOK, Tracked, Row, Time
<1>2. Lasts \in SUBSET Nat /\ Lasts # {}
  BY <1>1
<1>3. PICK m \in Lasts : \A n \in Lasts : m <= n
  <2> HIDE DEF Lasts
  <2> QED BY <1>2, LeastExists
<1> QED BY <1>3

\* The oldest of what is due, up to the cap, is there whenever something is due.
\* So SELECT ... ORDER BY ... LIMIT always has an answer: a reminder that reads
\* a due row goes on to send (jobs.rs SendReminder::run).
THEOREM BatchExists ==
  ASSUME TypeOK, NEW eligible \in SUBSET Reviews, IsFiniteSet(eligible),
         \A r \in eligible : Tracked(r)
  PROVE  \E batch \in SUBSET eligible : OldestOf(batch, eligible)
<1> DEFINE Older(S) == \A r \in S, s \in eligible \ S : row[r].last <= row[s].last
           Small == {n \in 0 .. EmailCap :
                       \E S \in SUBSET eligible :
                         Older(S) /\ Cardinality(S) <= EmailCap
                                  /\ n = EmailCap - Cardinality(S)}
<1>c. EmailCap \in Nat
  BY BoundAssumption
<1>f. \A S \in SUBSET eligible : IsFiniteSet(S) /\ Cardinality(S) \in Nat
  BY FS_Subset, FS_CardinalityType
<1>1. Small \in SUBSET Nat
  BY <1>c
<1>2. Small # {}
  <2>1. Older({}) /\ Cardinality({}) = 0
    BY FS_EmptySet
  <2>2. EmailCap \in Small
    BY <1>c, <2>1
  <2> QED BY <2>2
<1>3. PICK n \in Small : \A m \in Small : n <= m
  <2> HIDE DEF Small
  <2> QED BY <1>1, <1>2, LeastExists
<1>4. PICK S \in SUBSET eligible :
        Older(S) /\ Cardinality(S) <= EmailCap /\ n = EmailCap - Cardinality(S)
  BY <1>3
<1>5. CASE S = eligible \/ Cardinality(S) = EmailCap
  BY <1>4, <1>5 DEF OldestOf
<1>6. CASE S # eligible /\ Cardinality(S) # EmailCap
  <2>1. eligible \ S # {} /\ eligible \ S \in SUBSET Reviews
    BY <1>6
  <2>2. PICK t \in eligible \ S : \A s \in eligible \ S : row[t].last <= row[s].last
    <3>1. \A r \in eligible \ S : Tracked(r)
      OBVIOUS
    <3> QED BY <2>1, <3>1, OldestExists
  <2> DEFINE T == S \cup {t}
  <2>3. T \in SUBSET eligible /\ Older(T)
    BY <1>4, <2>2
  <2>4. Cardinality(T) = Cardinality(S) + 1
    BY <1>f, <2>2, FS_AddElement
  <2>5. Cardinality(T) <= EmailCap /\ EmailCap - Cardinality(T) < n
    BY <1>4, <1>c, <1>f, <1>6, <2>4
  <2>6. EmailCap - Cardinality(T) \in 0 .. EmailCap
    BY <1>c, <1>f, <2>3, <2>5
  <2>7. EmailCap - Cardinality(T) \in Small
    <3> HIDE DEF T
    <3> QED BY <2>3, <2>5, <2>6
  <2> HIDE DEF T, Small
  <2>8. n <= EmailCap - Cardinality(T) /\ n \in Nat
    BY <1>1, <1>3, <2>7
  <2> QED BY <2>5, <2>6, <2>8
<1> QED BY <1>5, <1>6

=============================================================================
