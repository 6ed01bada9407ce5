------------------------- MODULE ReminderOne_proofs -------------------------
(***************************************************************************)
(* What holds of the service as long as jobs of one kind do not overlap,   *)
(* for any number of workers: what needs syncs that do not overlap each    *)
(* other, what needs that of reminders, and what needs both, which is also *)
(* that the service keeps the promise of ReminderPromise.  A sync and a    *)
(* reminder of the user may always overlap.  Any reviews, thresholds,      *)
(* window, cap and failures.                                               *)
(***************************************************************************)
EXTENDS ReminderService_proofs

\* The jobs of each kind that are under way.
Syncs(w)   == job[w].pc \in {"discover", "previous", "upsert"}
Reminds(w) == job[w].pc \in {"select", "send", "stamp"}

\* Which jobs do not overlap.  In each case those of the other kind may.
OneSync     == \A v, w \in Workers : Syncs(v) /\ Syncs(w) => v = w
OneReminder == \A v, w \in Workers : Reminds(v) /\ Reminds(w) => v = w

\* Jobs of one kind do not overlap.
OneOfAKind == OneSync /\ OneReminder

\* A sync that knows what GitHub said.
Syncing(w) == job[w].pc \in {"previous", "upsert"}

\* However many jobs: an email is about a comment older than the threshold.
MailIsLate == \A r \in Reviews :
  /\ mail[r] # Null => mail[r].about < mail[r].at /\ mail[r].at <= now
  /\ r \in owed => mail[r] \in Mail
  /\ \A w \in Workers : job[w].pc = "send" /\ job[w].about[r] # Null =>
       job[w].about[r] < now

\* One sync: while it writes, the rows are as it read them or as it wrote them.
SyncKnows == \A w \in Workers : job[w].pc = "upsert" => \A r \in Reviews :
  /\ r \in job[w].todo => r \in job[w].found
  /\ r \in job[w].todo /\ Tracked(r) /\ ~row[r].backlog => job[w].prev[r] = "watched"
  /\ r \in job[w].found /\ r \notin job[w].todo /\ Tracked(r)
       => row[r].seen = job[w].sweepAt

\* However many jobs: the rows a reminder will stamp exist, and are about what
\* it emails or has emailed.
HoldsRows == \A w \in Workers :
  /\ job[w].pc \in {"send", "stamp"} => \A r \in job[w].ids : Tracked(r)
  /\ job[w].pc = "send" => \A r \in job[w].ids : job[w].about[r] # Null
  /\ job[w].pc = "stamp" => \A r \in job[w].ids : mail[r] # Null

\* One reminder: what it will stamp it has emailed about since the last stamp.
OwesStamps == \A w \in Workers : job[w].pc = "stamp" => \A r \in job[w].ids : r \in owed

\* However many jobs: what was emailed, is not owed and has not been reaped
\* since is recorded in the row.
MailIsRecorded == user # Null => \A r \in Reviews :
  mail[r] # Null /\ r \notin owed /\ record[r] = "kept" =>
    Tracked(r) /\ row[r].notified # Null /\ mail[r].at <= row[r].notified

\* One sync: a review whose row was reaped is not watched before a sweep finds
\* it fresh.
GoneIsUnwatched == \A r \in Reviews : record[r] = "gone" =>
  /\ Tracked(r) => row[r].backlog
  /\ \A w \in Workers : job[w].pc = "upsert" /\ r \in job[w].todo =>
       job[w].prev[r] # "watched"

\* One of a kind: what was selected may still be sent.
ChosenMay == \A w \in Workers, r \in Reviews :
  job[w].pc = "send" /\ job[w].about[r] # Null =>
    \/ mail[r] = Null
    \/ mail[r].about < job[w].about[r]
    \/ now - mail[r].at > DedupWindow
    \/ r \in owed
    \/ record[r] = "anew"

AnyInv  == TypeOK /\ NoOrphans /\ MailIsLate /\ HoldsRows /\ MailIsRecorded
SyncInv == TypeOK /\ SyncKnows /\ GoneIsUnwatched

\* What jobs of which no two of a kind overlap keep.
OneInv == AnyInv /\ SyncInv /\ OwesStamps /\ ChosenMay

\* One worker is enough.
LEMMA OneWorkerIsEnough == (\A v, w \in Workers : v = w) => OneOfAKind
BY DEF OneOfAKind, OneSync, OneReminder

-----------------------------------------------------------------------------
(* Times are integers *)

LEMMA RowTimes ==
  ASSUME TypeOK, NEW r \in Reviews
  PROVE  /\ now \in Int
         /\ Tracked(r) => /\ row[r].last \in Int /\ row[r].seen \in Int
                          /\ row[r].backlog \in BOOLEAN
                          /\ row[r].notified \in Int \cup {Null}
         /\ mail[r] # Null => mail[r].at \in Int /\ mail[r].about \in Int
<1>1. now \in Int
  BY DEF TypeOK, Time
<1>2. ASSUME Tracked(r)
      PROVE  /\ row[r].last \in Int /\ row[r].seen \in Int
             /\ row[r].backlog \in BOOLEAN /\ row[r].notified \in Int \cup {Null}
  <2>1. row[r] \in Row
    BY <1>2 DEF TypeOK, Tracked
  <2> QED BY <2>1 DEF Row, Time
<1>3. ASSUME mail[r] # Null PROVE mail[r].at \in Int /\ mail[r].about \in Int
  <2>1. mail[r] \in Mail
    BY <1>3 DEF TypeOK
  <2> QED BY <2>1 DEF Mail, Time
<1> QED BY <1>1, <1>2, <1>3

LEMMA JobTimes ==
  ASSUME TypeOK, NEW w \in Workers
  PROVE  /\ Syncing(w) => /\ job[w].found \in SUBSET Reviews
                          /\ \A r \in Reviews : job[w].last[r] \in Int
         /\ job[w].pc = "upsert" =>
              job[w].sweepAt \in Int /\ job[w].todo \in SUBSET Reviews
         /\ job[w].pc \in {"send", "stamp"} => job[w].ids \in SUBSET Reviews
         /\ job[w].pc = "send" =>
              \A r \in Reviews : job[w].about[r] # Null => job[w].about[r] \in Int
<1> USE DEF TypeOK, Time
<1>1. CASE job[w].pc = "previous"
  <2>1. job[w] \in PreviousJob
    BY <1>1, JobByPc
  <2> QED BY <1>1, <2>1 DEF PreviousJob
<1>2. CASE job[w].pc = "upsert"
  <2>1. job[w] \in UpsertJob
    BY <1>2, JobByPc
  <2> QED BY <1>2, <2>1 DEF UpsertJob
<1>3. CASE job[w].pc = "send"
  <2>1. job[w] \in SendJob
    BY <1>3, JobByPc
  <2> QED BY <1>3, <2>1 DEF SendJob, Syncing
<1>4. CASE job[w].pc = "stamp"
  <2>1. job[w] \in StampJob
    BY <1>4, JobByPc
  <2> QED BY <1>4, <2>1 DEF StampJob, Syncing
<1> QED BY <1>1, <1>2, <1>3, <1>4 DEF Syncing

-----------------------------------------------------------------------------
(* What a step may change *)

\* A dismissal is all that changes in the row of r.
SameRow(r) ==
  /\ Tracked(r)' <=> Tracked(r)
  /\ Tracked(r) => /\ row'[r].last = row[r].last /\ row'[r].seen = row[r].seen
                   /\ row'[r].backlog = row[r].backlog
                   /\ row'[r].notified = row[r].notified

\* The step that is not of a worker, or starts or ends its job.
Quiet == \/ UNCHANGED vars \/ Tick \/ GitHubUser \/ UnsubscribePause \/ SignInAgain
         \/ \E h \in FormThresholds, paused \in BOOLEAN : UpdateSettings(h, paused)
         \/ \E r \in Reviews : Dismiss(r)
         \/ \E w \in Workers :
              \/ SyncStart(w) \/ SyncRejected(w) \/ SyncOrphaned(w)
              \/ RemindStart(w) \/ RemindNothing(w) \/ Abort(w)
              \/ SyncDiscover(w) \/ SyncReadPrevious(w)
LEMMA StepKinds ==
  ASSUME [Next]_vars
  PROVE  \/ Quiet \/ Disconnect
         \/ \E w \in Workers : \/ \E r \in Reviews : SyncUpsert(w, r)
                               \/ SyncReap(w) \/ RemindSelect(w)
                               \/ RemindSend(w) \/ RemindStamp(w)
  BY DEF Next, Website, Worker, SyncSteps, RemindSteps, Quiet

\* A quiet step writes no more of a row than its dismissal, and emails nobody.
LEMMA QuietWrites ==
  ASSUME TypeOK, Quiet
  PROVE  /\ UNCHANGED <<mail, owed, record>> /\ (user' # Null => user # Null)
         /\ \A r \in Reviews : SameRow(r)
         /\ \A w \in Workers : \/ job'[w] = job[w]
                               \/ job'[w].pc \in {"idle", "discover", "select",
                                                "previous", "upsert"}
<1>1. UNCHANGED <<mail, owed, record>> /\ (user' # Null => user # Null)
  BY DEF Quiet, vars, Tick, GitHubUser, Comment, Uncomment, Withdraw, Close, Reopen, UnsubscribePause,
         SignInAgain, UpdateSettings, Dismiss, history, SyncStart, SyncRejected,
         SyncOrphaned, RemindStart, RemindNothing, Abort, SyncDiscover,
         SyncReadPrevious
<1>2. ASSUME NEW r \in Reviews PROVE SameRow(r)
  <2>1. CASE row' = row
    BY <2>1 DEF SameRow, Tracked
  <2>2. ASSUME NEW s \in Reviews, Dismiss(s) PROVE SameRow(r)
    <3>1. CASE s = r
      <4>1. row[r] \in Row /\ row'[r] = [row[r] EXCEPT !.dismissed = TRUE]
        BY <2>2, <3>1 DEF Dismiss, TypeOK, Tracked
      <4>2. row'[r] \in Row
        BY <4>1 DEF Row
      <4> QED BY <4>1, <4>2, NullAssumption DEF SameRow, Tracked, Row
    <3>2. CASE s # r
      BY <2>2, <3>2 DEF Dismiss, SameRow, Tracked
    <3> QED BY <3>1, <3>2
  <2>3. row' = row \/ \E s \in Reviews : Dismiss(s)
    BY DEF Quiet, vars, Tick, GitHubUser, Comment, Uncomment, Withdraw, Close, Reopen, UnsubscribePause,
           SignInAgain, UpdateSettings, history, SyncStart, SyncRejected,
           SyncOrphaned, RemindStart, RemindNothing, Abort, SyncDiscover,
           SyncReadPrevious
  <2> QED BY <2>1, <2>2, <2>3
<1>3. ASSUME NEW w \in Workers
      PROVE  \/ job'[w] = job[w]
             \/ job'[w].pc \in {"idle", "discover", "select", "previous", "upsert"}
  <2>1. CASE job' = job
    BY <2>1
  <2>2. ASSUME NEW v \in Workers, NEW next, job' = [job EXCEPT ![v] = next],
               next.pc \in {"idle", "discover", "select", "previous", "upsert"}
        PROVE  \/ job'[w] = job[w]
               \/ job'[w].pc \in {"idle", "discover", "select", "previous", "upsert"}
    BY <2>2 DEF TypeOK
  <2>3. ASSUME NEW v \in Workers,
               \/ SyncStart(v) \/ SyncOrphaned(v) \/ RemindStart(v)
               \/ RemindNothing(v) \/ Abort(v) \/ SyncReadPrevious(v)
        PROVE  \E next : /\ job' = [job EXCEPT ![v] = next]
                        /\ next.pc \in {"idle", "discover", "select",
                                        "previous", "upsert"}
    BY <2>3 DEF SyncStart, SyncOrphaned, RemindStart, RemindNothing, Abort,
                SyncReadPrevious, Becomes, Idle
  <2>4. ASSUME NEW v \in Workers, SyncDiscover(v)
        PROVE  job'[w] = job[w] \/ job'[w].pc = "previous"
    BY <2>4, DiscoverWrites
  <2>5. \/ job' = job
        \/ \E v \in Workers :
             \/ SyncStart(v) \/ SyncOrphaned(v) \/ RemindStart(v)
             \/ RemindNothing(v) \/ Abort(v) \/ SyncDiscover(v)
             \/ SyncReadPrevious(v)
    BY DEF Quiet, vars, Tick, GitHubUser, Comment, Uncomment, Withdraw, Close,
           Reopen, UnsubscribePause, SignInAgain, UpdateSettings, Dismiss,
           SyncRejected
  <2> QED BY <2>1, <2>2, <2>3, <2>4, <2>5
<1> QED BY <1>1, <1>2, <1>3

\* A quiet step leaves the syncs that write as they are, but for one that is
\* about to.
LEMMA QuietSyncs ==
  ASSUME TypeOK, Quiet, NEW w \in Workers, job'[w].pc = "upsert"
  PROVE  job'[w] = job[w] \/ SyncReadPrevious(w)
<1>1. CASE job' = job
  BY <1>1
<1>2. ASSUME NEW v \in Workers, NEW next, job' = [job EXCEPT ![v] = next],
             next.pc # "upsert"
      PROVE  job'[w] = job[w]
  BY <1>2 DEF TypeOK
<1>3. ASSUME NEW v \in Workers,
             \/ SyncStart(v) \/ SyncOrphaned(v) \/ RemindStart(v)
             \/ RemindNothing(v) \/ Abort(v)
      PROVE  \E next : job' = [job EXCEPT ![v] = next] /\ next.pc # "upsert"
  BY <1>3 DEF SyncStart, SyncOrphaned, RemindStart, RemindNothing, Abort,
              Becomes, Idle
<1>4. ASSUME NEW v \in Workers, SyncDiscover(v) PROVE job'[w] = job[w]
  BY <1>4, DiscoverWrites
<1>5. ASSUME NEW v \in Workers, v # w, SyncReadPrevious(v) PROVE job'[w] = job[w]
  BY <1>5 DEF SyncReadPrevious, Becomes, TypeOK
<1>6. \/ job' = job
      \/ \E v \in Workers :
           \/ SyncStart(v) \/ SyncOrphaned(v) \/ RemindStart(v)
           \/ RemindNothing(v) \/ Abort(v) \/ SyncDiscover(v)
           \/ SyncReadPrevious(v)
  BY DEF Quiet, vars, Tick, GitHubUser, Comment, Uncomment, Withdraw, Close,
         Reopen, UnsubscribePause, SignInAgain, UpdateSettings, Dismiss,
         SyncRejected
<1> QED BY <1>1, <1>2, <1>3, <1>4, <1>5, <1>6

\* Deleting rows leaves a job what it holds, but for the ids of those rows.
LEMMA DropIdsFields ==
  ASSUME TypeOK, NEW gone, NEW w \in Workers
  PROVE  /\ DropIds(gone)[w].pc = job[w].pc
         /\ job[w].pc \notin {"send", "stamp"} => DropIds(gone)[w] = job[w]
         /\ job[w].pc \in {"send", "stamp"} => DropIds(gone)[w].ids = job[w].ids \ gone
         /\ job[w].pc = "send" => DropIds(gone)[w].about = job[w].about
<1>1. CASE job[w].pc \notin {"send", "stamp"}
  BY <1>1 DEF DropIds
<1>2. CASE job[w].pc = "send"
  <2>1. job[w] \in SendJob
    BY <1>2, JobByPc DEF TypeOK
  <2>2. DropIds(gone)[w] = [job[w] EXCEPT !.ids = job[w].ids \ gone]
    BY <1>2 DEF DropIds
  <2> QED BY <1>2, <2>1, <2>2 DEF SendJob
<1>3. CASE job[w].pc = "stamp"
  <2>1. job[w] \in StampJob
    BY <1>3, JobByPc DEF TypeOK
  <2>2. DropIds(gone)[w] = [job[w] EXCEPT !.ids = job[w].ids \ gone]
    BY <1>3 DEF DropIds
  <2> QED BY <1>3, <2>1, <2>2 DEF StampJob
<1> QED BY <1>1, <1>2, <1>3

\* What an upsert does to the row of its review and to its job.
LEMMA UpsertWrites ==
  ASSUME TypeOK, NEW w \in Workers, NEW s \in Reviews, SyncUpsert(w, s)
  PROVE  /\ UNCHANGED <<now, user, mail, owed>> /\ user # Null
         /\ job[w].pc = "upsert" /\ s \in job[w].todo
         /\ job'[w].pc = "upsert" /\ job'[w].todo = job[w].todo \ {s}
         /\ job'[w].found = job[w].found /\ job'[w].last = job[w].last
         /\ job'[w].prev = job[w].prev /\ job'[w].sweepAt = job[w].sweepAt
         /\ \A r \in Reviews \ {s} : row'[r] = row[r]
         /\ Tracked(s)' /\ row'[s].last = job[w].last[s] /\ row'[s].seen = job[w].sweepAt
         /\ row'[s].backlog =
              ResolveBacklog(job[w].prev[s],
                             IsStale(job[w].last[s], job[w].threshold, job[w].sweepAt))
         /\ row'[s].notified = IF Tracked(s) THEN row[s].notified ELSE Null
         /\ \A r \in Reviews : \/ record'[r] = record[r]
                               \/ record[r] = "gone" /\ record'[r] = "anew"
         /\ record'[s] = "gone" =>
              IsStale(job[w].last[s], job[w].threshold, job[w].sweepAt)
<1> USE DEF TypeOK
<1>1. /\ UNCHANGED <<now, user, mail, owed>> /\ user # Null
      /\ job[w].pc = "upsert" /\ s \in job[w].todo
  BY DEF SyncUpsert, github
<1>2. job[w] \in UpsertJob
  BY <1>1, JobByPc
<1>3. job'[w] = [job[w] EXCEPT !.todo = job[w].todo \ {s}]
  BY DEF SyncUpsert, Becomes
<1>4. /\ job'[w].pc = "upsert" /\ job'[w].todo = job[w].todo \ {s}
      /\ job'[w].found = job[w].found /\ job'[w].last = job[w].last
      /\ job'[w].prev = job[w].prev /\ job'[w].sweepAt = job[w].sweepAt
  BY <1>2, <1>3 DEF UpsertJob
<1> DEFINE flag == ResolveBacklog(job[w].prev[s],
                     IsStale(job[w].last[s], job[w].threshold, job[w].sweepAt))
<1>5. row' = [row EXCEPT ![s] = Upserted(row[s], job[w].last[s], job[w].sweepAt, flag)]
  BY DEF SyncUpsert
<1>6. flag \in BOOLEAN
  BY ResolveBacklogType
<1>w. Upserted(row[s], job[w].last[s], job[w].sweepAt, flag) \in Row
  BY <1>2, UpsertedType, ResolveBacklogType DEF UpsertJob
<1> HIDE DEF flag
<1>7. row'[s] = Upserted(row[s], job[w].last[s], job[w].sweepAt, flag)
      /\ \A r \in Reviews \ {s} : row'[r] = row[r]
  BY <1>5
<1>8. row'[s] \in Row
  BY <1>7, <1>w
<1>9. Tracked(s)'
  BY <1>8, NullAssumption DEF Tracked
<1>10. /\ row'[s].last = job[w].last[s] /\ row'[s].seen = job[w].sweepAt
       /\ row'[s].backlog = flag
       /\ row'[s].notified = IF Tracked(s) THEN row[s].notified ELSE Null
  <2>1. CASE row[s] = Null
    BY <1>7, <2>1 DEF Upserted, Tracked
  <2>2. CASE row[s] # Null
    <3>1. row'[s] = [row[s] EXCEPT !.last = job[w].last[s], !.seen = job[w].sweepAt,
                                   !.backlog = flag]
      BY <1>7, <2>2 DEF Upserted
    <3> QED BY <2>2, <3>1 DEF Tracked, Row
  <2> QED BY <2>1, <2>2
<1>11. /\ \A r \in Reviews : \/ record'[r] = record[r]
                             \/ record[r] = "gone" /\ record'[r] = "anew"
       /\ record'[s] = "gone" =>
            IsStale(job[w].last[s], job[w].threshold, job[w].sweepAt)
  BY DEF SyncUpsert, FoundFresh
<1> QED BY <1>1, <1>4, <1>7, <1>9, <1>10, <1>11 DEF flag

\* What a reap changes: rows that are older than its sweep go, and their ids.
LEMMA ReapWrites ==
  ASSUME TypeOK, NEW w \in Workers, SyncReap(w)
  PROVE  /\ UNCHANGED <<now, user, mail, owed>>
         /\ job[w].pc = "upsert" /\ job[w].todo = {} /\ job'[w] = Idle
         /\ \A r \in Reviews :
              IF Reapable(r, job[w].sweepAt) THEN ~Tracked(r)' ELSE row'[r] = row[r]
         /\ \A r \in Reviews :
              record'[r] = IF /\ Reapable(r, job[w].sweepAt)
                              /\ mail[r] # Null /\ record[r] = "kept"
                           THEN "gone" ELSE record[r]
         /\ \A v \in Workers \ {w} :
              /\ job'[v].pc = job[v].pc
              /\ job[v].pc \notin {"send", "stamp"} => job'[v] = job[v]
              /\ job[v].pc = "send" => job'[v].about = job[v].about
              /\ job[v].pc \in {"send", "stamp"} => \A r \in job'[v].ids :
                   r \in job[v].ids /\ r \in Reviews /\ ~Reapable(r, job[w].sweepAt)
<1> DEFINE gone == {r \in Reviews : Reapable(r, job[w].sweepAt)}
<1>1. /\ UNCHANGED <<now, user, mail, owed>>
      /\ job[w].pc = "upsert" /\ job[w].todo = {}
      /\ job' = [DropIds(gone) EXCEPT ![w] = Idle]
      /\ row' = [r \in Reviews |-> IF r \in gone THEN Null ELSE row[r]]
      /\ record' = [r \in Reviews |->
                      IF r \in gone /\ mail[r] # Null /\ record[r] = "kept"
                      THEN "gone" ELSE record[r]]
  BY DEF SyncReap
<1>2. DropIds(gone) = [v \in Workers |-> DropIds(gone)[v]]
  BY DEF DropIds
<1>3. job'[w] = Idle /\ \A v \in Workers \ {w} : job'[v] = DropIds(gone)[v]
  BY <1>1, <1>2
<1>4. \A v \in Workers : job[v].pc \in {"send", "stamp"} => job[v].ids \in SUBSET Reviews
  BY JobTimes
<1>5. \A r \in Reviews :
        IF Reapable(r, job[w].sweepAt) THEN ~Tracked(r)' ELSE row'[r] = row[r]
  BY <1>1 DEF Tracked
<1>6. ASSUME NEW v \in Workers \ {w}
      PROVE  /\ job'[v].pc = job[v].pc
             /\ job[v].pc \notin {"send", "stamp"} => job'[v] = job[v]
             /\ job[v].pc = "send" => job'[v].about = job[v].about
             /\ job[v].pc \in {"send", "stamp"} => job'[v].ids = job[v].ids \ gone
  <2> HIDE DEF gone
  <2> QED BY <1>3, DropIdsFields
<1>7. ASSUME NEW v \in Workers \ {w}, job[v].pc \in {"send", "stamp"}, NEW r \in job'[v].ids
      PROVE  r \in job[v].ids /\ r \in Reviews /\ ~Reapable(r, job[w].sweepAt)
  BY <1>4, <1>6, <1>7
<1>8. \A r \in Reviews :
        record'[r] = IF /\ Reapable(r, job[w].sweepAt)
                        /\ mail[r] # Null /\ record[r] = "kept"
                     THEN "gone" ELSE record[r]
  BY <1>1
<1> QED BY <1>1, <1>3, <1>5, <1>6, <1>7, <1>8

\* A worker's step is its own.
LEMMA OthersStand ==
  ASSUME TypeOK, NEW w \in Workers,
         \/ SyncReadPrevious(w)
         \/ \E s \in Reviews : SyncUpsert(w, s)
         \/ RemindSelect(w) \/ RemindSend(w) \/ RemindStamp(w)
  PROVE  \A v \in Workers \ {w} : job'[v] = job[v]
<1>1. \E next : job' = [job EXCEPT ![w] = next]
  BY DEF SyncReadPrevious, SyncUpsert, RemindSelect, RemindSend,
         RemindStamp, Becomes
<1> QED BY <1>1 DEF TypeOK

\* What a reminder selects is watched and due by its row.
LEMMA SelectReads ==
  ASSUME TypeOK, NEW w \in Workers, RemindSelect(w)
  PROVE  /\ UNCHANGED <<now, user, row, mail, owed, record>>
         /\ job[w].pc = "select" /\ job'[w].pc = "send"
         /\ \A r \in Reviews : job'[w].about[r] # Null =>
              job'[w].about[r] = row[r].last /\ Eligible(r, job[w].threshold)
         /\ \A r \in job'[w].ids : r \in Reviews /\ job'[w].about[r] # Null
<1> USE DEF TypeOK
<1>1. PICK batch \in SUBSET {r \in Reviews : Eligible(r, job[w].threshold)} :
        Becomes(w, [pc |-> "send", ids |-> batch,
                    about |-> [r \in Reviews |->
                      IF r \in batch THEN row[r].last ELSE Null]])
  BY DEF RemindSelect
<1>2. /\ job'[w].pc = "send" /\ job'[w].ids = batch
      /\ job'[w].about = [r \in Reviews |-> IF r \in batch THEN row[r].last ELSE Null]
  BY <1>1 DEF Becomes
<1>3. \A r \in batch : row[r].last # Null
  <2> SUFFICES ASSUME NEW r \in batch PROVE row[r].last # Null
    OBVIOUS
  <2>1. row[r] \in Row
    BY DEF Eligible, Tracked
  <2> QED BY <2>1, NullAssumption DEF Row
<1>4. job[w].pc = "select" /\ UNCHANGED <<now, user, row, mail, owed, record>>
  BY DEF RemindSelect, github, history
<1> QED BY <1>2, <1>3, <1>4

\* What an email changes.
LEMMA SendWrites ==
  ASSUME TypeOK, NEW w \in Workers, RemindSend(w)
  PROVE  /\ UNCHANGED <<now, user, row>>
         /\ job[w].pc = "send" /\ job'[w].pc = "stamp" /\ job'[w].ids = job[w].ids
         /\ \A r \in Reviews : job[w].about[r] # Null =>
              /\ r \in owed' /\ mail'[r] \in Mail
              /\ mail'[r].at = now /\ mail'[r].about = job[w].about[r]
         /\ \A r \in Reviews : job[w].about[r] = Null =>
              (r \in owed' <=> r \in owed) /\ mail'[r] = mail[r]
         /\ record' = [r \in Reviews |->
                         IF job[w].about[r] # Null THEN "kept" ELSE record[r]]
<1> USE DEF TypeOK
<1>1. /\ UNCHANGED <<now, user, row>>
      /\ job[w].pc = "send" /\ job'[w].pc = "stamp" /\ job'[w].ids = job[w].ids
  BY DEF RemindSend, Becomes, github
<1>2. ASSUME NEW r \in Reviews, job[w].about[r] # Null
      PROVE  /\ r \in owed' /\ mail'[r] \in Mail
             /\ mail'[r].at = now /\ mail'[r].about = job[w].about[r]
  <2>1. r \in owed' /\ mail'[r] = [at |-> now, about |-> job[w].about[r]]
    BY <1>2 DEF RemindSend, Selected
  <2>2. job[w].about[r] \in Time
    <3>1. job[w] \in SendJob
      BY <1>1, JobByPc
    <3> QED BY <1>2, <3>1 DEF SendJob
  <2> QED BY <2>1, <2>2 DEF Mail
<1>3. ASSUME NEW r \in Reviews, job[w].about[r] = Null
      PROVE  (r \in owed' <=> r \in owed) /\ mail'[r] = mail[r]
  BY <1>3 DEF RemindSend, Selected
<1>4. record' = [r \in Reviews |->
                   IF job[w].about[r] # Null THEN "kept" ELSE record[r]]
  BY DEF RemindSend, Selected
<1> QED BY <1>1, <1>2, <1>3, <1>4

\* What a stamp changes: the rows it was selected for, which all exist.
LEMMA StampWrites ==
  ASSUME TypeOK, NEW w \in Workers, RemindStamp(w)
  PROVE  /\ UNCHANGED <<now, user, mail, record>>
         /\ job[w].pc = "stamp" /\ job'[w].pc = "idle"
         /\ owed' = owed \ job[w].ids
         /\ \A r \in Reviews :
              /\ Tracked(r)' <=> Tracked(r)
              /\ Tracked(r) =>
                   /\ row'[r].last = row[r].last /\ row'[r].seen = row[r].seen
                   /\ row'[r].backlog = row[r].backlog
                   /\ row'[r].notified = IF r \in job[w].ids THEN now ELSE row[r].notified
<1> USE DEF TypeOK
<1>1. /\ UNCHANGED <<now, user, mail, record>> /\ owed' = owed \ job[w].ids
      /\ job[w].pc = "stamp" /\ job'[w].pc = "idle"
  BY DEF RemindStamp, Becomes, github, Idle
<1>2. ASSUME NEW r \in Reviews
      PROVE  /\ Tracked(r)' <=> Tracked(r)
             /\ Tracked(r) =>
                  /\ row'[r].last = row[r].last /\ row'[r].seen = row[r].seen
                  /\ row'[r].backlog = row[r].backlog
                  /\ row'[r].notified = IF r \in job[w].ids THEN now ELSE row[r].notified
  <2>1. CASE r \in job[w].ids /\ Tracked(r)
    <3>1. row'[r] = [row[r] EXCEPT !.notified = now] /\ row[r] \in Row
      BY <2>1 DEF RemindStamp, Tracked
    <3>2. row'[r] \in Row
      BY <3>1 DEF Row
    <3> QED BY <2>1, <3>1, <3>2, NullAssumption DEF Row, Tracked
  <2>2. CASE ~(r \in job[w].ids /\ Tracked(r))
    BY <2>2 DEF RemindStamp, Tracked
  <2> QED BY <2>1, <2>2
<1> QED BY <1>1, <1>2

\* A worker gets from its selection to the stamp only by an email.
LEMMA StampStarts ==
  ASSUME TypeOK, [Next]_vars, NEW w \in Workers, job[w].pc = "send",
         job'[w].pc = "stamp"
  PROVE  RemindSend(w)
<1>1. ~Quiet
  BY QuietWrites
<1>2. ~Disconnect
  BY DropIdsFields DEF Disconnect
<1>3. ASSUME NEW v \in Workers, v # w,
             \/ \E s \in Reviews : SyncUpsert(v, s)
             \/ SyncReap(v) \/ RemindSelect(v) \/ RemindSend(v) \/ RemindStamp(v)
      PROVE  FALSE
  BY <1>3, OthersStand, ReapWrites
<1>4. \/ \E s \in Reviews : SyncUpsert(w, s)
      \/ SyncReap(w) \/ RemindSelect(w) \/ RemindSend(w) \/ RemindStamp(w)
  BY <1>1, <1>2, <1>3, StepKinds
<1> QED BY <1>4 DEF SyncUpsert, SyncReap, RemindSelect, RemindStamp

-----------------------------------------------------------------------------
(* Any number of jobs: emails come late *)

\* What is due has had no comment for the threshold, which is at least 1.
LEMMA DueIsOld ==
  ASSUME TypeOK, NEW w \in Workers, job[w].pc = "select",
         NEW r \in Reviews, Eligible(r, job[w].threshold)
  PROVE  row[r].last < now
<1>1. now - row[r].last > job[w].threshold /\ Tracked(r)
  BY DEF Eligible
<1>2. job[w].threshold \in Int /\ job[w].threshold >= 1
  <2>1. job[w] \in SelectJob
    BY JobByPc DEF TypeOK
  <2>2. job[w].threshold \in Thresholds
    BY <2>1 DEF SelectJob
  <2>3. \A h \in Thresholds : h \in Int /\ h >= 1
    BY ThresholdAssumption DEF Thresholds
  <2> QED BY <2>2, <2>3
<1> QED BY <1>1, <1>2, RowTimes

\* Where emails stay as they are and no email is chosen, they stay late.
LEMMA LateStays ==
  ASSUME TypeOK, MailIsLate, now' \in Int, now' >= now, UNCHANGED mail, owed' \in SUBSET owed,
         \A w \in Workers : \/ job'[w].pc # "send"
                            \/ job[w].pc = "send" /\ job'[w].about = job[w].about
  PROVE  MailIsLate'
<1> SUFFICES ASSUME NEW r \in Reviews
             PROVE  /\ mail[r] # Null => mail[r].about < mail[r].at /\ mail[r].at <= now'
                    /\ r \in owed' => mail[r] \in Mail
                    /\ \A w \in Workers : job'[w].pc = "send" /\ job'[w].about[r] # Null =>
                         job'[w].about[r] < now'
  BY DEF MailIsLate
<1>1. mail[r] # Null => mail[r].about < mail[r].at /\ mail[r].at <= now'
  BY RowTimes DEF MailIsLate
<1>2. ASSUME NEW w \in Workers, job'[w].pc = "send", job'[w].about[r] # Null
      PROVE  job'[w].about[r] < now'
  BY <1>2, RowTimes, JobTimes DEF MailIsLate
<1> QED BY <1>1, <1>2 DEF MailIsLate

LEMMA NextMailIsLate ==
  ASSUME TypeOK, MailIsLate, [Next]_vars PROVE MailIsLate'
<1>c. now' \in Int /\ now' >= now
  BY ClockAdvances
<1>1. CASE Quiet
  BY <1>c, <1>1, QuietWrites, LateStays
<1>2. CASE Disconnect
  <2>1. mail' = mail /\ owed' = owed /\ job' = DropIds(Reviews)
    BY <1>2 DEF Disconnect
  <2> QED BY <1>c, <2>1, DropIdsFields, LateStays
<1>3. ASSUME NEW w \in Workers, NEW s \in Reviews, SyncUpsert(w, s) PROVE MailIsLate'
  <2>1. mail' = mail /\ owed' = owed /\ job'[w].pc = "upsert"
    BY <1>3, UpsertWrites
  <2>2. \A v \in Workers \ {w} : job'[v] = job[v]
    BY <1>3, OthersStand
  <2> QED BY <1>c, <2>1, <2>2, LateStays
<1>4. ASSUME NEW w \in Workers, SyncReap(w) PROVE MailIsLate'
  <2>1. mail' = mail /\ owed' = owed /\ job'[w].pc # "send"
    BY <1>4, ReapWrites DEF Idle
  <2>2. \A v \in Workers \ {w} : /\ job'[v].pc = job[v].pc
                                 /\ job[v].pc = "send" => job'[v].about = job[v].about
    BY <1>4, ReapWrites
  <2> QED BY <1>c, <2>1, <2>2, LateStays
<1>5. ASSUME NEW w \in Workers, RemindSelect(w) PROVE MailIsLate'
  <2>1. /\ UNCHANGED <<now, row, mail, owed>> /\ job[w].pc = "select"
        /\ \A r \in Reviews : job'[w].about[r] # Null =>
             job'[w].about[r] = row[r].last /\ Eligible(r, job[w].threshold)
    BY <1>5, SelectReads
  <2>2. \A v \in Workers \ {w} : job'[v] = job[v]
    BY <1>5, OthersStand
  <2>3. \A r \in Reviews : job'[w].about[r] # Null => job'[w].about[r] < now
    BY <2>1, DueIsOld
  <2> QED BY <2>1, <2>2, <2>3 DEF MailIsLate
<1>6. ASSUME NEW w \in Workers, RemindSend(w) PROVE MailIsLate'
  <2>1. /\ now' = now /\ job[w].pc = "send" /\ job'[w].pc = "stamp"
        /\ \A r \in Reviews : job[w].about[r] # Null =>
              /\ r \in owed' /\ mail'[r] \in Mail
              /\ mail'[r].at = now /\ mail'[r].about = job[w].about[r]
        /\ \A r \in Reviews : job[w].about[r] = Null =>
              (r \in owed' <=> r \in owed) /\ mail'[r] = mail[r]
    BY <1>6, SendWrites
  <2>2. \A v \in Workers \ {w} : job'[v] = job[v]
    BY <1>6, OthersStand
  <2>3. now \in Int
    BY DEF TypeOK, Time
  <2> QED BY <2>1, <2>2, <2>3 DEF MailIsLate
<1>7. ASSUME NEW w \in Workers, RemindStamp(w) PROVE MailIsLate'
  <2>1. mail' = mail /\ owed' \in SUBSET owed /\ job'[w].pc = "idle"
    BY <1>7, StampWrites
  <2>2. \A v \in Workers \ {w} : job'[v] = job[v]
    BY <1>7, OthersStand
  <2> QED BY <1>c, <2>1, <2>2, LateStays
<1> QED BY <1>1, <1>2, <1>3, <1>4, <1>5, <1>6, <1>7, StepKinds

\* A reminder keeps what it holds where its ids and their rows stay.
LEMMA HoldsStay ==
  ASSUME HoldsRows, mail' = mail,
         \A v \in Workers : job'[v].pc \in {"send", "stamp"} =>
           /\ job'[v].pc = job[v].pc
           /\ job[v].pc = "send" => job'[v].about = job[v].about
           /\ \A r \in job'[v].ids : r \in job[v].ids /\ (Tracked(r) => Tracked(r)')
  PROVE  HoldsRows'
BY DEF HoldsRows

LEMMA NextHoldsRows ==
  ASSUME TypeOK, HoldsRows, [Next]_vars PROVE HoldsRows'
<1>i. \A v \in Workers : job[v].pc \in {"send", "stamp"} => job[v].ids \in SUBSET Reviews
  BY JobTimes
<1>1. CASE Quiet
  <2>1. mail' = mail /\ \A r \in Reviews : Tracked(r)' <=> Tracked(r)
    BY <1>1, QuietWrites DEF SameRow
  <2>2. \A v \in Workers : job'[v].pc \in {"send", "stamp"} => job'[v] = job[v]
    BY <1>1, QuietWrites
  <2> QED BY <1>i, <2>1, <2>2, HoldsStay
<1>2. CASE Disconnect
  <2>1. mail' = mail /\ job' = DropIds(Reviews)
    BY <1>2 DEF Disconnect
  <2>2. \A v \in Workers : job'[v].pc \in {"send", "stamp"} =>
          /\ job'[v].pc = job[v].pc /\ job'[v].ids = {}
          /\ job[v].pc = "send" => job'[v].about = job[v].about
    BY <1>i, <2>1, DropIdsFields
  <2> QED BY <2>1, <2>2, HoldsStay
<1>3. ASSUME NEW w \in Workers, NEW s \in Reviews, SyncUpsert(w, s) PROVE HoldsRows'
  <2>1. /\ mail' = mail /\ job'[w].pc = "upsert"
        /\ \A r \in Reviews : Tracked(r) => Tracked(r)'
    BY <1>3, UpsertWrites DEF Tracked
  <2>2. \A v \in Workers \ {w} : job'[v] = job[v]
    BY <1>3, OthersStand
  <2> QED BY <1>i, <2>1, <2>2, HoldsStay
<1>4. ASSUME NEW w \in Workers, SyncReap(w) PROVE HoldsRows'
  <2>1. mail' = mail /\ job'[w].pc = "idle"
    BY <1>4, ReapWrites DEF Idle
  <2>2. \A r \in Reviews : ~Reapable(r, job[w].sweepAt) => row'[r] = row[r]
    BY <1>4, ReapWrites
  <2>3. \A v \in Workers \ {w} :
          /\ job'[v].pc = job[v].pc
          /\ job[v].pc = "send" => job'[v].about = job[v].about
          /\ job[v].pc \in {"send", "stamp"} => \A r \in job'[v].ids :
               r \in job[v].ids /\ r \in Reviews /\ ~Reapable(r, job[w].sweepAt)
    BY <1>4, ReapWrites
  <2> QED BY <2>1, <2>2, <2>3, HoldsStay DEF Tracked
<1>5. ASSUME NEW w \in Workers, RemindSelect(w) PROVE HoldsRows'
  <2>1. /\ row' = row /\ mail' = mail /\ job'[w].pc = "send"
        /\ \A r \in Reviews : job'[w].about[r] # Null => Eligible(r, job[w].threshold)
        /\ \A r \in job'[w].ids : r \in Reviews /\ job'[w].about[r] # Null
    BY <1>5, SelectReads
  <2>2. \A v \in Workers \ {w} : job'[v] = job[v]
    BY <1>5, OthersStand
  <2>3. \A r \in job'[w].ids : Tracked(r)
    BY <2>1 DEF Eligible
  <2> QED BY <2>1, <2>2, <2>3 DEF HoldsRows, Tracked
<1>6. ASSUME NEW w \in Workers, RemindSend(w) PROVE HoldsRows'
  <2>1. /\ row' = row /\ job[w].pc = "send" /\ job'[w].pc = "stamp"
        /\ job'[w].ids = job[w].ids
        /\ \A r \in Reviews : job[w].about[r] # Null => mail'[r] \in Mail
        /\ \A r \in Reviews : job[w].about[r] = Null => mail'[r] = mail[r]
    BY <1>6, SendWrites
  <2>2. \A v \in Workers \ {w} : job'[v] = job[v]
    BY <1>6, OthersStand
  <2>3. \A r \in job[w].ids : r \in Reviews /\ Tracked(r) /\ job[w].about[r] # Null
    BY <1>i, <2>1 DEF HoldsRows
  <2>4. \A r \in Reviews : mail[r] # Null => mail'[r] # Null
    BY <2>1, NullAssumption
  <2>5. \A r \in job[w].ids : mail'[r] # Null
    BY <2>1, <2>3, NullAssumption
  <2>6. ASSUME NEW v \in Workers \ {w}, job'[v].pc = "stamp", NEW r \in job'[v].ids
        PROVE  mail'[r] # Null
    BY <1>i, <2>2, <2>4, <2>6 DEF HoldsRows
  <2> QED BY <2>1, <2>2, <2>3, <2>5, <2>6 DEF HoldsRows, Tracked
<1>7. ASSUME NEW w \in Workers, RemindStamp(w) PROVE HoldsRows'
  <2>1. /\ mail' = mail /\ job'[w].pc = "idle"
        /\ \A r \in Reviews : Tracked(r)' <=> Tracked(r)
    BY <1>7, StampWrites
  <2>2. \A v \in Workers \ {w} : job'[v] = job[v]
    BY <1>7, OthersStand
  <2> QED BY <1>i, <2>1, <2>2, HoldsStay
<1> QED BY <1>1, <1>2, <1>3, <1>4, <1>5, <1>6, <1>7, StepKinds

\* The record of an email is lost with its row, and a new email makes it owed
\* until the stamp.
LEMMA NextMailIsRecorded ==
  ASSUME AnyInv, [Next]_vars PROVE MailIsRecorded'
<1> USE DEF AnyInv
<1>k. ASSUME user' # Null => user # Null, UNCHANGED <<mail, owed>>,
             \A r \in Reviews : record'[r] = "kept" =>
               /\ record[r] = "kept"
               /\ mail[r] # Null /\ Tracked(r) =>
                    Tracked(r)' /\ row'[r].notified = row[r].notified
      PROVE  MailIsRecorded'
  BY <1>k DEF MailIsRecorded
<1>1. CASE Quiet
  <2>1. /\ user' # Null => user # Null
        /\ UNCHANGED <<mail, owed, record>>
        /\ \A r \in Reviews : SameRow(r)
    BY <1>1, QuietWrites
  <2> QED BY <1>k, <2>1 DEF SameRow
<1>2. CASE Disconnect
  BY <1>2 DEF Disconnect, MailIsRecorded
<1>3. ASSUME NEW w \in Workers, NEW s \in Reviews, SyncUpsert(w, s)
      PROVE  MailIsRecorded'
  <2>1. /\ UNCHANGED <<user, mail, owed>>
        /\ \A r \in Reviews : \/ record'[r] = record[r]
                              \/ record[r] = "gone" /\ record'[r] = "anew"
        /\ \A r \in Reviews \ {s} : row'[r] = row[r]
        /\ Tracked(s)' /\ row'[s].notified = IF Tracked(s) THEN row[s].notified ELSE Null
    BY <1>3, UpsertWrites
  <2> QED BY <1>k, <2>1 DEF Tracked
<1>4. ASSUME NEW w \in Workers, SyncReap(w) PROVE MailIsRecorded'
  <2>1. /\ UNCHANGED <<user, mail, owed>>
        /\ \A r \in Reviews :
             IF Reapable(r, job[w].sweepAt) THEN ~Tracked(r)' ELSE row'[r] = row[r]
        /\ \A r \in Reviews :
             record'[r] = IF /\ Reapable(r, job[w].sweepAt)
                             /\ mail[r] # Null /\ record[r] = "kept"
                          THEN "gone" ELSE record[r]
    BY <1>4, ReapWrites
  <2> QED BY <1>k, <2>1 DEF Tracked
<1>5. ASSUME NEW w \in Workers, RemindSelect(w) PROVE MailIsRecorded'
  <2>1. UNCHANGED <<user, row, mail, owed, record>>
    BY <1>5, SelectReads
  <2> QED BY <1>k, <2>1 DEF Tracked
<1>6. ASSUME NEW w \in Workers, RemindSend(w) PROVE MailIsRecorded'
  <2>1. /\ UNCHANGED <<user, row>>
        /\ \A r \in Reviews : job[w].about[r] # Null => r \in owed'
        /\ \A r \in Reviews : job[w].about[r] = Null =>
             (r \in owed' <=> r \in owed) /\ mail'[r] = mail[r]
        /\ record' = [r \in Reviews |->
                        IF job[w].about[r] # Null THEN "kept" ELSE record[r]]
    BY <1>6, SendWrites
  <2> QED BY <2>1 DEF MailIsRecorded, Tracked
<1>7. ASSUME NEW w \in Workers, RemindStamp(w) PROVE MailIsRecorded'
  <2>1. /\ UNCHANGED <<now, user, mail, record>> /\ job[w].pc = "stamp"
        /\ owed' = owed \ job[w].ids
        /\ \A r \in Reviews :
             /\ Tracked(r)' <=> Tracked(r)
             /\ Tracked(r) => row'[r].notified = IF r \in job[w].ids THEN now
                                                ELSE row[r].notified
    BY <1>7, StampWrites
  <2> SUFFICES ASSUME user # Null, NEW r \in Reviews, mail[r] # Null,
                      r \notin owed \ job[w].ids, record[r] = "kept"
               PROVE  /\ Tracked(r)' /\ row'[r].notified # Null
                      /\ mail[r].at <= row'[r].notified
    BY <2>1 DEF MailIsRecorded
  <2>2. CASE r \in job[w].ids
    <3>1. Tracked(r) /\ row'[r].notified = now
      BY <2>1, <2>2 DEF HoldsRows
    <3>2. now # Null
      BY NullAssumption DEF TypeOK
    <3> QED BY <2>1, <3>1, <3>2 DEF MailIsLate
  <2>3. CASE r \notin job[w].ids
    BY <2>1, <2>3 DEF MailIsRecorded
  <2> QED BY <2>2, <2>3
<1> QED BY <1>1, <1>2, <1>3, <1>4, <1>5, <1>6, <1>7, StepKinds

LEMMA InitAny == Init => AnyInv
<1>1. Init => MailIsLate /\ HoldsRows /\ MailIsRecorded
  BY DEF Init, MailIsLate, HoldsRows, MailIsRecorded, Idle
<1> QED BY <1>1, InitTypeOK, InitSafety DEF AnyInv, SafetyInv

LEMMA NextAny == ASSUME AnyInv, [Next]_vars PROVE AnyInv'
BY NextTypeOK, NextNoOrphans, NextMailIsLate, NextHoldsRows, NextMailIsRecorded
   DEF AnyInv

LEMMA AnyInvariant == Spec => []AnyInv
<1>1. AnyInv /\ [Next]_vars => AnyInv'
  BY NextAny
<1> QED BY <1>1, InitAny, PTL DEF Spec

\* A row's reminder changes only by a stamp, for a row that was selected.
LEMMA StampedOnly ==
  ASSUME AnyInv, [Next]_vars, NEW r \in Reviews, Tracked(r), Tracked(r)',
         row'[r].notified # row[r].notified
  PROVE  \E w \in Workers : job[w].pc = "stamp" /\ r \in job[w].ids /\ row'[r].notified = now
<1> USE DEF AnyInv
<1>1. row' # row
  OBVIOUS
<1>2. ~Quiet
  BY QuietWrites DEF SameRow
<1>3. ~Disconnect
  BY DEF Disconnect, Tracked
<1>4. ASSUME NEW w \in Workers, NEW s \in Reviews, SyncUpsert(w, s) PROVE FALSE
  BY <1>4, UpsertWrites
<1>5. ASSUME NEW w \in Workers, SyncReap(w) PROVE FALSE
  BY <1>5, ReapWrites
<1>6. ASSUME NEW w \in Workers, RemindSelect(w) \/ RemindSend(w) PROVE FALSE
  BY <1>1, <1>6 DEF RemindSelect, RemindSend
<1>7. PICK w \in Workers : RemindStamp(w)
  BY <1>2, <1>3, <1>4, <1>5, <1>6, StepKinds
<1> QED BY <1>7, StampWrites

\* However many jobs overlap, no reminder is recorded for a review that no
\* email has been about, nor for a moment before the last of them (jobs.rs
\* SendReminder::run, mailer.send before the UPDATE).
StampHasMail == [][\A r \in Reviews :
  Tracked(r) /\ Tracked(r)' /\ row'[r].notified # row[r].notified
    => mail[r] # Null /\ row'[r].notified >= mail[r].at]_vars

THEOREM StampHasMailHolds == Spec => StampHasMail
<1>1. ASSUME AnyInv, [Next]_vars, NEW r \in Reviews, Tracked(r), Tracked(r)',
             row'[r].notified # row[r].notified
      PROVE  mail[r] # Null /\ row'[r].notified >= mail[r].at
  <2>1. PICK w \in Workers :
          job[w].pc = "stamp" /\ r \in job[w].ids /\ row'[r].notified = now
    BY <1>1, StampedOnly
  <2>2. mail[r] # Null
    BY <1>1, <2>1 DEF AnyInv, HoldsRows
  <2> QED BY <1>1, <2>1, <2>2, RowTimes DEF AnyInv, MailIsLate
<1>2. AnyInv /\ [Next]_vars => [\A r \in Reviews :
        Tracked(r) /\ Tracked(r)' /\ row'[r].notified # row[r].notified
          => mail[r] # Null /\ row'[r].notified >= mail[r].at]_vars
  BY <1>1
<1> QED BY <1>2, AnyInvariant, PTL DEF Spec, StampHasMail

-----------------------------------------------------------------------------
(* Syncs that do not overlap *)

\* A sync that waits to write goes on unless it ends, and the rows with it.
LEMMA NextSyncKnows ==
  ASSUME OneSync, TypeOK, SyncKnows, [Next]_vars PROVE SyncKnows'
<1>1. ASSUME \A v \in Workers : job'[v].pc = "upsert" => job'[v] = job[v],
             \A r \in Reviews : \/ ~Tracked(r)'
                                \/ /\ Tracked(r) /\ row'[r].seen = row[r].seen
                                   /\ row'[r].backlog = row[r].backlog
      PROVE  SyncKnows'
  BY <1>1 DEF SyncKnows
<1>2. CASE Quiet /\ \A w \in Workers : ~SyncReadPrevious(w)
  BY <1>1, <1>2, QuietWrites, QuietSyncs DEF SameRow
<1>3. ASSUME NEW w \in Workers, SyncReadPrevious(w) PROVE SyncKnows'
  <2>1. /\ row' = row /\ job[w].pc = "previous" /\ job'[w].todo = job'[w].found
        /\ job'[w].prev = [r \in Reviews |-> Prior(r)]
    BY <1>3 DEF SyncReadPrevious, Becomes, TypeOK
  <2>2. \A v \in Workers \ {w} : job'[v] = job[v]
    BY <1>3, OthersStand
  <2>3. \A v \in Workers \ {w} : job'[v].pc # "upsert"
    BY <2>1, <2>2 DEF OneSync, Syncs
  <2> QED BY <2>1, <2>3 DEF SyncKnows, Tracked, Prior
<1>4. CASE Disconnect
  <2>1. job' = DropIds(Reviews) /\ \A r \in Reviews : ~Tracked(r)'
    BY <1>4 DEF Disconnect, Tracked
  <2>2. \A v \in Workers : job'[v].pc = "upsert" => job'[v] = job[v]
    BY <2>1, DropIdsFields
  <2> QED BY <1>1, <2>1, <2>2
<1>5. ASSUME NEW w \in Workers, NEW s \in Reviews, SyncUpsert(w, s) PROVE SyncKnows'
  <2>1. /\ job[w].pc = "upsert" /\ s \in job[w].todo
        /\ job'[w].pc = "upsert" /\ job'[w].todo = job[w].todo \ {s}
        /\ job'[w].found = job[w].found
        /\ job'[w].prev = job[w].prev /\ job'[w].sweepAt = job[w].sweepAt
        /\ \A r \in Reviews \ {s} : row'[r] = row[r]
        /\ row'[s].seen = job[w].sweepAt
    BY <1>5, UpsertWrites
  <2>2. \A v \in Workers \ {w} : job'[v].pc # "upsert"
    <3>1. \A v \in Workers \ {w} : job'[v] = job[v]
      BY <1>5, OthersStand
    <3> QED BY <2>1, <3>1 DEF OneSync, Syncs
  <2> QED BY <2>1, <2>2 DEF SyncKnows, Tracked
<1>6. ASSUME NEW w \in Workers, SyncReap(w) PROVE SyncKnows'
  <2>1. /\ job[w].pc = "upsert" /\ job'[w].pc = "idle"
        /\ \A v \in Workers \ {w} : job'[v].pc = job[v].pc
    BY <1>6, ReapWrites DEF Idle
  <2>2. \A v \in Workers : job'[v].pc # "upsert"
    BY <2>1 DEF OneSync, Syncs
  <2> QED BY <2>2 DEF SyncKnows
<1>7. ASSUME NEW w \in Workers, RemindSelect(w) \/ RemindSend(w) PROVE SyncKnows'
  <2>1. row' = row /\ job'[w].pc \in {"send", "stamp"}
    BY <1>7, SelectReads, SendWrites
  <2>2. \A v \in Workers \ {w} : job'[v] = job[v]
    BY <1>7, OthersStand
  <2> QED BY <1>1, <2>1, <2>2 DEF Tracked
<1>8. ASSUME NEW w \in Workers, RemindStamp(w) PROVE SyncKnows'
  <2>1. job'[w].pc = "idle" /\ \A v \in Workers \ {w} : job'[v] = job[v]
    BY <1>8, StampWrites, OthersStand
  <2>2. \A r \in Reviews : /\ Tracked(r)' <=> Tracked(r)
                           /\ Tracked(r) => /\ row'[r].seen = row[r].seen
                                            /\ row'[r].backlog = row[r].backlog
    BY <1>8, StampWrites
  <2> QED BY <1>1, <2>1, <2>2
<1> QED BY <1>2, <1>3, <1>4, <1>5, <1>6, <1>7, <1>8, StepKinds

\* After the reap of a row the sync is over, and the next one finds no row to
\* call watched.
LEMMA NextGoneIsUnwatched ==
  ASSUME OneSync, TypeOK, GoneIsUnwatched, [Next]_vars PROVE GoneIsUnwatched'
<1>k. ASSUME NEW s \in Reviews, record[s] = "gone", ~Tracked(s)' \/ SameRow(s),
             \A v \in Workers : job'[v].pc = "upsert" =>
               job'[v] = job[v] \/ SyncReadPrevious(v)
      PROVE  /\ Tracked(s)' => row'[s].backlog
             /\ \A v \in Workers : job'[v].pc = "upsert" /\ s \in job'[v].todo =>
                  job'[v].prev[s] # "watched"
  <2>1. Tracked(s)' => row'[s].backlog
    BY <1>k DEF GoneIsUnwatched, SameRow
  <2>2. ASSUME NEW v \in Workers, SyncReadPrevious(v)
        PROVE  job'[v].prev[s] # "watched"
    <3>1. job'[v].prev = [r \in Reviews |-> Prior(r)]
      BY <2>2 DEF SyncReadPrevious, Becomes, TypeOK
    <3> QED BY <1>k, <3>1 DEF GoneIsUnwatched, Prior
  <2> QED BY <1>k, <2>1, <2>2 DEF GoneIsUnwatched
<1>1. CASE Quiet
  <2>1. record' = record /\ \A r \in Reviews : SameRow(r)
    BY <1>1, QuietWrites
  <2>2. \A v \in Workers : job'[v].pc = "upsert" =>
          job'[v] = job[v] \/ SyncReadPrevious(v)
    BY <1>1, QuietSyncs
  <2> QED BY <1>k, <2>1, <2>2 DEF GoneIsUnwatched
<1>2. CASE Disconnect
  <2>1. job' = DropIds(Reviews) /\ record' = record /\ \A r \in Reviews : ~Tracked(r)'
    BY <1>2 DEF Disconnect, Tracked
  <2>2. \A v \in Workers : job'[v].pc = "upsert" => job'[v] = job[v]
    BY <2>1, DropIdsFields
  <2> QED BY <1>k, <2>1, <2>2 DEF GoneIsUnwatched
<1>3. ASSUME NEW w \in Workers, NEW s \in Reviews, SyncUpsert(w, s)
      PROVE  GoneIsUnwatched'
  <2>1. /\ job[w].pc = "upsert" /\ s \in job[w].todo
        /\ job'[w].pc = "upsert" /\ job'[w].todo = job[w].todo \ {s}
        /\ job'[w].prev = job[w].prev
        /\ \A r \in Reviews \ {s} : row'[r] = row[r]
        /\ row'[s].backlog =
             ResolveBacklog(job[w].prev[s],
                            IsStale(job[w].last[s], job[w].threshold, job[w].sweepAt))
        /\ \A r \in Reviews : \/ record'[r] = record[r]
                              \/ record[r] = "gone" /\ record'[r] = "anew"
        /\ record'[s] = "gone" =>
             IsStale(job[w].last[s], job[w].threshold, job[w].sweepAt)
    BY <1>3, UpsertWrites
  <2>2. \A v \in Workers \ {w} : job'[v].pc # "upsert"
    <3>1. \A v \in Workers \ {w} : job'[v] = job[v]
      BY <1>3, OthersStand
    <3> QED BY <2>1, <3>1 DEF OneSync, Syncs
  <2>3. ASSUME record'[s] = "gone" PROVE row'[s].backlog
    <3>1. record[s] = "gone"
      BY <2>1, <2>3
    <3>2. job[w].prev[s] \in {"new", "backlog"}
      <4>1. job[w] \in UpsertJob
        BY <2>1, JobByPc DEF TypeOK
      <4> QED BY <2>1, <3>1, <4>1 DEF GoneIsUnwatched, UpsertJob, PriorState
    <3> QED BY <2>1, <2>3, <3>2 DEF ResolveBacklog
  <2> QED BY <2>1, <2>2, <2>3 DEF GoneIsUnwatched, Tracked
<1>4. ASSUME NEW w \in Workers, SyncReap(w) PROVE GoneIsUnwatched'
  <2>1. /\ job[w].pc = "upsert" /\ job'[w].pc = "idle"
        /\ \A v \in Workers \ {w} : job'[v].pc = job[v].pc
        /\ \A r \in Reviews :
             IF Reapable(r, job[w].sweepAt) THEN ~Tracked(r)' ELSE row'[r] = row[r]
        /\ \A r \in Reviews :
             record'[r] = "gone" => record[r] = "gone" \/ Reapable(r, job[w].sweepAt)
    BY <1>4, ReapWrites DEF Idle
  <2>2. \A v \in Workers : job'[v].pc # "upsert"
    BY <2>1 DEF OneSync, Syncs
  <2> QED BY <2>1, <2>2 DEF GoneIsUnwatched, Tracked
<1>5. ASSUME NEW w \in Workers, RemindSelect(w) \/ RemindSend(w) \/ RemindStamp(w)
      PROVE  GoneIsUnwatched'
  <2>1. /\ job'[w].pc # "upsert" /\ \A v \in Workers \ {w} : job'[v] = job[v]
        /\ \A r \in Reviews : record'[r] = "gone" => record[r] = "gone"
    BY <1>5, SelectReads, SendWrites, StampWrites, OthersStand
  <2>2. \A r \in Reviews : /\ Tracked(r)' <=> Tracked(r)
                           /\ Tracked(r) => row'[r].backlog = row[r].backlog
    BY <1>5, SelectReads, SendWrites, StampWrites DEF Tracked
  <2> QED BY <2>1, <2>2 DEF GoneIsUnwatched
<1> QED BY <1>1, <1>2, <1>3, <1>4, <1>5, StepKinds

LEMMA InitSync == Init => SyncInv
<1>1. Init => SyncKnows /\ GoneIsUnwatched
  BY DEF Init, SyncKnows, GoneIsUnwatched, Idle
<1> QED BY <1>1, InitTypeOK DEF SyncInv

LEMMA NextSync == ASSUME OneSync, SyncInv, [Next]_vars PROVE SyncInv'
BY NextTypeOK, NextSyncKnows, NextGoneIsUnwatched DEF SyncInv

LEMMA SyncInvariant == Spec /\ []OneSync => []SyncInv
<1>1. OneSync /\ SyncInv /\ [Next]_vars => SyncInv'
  BY NextSync
<1> QED BY <1>1, InitSync, PTL DEF Spec

\* A sync deletes only rows of reviews it did not find.
LEMMA ReapsUnseen ==
  ASSUME SyncInv, NEW w \in Workers, SyncReap(w), NEW r \in Reviews
  PROVE  \/ row'[r] = row[r]
         \/ ~Tracked(r)' /\ r \notin job[w].found
<1> USE DEF SyncInv
<1>1. job[w].pc = "upsert" /\ job[w].todo = {}
      /\ IF Reapable(r, job[w].sweepAt) THEN ~Tracked(r)' ELSE row'[r] = row[r]
  BY ReapWrites
<1>2. ASSUME r \in job[w].found, Tracked(r) PROVE ~Reapable(r, job[w].sweepAt)
  <2>1. row[r].seen = job[w].sweepAt
    BY <1>1, <1>2 DEF SyncKnows
  <2>2. job[w].sweepAt \in Int
    BY <1>1, JobTimes
  <2> QED BY <2>1, <2>2 DEF Reapable
<1> QED BY <1>1, <1>2 DEF Reapable

\* As long as no two syncs overlap, a row goes only with its account or in a
\* sweep that did not find the review, whatever reminders are under way
\* (jobs.rs SyncUser::run, the reap).
THEOREM OnlyUnseenReapedHolds == Spec /\ []OneSync => OnlyUnseenReaped
<1> DEFINE Fine == \A r \in Reviews :
             Tracked(r) /\ ~Tracked(r)' =>
               \/ user' = Null
               \/ \E w \in Workers : /\ job[w].pc = "upsert" /\ job'[w] = Idle
                                     /\ r \notin job[w].found
<1>1. ASSUME SyncInv, [Next]_vars PROVE Fine
  <2> USE <1>1 DEF SyncInv
  <2> SUFFICES ASSUME NEW r \in Reviews, Tracked(r), ~Tracked(r)', user' # Null
               PROVE  \E w \in Workers : /\ job[w].pc = "upsert" /\ job'[w] = Idle
                                         /\ r \notin job[w].found
    OBVIOUS
  <2>1. ~Quiet
    BY QuietWrites DEF SameRow
  <2>2. ~Disconnect
    BY DEF Disconnect
  <2>3. ASSUME NEW w \in Workers, NEW s \in Reviews, SyncUpsert(w, s) PROVE FALSE
    BY <2>3, UpsertWrites DEF Tracked
  <2>4. ASSUME NEW w \in Workers, RemindSelect(w) \/ RemindSend(w) PROVE FALSE
    BY <2>4 DEF RemindSelect, RemindSend, Tracked
  <2>5. ASSUME NEW w \in Workers, RemindStamp(w) PROVE FALSE
    BY <2>5, StampWrites
  <2>6. PICK w \in Workers : SyncReap(w)
    BY <1>1, <2>1, <2>2, <2>3, <2>4, <2>5, StepKinds
  <2>7. r \notin job[w].found
    BY <2>6, ReapsUnseen DEF Tracked
  <2>8. job[w].pc = "upsert" /\ job'[w] = Idle
    BY <2>6, ReapWrites
  <2> QED BY <2>7, <2>8
<1>2. SyncInv /\ [Next]_vars => [Fine]_vars
  BY <1>1
<1> QED BY <1>2, SyncInvariant, PTL DEF Spec, OnlyUnseenReaped

\* What a sync writes of a watched review is that it is watched.
LEMMA UpsertWatches ==
  ASSUME SyncInv, NEW w \in Workers, NEW s \in Reviews, SyncUpsert(w, s),
         Tracked(s), ~row[s].backlog
  PROVE  ~row'[s].backlog
<1> USE DEF SyncInv
<1>1. job[w].pc = "upsert" /\ s \in job[w].todo
  BY UpsertWrites
<1>2. job[w].prev[s] = "watched"
  BY <1>1 DEF SyncKnows
<1>3. row'[s].backlog =
        ResolveBacklog(job[w].prev[s],
                       IsStale(job[w].last[s], job[w].threshold, job[w].sweepAt))
  BY UpsertWrites
<1> QED BY <1>2, <1>3 DEF ResolveBacklog

\* As long as no two syncs overlap, a watched review never becomes backlog
\* (discovery.rs resolve_backlog).
THEOREM BacklogOnlyClearsHolds == Spec /\ []OneSync => BacklogOnlyClears
<1> DEFINE Fine == \A r \in Reviews :
             Tracked(r) /\ Tracked(r)' /\ ~row[r].backlog => ~row'[r].backlog
<1>1. ASSUME SyncInv, [Next]_vars PROVE Fine
  <2> USE <1>1 DEF SyncInv
  <2> SUFFICES ASSUME NEW r \in Reviews, Tracked(r), Tracked(r)', ~row[r].backlog
               PROVE  ~row'[r].backlog
    OBVIOUS
  <2>1. CASE Quiet
    BY <2>1, QuietWrites DEF SameRow
  <2>2. CASE Disconnect
    BY <2>2 DEF Disconnect, Tracked
  <2>3. ASSUME NEW w \in Workers, NEW s \in Reviews, SyncUpsert(w, s) PROVE ~row'[r].backlog
    <3>1. CASE s = r
      BY <2>3, <3>1, UpsertWatches
    <3>2. CASE s # r
      BY <2>3, <3>2, UpsertWrites
    <3> QED BY <3>1, <3>2
  <2>4. ASSUME NEW w \in Workers, SyncReap(w) PROVE ~row'[r].backlog
    BY <2>4, ReapsUnseen
  <2>5. ASSUME NEW w \in Workers, RemindSelect(w) \/ RemindSend(w) PROVE ~row'[r].backlog
    BY <2>5 DEF RemindSelect, RemindSend
  <2>6. ASSUME NEW w \in Workers, RemindStamp(w) PROVE ~row'[r].backlog
    BY <2>6, StampWrites
  <2> QED BY <1>1, <2>1, <2>2, <2>3, <2>4, <2>5, <2>6, StepKinds
<1>2. SyncInv /\ [Next]_vars => [Fine]_vars
  BY <1>1
<1> QED BY <1>2, SyncInvariant, PTL DEF Spec, BacklogOnlyClears

-----------------------------------------------------------------------------
(* Reminders that do not overlap *)

LEMMA NextOwesStamps ==
  ASSUME OneReminder, AnyInv, OwesStamps, [Next]_vars PROVE OwesStamps'
<1> USE DEF AnyInv
<1>i. \A v \in Workers : job[v].pc \in {"send", "stamp"} => job[v].ids \in SUBSET Reviews
  BY JobTimes
<1>o. ASSUME owed' = owed, \A v \in Workers : job'[v].pc = "stamp" =>
               job[v].pc = "stamp" /\ \A r \in job'[v].ids : r \in job[v].ids
      PROVE  OwesStamps'
  BY <1>o DEF OwesStamps
<1>1. CASE Quiet
  BY <1>o, <1>1, QuietWrites
<1>2. CASE Disconnect
  <2>1. owed' = owed /\ job' = DropIds(Reviews)
    BY <1>2 DEF Disconnect
  <2> QED BY <1>o, <2>1, DropIdsFields
<1>3. ASSUME NEW w \in Workers, NEW s \in Reviews, SyncUpsert(w, s) PROVE OwesStamps'
  BY <1>o, <1>3, UpsertWrites, OthersStand
<1>4. ASSUME NEW w \in Workers, SyncReap(w) PROVE OwesStamps'
  <2>1. owed' = owed /\ job'[w].pc = "idle"
    BY <1>4, ReapWrites DEF Idle
  <2>2. \A v \in Workers \ {w} :
          /\ job'[v].pc = job[v].pc
          /\ job[v].pc \in {"send", "stamp"} => \A r \in job'[v].ids : r \in job[v].ids
    BY <1>4, ReapWrites
  <2> QED BY <1>o, <2>1, <2>2
<1>5. ASSUME NEW w \in Workers, RemindSelect(w) PROVE OwesStamps'
  BY <1>o, <1>5, SelectReads, OthersStand
<1>6. ASSUME NEW w \in Workers, RemindSend(w) PROVE OwesStamps'
  <2>1. /\ job[w].pc = "send" /\ job'[w].ids = job[w].ids
        /\ \A r \in Reviews : job[w].about[r] # Null => r \in owed'
    BY <1>6, SendWrites
  <2>2. \A v \in Workers \ {w} : job'[v].pc # "stamp"
    BY <1>6, <2>1, OthersStand DEF OneReminder, Reminds
  <2>3. \A r \in job[w].ids : r \in Reviews /\ job[w].about[r] # Null
    BY <1>i, <2>1 DEF HoldsRows
  <2> QED BY <2>1, <2>2, <2>3 DEF OwesStamps
<1>7. ASSUME NEW w \in Workers, RemindStamp(w) PROVE OwesStamps'
  <2>1. job[w].pc = "stamp" /\ job'[w].pc = "idle"
    BY <1>7, StampWrites
  <2>2. \A v \in Workers : job'[v].pc # "stamp"
    BY <1>7, <2>1, OthersStand DEF OneReminder, Reminds
  <2> QED BY <2>2 DEF OwesStamps
<1> QED BY <1>1, <1>2, <1>3, <1>4, <1>5, <1>6, <1>7, StepKinds

LEMMA InitOwesStamps == Init => OwesStamps
BY DEF Init, OwesStamps, Idle

LEMMA ReminderInvariant == Spec /\ []OneReminder => [](AnyInv /\ OwesStamps)
<1>1. OneReminder /\ AnyInv /\ OwesStamps /\ [Next]_vars => OwesStamps'
  BY NextOwesStamps
<1> QED BY <1>1, InitOwesStamps, AnyInvariant, PTL DEF Spec

\* As long as no two reminders overlap, no reminder is recorded that was not
\* sent, whatever syncs are under way (jobs.rs SendReminder::run).
THEOREM StampFollowsMailHolds == Spec /\ []OneReminder => StampFollowsMail
<1> DEFINE Fine == \A r \in Reviews :
             Tracked(r) /\ Tracked(r)' /\ row'[r].notified # row[r].notified
               => r \in owed /\ row'[r].notified >= mail[r].at
<1>1. ASSUME AnyInv, OwesStamps, [Next]_vars PROVE Fine
  <2> SUFFICES ASSUME NEW r \in Reviews, Tracked(r), Tracked(r)',
                      row'[r].notified # row[r].notified
               PROVE  r \in owed /\ row'[r].notified >= mail[r].at
    OBVIOUS
  <2>1. PICK w \in Workers :
          job[w].pc = "stamp" /\ r \in job[w].ids /\ row'[r].notified = now
    BY <1>1, StampedOnly
  <2>2. r \in owed /\ mail[r] # Null
    BY <1>1, <2>1 DEF AnyInv, HoldsRows, OwesStamps
  <2> QED BY <1>1, <2>1, <2>2, RowTimes DEF AnyInv, MailIsLate
<1>2. AnyInv /\ OwesStamps /\ [Next]_vars => [Fine]_vars
  BY <1>1
<1> QED BY <1>2, ReminderInvariant, PTL DEF Spec, StampFollowsMail

-----------------------------------------------------------------------------
(* No two jobs of a kind *)

\* What is due may be emailed about: no email about this comment is recorded
\* in the last window, and a row that was reaped since it was emailed about is
\* watched again only after a sweep found the review fresh.
LEMMA DueMay ==
  ASSUME AnyInv, GoneIsUnwatched, NEW r \in Reviews, NEW threshold,
         Eligible(r, threshold)
  PROVE  \/ mail[r] = Null
         \/ mail[r].about < row[r].last
         \/ now - mail[r].at > DedupWindow
         \/ r \in owed
         \/ record[r] = "anew"
<1> USE DEF AnyInv
<1>1. Tracked(r) /\ ~row[r].backlog
  BY DEF Eligible
<1>2. record[r] \in {"kept", "anew"}
  BY <1>1 DEF GoneIsUnwatched, TypeOK, Fate
<1>3. user # Null
  BY <1>1 DEF NoOrphans
<1> SUFFICES ASSUME mail[r] # Null, r \notin owed, record[r] = "kept"
             PROVE  mail[r].about < row[r].last \/ now - mail[r].at > DedupWindow
  BY <1>2
<1>4. row[r].notified # Null /\ mail[r].at <= row[r].notified
  BY <1>3 DEF MailIsRecorded
<1>5. row[r].notified < row[r].last \/ row[r].notified < now - DedupWindow
  BY <1>4 DEF Eligible
<1>6. mail[r].about < mail[r].at
  BY DEF MailIsLate
<1>7. /\ now \in Int /\ row[r].last \in Int /\ row[r].notified \in Int
      /\ mail[r].at \in Int /\ mail[r].about \in Int
  BY <1>1, <1>4, RowTimes
<1> QED BY <1>4, <1>5, <1>6, <1>7, BoundAssumption

\* What was selected and may be sent may still be sent later, unless another
\* email goes first.
LEMMA ChosenLater ==
  ASSUME AnyInv, ChosenMay, now' \in Int, now' >= now, UNCHANGED <<mail, owed>>,
         \A r \in Reviews : record[r] = "anew" => record'[r] = "anew",
         \A w \in Workers : job'[w].pc = "send" =>
           job[w].pc = "send" /\ job'[w].about = job[w].about
  PROVE  ChosenMay'
<1> USE DEF AnyInv
<1> SUFFICES ASSUME NEW w \in Workers, NEW r \in Reviews,
                    job'[w].pc = "send", job'[w].about[r] # Null
             PROVE  \/ mail[r] = Null \/ mail[r].about < job'[w].about[r]
                    \/ now' - mail[r].at > DedupWindow \/ r \in owed
                    \/ record'[r] = "anew"
  BY DEF ChosenMay
<1>1. job[w].pc = "send" /\ job'[w].about = job[w].about
  OBVIOUS
<1>2. mail[r] # Null => mail[r].at \in Int
  BY RowTimes
<1>3. now \in Int
  BY RowTimes
<1> QED BY <1>1, <1>2, <1>3, BoundAssumption DEF ChosenMay

LEMMA NextChosenMay ==
  ASSUME OneReminder, AnyInv, GoneIsUnwatched, ChosenMay, [Next]_vars
  PROVE  ChosenMay'
<1> USE DEF AnyInv
<1>c. now' \in Int /\ now' >= now
  BY ClockAdvances
<1>1. CASE Quiet
  <2>1. UNCHANGED <<mail, owed, record>>
        /\ \A w \in Workers : job'[w].pc = "send" => job'[w] = job[w]
    BY <1>1, QuietWrites
  <2> QED BY <1>c, <2>1, ChosenLater
<1>2. CASE Disconnect
  <2>1. UNCHANGED <<mail, owed, record>> /\ job' = DropIds(Reviews)
    BY <1>2 DEF Disconnect
  <2> QED BY <1>c, <2>1, DropIdsFields, ChosenLater
<1>3. ASSUME NEW w \in Workers, NEW s \in Reviews, SyncUpsert(w, s) PROVE ChosenMay'
  <2>1. /\ UNCHANGED <<mail, owed>> /\ job'[w].pc = "upsert"
        /\ \A r \in Reviews : record[r] = "anew" => record'[r] = "anew"
    BY <1>3, UpsertWrites
  <2>2. \A v \in Workers \ {w} : job'[v] = job[v]
    BY <1>3, OthersStand
  <2> QED BY <1>c, <2>1, <2>2, ChosenLater
<1>4. ASSUME NEW w \in Workers, SyncReap(w) PROVE ChosenMay'
  <2>1. /\ UNCHANGED <<mail, owed>> /\ job'[w].pc = "idle"
        /\ \A r \in Reviews : record[r] = "anew" => record'[r] = "anew"
        /\ \A v \in Workers \ {w} :
             /\ job'[v].pc = job[v].pc
             /\ job[v].pc = "send" => job'[v].about = job[v].about
    BY <1>4, ReapWrites DEF Idle
  <2> QED BY <1>c, <2>1, ChosenLater
<1>5. ASSUME NEW w \in Workers, RemindSelect(w) PROVE ChosenMay'
  <2>1. /\ UNCHANGED <<now, row, mail, owed, record>> /\ job[w].pc = "select"
        /\ \A r \in Reviews : job'[w].about[r] # Null =>
             job'[w].about[r] = row[r].last /\ Eligible(r, job[w].threshold)
    BY <1>5, SelectReads
  <2>2. \A v \in Workers \ {w} : job'[v].pc # "send"
    BY <1>5, <2>1, OthersStand DEF OneReminder, Reminds
  <2> QED BY <2>1, <2>2, DueMay DEF ChosenMay
<1>6. ASSUME NEW w \in Workers, RemindSend(w) \/ RemindStamp(w) PROVE ChosenMay'
  <2>1. job[w].pc \in {"send", "stamp"} /\ job'[w].pc # "send"
    BY <1>6, SendWrites, StampWrites
  <2>2. \A v \in Workers : job'[v].pc # "send"
    BY <1>6, <2>1, OthersStand DEF OneReminder, Reminds
  <2> QED BY <2>2 DEF ChosenMay
<1> QED BY <1>1, <1>2, <1>3, <1>4, <1>5, <1>6, StepKinds

LEMMA OneInvariant == Spec /\ []OneOfAKind => []OneInv
<1>1. Init => OneInv
  <2>1. Init => ChosenMay
    BY DEF Init, ChosenMay, Idle
  <2> QED BY <2>1, InitAny, InitSync, InitOwesStamps DEF OneInv
<1>2. OneOfAKind /\ OneInv /\ [Next]_vars => OneInv'
  <2> SUFFICES ASSUME OneOfAKind, OneInv, [Next]_vars PROVE OneInv'
    OBVIOUS
  <2>1. AnyInv' /\ OwesStamps'
    BY NextAny, NextOwesStamps DEF OneOfAKind, OneInv
  <2>2. SyncInv'
    BY NextSync DEF OneOfAKind, OneInv
  <2>3. ChosenMay'
    BY NextChosenMay DEF OneOfAKind, OneInv, SyncInv
  <2> QED BY <2>1, <2>2, <2>3 DEF OneInv
<1> QED BY <1>1, <1>2, PTL DEF Spec

\* As long as no two syncs and no two reminders of the user overlap, two emails
\* about the same last comment are more than the dedup window apart, unless the
\* first was never stamped, or its row was reaped and a sweep has found the
\* review fresh since (jobs.rs SyncUser::run and SendReminder::run).
THEOREM NoRepeatHolds == Spec /\ []OneOfAKind => NoRepeat
<1> DEFINE Fine == \A w \in Workers, r \in Reviews :
             /\ Sends(w, r)
             /\ mail[r] # Null /\ mail[r].about = mail'[r].about
             /\ now - mail[r].at <= DedupWindow
             => r \in owed \/ record[r] = "anew"
<1>1. ASSUME OneInv, [Next]_vars PROVE Fine
  <2> USE <1>1 DEF OneInv, AnyInv
  <2> SUFFICES ASSUME NEW w \in Workers, NEW r \in Reviews, Sends(w, r), mail[r] # Null,
                      mail[r].about = mail'[r].about, now - mail[r].at <= DedupWindow
               PROVE  r \in owed \/ record[r] = "anew"
    OBVIOUS
  <2>1. job[w].pc = "send" /\ job'[w].pc = "stamp" /\ job[w].about[r] # Null
    BY DEF Sends, Selected
  <2>2. RemindSend(w)
    BY <1>1, <2>1, StampStarts
  <2>3. mail'[r].about = job[w].about[r]
    BY <2>1, <2>2, SendWrites
  <2>4. now \in Int /\ mail[r].at \in Int /\ mail[r].about \in Int
    BY RowTimes
  <2> QED BY <2>1, <2>3, <2>4, BoundAssumption DEF ChosenMay
<1>2. OneInv /\ [Next]_vars => [Fine]_vars
  BY <1>1
<1> QED BY <1>2, OneInvariant, PTL DEF Spec, NoRepeat

-----------------------------------------------------------------------------
(* The promise of ReminderPromise *)

\* Where one worker alone may be about to send, what is chosen is what it is
\* about to send.
LEMMA ChosenIs ==
  ASSUME NEW w \in Workers
  PROVE  /\ (\A v \in Workers \ {w} : job[v].pc # "send") =>
              Chosen = [r \in Reviews |->
                IF job[w].pc = "send" THEN job[w].about[r] ELSE Null]
         /\ (\A v \in Workers \ {w} : job'[v].pc # "send") =>
              Chosen' = [r \in Reviews |->
                IF job'[w].pc = "send" THEN job'[w].about[r] ELSE Null]
<1>1. ASSUME \A v \in Workers \ {w} : job[v].pc # "send"
      PROVE  Chosen = [r \in Reviews |-> IF job[w].pc = "send" THEN job[w].about[r] ELSE Null]
  <2>1. ASSUME job[w].pc = "send" PROVE (CHOOSE v \in Workers : job[v].pc = "send") = w
    BY <1>1, <2>1
  <2> QED BY <1>1, <2>1 DEF Chosen, Selected
<1>2. ASSUME \A v \in Workers \ {w} : job'[v].pc # "send"
      PROVE  Chosen' = [r \in Reviews |-> IF job'[w].pc = "send" THEN job'[w].about[r] ELSE Null]
  <2>1. ASSUME job'[w].pc = "send" PROVE (CHOOSE v \in Workers : job'[v].pc = "send") = w
    BY <1>2, <2>1
  <2> QED BY <1>2, <2>1 DEF Chosen, Selected
<1> QED BY <1>1, <1>2

\* Where nothing changes of what workers are to send, nothing changes of what
\* is chosen; where they are to send nothing, nothing is chosen.
LEMMA ChosenStays ==
  ASSUME OneReminder
  PROVE  /\ (\A w \in Workers : /\ job'[w].pc = "send" <=> job[w].pc = "send"
                                /\ job[w].pc = "send" => job'[w].about = job[w].about)
              => Chosen' = Chosen
         /\ (\A w \in Workers : job'[w].pc # "send") => Chosen' = Promise!Nobody
<1>1. ASSUME \A w \in Workers : job'[w].pc # "send" PROVE Chosen' = Promise!Nobody
  BY <1>1 DEF Chosen, Promise!Nobody
<1>2. ASSUME \A w \in Workers : /\ job'[w].pc = "send" <=> job[w].pc = "send"
                                /\ job[w].pc = "send" => job'[w].about = job[w].about
      PROVE  Chosen' = Chosen
  <2>1. CASE \E w \in Workers : job[w].pc = "send"
    <3>1. PICK w \in Workers : job[w].pc = "send"
      BY <2>1
    <3>2. \A v \in Workers \ {w} : job[v].pc # "send" /\ job'[v].pc # "send"
      BY <1>2, <3>1 DEF OneReminder, Reminds
    <3> QED BY <1>2, <3>1, <3>2, ChosenIs
  <2>2. CASE ~\E w \in Workers : job[w].pc = "send"
    BY <1>2, <2>2 DEF Chosen
  <2> QED BY <2>1, <2>2
<1> QED BY <1>1, <1>2

\* The phases of the rows that stay as they are.
LEMMA PhasesStay ==
  ASSUME \A r \in Reviews : /\ Tracked(r)' <=> Tracked(r)
                            /\ Tracked(r) => row'[r].backlog = row[r].backlog
  PROVE  Phases' = Phases
BY DEF Phases

LEMMA InitPromise == Init => Promise!Init
<1> SUFFICES ASSUME Init PROVE Promise!Init
  OBVIOUS
<1>1. Phases = [r \in Reviews |-> "unseen"]
  BY DEF Init, Phases, Tracked
<1>2. \A w \in Workers : job[w].pc # "send"
  BY DEF Init, Idle
<1>3. Chosen = Promise!Nobody
  BY <1>2 DEF Chosen, Promise!Nobody
<1>4. now \in Int /\ mail = [r \in Reviews |-> Null] /\ owed = {} /\ Forgotten = {}
  BY DEF Init, Forgotten
<1> QED BY <1>1, <1>3, <1>4 DEF Promise!Init

\* A step in which the clock stands, rows go through the phases they may,
\* nothing more is emailed or chosen, and records go only with rows, records.
LEMMA Records ==
  ASSUME now' = now, mail' = mail, owed' \in SUBSET owed, Chosen' = Chosen,
         \A r \in Reviews :
           /\ Tracked(r)' /\ Tracked(r) /\ ~row[r].backlog => ~row'[r].backlog
           /\ record[r] # "kept" => record'[r] # "kept"
           /\ record[r] = "kept" /\ record'[r] # "kept" => ~Tracked(r)'
  PROVE  Promise!Record
<1>1. Phases' \in [Reviews -> Promise!Phase] /\ Phases \in [Reviews -> Promise!Phase]
  BY DEF Phases, Promise!Phase
<1>2. ASSUME NEW r \in Reviews PROVE Phases'[r] \in Promise!MayBecome[Phases[r]]
  <2>1. CASE Phases[r] = "watched"
    <3>1. Phases'[r] \in {"unseen", "watched"}
      BY <2>1 DEF Phases
    <3> QED BY <2>1, <3>1 DEF Promise!MayBecome
  <2>2. CASE Phases[r] \in {"unseen", "backlog"}
    BY <1>1, <2>2 DEF Promise!MayBecome
  <2> QED BY <1>1, <2>1, <2>2 DEF Promise!Phase
<1>3. Forgotten \subseteq Forgotten'
  BY DEF Forgotten
<1>4. \A r \in Forgotten' \ Forgotten : r \in Reviews /\ Phases'[r] = "unseen"
  BY DEF Forgotten, Phases
<1> QED BY <1>1, <1>2, <1>3, <1>4 DEF Promise!Record

\* Beside the passing of time, a quiet step drops what was to be sent, or does
\* nothing the promise is about.
LEMMA QuietPromise ==
  ASSUME OneReminder, TypeOK, Quiet PROVE [Promise!Next]_(Promise!vars)
<1>1. /\ UNCHANGED <<mail, owed>> /\ Forgotten' = Forgotten
      /\ Phases' = Phases
      /\ \A w \in Workers : job'[w] = job[w] \/ job'[w].pc # "send"
  BY QuietWrites, PhasesStay DEF SameRow, Forgotten
<1>2. now' = now \/ (Tick /\ now' > now /\ now' \in Int)
  <2>1. CASE Tick
    BY <2>1 DEF Tick, TypeOK, Time
  <2>2. CASE ~Tick
    BY <2>2 DEF Quiet, vars, GitHubUser, Comment, Uncomment, Withdraw, Close, Reopen, UnsubscribePause,
                SignInAgain, UpdateSettings, Dismiss, SyncStart, SyncRejected,
                SyncOrphaned, RemindStart, RemindNothing, Abort, SyncDiscover,
                SyncReadPrevious
  <2> QED BY <2>1, <2>2
<1>3. Chosen' = Chosen \/ Chosen' = Promise!Nobody
  <2>1. CASE \A w \in Workers : job[w].pc = "send" => job'[w] = job[w]
    <3>1. \A w \in Workers : /\ job'[w].pc = "send" <=> job[w].pc = "send"
                             /\ job[w].pc = "send" => job'[w].about = job[w].about
      BY <1>1, <2>1
    <3> QED BY <3>1, ChosenStays
  <2>2. ASSUME NEW w \in Workers, job[w].pc = "send", job'[w] # job[w]
        PROVE  Chosen' = Promise!Nobody
    <3>1. \A v \in Workers \ {w} : job[v].pc # "send"
      BY <2>2 DEF OneReminder, Reminds
    <3>2. \A v \in Workers : job'[v].pc # "send"
      BY <1>1, <2>2, <3>1
    <3> QED BY <3>2, ChosenStays
  <2> QED BY <2>1, <2>2
<1>4. CASE now' = now /\ Chosen' = Chosen
  BY <1>1, <1>4 DEF Promise!vars
<1>5. CASE now' = now /\ Chosen' = Promise!Nobody
  <2>1. Promise!Choose
    BY <1>1, <1>5 DEF Promise!Choose, Promise!Nobody
  <2> QED BY <2>1 DEF Promise!Next
<1>6. CASE Tick /\ now' > now /\ now' \in Int
  <2>1. Chosen' = Chosen
    BY <1>6, ChosenStays DEF Tick
  <2>2. Promise!Tick
    BY <1>1, <1>6, <2>1 DEF Promise!Tick
  <2> QED BY <2>2 DEF Promise!Next
<1> QED BY <1>2, <1>3, <1>4, <1>5, <1>6

\* A reminder chooses only what may be brought up.
LEMMA SelectChooses ==
  ASSUME OneReminder, OneInv, NEW w \in Workers, RemindSelect(w)
  PROVE  Promise!Choose
<1>1. /\ UNCHANGED <<now, row, mail, owed, record>>
      /\ job[w].pc = "select" /\ job'[w].pc = "send"
      /\ \A r \in Reviews : job'[w].about[r] # Null =>
           job'[w].about[r] = row[r].last /\ Eligible(r, job[w].threshold)
  BY SelectReads DEF OneInv, AnyInv
<1>2. Chosen' = [r \in Reviews |-> job'[w].about[r]]
  <2>1. \A v \in Workers \ {w} : job'[v].pc # "send"
    BY <1>1, OthersStand DEF OneReminder, Reminds, OneInv, AnyInv
  <2> QED BY <1>1, <2>1, ChosenIs
<1>3. ASSUME NEW r \in Reviews, job'[w].about[r] # Null
      PROVE  job'[w].about[r] \in Int /\ Promise!MayNotice(r, job'[w].about[r])
  <2>1. job'[w].about[r] = row[r].last /\ Eligible(r, job[w].threshold)
    BY <1>1, <1>3
  <2>2. Tracked(r) /\ ~row[r].backlog
    BY <2>1 DEF Eligible
  <2>3. row[r].last \in Int
    BY <2>2, RowTimes DEF OneInv, AnyInv
  <2>4. \/ mail[r] = Null \/ mail[r].about < row[r].last
        \/ now - mail[r].at > DedupWindow \/ r \in owed \cup Forgotten
    BY <2>1, DueMay DEF OneInv, SyncInv, Forgotten
  <2>5. Phases[r] = "watched"
    BY <2>2 DEF Phases
  <2> QED BY <2>1, <2>3, <2>4, <2>5 DEF Promise!MayNotice
<1>4. Phases' = Phases /\ Forgotten' = Forgotten
  BY <1>1 DEF Phases, Tracked, Forgotten
<1>5. Chosen' \in [Reviews -> Int \cup {Null}]
  BY <1>2, <1>3
<1> QED BY <1>1, <1>2, <1>3, <1>4, <1>5 DEF Promise!Choose

\* An email gives notice of what was chosen.
LEMMA SendGives ==
  ASSUME OneReminder, OneInv, NEW w \in Workers, RemindSend(w)
  PROVE  Promise!Give(Selected(w))
<1>1. /\ UNCHANGED <<now, row>> /\ job[w].pc = "send" /\ job'[w].pc = "stamp"
      /\ \A r \in Reviews : job[w].about[r] # Null =>
           mail'[r] \in Mail /\ mail'[r].at = now /\ mail'[r].about = job[w].about[r]
  BY SendWrites DEF OneInv, AnyInv
<1>2. Chosen = [r \in Reviews |-> job[w].about[r]] /\ Chosen' = Promise!Nobody
  <2>1. \A v \in Workers \ {w} : job[v].pc # "send" /\ job'[v].pc # "send"
    BY <1>1, OthersStand DEF OneReminder, Reminds, OneInv, AnyInv
  <2> QED BY <1>1, <2>1, ChosenIs DEF Promise!Nobody
<1>3. Mail \subseteq Promise!Notice
  BY DEF Mail, Time, Promise!Notice
<1>4. \A r \in Selected(w) : /\ mail'[r] \in Promise!Notice /\ mail'[r].at = now
                              /\ mail'[r].about = Chosen[r]
  BY <1>1, <1>2, <1>3 DEF Selected
<1>5. /\ mail' = [r \in Reviews |-> IF r \in Selected(w) THEN mail'[r] ELSE mail[r]]
      /\ owed' = owed \cup Selected(w)
  BY DEF RemindSend
<1>6. Phases' = Phases
  BY <1>1 DEF Phases, Tracked
<1>7. Forgotten' = Forgotten \ Selected(w)
  BY DEF RemindSend, Forgotten, Selected
<1> QED BY <1>1, <1>2, <1>4, <1>5, <1>6, <1>7 DEF Promise!Give

LEMMA NextPromise ==
  ASSUME OneOfAKind, OneInv, [Next]_vars
  PROVE  [Promise!Next]_(Promise!vars)
<1> USE DEF Promise!Next
<1>o. OneReminder /\ TypeOK /\ SyncInv
  BY DEF OneOfAKind, OneInv, SyncInv
<1>1. CASE Quiet
  BY <1>o, <1>1, QuietPromise
<1>2. CASE Disconnect
  <2>1. UNCHANGED <<now, mail, owed, record>> /\ \A r \in Reviews : ~Tracked(r)'
    BY <1>2 DEF Disconnect, Tracked
  <2>2. Chosen' = Chosen
    BY <1>o, <1>2, DropIdsFields, ChosenStays DEF Disconnect
  <2>3. Promise!Record
    BY <2>1, <2>2, Records
  <2> QED BY <2>3
<1>3. ASSUME NEW w \in Workers, NEW s \in Reviews, SyncUpsert(w, s)
      PROVE  Promise!Record
  <2>1. /\ UNCHANGED <<now, mail, owed>>
        /\ job[w].pc = "upsert" /\ job'[w].pc = "upsert"
        /\ \A r \in Reviews \ {s} : row'[r] = row[r]
        /\ \A r \in Reviews : \/ record'[r] = record[r]
                              \/ record[r] = "gone" /\ record'[r] = "anew"
    BY <1>o, <1>3, UpsertWrites
  <2>2. Chosen' = Chosen
    BY <1>o, <1>3, <2>1, OthersStand, ChosenStays
  <2>3. \A r \in Reviews : Tracked(r)' /\ Tracked(r) /\ ~row[r].backlog => ~row'[r].backlog
    BY <1>o, <1>3, <2>1, UpsertWatches
  <2> QED BY <2>1, <2>2, <2>3, Records
<1>4. ASSUME NEW w \in Workers, SyncReap(w) PROVE Promise!Record
  <2>1. /\ UNCHANGED <<now, mail, owed>>
        /\ job[w].pc = "upsert" /\ job'[w].pc = "idle"
        /\ \A r \in Reviews :
             IF Reapable(r, job[w].sweepAt) THEN ~Tracked(r)' ELSE row'[r] = row[r]
        /\ \A r \in Reviews :
             record'[r] = IF /\ Reapable(r, job[w].sweepAt)
                             /\ mail[r] # Null /\ record[r] = "kept"
                          THEN "gone" ELSE record[r]
    BY <1>o, <1>4, ReapWrites DEF Idle
  <2>2. Chosen' = Chosen
    <3>1. \A v \in Workers \ {w} :
            /\ job'[v].pc = job[v].pc
            /\ job[v].pc = "send" => job'[v].about = job[v].about
      BY <1>o, <1>4, ReapWrites
    <3> QED BY <1>o, <2>1, <3>1, ChosenStays
  <2> QED BY <2>1, <2>2, Records DEF Tracked
<1>5. ASSUME NEW w \in Workers, RemindSelect(w) PROVE Promise!Choose
  BY <1>o, <1>5, SelectChooses
<1>6. ASSUME NEW w \in Workers, RemindSend(w) PROVE \E batch \in SUBSET Reviews : Promise!Give(batch)
  <2>1. Selected(w) \in SUBSET Reviews
    BY DEF Selected
  <2> QED BY <1>o, <1>6, <2>1, SendGives
<1>7. ASSUME NEW w \in Workers, RemindStamp(w) PROVE Promise!Record
  <2>1. /\ UNCHANGED <<now, mail, record>> /\ owed' \in SUBSET owed
        /\ job[w].pc = "stamp" /\ job'[w].pc = "idle"
    BY <1>o, <1>7, StampWrites
  <2>2. Chosen' = Chosen
    BY <1>o, <1>7, <2>1, OthersStand, ChosenStays
  <2>3. \A r \in Reviews : Tracked(r)' /\ Tracked(r) /\ ~row[r].backlog => ~row'[r].backlog
    BY <1>o, <1>7, StampWrites
  <2> QED BY <2>1, <2>2, <2>3, Records
<1> QED BY <1>1, <1>2, <1>3, <1>4, <1>5, <1>6, <1>7, StepKinds

\* As long as no two syncs and no two reminders of the user overlap, in
\* whichever worker, the service keeps the promise of ReminderPromise, with the
\* website, GitHub and failures at any point between them: what is not watched
\* is not emailed about, what is watched does not become backlog, and nothing
\* is emailed about twice for the same comment within the window, unless the
\* first email was never stamped or its row was reaped (jobs.rs SyncUser::run
\* and SendReminder::run).
THEOREM PromiseHolds == Spec /\ []OneOfAKind => ImplementsPromise
<1>1. Init => Promise!Init
  BY InitPromise
<1>2. OneOfAKind /\ OneInv /\ [Next]_vars => [Promise!Next]_(Promise!vars)
  BY NextPromise
<1> QED BY <1>1, <1>2, OneInvariant, PTL DEF Spec, ImplementsPromise, Promise!Spec

=============================================================================
