-------------------------- MODULE ReminderService --------------------------
(***************************************************************************)
(* The reminder service of one user: the user's pending reviews on GitHub, *)
(* the rows the service keeps about them, the SyncUser and SendReminder    *)
(* jobs that move between the two (src/jobs.rs), the web handlers that     *)
(* change the same rows (src/routes.rs), and the emails that leave.        *)
(*                                                                         *)
(* Every statement of a job commits on its own, so a job is a sequence of  *)
(* steps and anything may happen between two of them: a web request, a     *)
(* comment on GitHub, the passing of time, the death of the process, or,   *)
(* when two processes run job workers, a step of another job of the same   *)
(* user.                                                                   *)
(***************************************************************************)
EXTENDS ReviewRules, FiniteSets

CONSTANTS
  Workers,          \* job workers: one per running process
  Reviews,          \* GitHub review ids
  FormThresholds,   \* the thresholds a settings form may carry, valid or not
  DefaultThreshold, \* users.threshold_hours of a new account
  DedupWindow,      \* the 7 days after which an untouched review is re-nudged
  EmailCap,         \* the LIMIT of SendReminder's SELECT (20)
  MaxTime,          \* bound: the clock stops here
  MaxMoves,         \* bound: what the user does on GitHub and on the website
  MaxAborts,        \* bound: jobs that die or fail, token refreshes refused,
                    \*        searches that miss a review
  Null              \* SQL NULL, a missing row, no email

ASSUME ThresholdAssumption ==
  FormThresholds \subseteq Int /\ DefaultThreshold \in Nat \ {0}

ASSUME BoundAssumption ==
  /\ DedupWindow \in Nat
  /\ EmailCap \in Nat \ {0}
  /\ MaxTime \in Nat /\ MaxMoves \in Nat /\ MaxAborts \in Nat

Time       == 0 .. MaxTime
Thresholds == {DefaultThreshold} \cup {h \in FormThresholds : h >= 1}

VARIABLES
  now,        \* the clock, of GitHub, of the database and of every process
  open,       \* GitHub: the reviews whose pull request is open
  pending,    \* GitHub: the reviews that are pending and hold a comment
  commentAt,  \* GitHub: when the last comment of each review was left
  user,       \* the users row, or Null once the account is deleted
  row,        \* pending_reviews: each review's row, or Null
  job,        \* what each worker is running, with the job's local variables
  moves,      \* bound counter
  aborts,     \* bound counter
  mail,       \* history: the last email about each review, or Null
  owed,       \* history: reviews emailed about and not stamped since
  watched,    \* history: reviews some sweep has found to be fresh
  record,     \* history: what became of the row that records the last email
  late        \* history: workers that sent an email since the user opted out

bounds  == <<moves, aborts>>
github  == <<open, pending, commentAt>>
history == <<mail, owed, watched, record, late>>
vars    == <<now, open, pending, commentAt, user, row, job, moves, aborts,
             mail, owed, watched, record, late>>

-----------------------------------------------------------------------------
(* State *)

User == [status : {"active", "needs_reauth"}, threshold : Thresholds,
         paused : BOOLEAN]

Row == [last : Time, seen : Time, backlog : BOOLEAN,
        notified : Time \cup {Null}, dismissed : BOOLEAN]

Mail == [at : Time, about : Time]

\* The row a review had when it was last emailed about is kept; or it is gone,
\* reaped since; or after that a sweep has found the review anew, and fresh.
Fate == {"kept", "gone", "anew"}

ASSUME NullAssumption ==
  Null \notin User /\ Null \notin Row /\ Null \notin Time /\ Null \notin Mail

\* A job between two of its statements, holding what it has read so far.
\*   found, last   the discovered reviews and their last comments
\*   prev          what was stored of each review before the sweep
\*   todo          the discovered reviews not upserted yet
\*   about         the selected rows, as they were read (Null: not selected)
\*   ids           the selected rows that still exist: a row that is deleted
\*                 and inserted again has another primary key
Idle        == [pc |-> "idle"]
DiscoverJob == [pc : {"discover"}, threshold : Thresholds]
PreviousJob == [pc : {"previous"}, threshold : Thresholds,
                found : SUBSET Reviews, last : [Reviews -> Time]]
UpsertJob   == [pc : {"upsert"}, threshold : Thresholds,
                found : SUBSET Reviews, last : [Reviews -> Time],
                prev : [Reviews -> PriorState], sweepAt : Time,
                todo : SUBSET Reviews]
SelectJob   == [pc : {"select"}, threshold : Thresholds]
SendJob     == [pc : {"send"}, ids : SUBSET Reviews,
                about : [Reviews -> Time \cup {Null}]]
StampJob    == [pc : {"stamp"}, ids : SUBSET Reviews]

Job == {Idle} \cup DiscoverJob \cup PreviousJob \cup UpsertJob
         \cup SelectJob \cup SendJob \cup StampJob

\* What the search is:pr is:open finds, if it finds everything.
live == open \cap pending

Tracked(r)  == row[r] # Null
Selected(w) == {r \in Reviews : job[w].about[r] # Null}

\* Reminders are sent to a user who exists, is active and has not paused them.
OptedOut == user = Null \/ user.status # "active" \/ user.paused

Init ==
  /\ now = 0
  /\ open \in SUBSET Reviews /\ pending \in SUBSET Reviews
  /\ commentAt = [r \in Reviews |-> 0]
  /\ user = [status |-> "active", threshold |-> DefaultThreshold,
             paused |-> FALSE]
  /\ row = [r \in Reviews |-> Null]
  /\ job = [w \in Workers |-> Idle]
  /\ moves = 0 /\ aborts = 0
  /\ mail = [r \in Reviews |-> Null]
  /\ owed = {} /\ watched = {} /\ late = {}
  /\ record = [r \in Reviews |-> "kept"]

-----------------------------------------------------------------------------
(* The clock and GitHub *)

Tick ==
  /\ now < MaxTime
  /\ now' = now + 1
  /\ UNCHANGED <<github, user, row, job, bounds, history>>

Move   == moves < MaxMoves /\ moves' = moves + 1 /\ UNCHANGED aborts
Mishap == aborts < MaxAborts /\ aborts' = aborts + 1 /\ UNCHANGED moves

\* The user adds a comment to a pending review, starting it if need be.
Comment(r) ==
  /\ r \notin pending \/ commentAt[r] < now
  /\ pending' = pending \cup {r}
  /\ commentAt' = [commentAt EXCEPT ![r] = now]
  /\ Move
  /\ UNCHANGED <<now, open, user, row, job, history>>

\* The last comment is deleted: an earlier one is the last again.
Uncomment(r) ==
  /\ r \in pending
  /\ \E at \in Time : at < commentAt[r] /\ commentAt' = [commentAt EXCEPT ![r] = at]
  /\ Move
  /\ UNCHANGED <<now, open, pending, user, row, job, history>>

\* The review is submitted or discarded, or all its comments are deleted.  Only
\* in the last case can the same review be pending with a comment again.
Withdraw(r) ==
  /\ r \in pending
  /\ pending' = pending \ {r}
  /\ Move
  /\ UNCHANGED <<now, open, commentAt, user, row, job, history>>

\* The pull request is closed, and with it the review leaves the search.
Close(r) ==
  /\ r \in open
  /\ open' = open \ {r}
  /\ Move
  /\ UNCHANGED <<now, pending, commentAt, user, row, job, history>>

\* It is opened again: the review is back in the search as it was.
Reopen(r) ==
  /\ r \notin open
  /\ open' = open \cup {r}
  /\ Move
  /\ UNCHANGED <<now, pending, commentAt, user, row, job, history>>

-----------------------------------------------------------------------------
(* The web handlers: one statement each *)

\* After the user row changes: opting back in starts the history afresh.
Resumes == late' = IF OptedOut' THEN late ELSE {}

\* Rows that are deleted keep their primary keys to themselves for ever.
DropIds(gone) ==
  [w \in Workers |->
     IF job[w].pc \in {"send", "stamp"}
     THEN [job[w] EXCEPT !.ids = @ \ gone] ELSE job[w]]

Dismiss(r) ==
  /\ Tracked(r) /\ ~row[r].dismissed
  /\ row' = [row EXCEPT ![r].dismissed = TRUE]
  /\ Move
  /\ UNCHANGED <<now, github, user, job, history>>

\* Faulty variant: the form's threshold is stored unchecked.
UpdateSettings_Unchecked(h, paused) ==
  /\ user # Null
  /\ user' = [user EXCEPT !.threshold = h, !.paused = paused]
  /\ Move
  /\ Resumes
  /\ UNCHANGED <<now, github, row, job, mail, owed, watched, record>>

UpdateSettings(h, paused) ==
  /\ user # Null
  /\ h >= 1
  /\ user' = [user EXCEPT !.threshold = h, !.paused = paused]
  /\ Move
  /\ Resumes
  /\ UNCHANGED <<now, github, row, job, mail, owed, watched, record>>

UnsubscribePause ==
  /\ user # Null
  /\ user' = [user EXCEPT !.paused = TRUE]
  /\ Move
  /\ Resumes
  /\ UNCHANGED <<now, github, row, job, mail, owed, watched, record>>

\* A known user signs in again: fresh tokens, so needs_reauth is over.
SignInAgain ==
  /\ user # Null
  /\ user' = [user EXCEPT !.status = "active"]
  /\ Move
  /\ Resumes
  /\ UNCHANGED <<now, github, row, job, mail, owed, watched, record>>

\* DELETE FROM users, which cascades to pending_reviews.
Disconnect ==
  /\ user # Null
  /\ user' = Null
  /\ row' = [r \in Reviews |-> Null]
  /\ job' = DropIds(Reviews)
  /\ Move
  /\ Resumes
  /\ UNCHANGED <<now, github, mail, owed, watched, record>>

-----------------------------------------------------------------------------
(* SyncUser *)

Becomes(w, next) == job' = [job EXCEPT ![w] = next]

\* ensure_fresh_token hands out a token, stored or refreshed (a refresh makes
\* the user active again), and the user's settings are read.  A job for an
\* account that is gone fails here and changes nothing, as does one whose
\* token request gets no answer.
SyncStart(w) ==
  /\ job[w] = Idle
  /\ user # Null
  /\ \E refreshed \in BOOLEAN :
       user' = [user EXCEPT !.status = IF refreshed THEN "active" ELSE @]
  /\ Becomes(w, [pc |-> "discover", threshold |-> user.threshold])
  /\ Resumes
  /\ UNCHANGED <<now, github, row, bounds, mail, owed, watched, record>>

\* GitHub refuses the refresh token: the user has to sign in again.
SyncRejected(w) ==
  /\ job[w] = Idle
  /\ user # Null
  /\ user' = [user EXCEPT !.status = "needs_reauth"]
  /\ Mishap
  /\ Resumes
  /\ UNCHANGED <<now, github, row, job, mail, owed, watched, record>>

\* Every page of the search is read, or the job fails (Abort).  The pages may
\* still miss a review: one that moved between two of them because a pull
\* request was closed meanwhile, or those behind a page that names no next one
\* or behind the ceiling of the search.
SyncDiscover(w) ==
  /\ job[w].pc = "discover"
  /\ \E found \in SUBSET live :
       /\ IF found = live THEN UNCHANGED bounds ELSE Mishap
       /\ Becomes(w, [pc |-> "previous", threshold |-> job[w].threshold,
                      found |-> found, last |-> commentAt])
  /\ UNCHANGED <<now, github, user, row, history>>

Prior(r) == IF ~Tracked(r) THEN "new"
            ELSE IF row[r].backlog THEN "backlog" ELSE "watched"

SyncReadPrevious(w) ==
  /\ job[w].pc = "previous"
  /\ Becomes(w, [pc |-> "upsert", threshold |-> job[w].threshold,
                 found |-> job[w].found, last |-> job[w].last,
                 prev |-> [r \in Reviews |-> Prior(r)],
                 sweepAt |-> now, todo |-> job[w].found])
  /\ UNCHANGED <<now, github, user, row, bounds, history>>

\* Faulty variant: the conflict clause overwrites the whole row.
Upserted_Overwrites(old, last, at, backlog) ==
  [last |-> last, seen |-> at, backlog |-> backlog,
   notified |-> Null, dismissed |-> FALSE]

\* INSERT ... ON CONFLICT DO UPDATE: notified_at and dismissed_at are kept.
Upserted(old, last, at, backlog) ==
  IF old = Null
  THEN [last |-> last, seen |-> at, backlog |-> backlog,
        notified |-> Null, dismissed |-> FALSE]
  ELSE [old EXCEPT !.last = last, !.seen = at, !.backlog = backlog]

\* What a sweep learns of a review that it found, fresh or not.
FoundFresh(r, fresh) ==
  /\ watched' = IF fresh THEN watched \cup {r} ELSE watched
  /\ record' = IF fresh /\ record[r] = "gone"
               THEN [record EXCEPT ![r] = "anew"] ELSE record

\* Faulty variant: no foreign key guards the insert.
SyncUpsert_NoForeignKey(w, r) ==
  LET stale == IsStale(job[w].last[r], job[w].threshold, job[w].sweepAt)
  IN  /\ job[w].pc = "upsert" /\ r \in job[w].todo
      /\ row' = [row EXCEPT ![r] =
                   Upserted(row[r], job[w].last[r], job[w].sweepAt,
                            ResolveBacklog(job[w].prev[r], stale))]
      /\ Becomes(w, [job[w] EXCEPT !.todo = @ \ {r}])
      /\ FoundFresh(r, ~stale)
      /\ UNCHANGED <<now, github, user, bounds, mail, owed, late>>

SyncUpsert(w, r) ==
  LET stale == IsStale(job[w].last[r], job[w].threshold, job[w].sweepAt)
  IN  /\ job[w].pc = "upsert" /\ r \in job[w].todo
      /\ user # Null
      /\ row' = [row EXCEPT ![r] =
                   Upserted(row[r], job[w].last[r], job[w].sweepAt,
                            ResolveBacklog(job[w].prev[r], stale))]
      /\ Becomes(w, [job[w] EXCEPT !.todo = @ \ {r}])
      /\ FoundFresh(r, ~stale)
      /\ UNCHANGED <<now, github, user, bounds, mail, owed, late>>

\* The account was deleted meanwhile: the foreign key fails the insert.
SyncOrphaned(w) ==
  /\ job[w].pc = "upsert" /\ job[w].todo # {}
  /\ user = Null
  /\ Becomes(w, Idle)
  /\ UNCHANGED <<now, github, user, row, bounds, history>>

\* Faulty variant: rows stamped by this very sweep are reaped as well.
Reapable_Inclusive(r, sweepAt) == Tracked(r) /\ row[r].seen <= sweepAt

\* Faulty variant: a row is kept once it has been emailed about.
Reapable_KeepsNotified(r, sweepAt) ==
  Tracked(r) /\ row[r].seen < sweepAt /\ row[r].notified = Null

Reapable(r, sweepAt) == Tracked(r) /\ row[r].seen < sweepAt

SyncReap(w) ==
  /\ job[w].pc = "upsert" /\ job[w].todo = {}
  /\ LET gone == {r \in Reviews : Reapable(r, job[w].sweepAt)}
     IN  /\ row' = [r \in Reviews |-> IF r \in gone THEN Null ELSE row[r]]
         /\ job' = [DropIds(gone) EXCEPT ![w] = Idle]
         /\ record' = [r \in Reviews |->
                         IF r \in gone /\ mail[r] # Null /\ record[r] = "kept"
                         THEN "gone" ELSE record[r]]
  /\ UNCHANGED <<now, github, user, bounds, mail, owed, watched, late>>

-----------------------------------------------------------------------------
(* SendReminder *)

\* Faulty variant: the pause is not read.
RemindStart_IgnoresPause(w) ==
  /\ job[w] = Idle
  /\ user # Null /\ user.status = "active"
  /\ Becomes(w, [pc |-> "select", threshold |-> user.threshold])
  /\ UNCHANGED <<now, github, user, row, bounds, history>>

\* The job ends at once for a user who is not active or has paused.
RemindStart(w) ==
  /\ job[w] = Idle
  /\ ~OptedOut
  /\ Becomes(w, [pc |-> "select", threshold |-> user.threshold])
  /\ UNCHANGED <<now, github, user, row, bounds, history>>

\* Faulty variant: the 7-day comparison is not strict.
Eligible_Inclusive(r, threshold) ==
  /\ Tracked(r)
  /\ ~row[r].backlog /\ ~row[r].dismissed
  /\ now - row[r].last > threshold
  /\ \/ row[r].notified = Null
     \/ row[r].notified < row[r].last
     \/ row[r].notified <= now - DedupWindow

\* The WHERE clause: watched, not dismissed, stale, and not reminded since
\* the last comment or within the last 7 days.
Eligible(r, threshold) ==
  /\ Tracked(r)
  /\ ~row[r].backlog /\ ~row[r].dismissed
  /\ now - row[r].last > threshold
  /\ \/ row[r].notified = Null
     \/ row[r].notified < row[r].last
     \/ row[r].notified < now - DedupWindow

\* ORDER BY last_comment_at ASC LIMIT EmailCap; ties fall either way.
OldestOf(batch, eligible) ==
  /\ batch \subseteq eligible
  /\ \A r \in batch, s \in eligible \ batch : row[r].last <= row[s].last
  /\ \/ batch = eligible /\ Cardinality(eligible) <= EmailCap
     \/ Cardinality(batch) = EmailCap

RemindNothing(w) ==
  /\ job[w].pc = "select"
  /\ \A r \in Reviews : ~Eligible(r, job[w].threshold)
  /\ Becomes(w, Idle)
  /\ UNCHANGED <<now, github, user, row, bounds, history>>

\* Faulty variant: nothing is selected when the cap is exceeded.
RemindSelect_AllOrNothing(w) ==
  /\ job[w].pc = "select"
  /\ LET eligible == {r \in Reviews : Eligible(r, job[w].threshold)}
     IN  /\ eligible # {} /\ Cardinality(eligible) <= EmailCap
         /\ Becomes(w, [pc |-> "send", ids |-> eligible,
                        about |-> [r \in Reviews |->
                          IF r \in eligible THEN row[r].last ELSE Null]])
  /\ UNCHANGED <<now, github, user, row, bounds, history>>

RemindSelect(w) ==
  /\ job[w].pc = "select"
  /\ LET eligible == {r \in Reviews : Eligible(r, job[w].threshold)}
     IN  /\ eligible # {}
         /\ \E batch \in SUBSET eligible :
              /\ OldestOf(batch, eligible)
              /\ Becomes(w, [pc |-> "send", ids |-> batch,
                             about |-> [r \in Reviews |->
                               IF r \in batch THEN row[r].last ELSE Null]])
  /\ UNCHANGED <<now, github, user, row, bounds, history>>

\* Faulty variant: an error of the mailer is taken for success.
RemindSend_IgnoresError(w) ==
  /\ job[w].pc = "send"
  /\ \E accepted \in BOOLEAN :
       LET sent == IF accepted THEN Selected(w) ELSE {}
       IN  /\ mail' = [r \in Reviews |->
                         IF r \in sent THEN [at |-> now, about |-> job[w].about[r]]
                         ELSE mail[r]]
           /\ owed' = owed \cup sent
           /\ record' = [r \in Reviews |-> IF r \in sent THEN "kept" ELSE record[r]]
  /\ late' = IF OptedOut THEN late \cup {w} ELSE late
  /\ Becomes(w, [pc |-> "stamp", ids |-> job[w].ids])
  /\ UNCHANGED <<now, github, user, row, bounds, watched>>

\* The mailer accepts one email about all selected rows.  If it refuses, or
\* its answer is lost, the job fails (Abort) before or after this step.
RemindSend(w) ==
  /\ job[w].pc = "send"
  /\ mail' = [r \in Reviews |->
                IF r \in Selected(w) THEN [at |-> now, about |-> job[w].about[r]]
                ELSE mail[r]]
  /\ owed' = owed \cup Selected(w)
  /\ record' = [r \in Reviews |-> IF r \in Selected(w) THEN "kept" ELSE record[r]]
  /\ late' = IF OptedOut THEN late \cup {w} ELSE late
  /\ Becomes(w, [pc |-> "stamp", ids |-> job[w].ids])
  /\ UNCHANGED <<now, github, user, row, bounds, watched>>

RemindStamp(w) ==
  /\ job[w].pc = "stamp"
  /\ row' = [r \in Reviews |->
               IF r \in job[w].ids /\ Tracked(r)
               THEN [row[r] EXCEPT !.notified = now] ELSE row[r]]
  /\ owed' = owed \ job[w].ids
  /\ Becomes(w, Idle)
  /\ UNCHANGED <<now, github, user, bounds, mail, watched, record, late>>

-----------------------------------------------------------------------------

\* A statement or a request of the job fails, or its process dies.  The queue
\* runs the job again from the start, and the cron enqueues it anyway.
Abort(w) ==
  /\ job[w] # Idle
  /\ Becomes(w, Idle)
  /\ Mishap
  /\ UNCHANGED <<now, github, user, row, history>>

SyncSteps(w) ==
  \/ SyncDiscover(w) \/ SyncReadPrevious(w)
  \/ \E r \in Reviews : SyncUpsert(w, r)
  \/ SyncOrphaned(w) \/ SyncReap(w)

RemindSteps(w) ==
  RemindNothing(w) \/ RemindSelect(w) \/ RemindSend(w) \/ RemindStamp(w)

Worker(w) ==
  \/ SyncStart(w) \/ SyncRejected(w) \/ SyncSteps(w)
  \/ RemindStart(w) \/ RemindSteps(w)
  \/ Abort(w)

GitHubUser == \E r \in Reviews :
  Comment(r) \/ Uncomment(r) \/ Withdraw(r) \/ Close(r) \/ Reopen(r)

Website ==
  \/ \E r \in Reviews : Dismiss(r)
  \/ \E h \in FormThresholds, paused \in BOOLEAN : UpdateSettings(h, paused)
  \/ UnsubscribePause \/ SignInAgain \/ Disconnect

Next == Tick \/ GitHubUser \/ Website \/ \E w \in Workers : Worker(w)

Spec == Init /\ [][Next]_vars

\* A statement that is tried again and again succeeds in the end: the queue
\* retries a failed job, the cron enqueues both jobs of every active user over
\* and over, and claims them in the order they became due, so neither kind
\* starves the other.  Time passes.  Nothing of the user's is fair.
Fairness == \A w \in Workers :
  /\ SF_vars(SyncStart(w) /\ user.status = "active")
  /\ SF_vars(RemindStart(w))
  /\ WF_vars(SyncSteps(w))
  /\ WF_vars(RemindSteps(w))
  /\ WF_vars(Tick)

LiveSpec == Spec /\ Fairness

-----------------------------------------------------------------------------
(* What must hold, however many workers run *)

TypeOK ==
  /\ now \in Time
  /\ open \subseteq Reviews /\ pending \subseteq Reviews
  /\ commentAt \in [Reviews -> Time]
  /\ user \in User \cup {Null}
  /\ row \in [Reviews -> Row \cup {Null}]
  /\ job \in [Workers -> Job]
  /\ moves \in 0 .. MaxMoves /\ aborts \in 0 .. MaxAborts
  /\ mail \in [Reviews -> Mail \cup {Null}]
  /\ owed \subseteq Reviews /\ watched \subseteq Reviews
  /\ record \in [Reviews -> Fate]
  /\ late \subseteq Workers

\* Deleting the account leaves none of its rows behind, though a sync of that
\* user may be half-way through its upserts (routes.rs disconnect, jobs.rs).
NoOrphans == user = Null => \A r \in Reviews : ~Tracked(r)

\* No email is ever about a review that no sweep has found fresh: the pile
\* that was stale when the user signed up, or when the app was installed on a
\* new organisation, floods nobody (discovery.rs resolve_backlog).
WatchedOnly == \A r \in Reviews : mail[r] # Null => r \in watched

\* Pausing, unsubscribing, losing the token or deleting the account stops the
\* emails: only a SendReminder that had already read the user's settings may
\* still send, once; a job started or retried later does not (jobs.rs
\* SendReminder::run, routes.rs unsubscribe_pause).
OptOutHonoured == \A w \in late : job[w].pc \notin {"select", "send"}

\* While a row exists its dismissal is never undone and its last reminder
\* never forgotten, whatever a sync overwrites (jobs.rs, ON CONFLICT).
FlagsKept == [][\A r \in Reviews : Tracked(r) /\ Tracked(r)' =>
  /\ row[r].dismissed => row'[r].dismissed
  /\ row[r].notified # Null =>
       row'[r].notified # Null /\ row'[r].notified >= row[r].notified]_vars

-----------------------------------------------------------------------------
(* What must hold while jobs of the user do not overlap *)

Sends(w, r) ==
  job[w].pc = "send" /\ job'[w].pc = "stamp" /\ r \in Selected(w)

\* Two emails about the same last comment are more than the dedup window
\* apart, unless the record of the first was lost: the job that sent it died
\* before its stamp ("a dup beats a miss"), or a sweep that did not find the
\* review deleted its row, as when a pull request is closed and opened again.
\* Even then there is no second email before another sweep has found the
\* review fresh, by the threshold of that moment (jobs.rs SyncUser::run, the
\* reap; SendReminder::run; discovery.rs resolve_backlog).
NoRepeat == [][\A w \in Workers, r \in Reviews :
  /\ Sends(w, r)
  /\ mail[r] # Null /\ mail[r].about = mail'[r].about
  /\ now - mail[r].at <= DedupWindow
  => r \in owed \/ record[r] = "anew"]_vars

\* notified_at moves only for a review that has been emailed about since it
\* last moved: no reminder is recorded that was not sent (jobs.rs
\* SendReminder::run, mailer.send before the UPDATE).
StampFollowsMail == [][\A r \in Reviews :
  Tracked(r) /\ Tracked(r)' /\ row'[r].notified # row[r].notified
    => r \in owed /\ row'[r].notified >= mail[r].at]_vars

\* A row goes only with its account or in a sweep that did not find the
\* review on GitHub (jobs.rs SyncUser::run, the reap).
OnlyUnseenReaped == [][\A r \in Reviews :
  Tracked(r) /\ ~Tracked(r)' =>
    \/ user' = Null
    \/ \E w \in Workers : /\ job[w].pc = "upsert" /\ job'[w] = Idle
                          /\ r \notin job[w].found]_vars

\* A watched review never becomes backlog: once it may be emailed about, no
\* later sync takes that away (discovery.rs: "backlog only ever goes
\* true->false").
BacklogOnlyClears == [][\A r \in Reviews :
  Tracked(r) /\ Tracked(r)' /\ ~row[r].backlog => ~row'[r].backlog]_vars

\* What the rows say of each review, and what the running job is to send.
Phases == [r \in Reviews |-> IF ~Tracked(r) THEN "unseen"
                             ELSE IF row[r].backlog THEN "backlog" ELSE "watched"]
Chosen == [r \in Reviews |->
  IF \E w \in Workers : job[w].pc = "send" /\ r \in Selected(w)
  THEN job[CHOOSE w \in Workers : job[w].pc = "send"].about[r]
  ELSE Null]

\* The emailed reviews whose record went with their rows.
Forgotten == {r \in Reviews : record[r] # "kept"}

\* The promise both reminders make, read off the rows and the running job.
Promise == INSTANCE ReminderPromise WITH
  Window <- DedupWindow,
  phase  <- Phases,
  notice <- mail,
  forgot <- Forgotten,
  chosen <- Chosen

\* Jobs, web requests and failures together still amount to a reminder that
\* floods nobody, and repeats itself within the window only where the record
\* of the first time was lost or went with the row (docs/DESIGN.md, the
\* anti-flood rule and the dedup; the CLI keeps the same promise in another
\* way).
ImplementsPromise == Promise!Spec

-----------------------------------------------------------------------------
(* What must happen in the end, while the user stays active *)

Active == user # Null /\ user.status = "active"

\* The dashboard follows GitHub: a review that stays pending gets a row, and
\* the row of a review that stays away is reaped (jobs.rs SyncUser).  A row
\* last seen when the bounded clock stopped is left out: no sweep is later.
DashboardConverges == \A r \in Reviews :
  /\ Active /\ r \in live ~> ~Active \/ r \notin live \/ Tracked(r)
  /\ Active /\ r \notin live
       ~> ~Active \/ r \in live \/ ~Tracked(r) \/ row[r].seen = MaxTime

\* A review that is due for a reminder does not stay due: it is emailed about
\* and stamped, however many reviews compete for the places in one email,
\* unless the user acts first (jobs.rs SendReminder, cron.rs).
DueIsReminded == \A r \in Reviews :
  ~OptedOut /\ Eligible(r, user.threshold)
    ~> OptedOut \/ ~Eligible(r, user.threshold)

-----------------------------------------------------------------------------
(* What the repository says and the code does not do *)

\* "a review is emailed at the first tick after it crosses the threshold"
\* (src/jobs.rs:145): a watched, stale row that no email has been about since
\* its last comment crossed the threshold is due.
EveryCrossingIsDue == user # Null => \A r \in Reviews :
  /\ Tracked(r) /\ ~row[r].backlog /\ ~row[r].dismissed
  /\ IsStale(row[r].last, user.threshold, now)
  /\ mail[r] = Null \/ ~IsStale(row[r].last, user.threshold, mail[r].at)
  => Eligible(r, user.threshold)
=============================================================================
