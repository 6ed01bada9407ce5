# Verification of the Pending Review Notifier

The Pending Review Notifier watches the reviews a GitHub user has begun and not
submitted, shows them on a dashboard and emails a reminder when one has been left
alone for longer than the user's threshold. It is one process (Axum server, one job
worker, one cron worker) over Postgres, and a stand-alone CLI, `prn-check`, with the
same rules and a JSON file for its state. This directory holds TLA+ models of it, the
TLC runs that check them and the theorems TLAPS proves about them.

## The system

| Part | State it keeps | Operations | Hard because |
|---|---|---|---|
| Sync and reminder jobs (`jobs.rs`) | `pending_reviews` rows | `SyncUser`: token, discovery, read flags, upsert each review, reap. `SendReminder`: read user, select, send, stamp | every statement commits alone; jobs die, are retried, and overlap when two processes run workers |
| Discovery (`discovery.rs`) | none | page through a GraphQL search; staleness and backlog rules | GitHub moves between pages; errors and cut-off pages must not look like vanished reviews |
| Cron and queue (`cron.rs`, cja, `jobs` table) | queued and dead-lettered jobs | enqueue both jobs of every active user every 30 / 15 min; claim, retry with backoff | old and new process overlap in a deployment; lock timeout; skipped enqueues |
| Token refresh and sign-in (`github/oauth.rs`) | token pair, expiry, `users.status` | refresh under a row lock, sign in, sign in again | GitHub spends the refresh token before the new pair is stored |
| Web handlers (`routes.rs`) | `users`, `pending_reviews` | dismiss, settings, unsubscribe, disconnect | act on rows a job has already read |
| Sessions (`session.rs`) | session to user mapping, CSRF token | attach, clear, destroy, expire | several tables, no transaction; the browser learns of its cookies only from responses |
| Shutdown (`main.rs`) | none | drain a job for 5 s, then drop it and release its lock | the dropped job may have sent its email |
| `prn-check` (`prn_check/`) | a JSON state file | load, sweep, print, save | crash between print and save; overlapping runs |
| GitHub, MailPace | pending reviews; sent emails | answered or failing calls | external: modelled as the code uses them |

The parts meet in the database. `SyncUser` writes what `SendReminder` reads; the
handlers change the same rows between any two statements of either; token refresh and
sign-in move `users.status`, which decides whether the cron enqueues anything.

What makes each part correct:

* jobs: an email only about reviews the service has watched; no second email for the
  same comment within a week unless a job died before its stamp, or the row was reaped
  in between and a later sweep has found the review fresh; no stamp without an email;
  rows disappear only with the account or in a sweep that did not find the review;
  opt-outs and dismissals stick; every due review is reminded and the dashboard converges.
* discovery: a failure never looks like an empty result, and nothing that stayed in
  place is missed.
* tokens: a token pair is never spent twice, never replaced by an older one; a user
  is locked out only when GitHub refused the very pair the row stores, whatever for.
* queue: no job is lost with its process; one process at a time has a job unless its
  lock timed out; sweeps make up for enqueues that failed.
* accounts and sessions: one row per GitHub account, with tokens that open; no session
  outlives its user; nobody is signed in as somebody else; a form acts only for the user
  of its page; a deployment signs nobody out.
* CLI: the same promise as the service about reminders, from one file.

`PROJECT.json` lists all components and, under `hazards`, each spot in the code where
something hard to test can go wrong, with the property that would catch it.

## Modules

| Module | What it is |
|---|---|
| `ReviewRules` | `is_stale` and `resolve_backlog`, as operators |
| `Discovery` | one page of the search: which replies are errors, what is kept of the nodes, when the loop stops |
| `Replies` | what each reply of GitHub's token, user, installation and revocation endpoints is taken for |
| `ReminderPromise` | the abstract specification of both reminders |
| `ReminderService` | jobs, rows, emails and handlers of one user; implements `ReminderPromise` while no two jobs of a kind overlap |
| `PrnArgs`, `PrnCheck` | the CLI: its command line, and its runs over one state file; implements `ReminderPromise` while runs do not overlap |
| `TokenLifecycle` | the GitHub tokens of one person, with the row lock and the connection pool |
| `Accounts` | users, sessions, browsers and the requests between them |
| `JobQueue` | cron, jobs table, workers and processes |
| `MC*` | the instances for TLC: constants and symmetry |
| `*_proofs` | the theorems |

`ReminderService` extends `ReviewRules`; `PrnCheck` extends `ReviewRules`, `Discovery`
and `PrnArgs`; `Accounts` extends `Replies`. Composition is by
abstraction: `JobQueue` shows how often and how often at a time a job may run, and
`ReminderService` lets any job start at any time in each worker; `PrnCheck` runs the
search page by page, and `ReminderService` takes a search as one step that fails
or returns some part of what is there; `Accounts` and `TokenLifecycle` decide what happens to a user's row
and tokens, and `ReminderService` lets `users.status` change whenever they could.

Definitions called `X_Something` next to a definition `X` are deliberately faulty
variants of it. Nothing uses them; each shows that some property would notice the bug.

### ReminderService

One user of the service. Users do not share rows, so one user is enough.

| Variable | In the code |
|---|---|
| `now` | the clock; threshold and dedup window are in its ticks |
| `open`, `pending`, `commentAt` | GitHub: the reviews on open pull requests, those that are pending with a comment, and the time of the last one; the search is for `live`, what is in both sets |
| `user` | `users`: status, threshold, reminders_paused; `Null` after `/disconnect` |
| `row` | `pending_reviews`: last_comment_at, last_seen_at, is_backlog, notified_at, dismissed_at |
| `job` | what each worker runs: the statement it is at and the local variables of `run` |
| `mail`, `owed`, `watched`, `record`, `late` | history the properties speak of; no other variable depends on it. `record` is what became of the row that records the last email: kept, gone with a reap, or after that found anew and fresh |
| `moves`, `aborts` | bound counters |

Actions are one per statement or request of the jobs (`SyncStart`, `SyncDiscover`,
`SyncReadPrevious`, `SyncUpsert`, `SyncReap`, `RemindStart`, `RemindSelect`,
`RemindSend`, `RemindStamp` and their early ends) and one per web handler. Reading
the user's settings is part of `SyncStart`, and `sweep_at` is taken in
`SyncReadPrevious`: no state change lies between the merged statements. `Abort` is
an `Err` at any `?`, or the death of the process; the queue runs the job again,
which is `SyncStart` or `RemindStart` another time. Any job may start at any time: the
queue may hold old jobs of a user who is no longer active.

* A row that is deleted and inserted again has a new primary key, so a reminder that
  selected the old one does not stamp the new one. `DropIds` takes deleted rows out of
  the ids that running reminders hold.
* `users.status = 'paused'` is not modelled: no code sets it.
* A token refresh may turn `needs_reauth` into `active` (self-healing) or the reverse;
  both are outcomes of the first step of a sync.
* A review leaves GitHub's results when it is submitted, discarded or emptied
  (`Withdraw`) or its pull request is closed (`Close`). Opened again (`Reopen`), the
  review is back exactly as it was; an emptied one comes back with a new comment, and
  `Uncomment` turns its last comment back. A submitted review never returns; the model
  allows more.
* `SyncDiscover` may find any part of `live`: a review moves over the end of a page when
  a pull request before it is closed, a page may name no next one, and the ceiling cuts
  the rest off. A search that misses something counts against `MaxAborts`. The rows it
  missed are reaped, and the next search brings their reviews back as new ones.
* The user's actions are arbitrary form contents, so a stale settings form is covered.

### PrnCheck, PrnArgs, Discovery

| Variable | In the code |
|---|---|
| `open`, `draft` | GitHub: the open pull requests that involve the user, oldest first; on each the last pending comment, `NoReview`, or a `Shell` without comments |
| `file`, `tmp` | the state file and its temporary sibling: a state, `NoFile`, or `Torn` when truncated |
| `run` | each process: its step and locals; `into` is where its open descriptor points once a rename has moved the file under it |
| `told`, `owed`, `forgot`, `watched`, `excused` | history; `told` is the last alert, for good; `forgot` the reviews whose entry was dropped since it; `excused` what a search under way may rightly miss |

`Starts` is everything before the state file is read: arguments, environment and the
viewer query, each with its error. Then `load`, `SearchPage` for each page, one step for
classifying and printing (`SweepAndPrint`), and the save in three: `OpenTmp` truncates,
`FillTmp` writes, `Rename` replaces. `Fail` is an error or a kill at any of these. What is
printed per section is left out, except which reviews are in the section for alerts.
The cursor is the number of results before the page, so a pull request that is closed
moves those behind it over the end of a page already read, as GitHub's search does.

### TokenLifecycle

Job workers run `ensure_fresh_token`; web requests are sign-ins and disconnects.

| Variable | In the code |
|---|---|
| `issued`, `spent`, `revoked` | GitHub: token pairs, numbered as they are issued; which refresh tokens were used; which grants were revoked |
| `inflight` | refresh requests whose caller has given up and which GitHub may still grant: with a dead pair they would be refused, and nobody would hear |
| `aged` | pairs within five minutes of `token_expires_at` |
| `user` | `users`: the account, its status and the pair it stores; `Null` when there is none |
| `call` | each caller's place in its transaction and what it has read |
| `lost`, `refusal` | history: spent pairs whose successor never reached the row; the first refresh GitHub has refused since the row got its pair, and whether that pair was dead or live |

`GitHubRefuses` is every reply that `token_request` calls `Rejected`: any 4xx, also a 429
or 403 about a pair that is alive, any `error` body, and a reply without all three token
fields, before which GitHub may have spent the pair. So `needs_reauth` does not show that
the grant is gone; `LockedOutOnlyIfRefused` says what it does show, that the pair in the
row was refused itself. The cron enqueues only active users, so the retries of the job
that was refused are all that tries a live pair again (and makes the user active if it is
taken); after them its owner stays out until the next sign-in.

The row lock and the connections in use are read off the callers' places
(`LocksRow`, `Connected`), so a call that ends in any way gives both back, as the
transaction does. `EnsureErrs` is `ensure_fresh_token` returning an error without
writing: no connection in time, no answer, a failed statement. `Abort` is the death
of the process, a job dropped at shutdown, a request dropped by axum because the
browser closed it, or a failed statement outside the refresh. A new account is named
by the first pair it stores, which stands for its fresh `user_id`.

### Accounts

| Variable | In the code |
|---|---|
| `users` | `users`: the GitHub account, the sealed tokens with the id they are bound to, reminders_paused |
| `sessions` | `sessions` with the `user_sessions` mapping joined in; `old` once the mapping is past 30 days |
| `browser` | the OAuth state cookie, the session cookie, and a page that stays open with the CSRF token it was rendered with |
| `request` | a callback or a POST between two of its statements |
| `drawn` | the random ids, session ids and states used so far: they never repeat |
| `begun`, `granted` | history: which browser began a login, and who authorized it there |

A request reads the browser's cookies when it starts and sets them when its response
arrives (`respond`, `left`); other requests of the same browser run in between. `callback`
checks the state and then goes through exchange, SELECT, INSERT or UPDATE,
installations, session creation and `set_user`; it may fail at each. `disconnect` revokes,
deletes the user (which cascades to the mappings) and destroys the session. `Restart` is
a deployment: requests end, cookies stay readable because the key is in the environment.
The anonymous sessions cja's extractor creates have no user and are left out.

### JobQueue

| Variable | In the code |
|---|---|
| `active`, `elapsed` | users with status `active`; sweeps whose interval has passed |
| `jobs` | the `jobs` table: kind, user, error count, whether `run_at` has come, who locked it, whether the lock is older than its timeout |
| `proc`, `running`, `cron` | each process (`down`, `up`, `draining`), what its worker runs, where its sweep is |
| `cut` | history: jobs whose process was killed under them |

The worker and the table belong to the `cja` framework, which is not in the repository:
they are modelled from the migrations and from how `main.rs` configures them, and
marked external. What cja does about a job whose lock it has lost cannot be read off
either, so `Writes` allows both outcomes.

### ReminderPromise

The life of one review as both reminders promise it: `unseen`, `backlog` or `watched`;
notice is given only of what is watched, and not twice about one comment within the
window, unless the record of the first was lost by a failure (`owed`), or was dropped
because the review was no longer seen (`forgot`), and the review has been seen again and
is watched; watched never becomes backlog. Notices themselves are never forgotten.
`ReminderService` maps its rows to `phase`, its emails to `notice`, the reviews whose
`record` is not kept to `forgot`, and the batch of a reminder between SELECT and send to
`chosen`; the CLI maps its state file to `phase`, its
alerts to `notice`, and chooses and gives in one step.

## Runs

| Run | Instance | What it shows |
|---|---|---|
| `reminder_one` | 1 worker, 1 review, clock to 4, thresholds 1 and 2 (a form may carry 0), window 1, 3 user moves, 1 abort or incomplete search | all safety properties over the life of one row, and the refinement of `ReminderPromise`: there is time to be seen fresh, go stale, be reminded, be re-nudged after the window, be reaped while the pull request is closed or a search misses it, come back and be reminded again |
| `reminder_cap` | 1 worker, 2 reviews, emails of 1 item, 1 move, 1 abort or incomplete search, fairness | liveness: both reviews get their reminder though one email holds one of them; the dashboard converges |
| `token_safety` | 1 worker, 2 requests, 2 connections, 3 pairs | what the row lock and the order of the statements guarantee about the pair |
| `token_live` | 1 worker, 1 request, 2 connections, 2 pairs, fairness | every call ends with all connections in use; a grant that is gone is noticed |
| `prn_check` | 1 process, 2 pull requests on pages of 1, ceiling 2, clock to 4, 2 moves, 1 mishap, command lines of every kind | searches that GitHub changes under, failures and kills at every step, and the refinement of `ReminderPromise` |
| `prn_overlap` | 2 processes, 1 pull request, clock to 3, 1 move, 1 mishap, fairness | two runs over one state file and one temporary file, overlapping or killed: no alert about what no run found fresh; and while runs do not overlap, no entry stays due |
| `accounts` | 2 browsers, persons, requests, users, sessions and logins, 1 fault | racing first sign-ins, a login link opened elsewhere, stale forms, disconnects against sign-ins, restarts |
| `queue` | 2 processes, both kinds of jobs, 1 user, 2 places, 1 retry, 2 stops | claims, drains, kills and timed-out locks of a deployment |
| `queue_live` | 1 process, 2 users of whom one is reliable, 1 kind, 1 stop, fairness | every job ends; a failing enqueue of one user does not starve the other |
| `finding_*` | small | the disagreements below |

Bounds: the thresholds, window and cap are as small as still separates the cases
(below, at, above); reviews influence each other only through the email cap, so two
reviews and a cap of one show the competition; a row's history needs one comment, one
change of settings and one dismissal or opt-out to meet a running job, which three
moves cover. Three pairs let a refresh, a sign-in and a late request each put one in the
row; two calls on two connections are the smallest pool that waiting calls can fill.
Pages of one and a ceiling of two make a search of two pages that can also be cut off,
and one move between the pages is what shifts a result. Two of everything in `accounts`
are the smallest race: the same person in two browsers, or two persons in one. The jobs
table of the code has no bound; where the model's is full a sweep waits, and two places
let jobs of both kinds or of both users be there together.

Deadlock is checked in the queue and CLI runs. In the others the model may stop: the
clock is bounded, a deleted account has nothing left to do, as has a person whose last
bounded pair is gone, or whose bounded sign-ins are used up. Symmetry is used by
`token_safety`, `accounts` and `queue`, which check safety.

### Fairness

`reminder_cap`: a job that can be claimed keeps being enqueued by the cron (every 30 and
15 minutes, for active users) and is claimed in order of `run_at`, so both jobs start
again and again (strong fairness, since one worker is busy with the other kind in
between); a started job takes its next step (weak fairness) unless it dies, which
happens boundedly often in the run; the clock advances. Nothing is assumed of users.
A sweep that starts in the same tick as the previous one does not reap what that one
saw; real clocks never stand still, the bounded one does at the end, so
`DashboardConverges` leaves out rows seen at its very last tick. Searches that miss a
review are bounded like aborts, so both liveness properties are about users whom the
search does not cut off every time: fewer than 1000 reviews, and pages that name the next.

`queue_live` justifies part of this: `WorkGoesOn` says that processes are booted, time
passes, the worker polls and reaches every claimable job in the end, and that the calls
inside a job end; `DatabaseAnswers` says that listing the users, and enqueueing for a
*reliable* user, do not fail each time. Of other users every enqueue may fail.

In `token_live`, `CallsGoOn` says that a call which could go on again and again does:
connections and row locks are granted in the order they were asked for, and a request
to GitHub is answered or breaks. The last part, as the end of a job's calls in
`queue_live`, is an assumption about the network: the HTTP client has no timeout
(`state.rs`), so a connection that never ends would keep the row locked.
`SyncsGoThrough` adds that the cron goes on starting syncs of active users, that tokens
age, and that syncs tried for ever do not all fail at the same point. Weaker fairness is
not enough: if every sync that waits for the row is cut short before its turn, a dead
grant is never noticed.

In `prn_overlap`, cron starts runs with the default arguments again and again, and a run
that is not killed goes on to its end. `DueIsAlerted` starts from an entry that is due
while no run is at work, and asks for a file that can be read in which the entry is
neither due nor backlog: neither a torn file nor one that has gone back to backlog
counts. The only other way out is that two runs overlap, since then it does break.

### Disagreements found

Each of these has a run in which TLC finds it:

* `finding_late_comment`: a comment that reaches GitHub after the last sync but before
  a reminder about an older comment is stored with `last_comment_at < notified_at`.
  Its own crossing of the threshold is then not due; only the 7-day re-nudge comes.
  Syncs run every 30 minutes, so any comment in the half hour before a reminder is hit.
* `finding_overlap_reap`: two overlapping syncs of one user can delete a live row. One
  process runs one job at a time, so this needs two processes (a deployment, which the
  queue shows to run different jobs of a user side by side) or a job that outlives its
  lock.
* `finding_lost_answer`: the answer to a refresh is lost after GitHub has spent the
  token. The row keeps a spent pair, and the next refresh is refused, which asks the
  user to sign in again. `StoredPairUsable` shows that nothing but a lost or incomplete answer does it.

These can be seen by changing a configuration:

* `BacklogOnlyClears` with two workers in `finding_overlap_reap.cfg`: a slow sync that
  read the flags before another one's upsert turns a watched review into backlog for
  good, though `discovery.rs` says "backlog only ever goes true->false".
* `StateFileWhole` in `prn_overlap.cfg`: the temporary name is the same for all runs
  (`state_file.rs:124`), so one run renames the file the other has just truncated. If
  that one is killed before it writes, or the two wrote states of different length over
  each other, the file stays torn, and every later run ends with status 2 until somebody
  deletes it. `state_file.rs:114` calls the save atomic; it is for one run at a time.
* `ImplementsPromise` in `prn_overlap.cfg`: a run that loaded its state before another
  one saved writes the older state back, which turns a watched review into backlog or
  takes back the stamp of an alert, so that it is given again.
* `NoRepeat` without its last disjunct (`record[r] = "anew"`): email, sweep that does not
  find the review because its pull request is closed or a page has moved, higher
  threshold, sweep that finds it fresh, second email about the same comment within the
  window. `jobs.rs:104` and `state_file.rs:142` call what is reaped gone from GitHub
  forever; a closed pull request can be opened again.
* Raising the threshold makes backlog "fresh", which clears the flag; the review is
  emailed about later though nobody touched it, which `README.md:17` and
  `docs/DESIGN.md:57` exclude. No action property is kept for it.

And these were met while reading, outside what the models are about:

* `prn-check --json --quiet` prints the JSON also when there is nothing to report
  (`README.md:84`).
* "Disconnect deletes everything" (`routes.rs:115`) leaves `installations` rows and the
  payloads of queued and dead-lettered jobs.
* `docs/DESIGN.md:33` tells the user by email, once, that a grant is gone;
  `reauth_notified_at` is never written and no such email is sent.
* The response of a disconnect removes the session cookie of a sign-in that the same
  browser has finished in another tab meanwhile; `StaysSignedIn` allows it.
* A settings form rendered before an unsubscribe resumes the reminders when it is sent
  afterwards: last write wins, and the user is the same (`FormsActForTheirUser`).

## Proofs

| Module | Proved, for every value of the constants |
|---|---|
| `ReminderService_proofs` | types, `NoOrphans`, `WatchedOnly`, `OptOutHonoured`, `FlagsKept`, for any number of workers and jobs; that a due row always has a batch (`BatchExists`) |
| `ReminderOne_proofs` | for any number of workers: every stamp follows an email (`StampHasMail`); `OnlyUnseenReaped` and `BacklogOnlyClears` while no two syncs overlap; `StampFollowsMail` while no two reminders do; `NoRepeat` and that the service implements `ReminderPromise` while neither two syncs nor two reminders do |
| `TokenLifecycle_proofs` | types and all safety properties of the run; that a call has at most eight steps (`CallsComeToAnEnd`) and that calls never wait for one another in a circle (`NoCircularWait`) |
| `JobQueue_proofs` | types, `OneRunner`, `NoLockLeftBehind`, `NoJobLost`; that the attempts at a job run out (`AttemptsRunOut`) |
| `Accounts_proofs` | types and all properties of the run |
| `PrnCheck_proofs` | types, `WatchedOnly` and `StampsAreTrue` for any number of runs; `StateFileWhole` for runs that do not overlap; the CLI's parser for every command line |
| `PrnSweep_proofs` | `SweepIsComplete` for runs that do not overlap; that any number of runs come to an end |
| `PrnPromise_proofs` | that runs which do not overlap implement `ReminderPromise` |

"Do not overlap" is a hypothesis of those theorems. For the CLI it is `Alone`: any two
runs are the same one. For the service it is a predicate of the states of a behaviour,
whatever the number of workers: `OneSync` and `OneReminder` (no two workers are in a
job of that kind), `OneOfAKind` (both). A sync and a reminder may always overlap. One
worker is enough (`OneWorkerIsEnough`), and so is a queue that happens to hand out one
job of a kind at a time. The hypotheses are needed: `finding_overlap_reap` shows what two
syncs do to `OnlyUnseenReaped` and, as said above, to `BacklogOnlyClears`; two reminders
that overlap break `StampFollowsMail` and `NoRepeat`.

**ReminderService.** `WatchedOnly` is not inductive: the fact that a review is watched
travels from the row to what a sync has read, to the batch of a reminder, to the email,
and back into the row through another sync's upsert, so `WatchedEvidence` states it at
each of these places. `OptOutHonoured` needs that nothing is recorded as late while the
user accepts emails. `NoOrphans` rests on two lemmas: only the deletion removes a user
(`UserStays`), only an upsert makes a row appear (`RowAppears`). `FlagsKept` follows from
a case analysis of how any step can change a row (`RowChanges`) and from stamps not being
in the future.

The model chooses a batch with `OldestOf`, a predicate; `BatchExists` shows that some
batch satisfies it whenever a row is due, for any number of rows and any cap, so that
the model never blocks where `ORDER BY ... LIMIT` has an answer.

**ReminderOne.** There are four invariants, one for each hypothesis. With no hypothesis,
`AnyInv` says that no email has a time to come, that a reminder holds rows it has chosen
(`MailIsLate`, `HoldsRows`), and that an email which is not owed and whose row was not
reaped since is in that row's `notified_at` (`MailIsRecorded`). While no two syncs
overlap, `SyncInv` adds `SyncKnows`, that the rows are as the sync read them or as it
wrote them - from it, nothing found is reaped and nothing watched becomes backlog - and
`GoneIsUnwatched`: once its row was reaped, a review is not watched before a sweep has
found it fresh. Nothing is assumed of when a review leaves GitHub's results or comes
back, or of what a search finds. While no two reminders overlap, `OwesStamps` says that
the rows to be stamped are owed, which gives `StampFollowsMail`. `OneInv` joins these and
adds `ChosenMay`, which carries the conclusion over the gap between SELECT and send. For
the refinement, `StepKinds` sorts the steps: a SELECT chooses, a send gives, upsert, reap,
stamp and disconnect record, the clock ticks, and the rest stutters or drops what was
chosen.

**TokenLifecycle.** The inductive invariant is `TokenInv`: at most one call holds the row
and what it read is what the row says (`RowLock`); an answered refresh has spent its pair,
and a refusal is about the pair that the row stores (`Answers`); a pair on its way to the row was never
used, is in no late request and is held by one call (`Unstored`) - without it a refresh
could store a pair that somebody has spent; what is stored was issued, and what is spent
had aged (`Used`); only syncs use tokens, only sign-ins pass through the callback's steps
(`CallKinds`). Two theorems are the part of `EveryCallEnds` that needs no fairness.
`StepsLeft` is a rank of at most eight that each step of a call lowers, an error at any
`?` of `ensure_fresh_token` included, and that nobody else raises. `NoCircularWait`
follows the waits: behind the row there is the one call that has it, behind a full pool
some call that has a connection, and that call, or the one it waits for, needs neither.

**JobQueue.** What a worker runs it has locked, unless the job is gone or its lock was
outlived; only a process that is there runs anything; a lock belongs to somebody who runs
the job, was killed under it, or was outlived. A place in the table is reused only when
no worker still has its old job in hand. `AttemptsRunOut` is the part of `JobsEnd` that
needs no fairness: a job in the table stays the same job, its errors only grow, and an
attempt by the worker that has the lock ends with one more error or with the job gone.
An attempt that a kill cuts short does not count, nor need one whose lock was outlived.

**Accounts.** `AccountsInv` has the types and three parts: `Sign`, what a sign-in under way
knows of its state and person; `Rows`, that rows, tokens and mappings agree and ids are
drawn once; `Grants`, that sessions in browsers and in responses on their way come of a
login that the same browser began. Three lemmas say what any step may
do to rows, sessions and cookies (`UsersChange`, `SessionsChange`, `BrowserChange`); the
invariant and both action properties rest on them.

**PrnCheck.** `WatchedInv` states the evidence of `WatchedOnly` for every place a state can
be in: the file, the temporary file, and the memory of any run. `StampInv` does the same for
`StampsAreTrue`, with alerts that are not of the future. `LoneInv` says what one
run at a time knows about the two files. `PromiseInv` adds, for the refinement, that a run
has in memory what is in the file until it sweeps, that comments and alerts are not of
the future, that each alert which is neither owed nor had its entry dropped since is in
the file, and in what will replace it unless that drops it, and that what goes into the file never calls backlog what the file watches.
The parser reads arguments from left to right; that only thresholds of at least one hour
get past it (`InvocationsAreSound`) and that an error or `--help` ends it
(`DecisionsAreFinal`) is shown for command lines of every length: of the positions at
which it would go wrong there would be a least one (`LeastExists`), and the argument
before it excludes that.

**PrnSweep.** `SearchInv` has two parts. `NothingMissed`: each review that is not excused
is in what the search has found, or on a pull request that the cursor has still to
reach; the pages shift while the search runs, and `MovesHideNothing` shows that a move on
GitHub either leaves that true or excuses the review. `CursorInside`: a cursor is zero or
inside the list, so each page moves it on. The first gives `SweepIsComplete`; the second
gives a rank, six plus one for every pull request, that each step of a run lowers.

Assumptions: the named assumptions on constants, all types, bounds and the distinctness
of `Null` and other markers; TLC evaluates them in every run.

Only model-checked: liveness, which under fairness is beyond the prover (the ranks above
are as far as it goes), and the findings, which are about particular behaviours. The
library's induction theorems cannot be used with the provers at hand; where a proof
needs induction over data it takes a least counterexample instead.

## Not modelled

* Wording and rendering of pages, emails and the CLI's output, and the MailPace client:
  no state; a send succeeds, fails, or fails though the email went out.
* The cipher, reading the configuration, telemetry, migrations as such.
* `installations` rows, which only the dashboard shows.
* cja's own code beyond what the repository configures; its anonymous sessions.
* One state file used with different logins: the file does not record whose it is, and
  each run would reap what the other found.
