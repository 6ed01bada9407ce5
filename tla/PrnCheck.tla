------------------------------ MODULE PrnCheck ------------------------------
(***************************************************************************)
(* prn-check, the command-line reminder (src/prn_check): a process that    *)
(* cron starts over and over.  Each run reads the state file, pages        *)
(* through the search, classifies what it found, prints, and replaces the  *)
(* state file through a temporary one.  GitHub changes between two pages,  *)
(* a request or a write fails, the process is killed, or, when a run is    *)
(* slower than cron or started by hand, two runs use the same files.       *)
(***************************************************************************)
EXTENDS ReviewRules, Discovery, PrnArgs

CONSTANTS
  Runs,          \* processes that may run at the same time
  CommandLines,  \* the command lines they are started with
  DedupWindow,   \* NOTIFY_DEDUP_DAYS
  MaxTime,       \* bound: the clock stops here
  MaxMoves,      \* bound: what the user does on GitHub
  MaxMishaps,    \* bound: requests and writes that fail, processes killed
  NoFile,        \* a file that does not exist
  Torn,          \* a file that is no valid state
  Null

ASSUME PrnAssumption ==
  /\ DefaultThreshold \in Nat \ {0}
  /\ DedupWindow \in Nat
  /\ CommandLines \subseteq Seq(Argument)
  /\ MaxTime \in Nat /\ MaxMoves \in Nat /\ MaxMishaps \in Nat

Time == 0 .. MaxTime

VARIABLES
  now,      \* the clock
  open,     \* GitHub: the open pull requests that involve the user
  draft,    \* GitHub: the last pending comment on each, NoReview or Shell
  file,     \* the state file
  tmp,      \* the temporary file beside it
  run,      \* what each process is doing, with its local variables
  moves,    \* bound counter
  mishaps,  \* bound counter
  told,     \* history: the last alert about each review
  owed,     \* history: reviews alerted and not recorded in the file since
  forgot,   \* history: reviews reaped since their last alert
  watched,  \* history: reviews some run has found to be fresh
  excused   \* history: what each run under way may have missed

github  == <<open, draft>>
files   == <<file, tmp>>
bounds  == <<moves, mishaps>>
history == <<told, owed, forgot, watched, excused>>
vars    == <<now, open, draft, file, tmp, run, moves, mishaps,
             told, owed, forgot, watched, excused>>

-----------------------------------------------------------------------------
(* State *)

\* ReviewState, without what is only displayed.
Entry     == [last : Time, backlog : BOOLEAN, notified : Time \cup {Null}]
StateFile == [Pulls -> Entry \cup {Null}]
Empty     == [r \in Pulls |-> Null]
Found     == SUBSET [id : Pulls, last : Time]
Alert     == [at : Time, about : Time]
Section   == {"alert", "snoozed", "backlog", "fresh"}

ASSUME PrnNullAssumption ==
  /\ Null \notin Entry /\ Null \notin Alert /\ Null \notin Time
  /\ NoReview \notin Time /\ Shell \notin Time
  /\ NoFile \notin StateFile /\ Torn \notin StateFile /\ NoFile # Torn

\* A process between two steps.  into: where its open file descriptor points,
\* since a rename moves the file under it.
Idle      == [pc |-> "idle"]
LoadRun   == [pc : {"load"}, threshold : Nat \ {0}]
SearchRun == [pc : {"search"}, threshold : Nat \ {0}, state : StateFile,
              cursor : Nat, count : Nat, found : Found]
SweepRun  == [pc : {"sweep"}, threshold : Nat \ {0}, state : StateFile,
              found : Found]
OpenRun   == [pc : {"open"}, state : StateFile, alerts : SUBSET Pulls]
FillRun   == [pc : {"fill"}, state : StateFile, alerts : SUBSET Pulls,
              into : {"tmp", "file", "gone"}]
RenameRun == [pc : {"rename"}, state : StateFile, alerts : SUBSET Pulls]

Run == {Idle} \cup LoadRun \cup SearchRun \cup SweepRun
         \cup OpenRun \cup FillRun \cup RenameRun

Pending(r) == r \in open /\ draft[r] \notin {NoReview, Shell}

Init ==
  /\ now = 0
  /\ open \in SUBSET Pulls
  /\ draft \in [Pulls -> {NoReview, 0}]
  /\ file = NoFile /\ tmp = NoFile
  /\ run = [p \in Runs |-> Idle]
  /\ moves = 0 /\ mishaps = 0
  /\ told = [r \in Pulls |-> Null]
  /\ owed = {} /\ forgot = {} /\ watched = {}
  /\ excused = [p \in Runs |-> {}]

-----------------------------------------------------------------------------
(* The clock and GitHub *)

Tick ==
  /\ now < MaxTime
  /\ now' = now + 1
  /\ UNCHANGED <<github, files, run, bounds, history>>

\* The user does something on GitHub that hides lost from the searches that
\* are under way.
Move(lost) ==
  /\ moves < MaxMoves /\ moves' = moves + 1
  /\ excused' = [p \in Runs |-> IF run[p].pc = "search"
                                THEN excused[p] \cup lost ELSE excused[p]]
  /\ UNCHANGED <<now, files, run, mishaps, told, owed, forgot, watched>>

Comment(r) ==
  /\ draft[r] # now
  /\ draft' = [draft EXCEPT ![r] = now]
  /\ Move({})
  /\ UNCHANGED open

\* The review is submitted or discarded, or its comments are deleted.
Withdraw(r) ==
  /\ draft[r] \notin {NoReview, Shell}
  /\ \E left \in {NoReview, Shell} : draft' = [draft EXCEPT ![r] = left]
  /\ Move({r})
  /\ UNCHANGED open

\* A pull request leaves the results: those behind it move up by one place,
\* over the end of a page that is already read.
Close(r) ==
  /\ r \in open
  /\ open' = open \ {r}
  /\ Move({s \in Pulls : s >= r})
  /\ UNCHANGED draft

\* A pull request is opened again, or comes to involve the user.
Reopen(r) ==
  /\ r \notin open
  /\ open' = open \cup {r}
  /\ Move({})
  /\ UNCHANGED draft

-----------------------------------------------------------------------------
(* One run *)

Mishap == mishaps < MaxMishaps /\ mishaps' = mishaps + 1 /\ UNCHANGED moves

Becomes(p, next) == run' = [run EXCEPT ![p] = next]
Ends(p)          == Becomes(p, Idle) /\ excused' = [excused EXCEPT ![p] = {}]

\* A request or a file operation fails, or the process is killed.
Fail(p) ==
  /\ run[p] # Idle
  /\ Ends(p)
  /\ Mishap
  /\ UNCHANGED <<now, github, files, told, owed, forgot, watched>>

\* Without --login GitHub is asked whose token it is (viewer), and a reply
\* without a login is an error.
viewer_login(args, viewer) == args.login \/ viewer

\* What main and the head of run make of a command line and the environment
\* (is there a home for the state file, is there a token): the threshold to
\* run with.  Every other invocation ends at once and touches nothing.
Accepted(argv, home, token, viewer) ==
  LET cli == parse_args(argv, home)
  IN  IF cli.verdict = "run" /\ token /\ viewer_login(cli.args, viewer)
      THEN {cli.args.threshold} ELSE {}

Invocations == UNION {Accepted(argv, home, token, viewer) :
  argv \in CommandLines, home \in BOOLEAN, token \in BOOLEAN, viewer \in BOOLEAN}

Start(p, threshold) ==
  /\ run[p] = Idle
  /\ Becomes(p, [pc |-> "load", threshold |-> threshold])
  /\ UNCHANGED <<now, github, files, bounds, history>>

\* A missing file is a first run.
Loaded == IF file = NoFile THEN Empty ELSE file

\* A file that is no valid state is an error: it is left for the user.
load(p) ==
  /\ run[p].pc = "load"
  /\ IF Loaded = Torn
     THEN Ends(p)
     ELSE /\ Becomes(p, [pc |-> "search", threshold |-> run[p].threshold,
                         state |-> Loaded,
                         cursor |-> 0, count |-> 0, found |-> {}])
          /\ excused' = [excused EXCEPT ![p] = {r \in Pulls : ~Pending(r)}]
  /\ UNCHANGED <<now, github, files, bounds, told, owed, forgot, watched>>

\* One turn of the loop over the pages.
SearchPage(p) ==
  LET cursor == run[p].cursor
      sound  == PageAfter(open, draft, cursor)
  IN  /\ run[p].pc = "search"
      /\ \E reply \in Replies(sound) :
           LET new   == extract_reviews(reply.page.nodes)
               count == run[p].count + Cardinality(new)
               kept  == Truncated(new, MaxResults - run[p].count)
               found == run[p].found \cup kept
               rest  == {r \in open : Place(open, r) > cursor + PageSize}
           IN  /\ IF reply.page = sound THEN UNCHANGED bounds ELSE Mishap
               /\ Usable(reply)
               /\ IF LastPage(count, reply.page)
                  THEN /\ Becomes(p, [pc |-> "sweep", threshold |-> run[p].threshold,
                                      state |-> run[p].state, found |-> found])
                       /\ excused' = [excused EXCEPT ![p] = @ \cup
                            IF count >= MaxResults \/ ~reply.page.cursor
                            THEN rest \cup {d.id : d \in new \ kept} ELSE {}]
                  ELSE /\ Becomes(p, [run[p] EXCEPT !.cursor = @ + PageSize,
                                      !.count = count, !.found = found])
                       /\ UNCHANGED excused
  /\ UNCHANGED <<now, github, files, told, owed, forgot, watched>>

\* What the state file said of a review before the sweep.
Prior(entry) == IF entry = Null THEN "new"
                ELSE IF entry.backlog THEN "backlog" ELSE "watched"

\* Faulty variant: once alerted, only a comment makes it alert again.
Renotifies_Once(entry, last, at) ==
  entry.notified = Null \/ entry.notified < last

\* Faulty variant: the window is not strict.
Renotifies_Inclusive(entry, last, at) ==
  entry.notified = Null \/ entry.notified < last \/ entry.notified <= at - DedupWindow

\* Never alerted, a comment since the last alert, or past the window.
Renotifies(entry, last, at) ==
  entry.notified = Null \/ entry.notified < last \/ entry.notified < at - DedupWindow

\* The section a discovered review is listed in.
Classify(entry, last, threshold, at) ==
  LET stale == IsStale(last, threshold, at)
  IN  IF ResolveBacklog(Prior(entry), stale) THEN "backlog"
      ELSE IF ~stale THEN "fresh"
      ELSE IF entry = Null \/ Renotifies(entry, last, at) THEN "alert"
      ELSE "snoozed"

\* Faulty variant: a review that is only shown as reported is stamped again.
Resolved_StampsSnoozed(entry, last, threshold, at) ==
  LET section == Classify(entry, last, threshold, at)
  IN  [last     |-> last,
       backlog  |-> section = "backlog",
       notified |-> IF section \in {"alert", "snoozed"} THEN at
                    ELSE IF entry = Null THEN Null ELSE entry.notified]

\* The entry after the sweep: alerting stamps it.
Resolved(entry, last, threshold, at) ==
  LET section == Classify(entry, last, threshold, at)
  IN  [last     |-> last,
       backlog  |-> section = "backlog",
       notified |-> IF section = "alert" THEN at
                    ELSE IF entry = Null THEN Null ELSE entry.notified]

\* A review that moved to a later page while the search went on is listed
\* twice; the second listing, which is the newer one, is what is stored.
Listed(found, r) == {d.last : d \in {e \in found : e.id = r}}
Newest(times)    == CHOOSE t \in times : \A u \in times : u <= t

\* The state after a sweep: what is not found is reaped.
apply_sweep(state, found, threshold, at) ==
  [r \in Pulls |->
     IF Listed(found, r) = {} THEN Null
     ELSE Resolved(state[r], Newest(Listed(found, r)), threshold, at)]

\* The outcome of a sweep: the listings of each section.
Outcome(state, found, threshold, at) ==
  [section \in Section |->
     {d \in found : Classify(state[d.id], d.last, threshold, at) = section}]

\* The sweep takes the time, classifies and prints; nothing happens between.
SweepAndPrint(p) ==
  LET me      == run[p]
      outcome == Outcome(me.state, me.found, me.threshold, now)
      alerts  == {d.id : d \in outcome["alert"]}
  IN  /\ me.pc = "sweep"
      /\ Becomes(p, [pc |-> "open", alerts |-> alerts,
                     state |-> apply_sweep(me.state, me.found, me.threshold, now)])
      /\ told' = [r \in Pulls |->
           IF r \in alerts
           THEN [at |-> now, about |-> Newest(Listed(outcome["alert"], r))]
           ELSE told[r]]
      /\ owed' = owed \cup alerts
      /\ forgot' = forgot \ alerts
      /\ watched' = watched \cup {d.id : d \in outcome["fresh"]}
      /\ UNCHANGED <<now, github, files, bounds, excused>>

-----------------------------------------------------------------------------
(* save *)

\* Faulty variant: the state file itself is opened for writing.
OpenTmp_InPlace(p) ==
  /\ run[p].pc = "open"
  /\ file' = Torn
  /\ Becomes(p, [pc |-> "fill", state |-> run[p].state,
                 alerts |-> run[p].alerts, into |-> "file"])
  /\ UNCHANGED <<now, github, tmp, bounds, history>>

\* The temporary file is created, or emptied if it is there.
OpenTmp(p) ==
  /\ run[p].pc = "open"
  /\ tmp' = Torn
  /\ Becomes(p, [pc |-> "fill", state |-> run[p].state,
                 alerts |-> run[p].alerts, into |-> "tmp"])
  /\ UNCHANGED <<now, github, file, bounds, history>>

\* Written over an empty file the state is whole; over another state it may
\* leave the end of that one behind.
Over(old, new) == IF old \in {NoFile, Torn} THEN {new} ELSE {new, Torn}

FillTmp(p) ==
  LET me == run[p]
  IN  /\ me.pc = "fill"
      /\ IF me.into = "tmp" THEN tmp' \in Over(tmp, me.state) ELSE UNCHANGED tmp
      /\ IF me.into = "file" THEN file' \in Over(file, me.state) ELSE UNCHANGED file
      /\ Becomes(p, [pc |-> "rename", state |-> me.state, alerts |-> me.alerts])
      /\ UNCHANGED <<now, github, bounds, history>>

\* Where the descriptors of the other processes point after a rename.
Moved(me) == IF me.pc # "fill" THEN me
             ELSE [me EXCEPT !.into = IF @ = "tmp" THEN "file" ELSE "gone"]

\* The alerts that a state records.
Recorded(state) == {r \in Pulls : state[r] # Null /\ told[r] # Null
  /\ state[r].notified # Null /\ state[r].notified >= told[r].at}

\* The reviews that were alerted and have no entry any more.
Reaped(state) == {r \in Pulls : state[r] = Null /\ told[r] # Null}

\* The rename that replaces the state file ends the run, with status 1 if it
\* alerted; every other end is an error's.
Rename(p) ==
  /\ run[p].pc = "rename"
  /\ tmp # NoFile
  /\ file' = tmp /\ tmp' = NoFile
  /\ run' = [q \in Runs |->
       IF q = p THEN Idle ELSE Moved(run[q])]
  /\ owed' = owed \ Recorded(run[p].state)
  /\ forgot' = forgot \cup Reaped(run[p].state)
  /\ excused' = [excused EXCEPT ![p] = {}]
  /\ UNCHANGED <<now, github, bounds, told, watched>>

\* Another run has taken the temporary file away.
RenameFails(p) ==
  /\ run[p].pc = "rename"
  /\ tmp = NoFile
  /\ Ends(p)
  /\ UNCHANGED <<now, github, files, bounds, told, owed, forgot, watched>>

-----------------------------------------------------------------------------

Steps(p) ==
  \/ load(p) \/ SearchPage(p) \/ SweepAndPrint(p)
  \/ OpenTmp(p) \/ FillTmp(p) \/ Rename(p) \/ RenameFails(p)

GitHubUser ==
  \E r \in Pulls : Comment(r) \/ Withdraw(r) \/ Close(r) \/ Reopen(r)

Starts(p) == \E threshold \in Invocations : Start(p, threshold)

Next == Tick \/ GitHubUser \/ \E p \in Runs : Starts(p) \/ Steps(p) \/ Fail(p)

Spec == Init /\ [][Next]_vars

\* Cron starts a run with the default arguments over and over, and a run that
\* is not killed goes on to its end.
Fairness == \A p \in Runs : SF_vars(Start(p, DefaultThreshold)) /\ WF_vars(Steps(p))

LiveSpec == Spec /\ Fairness

-----------------------------------------------------------------------------
(* What must hold, however many runs overlap *)

TypeOK ==
  /\ now \in Time
  /\ open \subseteq Pulls
  /\ draft \in [Pulls -> Time \cup {NoReview, Shell}]
  /\ file \in StateFile \cup {NoFile, Torn}
  /\ tmp \in StateFile \cup {NoFile, Torn}
  /\ run \in [Runs -> Run]
  /\ moves \in 0 .. MaxMoves /\ mishaps \in 0 .. MaxMishaps
  /\ told \in [Pulls -> Alert \cup {Null}]
  /\ owed \subseteq Pulls /\ forgot \subseteq Pulls /\ watched \subseteq Pulls
  /\ excused \in [Runs -> SUBSET Pulls]

\* No alert is ever about a review that no run has found fresh: the first run
\* on an old account, or the first after a long pause, is quiet (state_file.rs
\* apply_sweep, discovery.rs resolve_backlog).
WatchedOnly == \A r \in Pulls : told[r] # Null => r \in watched

\* The file says a review was reported only if it was, and not later than the
\* last report (state_file.rs apply_sweep, main.rs: save after print).
StampsAreTrue == file \in StateFile =>
  \A r \in Pulls : file[r] # Null /\ file[r].notified # Null =>
    told[r] # Null /\ file[r].notified <= told[r].at

-----------------------------------------------------------------------------
(* What must hold when runs do not overlap *)

\* Wherever a run is killed, the next one finds the state file missing or
\* whole (state_file.rs save, "Persist the state file atomically").  Two runs
\* that write through one temporary name may tear it.
StateFileWhole == file # Torn

\* What a run reads, searches and prints in the end goes into the file as one:
\* a review the search could not miss is tracked from then on, however many
\* pages there are and whatever a reply lacked (discovery.rs
\* discover_pending_reviews, state_file.rs apply_sweep and save).
SweepIsComplete == [][\A p \in Runs :
  run[p].pc = "rename" /\ tmp # NoFile /\ tmp' = NoFile
    => \A r \in Pulls \ excused[p] : file'[r] # Null]_vars

\* What the state file says of each review.
Phases == [r \in Pulls |->
  IF file \in {NoFile, Torn} THEN "unseen"
  ELSE IF file[r] = Null THEN "unseen"
  ELSE IF file[r].backlog THEN "backlog" ELSE "watched"]

\* The promise both reminders make.
Promise == INSTANCE ReminderPromise WITH
  Reviews <- Pulls,
  Window  <- DedupWindow,
  phase   <- Phases,
  notice  <- told,
  forgot  <- forgot,
  chosen  <- [r \in Pulls |-> Null]

\* Runs that find, alert and save are steps of a reminder that floods nobody
\* and repeats nothing: two alerts about the same comment are more than the
\* window apart, unless the run that gave the first did not get to save
\* ("a duplicate beats a miss", main.rs), or a run in between did not find the
\* review and dropped its entry, and a later one has found it fresh by its own
\* threshold (state_file.rs apply_sweep: entries not discovered are dropped).
ImplementsPromise == Promise!Spec

-----------------------------------------------------------------------------
(* What must happen in the end *)

\* An entry that asks for an alert: watched, stale, and not reported since its
\* last comment or within the window.
AsksForAlert(entry) ==
  /\ ~entry.backlog
  /\ now - entry.last > DefaultThreshold
  /\ \/ entry.notified = Null
     \/ entry.notified < entry.last
     \/ now - entry.notified > DedupWindow

Due(r) == file \in StateFile /\ file[r] # Null /\ AsksForAlert(file[r])

\* A file that can be read, and what it says of the review is not due and not
\* backlog: it is stamped, reaped, or has a recent comment.
Settled(r) ==
  /\ file \in StateFile
  /\ file[r] # Null => ~file[r].backlog /\ ~AsksForAlert(file[r])

\* Two runs are at work on the same files.
Overlapping == \E p, q \in Runs : p # q /\ run[p] # Idle /\ run[q] # Idle

\* While cron starts one run after the other, an entry that is due does not
\* stay so: whatever runs are killed, a later one alerts and stamps it, or
\* finds that GitHub says otherwise.  A file that no run can read any more, or
\* an entry turned into backlog, is no way out; only runs that overlap may do
\* that (discovery.rs resolve_backlog, state_file.rs apply_sweep and save).
DueIsAlerted == \A r \in Pulls :
  Due(r) /\ (\A p \in Runs : run[p] = Idle) ~> Settled(r) \/ Overlapping
=============================================================================
