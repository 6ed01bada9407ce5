------------------------------ MODULE JobQueue ------------------------------
(***************************************************************************)
(* How the jobs come to run: the cron that sweeps the active users and     *)
(* enqueues a job for each (src/cron.rs), the jobs table and the workers   *)
(* that claim from it, and the processes that boot, drain and die around   *)
(* them (src/main.rs).  The worker and the table are those of the cja      *)
(* framework, modelled as main.rs and the migrations describe and          *)
(* configure them.                                                         *)
(***************************************************************************)
EXTENDS Integers, Sequences, FiniteSets

CONSTANTS
  Users,
  Reliable,    \* the users whose enqueue does not fail for ever
  Kinds,       \* "SyncUser" and "SendReminder", each with a sweep of its own
  Processes,   \* processes of the service: old and new, in a deployment
  Slots,       \* bound: the jobs the table holds at a time
  MaxRetries,  \* DEFAULT_MAX_RETRIES
  MaxStops,    \* bound: processes stopped or killed, locks outlived
  MaxMoves,    \* bound: users who sign up, leave or lose their grant
  Null

ASSUME QueueAssumption ==
  /\ Reliable \subseteq Users /\ IsFiniteSet(Users)
  /\ "SyncUser" \in Kinds
  /\ MaxRetries \in Nat /\ MaxStops \in Nat /\ MaxMoves \in Nat

VARIABLES
  active,   \* the users with status 'active'
  elapsed,  \* the sweeps whose interval has passed since they last ran
  jobs,     \* the jobs table
  proc,     \* the state of each process
  running,  \* the job each process' worker is running, or Null
  cron,     \* the sweep each process' cron is in, or Null
  stops,    \* bound counter
  moves,    \* bound counter
  cut       \* history: jobs whose process was killed under them

vars == <<active, elapsed, jobs, proc, running, cron, stops, moves, cut>>

-----------------------------------------------------------------------------
(* State *)

\* ready: run_at has come.  old: the lock is older than the two hours after
\* which it is void.  outlived: some lock of this job has become old.
Job == [kind : Kinds, user : Users, errors : 0 .. MaxRetries, ready : BOOLEAN,
        lock : Processes \cup {Null}, old : BOOLEAN, outlived : BOOLEAN]

\* A sweep has listed the users, and has those in todo still before it.
Sweep == [kind : Kinds, todo : Seq(Users)]

ASSUME QueueNullAssumption ==
  Null \notin Job /\ Null \notin Sweep /\ Null \notin Processes /\ Null \notin Slots

Init ==
  /\ active = Users
  /\ elapsed = {}
  /\ jobs = [s \in Slots |-> Null]
  /\ proc = [p \in Processes |-> "down"]
  /\ running = [p \in Processes |-> Null]
  /\ cron = [p \in Processes |-> Null]
  /\ stops = 0 /\ moves = 0
  /\ cut = {}

Move == moves < MaxMoves /\ moves' = moves + 1
Stop == stops < MaxStops /\ stops' = stops + 1

\* A new job has a new id: not one that a worker still has in its hands.
Free(s) == jobs[s] = Null /\ \A p \in Processes : running[p] # s

\* The table has no bound: where the model's is full, a sweep waits.
HasRoom == \E s \in Slots : Free(s)

enqueue(s, kind, u) ==
  /\ Free(s)
  /\ jobs' = [jobs EXCEPT ![s] = [kind |-> kind, user |-> u, errors |-> 0,
       ready |-> TRUE, lock |-> Null, old |-> FALSE, outlived |-> FALSE]]
  /\ cut' = cut \ {s}

-----------------------------------------------------------------------------
(* Users *)

\* A sign-in makes a user active, and enqueues the first sync if it can.
SignUp(u) ==
  /\ Move
  /\ active' = active \cup {u}
  /\ \/ UNCHANGED <<jobs, cut>>
     \/ \E s \in Slots : enqueue(s, "SyncUser", u)
  /\ UNCHANGED <<elapsed, proc, running, cron, stops>>

\* A user disconnects, or GitHub refuses the refresh token.
Leave(u) ==
  /\ Move
  /\ active' = active \ {u}
  /\ UNCHANGED <<elapsed, jobs, proc, running, cron, stops, cut>>

-----------------------------------------------------------------------------
(* The cron (src/cron.rs) *)

\* 30 or 15 minutes have passed since the sweep last began.
Elapse(kind) ==
  /\ kind \notin elapsed
  /\ elapsed' = elapsed \cup {kind}
  /\ UNCHANGED <<active, jobs, proc, running, cron, stops, moves, cut>>

\* The orders in which a SELECT may list the users.
Listings(S) == {q \in [1 .. Cardinality(S) -> S] : \A u \in S :
                  \E i \in 1 .. Cardinality(S) : q[i] = u}

\* run_cron finds a sweep whose time has come.  If the users cannot be listed
\* the sweep is over.
SweepBegins(p, kind) ==
  /\ proc[p] = "up" /\ cron[p] = Null
  /\ kind \in elapsed
  /\ elapsed' = elapsed \ {kind}
  /\ \/ \E order \in Listings(active) :
          cron' = [cron EXCEPT ![p] = [kind |-> kind, todo |-> order]]
     \/ UNCHANGED cron
  /\ UNCHANGED <<active, jobs, proc, running, stops, moves, cut>>

\* Faulty variant: a failed enqueue ends the sweep.
SweepNext_StopsAtError(p) ==
  /\ cron[p] # Null /\ cron[p].todo # <<>> /\ HasRoom
  /\ \/ /\ \E s \in Slots : enqueue(s, cron[p].kind, Head(cron[p].todo))
        /\ cron' = [cron EXCEPT ![p].todo = Tail(@)]
     \/ cron' = [cron EXCEPT ![p] = Null] /\ UNCHANGED <<jobs, cut>>
  /\ UNCHANGED <<active, elapsed, proc, running, stops, moves>>

\* One more user: the job is enqueued, or that fails and the next is tried.
SweepNext(p) ==
  /\ cron[p] # Null /\ cron[p].todo # <<>> /\ HasRoom
  /\ \/ \E s \in Slots : enqueue(s, cron[p].kind, Head(cron[p].todo))
     \/ UNCHANGED <<jobs, cut>>
  /\ cron' = [cron EXCEPT ![p].todo = Tail(@)]
  /\ UNCHANGED <<active, elapsed, proc, running, stops, moves>>

SweepEnds(p) ==
  /\ cron[p] # Null /\ cron[p].todo = <<>>
  /\ cron' = [cron EXCEPT ![p] = Null]
  /\ UNCHANGED <<active, elapsed, jobs, proc, running, stops, moves, cut>>

-----------------------------------------------------------------------------
(* The worker of cja *)

\* Faulty variant: locks are not looked at.
Claimable_Locked(s) == jobs[s] # Null /\ jobs[s].ready

\* fetch_next_job, as the migration of the poll index quotes it.
Claimable(s) ==
  /\ jobs[s] # Null /\ jobs[s].ready
  /\ jobs[s].lock = Null \/ jobs[s].old

Claim(p, s) ==
  /\ proc[p] = "up" /\ running[p] = Null
  /\ Claimable(s)
  /\ jobs' = [jobs EXCEPT ![s].lock = p, ![s].old = FALSE]
  /\ running' = [running EXCEPT ![p] = s]
  /\ UNCHANGED <<active, elapsed, proc, cron, stops, moves, cut>>

\* What a worker does about a job whose lock it has lost is not to be seen
\* from here: it writes to the job or it does not.
Owns(p, s) == IF jobs[s] = Null THEN FALSE ELSE jobs[s].lock = p

Writes(p, job) ==
  LET s == running[p] IN
  \/ jobs[s] # Null /\ jobs' = [jobs EXCEPT ![s] = job]
  \/ ~Owns(p, s) /\ UNCHANGED jobs

\* The job has run: it leaves the table.
Complete(p) ==
  /\ running[p] # Null
  /\ Writes(p, Null)
  /\ running' = [running EXCEPT ![p] = Null]
  /\ UNCHANGED <<active, elapsed, proc, cron, stops, moves, cut>>

\* Faulty variant: a failure is not counted.
Failed_NotCounted(job) == [job EXCEPT !.lock = Null, !.old = FALSE, !.ready = FALSE]

\* Faulty variant: one retry too many.
Failed_OffByOne(job) ==
  IF job.errors > MaxRetries THEN Null
  ELSE [job EXCEPT !.errors = @ + 1, !.lock = Null, !.old = FALSE, !.ready = FALSE]

\* After a failure a job waits for a while, or moves to dead_letter_jobs.
Failed(job) ==
  IF job.errors = MaxRetries THEN Null
  ELSE [job EXCEPT !.errors = @ + 1, !.lock = Null, !.old = FALSE, !.ready = FALSE]

Fail(p) ==
  /\ running[p] # Null
  /\ Writes(p, IF jobs[running[p]] = Null THEN Null ELSE Failed(jobs[running[p]]))
  /\ running' = [running EXCEPT ![p] = Null]
  /\ UNCHANGED <<active, elapsed, proc, cron, stops, moves, cut>>

\* The backoff is over.
Ready(s) ==
  /\ jobs[s] # Null /\ ~jobs[s].ready
  /\ jobs' = [jobs EXCEPT ![s].ready = TRUE]
  /\ UNCHANGED <<active, elapsed, proc, running, cron, stops, moves, cut>>

\* Two hours pass over a lock, of a process that is no more or of a job that
\* is still running.
Aged(s) ==
  /\ jobs[s] # Null /\ jobs[s].lock # Null /\ ~jobs[s].old
  /\ jobs' = [jobs EXCEPT ![s].old = TRUE, ![s].outlived = TRUE]
  /\ UNCHANGED <<active, elapsed, proc, running, cron, moves, cut>>

Held(s) == \E p \in Processes : running[p] = s

LockLeftBehind(s) == ~Held(s) /\ Aged(s) /\ UNCHANGED stops
LockOutlived(s)   == Held(s) /\ Aged(s) /\ Stop

-----------------------------------------------------------------------------
(* Processes (src/main.rs) *)

Boot(p) ==
  /\ proc[p] = "down"
  /\ proc' = [proc EXCEPT ![p] = "up"]
  /\ UNCHANGED <<active, elapsed, jobs, running, cron, stops, moves, cut>>

\* SIGTERM or SIGINT: nothing new is begun; what runs has job_drain to end.
Sigterm(p) ==
  /\ proc[p] = "up"
  /\ proc' = [proc EXCEPT ![p] = "draining"]
  /\ Stop
  /\ UNCHANGED <<active, elapsed, jobs, running, cron, moves, cut>>

Down(p) ==
  /\ proc' = [proc EXCEPT ![p] = "down"]
  /\ running' = [running EXCEPT ![p] = Null]
  /\ cron' = [cron EXCEPT ![p] = Null]

\* Faulty variant: the job counts as done when the process leaves.
Drained_Forgets(p) ==
  /\ proc[p] = "draining"
  /\ jobs' = [s \in Slots |-> IF s = running[p] THEN Null ELSE jobs[s]]
  /\ Down(p)
  /\ UNCHANGED <<active, elapsed, stops, moves, cut>>

\* Faulty variant: the lock stays.
Drained_KeepsLock(p) ==
  /\ proc[p] = "draining"
  /\ Down(p)
  /\ UNCHANGED <<active, elapsed, jobs, stops, moves, cut>>

\* The drain is over: a job that still runs is dropped and its lock released.
Drained(p) ==
  /\ proc[p] = "draining"
  /\ jobs' = [s \in Slots |->
       IF s = running[p] /\ Owns(p, s)
       THEN [jobs[s] EXCEPT !.lock = Null, !.old = FALSE] ELSE jobs[s]]
  /\ Down(p)
  /\ UNCHANGED <<active, elapsed, stops, moves, cut>>

\* SIGKILL, a panic, the machine: locks stay behind.
Kill(p) ==
  /\ proc[p] # "down"
  /\ Down(p)
  /\ Stop
  /\ cut' = IF running[p] = Null THEN cut ELSE cut \cup {running[p]}
  /\ UNCHANGED <<active, elapsed, jobs, moves>>

-----------------------------------------------------------------------------
Next ==
  \/ \E u \in Users : SignUp(u) \/ Leave(u)
  \/ \E kind \in Kinds : Elapse(kind)
  \/ \E p \in Processes :
       \/ \E kind \in Kinds : SweepBegins(p, kind)
       \/ SweepNext(p) \/ SweepEnds(p)
       \/ \E s \in Slots : Claim(p, s)
       \/ Complete(p) \/ Fail(p)
       \/ Boot(p) \/ Sigterm(p) \/ Drained(p) \/ Kill(p)
  \/ \E s \in Slots : Ready(s) \/ LockLeftBehind(s) \/ LockOutlived(s)

Spec == Init /\ [][Next]_vars

\* Processes are booted, time passes, the worker polls and gets to every job in
\* its turn, and the calls of a job end.
WorkGoesOn ==
  /\ \A kind \in Kinds : WF_vars(Elapse(kind))
  /\ \A p \in Processes :
       /\ WF_vars(Boot(p)) /\ WF_vars(Drained(p))
       /\ WF_vars(Complete(p) \/ Fail(p))
       /\ WF_vars(SweepNext(p) \/ SweepEnds(p))
  /\ \A s \in Slots :
       /\ WF_vars(Ready(s)) /\ WF_vars(LockLeftBehind(s))
       /\ SF_vars(\E p \in Processes : Claim(p, s))

\* The database does not refuse the list of users, or the job of a reliable
\* user, each time it is tried.
Listed(p, kind)      == SweepBegins(p, kind) /\ cron'[p] # Null
Enqueued(kind, u) == \E p \in Processes :
  /\ SweepNext(p) /\ jobs' # jobs
  /\ cron[p].kind = kind /\ Head(cron[p].todo) = u

DatabaseAnswers ==
  \A kind \in Kinds :
    /\ SF_vars(\E p \in Processes : Listed(p, kind))
    /\ \A u \in Reliable : SF_vars(Enqueued(kind, u))

LiveSpec == Spec /\ WorkGoesOn /\ DatabaseAnswers

-----------------------------------------------------------------------------
(* Properties *)

TypeOK ==
  /\ active \subseteq Users
  /\ elapsed \subseteq Kinds
  /\ jobs \in [Slots -> Job \cup {Null}]
  /\ proc \in [Processes -> {"down", "up", "draining"}]
  /\ running \in [Processes -> Slots \cup {Null}]
  /\ cron \in [Processes -> Sweep \cup {Null}]
  /\ stops \in 0 .. MaxStops /\ moves \in 0 .. MaxMoves
  /\ cut \subseteq Slots

\* Two workers run the same job only if its lock was outlived: in a deployment
\* old and new process never do (migrations: the poll query).
OneRunner == \A p, q \in Processes :
  p # q /\ running[p] # Null /\ running[p] = running[q] =>
    jobs[running[p]] = Null \/ jobs[running[p]].outlived

\* A job is never locked for nobody, unless its process was killed: what a
\* deployment interrupts "the next boot claims at once" (main.rs
\* SHUTDOWN_BUDGET).
NoLockLeftBehind == \A s \in Slots :
  jobs[s] # Null /\ jobs[s].lock # Null =>
    running[jobs[s].lock] = s \/ s \in cut \/ jobs[s].outlived

\* A job leaves the table only when a worker has come to its end, never with a
\* process (main.rs: what is still running is dropped with its lock released).
NoJobLost == [][\A s \in Slots :
  jobs[s] # Null /\ jobs'[s] = Null =>
    \E p \in Processes : running[p] = s /\ running'[p] = Null /\ proc'[p] # "down"]_vars

\* Every job comes to its end: it is done or dead-lettered, whatever fails and
\* whichever processes die (jobs.rs "dead-lettered after max retries").
JobsEnd == \A s \in Slots : jobs[s] # Null ~> jobs[s] = Null

RunsFor(kind, u) == \E p \in Processes : running[p] # Null /\
  LET job == jobs[running[p]] IN job # Null /\ job.kind = kind /\ job.user = u

\* Each reliable user who stays active is synced and checked for reminders
\* again and again, though every enqueue for another user may fail (cron.rs
\* "one bad row cannot ... block the rest of the fan-out").
EveryoneIsServed == \A kind \in Kinds, u \in Reliable :
  []<>(u \notin active \/ RunsFor(kind, u))
=============================================================================
