--------------------------- MODULE JobQueue_proofs ---------------------------
(***************************************************************************)
(* Who runs and who locks a job, for any number of processes, users and    *)
(* jobs, and any number of retries, stops and kills.                       *)
(***************************************************************************)
EXTENDS JobQueue, FiniteSetTheorems, SequenceTheorems, TLAPS

\* What a worker runs it has locked, unless the job is gone or a lock of it
\* was outlived.
RunnersOwn == \A p \in Processes :
  running[p] # Null =>
    \/ jobs[running[p]] = Null
    \/ jobs[running[p]].lock = p
    \/ jobs[running[p]].outlived

OldIsOutlived == \A s \in Slots :
  jobs[s] # Null /\ jobs[s].old => jobs[s].outlived

\* Only a process that is there runs anything.
RunnersAreUp == \A p \in Processes : running[p] # Null => proc[p] # "down"

QueueInv ==
  TypeOK /\ RunnersOwn /\ OldIsOutlived /\ RunnersAreUp /\ NoLockLeftBehind

-----------------------------------------------------------------------------
(* Types *)

\* A new job is a job, and a failed one is a job or gone.
LEMMA JobTypes ==
  /\ \A kind \in Kinds, u \in Users :
       [kind |-> kind, user |-> u, errors |-> 0, ready |-> TRUE,
        lock |-> Null, old |-> FALSE, outlived |-> FALSE] \in Job
  /\ \A job \in Job : Failed(job) \in Job \cup {Null}
<1>1. \A kind \in Kinds, u \in Users :
        [kind |-> kind, user |-> u, errors |-> 0, ready |-> TRUE,
         lock |-> Null, old |-> FALSE, outlived |-> FALSE] \in Job
  BY QueueAssumption DEF Job
<1>2. ASSUME NEW job \in Job, job.errors # MaxRetries
      PROVE  [job EXCEPT !.errors = @ + 1, !.lock = Null, !.old = FALSE,
                         !.ready = FALSE] \in Job
  <2>1. job.errors + 1 \in 0 .. MaxRetries
    BY <1>2, QueueAssumption DEF Job
  <2> QED BY <2>1 DEF Job
<1> QED BY <1>1, <1>2 DEF Failed

\* A listing of users is a sequence of users.
LEMMA ListingsType ==
  ASSUME NEW S \in SUBSET Users, NEW q \in Listings(S)
  PROVE  q \in Seq(Users)
<1>1. IsFiniteSet(S)
  BY QueueAssumption, FS_Subset
<1>2. Cardinality(S) \in Nat
  BY <1>1, FS_CardinalityType
<1>3. q \in [1 .. Cardinality(S) -> Users]
  BY DEF Listings
<1> QED BY <1>2, <1>3, SeqDef

\* An enqueued job is one more job in the table.
LEMMA EnqueueType ==
  ASSUME TypeOK, NEW s \in Slots, NEW kind \in Kinds, NEW u \in Users,
         enqueue(s, kind, u)
  PROVE  jobs' \in [Slots -> Job \cup {Null}] /\ cut' \subseteq Slots
BY JobTypes DEF TypeOK, enqueue

LEMMA InitTypeOK == Init => TypeOK
BY QueueAssumption DEF Init, TypeOK

LEMMA NextTypeOK == TypeOK /\ [Next]_vars => TypeOK'
<1> SUFFICES ASSUME TypeOK, [Next]_vars PROVE TypeOK'
  OBVIOUS
<1> USE QueueAssumption DEF TypeOK
<1>1. ASSUME NEW u \in Users, SignUp(u) PROVE TypeOK'
  <2>1. jobs' \in [Slots -> Job \cup {Null}] /\ cut' \subseteq Slots
    BY <1>1, EnqueueType DEF SignUp
  <2> QED BY <1>1, <2>1 DEF SignUp, Move
<1>2. ASSUME NEW u \in Users, Leave(u) PROVE TypeOK'
  BY <1>2 DEF Leave, Move
<1>3. ASSUME NEW kind \in Kinds, Elapse(kind) PROVE TypeOK'
  BY <1>3 DEF Elapse
<1>4. ASSUME NEW p \in Processes, NEW kind \in Kinds, SweepBegins(p, kind)
      PROVE  TypeOK'
  <2>1. \A order \in Listings(active) : [kind |-> kind, todo |-> order] \in Sweep
    BY ListingsType DEF Sweep
  <2>2. cron' \in [Processes -> Sweep \cup {Null}]
    BY <1>4, <2>1 DEF SweepBegins
  <2> QED BY <1>4, <2>2 DEF SweepBegins
<1>5. ASSUME NEW p \in Processes, SweepNext(p) PROVE TypeOK'
  <2>1. /\ cron[p] \in Sweep
        /\ cron[p].kind \in Kinds /\ cron[p].todo \in Seq(Users)
        /\ cron[p].todo # <<>>
    BY <1>5 DEF SweepNext, Sweep
  <2>2. Head(cron[p].todo) \in Users /\ Tail(cron[p].todo) \in Seq(Users)
    BY <2>1, HeadTailProperties
  <2>3. jobs' \in [Slots -> Job \cup {Null}] /\ cut' \subseteq Slots
    BY <1>5, <2>1, <2>2, EnqueueType DEF SweepNext
  <2>4. [cron[p] EXCEPT !.todo = Tail(cron[p].todo)] \in Sweep
    BY <2>1, <2>2 DEF Sweep
  <2>5. cron' \in [Processes -> Sweep \cup {Null}]
    BY <1>5, <2>4 DEF SweepNext
  <2> QED BY <1>5, <2>3, <2>5 DEF SweepNext
<1>6. ASSUME NEW p \in Processes, SweepEnds(p) PROVE TypeOK'
  BY <1>6 DEF SweepEnds
<1>7. ASSUME NEW p \in Processes, NEW s \in Slots, Claim(p, s) PROVE TypeOK'
  <2>1. jobs[s] \in Job
    BY <1>7 DEF Claim, Claimable
  <2>2. [jobs[s] EXCEPT !.lock = p, !.old = FALSE] \in Job
    BY <2>1 DEF Job
  <2>3. jobs' \in [Slots -> Job \cup {Null}]
    BY <1>7, <2>1, <2>2 DEF Claim
  <2> QED BY <1>7, <2>3 DEF Claim
<1>8. ASSUME NEW p \in Processes, Complete(p) PROVE TypeOK'
  BY <1>8 DEF Complete, Writes
<1>9. ASSUME NEW p \in Processes, Fail(p) PROVE TypeOK'
  <2>1. jobs' \in [Slots -> Job \cup {Null}]
    BY <1>9, JobTypes DEF Fail, Writes
  <2> QED BY <1>9, <2>1 DEF Fail
<1>10. ASSUME NEW p \in Processes, Boot(p) PROVE TypeOK'
  BY <1>10 DEF Boot
<1>11. ASSUME NEW p \in Processes, Sigterm(p) PROVE TypeOK'
  BY <1>11 DEF Sigterm, Stop
<1>12. ASSUME NEW p \in Processes, Drained(p) PROVE TypeOK'
  <2>1. ASSUME NEW s \in Slots PROVE jobs'[s] \in Job \cup {Null}
    <3>1. jobs[s] \in Job => [jobs[s] EXCEPT !.lock = Null, !.old = FALSE] \in Job
      BY DEF Job
    <3>2. jobs[s] \in Job \cup {Null} /\ (Owns(p, s) => jobs[s] # Null)
      BY DEF Owns
    <3>3. jobs'[s] \in {jobs[s], [jobs[s] EXCEPT !.lock = Null, !.old = FALSE]}
      BY <1>12 DEF Drained
    <3>4. ~Owns(p, s) => jobs'[s] = jobs[s]
      BY <1>12 DEF Drained
    <3> QED BY <3>1, <3>2, <3>3, <3>4
  <2>2. jobs' \in [Slots -> Job \cup {Null}]
    BY <1>12, <2>1 DEF Drained
  <2> QED BY <1>12, <2>2 DEF Drained, Down
<1>13. ASSUME NEW p \in Processes, Kill(p) PROVE TypeOK'
  BY <1>13 DEF Kill, Down, Stop
<1>14. ASSUME NEW s \in Slots, Ready(s) PROVE TypeOK'
  <2>1. [jobs[s] EXCEPT !.ready = TRUE] \in Job
    BY <1>14 DEF Ready, Job
  <2> QED BY <1>14, <2>1 DEF Ready
<1>15. ASSUME NEW s \in Slots, LockLeftBehind(s) \/ LockOutlived(s) PROVE TypeOK'
  <2>1. jobs[s] \in Job /\ Aged(s)
    BY <1>15 DEF LockLeftBehind, LockOutlived, Aged
  <2>2. [jobs[s] EXCEPT !.old = TRUE, !.outlived = TRUE] \in Job
    BY <2>1 DEF Job
  <2>3. jobs' \in [Slots -> Job \cup {Null}]
    BY <2>1, <2>2 DEF Aged
  <2> QED BY <1>15, <2>3 DEF LockLeftBehind, LockOutlived, Aged, Stop
<1>16. CASE UNCHANGED vars
  BY <1>16 DEF vars
<1> QED BY <1>1, <1>2, <1>3, <1>4, <1>5, <1>6, <1>7, <1>8, <1>9, <1>10, <1>11,
           <1>12, <1>13, <1>14, <1>15, <1>16 DEF Next

-----------------------------------------------------------------------------
(* The invariant *)

\* What a worker does to the job it gives up: it is gone, as it was, or free.
LEMMA GivesUp ==
  ASSUME TypeOK, NEW p \in Processes, Complete(p) \/ Fail(p)
  PROVE  /\ running[p] \in Slots /\ running' = [running EXCEPT ![p] = Null]
         /\ \A s \in Slots : s # running[p] => jobs'[s] = jobs[s]
         /\ \/ jobs' = jobs /\ ~Owns(p, running[p])
            \/ jobs'[running[p]] = Null
            \/ /\ jobs[running[p]] # Null
               /\ jobs'[running[p]].lock = Null /\ ~jobs'[running[p]].old
               /\ jobs'[running[p]].outlived = jobs[running[p]].outlived
         /\ UNCHANGED <<active, elapsed, proc, cron, stops, moves, cut>>
<1> USE QueueAssumption, QueueNullAssumption DEF TypeOK
<1> DEFINE s == running[p]
<1>0. s \in Slots /\ running' = [running EXCEPT ![p] = Null]
  BY DEF Complete, Fail
<1>1. CASE Complete(p)
  BY <1>0, <1>1 DEF Complete, Writes
<1>2. CASE Fail(p)
  <2>1. jobs[s] # Null => \/ Failed(jobs[s]) = Null
                          \/ /\ Failed(jobs[s]).lock = Null
                             /\ ~Failed(jobs[s]).old
                             /\ Failed(jobs[s]).outlived = jobs[s].outlived
    BY <1>0 DEF Failed, Job
  <2> QED BY <1>0, <1>2, <2>1 DEF Fail, Writes
<1> QED BY <1>1, <1>2

\* An enqueue puts a job nobody has into a place nobody uses.
LEMMA Enqueues ==
  ASSUME TypeOK, NEW s \in Slots, NEW kind \in Kinds, NEW u \in Users,
         enqueue(s, kind, u)
  PROVE  /\ jobs[s] = Null /\ \A p \in Processes : running[p] # s
         /\ jobs'[s] # Null /\ jobs'[s].lock = Null
         /\ ~jobs'[s].old /\ ~jobs'[s].outlived
         /\ \A t \in Slots : t # s => jobs'[t] = jobs[t]
         /\ cut' = cut \ {s}
BY JobTypes, QueueNullAssumption DEF TypeOK, enqueue, Free

LEMMA InitQueueInv == Init => QueueInv
<1>1. Init => TypeOK
  BY InitTypeOK
<1>2. Init => RunnersOwn /\ OldIsOutlived /\ RunnersAreUp /\ NoLockLeftBehind
  BY DEF Init, RunnersOwn, OldIsOutlived, RunnersAreUp, NoLockLeftBehind
<1> QED BY <1>1, <1>2 DEF QueueInv

LEMMA NextQueueInv == QueueInv /\ [Next]_vars => QueueInv'
<1> SUFFICES ASSUME QueueInv, [Next]_vars PROVE QueueInv'
  OBVIOUS
<1>t. TypeOK /\ TypeOK'
  BY NextTypeOK DEF QueueInv
<1> DEFINE Rest == RunnersOwn /\ OldIsOutlived /\ RunnersAreUp /\ NoLockLeftBehind
<1>r. Rest
  BY DEF QueueInv
<1> SUFFICES Rest'
  BY <1>t DEF QueueInv
<1> USE QueueAssumption, QueueNullAssumption
    DEF TypeOK, RunnersOwn, OldIsOutlived, RunnersAreUp, NoLockLeftBehind
<1>0. ASSUME UNCHANGED <<jobs, proc, running, cut>> PROVE Rest'
  BY <1>0, <1>t, <1>r
<1>1. ASSUME NEW s \in Slots, NEW kind \in Kinds, NEW u \in Users,
             enqueue(s, kind, u), UNCHANGED <<proc, running>>
      PROVE  Rest'
  BY <1>1, <1>t, <1>r, Enqueues
<1>2. ASSUME NEW u \in Users, SignUp(u) PROVE Rest'
  BY <1>0, <1>1, <1>2 DEF SignUp
<1>3. ASSUME NEW u \in Users, Leave(u) PROVE Rest'
  BY <1>0, <1>3 DEF Leave
<1>4. ASSUME NEW kind \in Kinds, Elapse(kind) PROVE Rest'
  BY <1>0, <1>4 DEF Elapse
<1>5. ASSUME NEW p \in Processes, NEW kind \in Kinds, SweepBegins(p, kind)
      PROVE  Rest'
  BY <1>0, <1>5 DEF SweepBegins
<1>6. ASSUME NEW p \in Processes, SweepNext(p) PROVE Rest'
  <2>1. cron[p].kind \in Kinds /\ Head(cron[p].todo) \in Users
    BY <1>6, <1>t, HeadTailProperties DEF SweepNext, Sweep
  <2> QED BY <1>0, <1>1, <1>6, <2>1 DEF SweepNext
<1>7. ASSUME NEW p \in Processes, SweepEnds(p) PROVE Rest'
  BY <1>0, <1>7 DEF SweepEnds
<1>8. ASSUME NEW p \in Processes, NEW s \in Slots, Claim(p, s) PROVE Rest'
  <2>1. /\ jobs[s] \in Job /\ running[p] = Null /\ proc[p] = "up"
        /\ jobs[s].lock = Null \/ jobs[s].outlived
        /\ running' = [running EXCEPT ![p] = s] /\ UNCHANGED <<proc, cut>>
    BY <1>8, <1>t, <1>r DEF Claim, Claimable
  <2>2. /\ jobs'[s].lock = p /\ ~jobs'[s].old
        /\ jobs'[s].outlived = jobs[s].outlived
        /\ \A t \in Slots : t # s => jobs'[t] = jobs[t]
    BY <1>8, <1>t, <2>1 DEF Claim, Job
  <2> QED BY <1>t, <1>r, <2>1, <2>2
<1>9. ASSUME NEW p \in Processes, Complete(p) \/ Fail(p) PROVE Rest'
  <2> DEFINE s == running[p]
  <2>1. /\ s \in Slots /\ running' = [running EXCEPT ![p] = Null]
        /\ \A t \in Slots : t # s => jobs'[t] = jobs[t]
        /\ \/ jobs' = jobs /\ ~Owns(p, s)
           \/ jobs'[s] = Null
           \/ /\ jobs[s] # Null /\ jobs'[s].lock = Null /\ ~jobs'[s].old
              /\ jobs'[s].outlived = jobs[s].outlived
        /\ UNCHANGED <<proc, cut>>
    BY <1>9, <1>t, GivesUp
  <2>2. running'[p] = Null /\ \A q \in Processes : q # p => running'[q] = running[q]
    BY <2>1, <1>t
  <2> HIDE DEF s
  <2>3. RunnersOwn'
    <3> SUFFICES ASSUME NEW q \in Processes, running'[q] # Null, jobs'[running'[q]] # Null
                 PROVE  jobs'[running'[q]].lock = q \/ jobs'[running'[q]].outlived
      OBVIOUS
    <3>1. q # p /\ running'[q] = running[q] /\ running[q] \in Slots
      BY <2>2, <1>t
    <3>2. CASE running[q] # s
      BY <3>1, <3>2, <2>1, <1>r
    <3>3. CASE running[q] = s
      <4>1. jobs[s] # Null => \/ jobs[s].outlived
                              \/ jobs[s].lock = q /\ jobs[s].lock = p
        BY <3>1, <3>3, <2>1, <1>r DEF s
      <4>2. jobs[s] # Null /\ jobs[s].outlived = jobs'[s].outlived
        BY <3>1, <3>3, <2>1
      <4> QED BY <3>1, <3>3, <4>1, <4>2
    <3> QED BY <3>2, <3>3
  <2>4. OldIsOutlived'
    BY <2>1, <1>r
  <2>5. RunnersAreUp'
    BY <2>1, <2>2, <1>r
  <2>6. NoLockLeftBehind'
    <3> SUFFICES ASSUME NEW t \in Slots, jobs'[t] # Null, jobs'[t].lock # Null
                 PROVE  \/ running'[jobs'[t].lock] = t
                        \/ t \in cut' \/ jobs'[t].outlived
      OBVIOUS
    <3>1. jobs'[t] = jobs[t] /\ (t = s => ~Owns(p, s))
      BY <2>1
    <3>2. jobs[t] \in Job /\ jobs[t].lock \in Processes
      BY <3>1, <1>t DEF Job
    <3>3. running[jobs[t].lock] = t => jobs[t].lock # p
      BY <3>1, <3>2 DEF Owns, s
    <3> QED BY <3>1, <3>2, <3>3, <2>1, <2>2, <1>r
  <2> QED BY <2>3, <2>4, <2>5, <2>6
<1>10. ASSUME NEW p \in Processes, Boot(p) PROVE Rest'
  BY <1>10, <1>t, <1>r DEF Boot
<1>11. ASSUME NEW p \in Processes, Sigterm(p) PROVE Rest'
  BY <1>11, <1>t, <1>r DEF Sigterm
<1>12. ASSUME NEW p \in Processes, Drained(p) PROVE Rest'
  <2>1. ASSUME NEW s \in Slots
        PROVE  \/ jobs'[s] = jobs[s] /\ ~(s = running[p] /\ Owns(p, s))
               \/ /\ jobs[s] # Null /\ s = running[p]
                  /\ jobs'[s].lock = Null /\ ~jobs'[s].old
                  /\ jobs'[s].outlived = jobs[s].outlived
    <3>1. CASE s = running[p] /\ Owns(p, s)
      <4>1. jobs[s] # Null
        BY <3>1 DEF Owns
      <4>2. jobs[s] \in Job
        BY <4>1, <1>t
      <4>3. jobs'[s] = [jobs[s] EXCEPT !.lock = Null, !.old = FALSE]
        BY <1>12, <3>1 DEF Drained
      <4> QED BY <3>1, <4>1, <4>2, <4>3 DEF Job
    <3>2. CASE ~(s = running[p] /\ Owns(p, s))
      BY <1>12, <3>2 DEF Drained
    <3> QED BY <3>1, <3>2
  <2>2. /\ running'[p] = Null /\ cut' = cut
        /\ \A q \in Processes : q # p => running'[q] = running[q] /\ proc'[q] = proc[q]
    BY <1>12, <1>t DEF Drained, Down
  <2>3. RunnersOwn'
    <3> SUFFICES ASSUME NEW q \in Processes, running'[q] # Null, jobs'[running'[q]] # Null
                 PROVE  jobs'[running'[q]].lock = q \/ jobs'[running'[q]].outlived
      OBVIOUS
    <3>1. q # p /\ running'[q] = running[q] /\ running[q] \in Slots
      BY <2>2, <1>t
    <3>2. CASE jobs'[running[q]] = jobs[running[q]]
      BY <3>1, <3>2, <1>r
    <3>3. CASE jobs'[running[q]] # jobs[running[q]]
      <4>1. /\ jobs[running[q]] # Null /\ running[q] = running[p]
            /\ jobs'[running[q]].outlived = jobs[running[q]].outlived
        BY <3>1, <3>3, <2>1
      <4>2. jobs[running[q]].outlived
        BY <3>1, <4>1, <1>r
      <4> QED BY <3>1, <4>1, <4>2
    <3> QED BY <3>2, <3>3
  <2>4. OldIsOutlived'
    BY <2>1, <1>r
  <2>5. RunnersAreUp'
    BY <2>2, <1>r
  <2>6. NoLockLeftBehind'
    <3> SUFFICES ASSUME NEW t \in Slots, jobs'[t] # Null, jobs'[t].lock # Null
                 PROVE  \/ running'[jobs'[t].lock] = t
                        \/ t \in cut' \/ jobs'[t].outlived
      OBVIOUS
    <3>1. jobs'[t] = jobs[t] /\ ~(t = running[p] /\ Owns(p, t))
      BY <2>1
    <3>2. jobs[t] \in Job /\ jobs[t].lock \in Processes
      BY <3>1, <1>t DEF Job
    <3>3. running[jobs[t].lock] = t => jobs[t].lock # p
      BY <3>1, <3>2 DEF Owns
    <3> QED BY <3>1, <3>2, <3>3, <2>2, <1>r
  <2> QED BY <2>3, <2>4, <2>5, <2>6
<1>13. ASSUME NEW p \in Processes, Kill(p) PROVE Rest'
  BY <1>13, <1>t, <1>r DEF Kill, Down
<1>14. ASSUME NEW s \in Slots, Ready(s) PROVE Rest'
  <2>1. /\ jobs[s] \in Job /\ jobs'[s].lock = jobs[s].lock
        /\ jobs'[s].old = jobs[s].old /\ jobs'[s].outlived = jobs[s].outlived
        /\ \A t \in Slots : t # s => jobs'[t] = jobs[t]
        /\ UNCHANGED <<proc, running, cut>>
    BY <1>14, <1>t DEF Ready, Job
  <2> QED BY <1>t, <1>r, <2>1
<1>15. ASSUME NEW s \in Slots, LockLeftBehind(s) \/ LockOutlived(s) PROVE Rest'
  <2>1. /\ jobs[s] \in Job /\ jobs'[s].lock = jobs[s].lock /\ jobs'[s].outlived
        /\ \A t \in Slots : t # s => jobs'[t] = jobs[t]
        /\ UNCHANGED <<proc, running, cut>>
    BY <1>15, <1>t DEF LockLeftBehind, LockOutlived, Aged, Job
  <2> QED BY <1>t, <1>r, <2>1
<1>16. CASE UNCHANGED vars
  BY <1>0, <1>16 DEF vars
<1> QED BY <1>2, <1>3, <1>4, <1>5, <1>6, <1>7, <1>8, <1>9, <1>10, <1>11, <1>12,
           <1>13, <1>14, <1>15, <1>16 DEF Next

\* The inductive invariant of the queue.
THEOREM QueueInvariant == Spec => []QueueInv
BY InitQueueInv, NextQueueInv, PTL DEF Spec

-----------------------------------------------------------------------------
(* What it is for *)

\* Every variable keeps its type, for any number of processes, users and jobs.
THEOREM QueueTypes == Spec => []TypeOK
<1>1. QueueInv => TypeOK
  BY DEF QueueInv
<1> QED BY <1>1, QueueInvariant, PTL

\* Two workers have the same job in hand only when a lock of it was outlived,
\* however many processes a deployment overlaps.
THEOREM OneRunnerHolds == Spec => []OneRunner
<1>1. QueueInv => OneRunner
  BY QueueNullAssumption DEF QueueInv, TypeOK, RunnersOwn, OneRunner
<1> QED BY <1>1, QueueInvariant, PTL

\* Only a kill leaves a lock that nobody will release.
THEOREM NoLockLeftBehindHolds == Spec => []NoLockLeftBehind
<1>1. QueueInv => NoLockLeftBehind
  BY DEF QueueInv
<1> QED BY <1>1, QueueInvariant, PTL

\* A job leaves the table by the hand of a worker that is there to end it, and
\* never with its process (main.rs: what is dropped keeps its place).
THEOREM NoJobLostHolds == Spec => NoJobLost
<1> DEFINE Ended(s) == \E p \in Processes :
             running[p] = s /\ running'[p] = Null /\ proc'[p] # "down"
           Kept == \A s \in Slots : jobs[s] # Null /\ jobs'[s] = Null => Ended(s)
<1>1. QueueInv /\ [Next]_vars => [Kept]_vars
  <2> SUFFICES ASSUME QueueInv, Next, NEW s \in Slots,
                      jobs[s] # Null, jobs'[s] = Null
               PROVE  Ended(s)
    OBVIOUS
  <2>t. TypeOK /\ RunnersAreUp
    BY DEF QueueInv
  <2>j. jobs[s] \in Job
    BY <2>t DEF TypeOK
  <2> USE QueueNullAssumption DEF TypeOK
  <2>1. ASSUME NEW t \in Slots, NEW kind \in Kinds, NEW u \in Users,
               enqueue(t, kind, u)
        PROVE  FALSE
    BY <2>1, <2>t, Enqueues
  <2>2. ASSUME NEW p \in Processes, SweepNext(p) PROVE FALSE
    <3>1. cron[p].kind \in Kinds /\ Head(cron[p].todo) \in Users
      BY <2>2, <2>t, HeadTailProperties DEF SweepNext, Sweep
    <3> QED BY <2>1, <2>2, <3>1 DEF SweepNext
  <2>3. ASSUME NEW p \in Processes, NEW t \in Slots, Claim(p, t) PROVE FALSE
    <3>1. jobs[t] \in Job /\ jobs' = [jobs EXCEPT ![t] = [jobs[t] EXCEPT !.lock = p, !.old = FALSE]]
      BY <2>3, <2>t DEF Claim, Claimable
    <3>2. [jobs[t] EXCEPT !.lock = p, !.old = FALSE] \in Job
      BY <3>1 DEF Job
    <3> QED BY <3>1, <3>2, <2>t
  <2>4. ASSUME NEW p \in Processes, Complete(p) \/ Fail(p) PROVE Ended(s)
    <3>1. running[p] \in Slots /\ running'[p] = Null /\ proc' = proc
      BY <2>4, <2>t, GivesUp
    <3>2. s = running[p]
      BY <2>4, <2>t, GivesUp
    <3>3. proc[p] # "down"
      BY <3>1, <2>t DEF RunnersAreUp
    <3> QED BY <3>1, <3>2, <3>3
  <2>5. ASSUME NEW p \in Processes, Drained(p) PROVE FALSE
    <3>1. jobs'[s] = IF s = running[p] /\ Owns(p, s)
                     THEN [jobs[s] EXCEPT !.lock = Null, !.old = FALSE] ELSE jobs[s]
      BY <2>5 DEF Drained
    <3>2. [jobs[s] EXCEPT !.lock = Null, !.old = FALSE] \in Job
      BY <2>j DEF Job
    <3> QED BY <3>1, <3>2
  <2>6. ASSUME NEW t \in Slots, Ready(t) PROVE FALSE
    <3>1. jobs[t] \in Job /\ jobs' = [jobs EXCEPT ![t] = [jobs[t] EXCEPT !.ready = TRUE]]
      BY <2>6, <2>t DEF Ready
    <3>2. [jobs[t] EXCEPT !.ready = TRUE] \in Job
      BY <3>1 DEF Job
    <3> QED BY <3>1, <3>2, <2>t
  <2>7. ASSUME NEW t \in Slots, LockLeftBehind(t) \/ LockOutlived(t) PROVE FALSE
    <3>1. /\ jobs[t] \in Job
          /\ jobs' = [jobs EXCEPT ![t] = [jobs[t] EXCEPT !.old = TRUE, !.outlived = TRUE]]
      BY <2>7, <2>t DEF LockLeftBehind, LockOutlived, Aged
    <3>2. [jobs[t] EXCEPT !.old = TRUE, !.outlived = TRUE] \in Job
      BY <3>1 DEF Job
    <3> QED BY <3>1, <3>2, <2>t
  <2>8. jobs' # jobs
    OBVIOUS
  <2>9. ASSUME NEW u \in Users, SignUp(u) \/ Leave(u) PROVE FALSE
    BY <2>1, <2>8, <2>9, QueueAssumption DEF SignUp, Leave
  <2>10. ASSUME NEW p \in Processes, NEW kind \in Kinds, SweepBegins(p, kind)
         PROVE  FALSE
    BY <2>8, <2>10 DEF SweepBegins
  <2> QED BY <2>2, <2>3, <2>4, <2>5, <2>6, <2>7, <2>8, <2>9, <2>10
          DEF Next, Elapse, SweepEnds, Boot, Sigterm, Kill
<1> QED BY <1>1, QueueInvariant, PTL DEF Spec, NoJobLost

-----------------------------------------------------------------------------
(* That the attempts at a job run out *)

\* An attempt at a job has come to its end, good or bad.
Attempted(p, s) == running[p] = s /\ running'[p] = Null /\ proc'[p] # "down"

\* A job in the table never becomes another, and its errors only grow, one for
\* an attempt that has failed; and no attempt by the worker that has it locked
\* ends without either counting or taking the job out of the table.  As errors
\* go up to MaxRetries, MaxRetries + 1 such attempts are the most a job can
\* have, whatever becomes of the others (jobs.rs "dead-lettered after max
\* retries").
AttemptsRunOut == [][\A s \in Slots : jobs[s] # Null =>
  /\ jobs'[s] # Null =>
       /\ jobs'[s].kind = jobs[s].kind /\ jobs'[s].user = jobs[s].user
       /\ \/ jobs'[s].errors = jobs[s].errors
          \/ /\ jobs'[s].errors = jobs[s].errors + 1
             /\ \E p \in Processes : Attempted(p, s)
  /\ \A p \in Processes : Attempted(p, s) /\ Owns(p, s) =>
       jobs'[s] = Null \/ jobs'[s].errors = jobs[s].errors + 1]_vars

\* The same task, with as many errors.
SameTask(s) ==
  /\ jobs'[s] # Null
  /\ jobs'[s].kind = jobs[s].kind /\ jobs'[s].user = jobs[s].user
  /\ jobs'[s].errors = jobs[s].errors

\* What an attempt makes of the job it was at.
LEMMA AttemptCounts ==
  ASSUME TypeOK, NEW p \in Processes, Complete(p) \/ Fail(p),
         jobs[running[p]] # Null
  PROVE  LET s == running[p] IN
         \/ jobs'[s] = Null
         \/ jobs'[s] = jobs[s] /\ ~Owns(p, s)
         \/ /\ jobs'[s].errors = jobs[s].errors + 1
            /\ jobs'[s].kind = jobs[s].kind /\ jobs'[s].user = jobs[s].user
<1> USE QueueAssumption, QueueNullAssumption DEF TypeOK
<1> DEFINE s == running[p]
<1>0. s \in Slots /\ jobs[s] \in Job
  BY DEF Complete, Fail
<1>1. CASE Complete(p)
  BY <1>0, <1>1 DEF Complete, Writes
<1>2. CASE Fail(p)
  <2>1. \/ Failed(jobs[s]) = Null
        \/ /\ Failed(jobs[s]).errors = jobs[s].errors + 1
           /\ Failed(jobs[s]).kind = jobs[s].kind
           /\ Failed(jobs[s]).user = jobs[s].user
    BY <1>0 DEF Failed, Job
  <2>2. (jobs' = jobs /\ ~Owns(p, s)) \/ jobs'[s] = Failed(jobs[s])
    BY <1>0, <1>2 DEF Fail, Writes
  <2> QED BY <2>1, <2>2
<1> QED BY <1>1, <1>2

\* All other steps leave every job at its task.
LEMMA OthersKeepTasks ==
  ASSUME TypeOK, [Next]_vars, \A p \in Processes : ~Complete(p) /\ ~Fail(p),
         NEW s \in Slots, jobs[s] # Null
  PROVE  SameTask(s)
<1> USE QueueAssumption, QueueNullAssumption DEF TypeOK
<1> DEFINE Like(job) == /\ job # Null
                        /\ job.kind = jobs[s].kind /\ job.user = jobs[s].user
                        /\ job.errors = jobs[s].errors
<1>a. jobs[s] \in Job
  OBVIOUS
<1>b. ASSUME NEW p \in Processes \cup {Null}
      PROVE  Like([jobs[s] EXCEPT !.lock = p, !.old = FALSE])
  <2>1. [jobs[s] EXCEPT !.lock = p, !.old = FALSE] \in Job
    BY <1>a DEF Job
  <2> QED BY <1>a, <2>1 DEF Job
<1>c. Like([jobs[s] EXCEPT !.ready = TRUE])
  <2>1. [jobs[s] EXCEPT !.ready = TRUE] \in Job
    BY <1>a DEF Job
  <2> QED BY <1>a, <2>1 DEF Job
<1>d. Like([jobs[s] EXCEPT !.old = TRUE, !.outlived = TRUE])
  <2>1. [jobs[s] EXCEPT !.old = TRUE, !.outlived = TRUE] \in Job
    BY <1>a DEF Job
  <2> QED BY <1>a, <2>1 DEF Job
<1>1. ASSUME jobs'[s] = jobs[s] PROVE SameTask(s)
  BY <1>1 DEF SameTask
<1>2. ASSUME NEW t \in Slots, NEW kind \in Kinds, NEW u \in Users, enqueue(t, kind, u)
      PROVE  SameTask(s)
  BY <1>1, <1>2, Enqueues
<1>3. CASE \E u \in Users : SignUp(u) \/ Leave(u)
  BY <1>1, <1>2, <1>3 DEF SignUp, Leave
<1>4. ASSUME NEW p \in Processes, SweepNext(p) PROVE SameTask(s)
  <2>1. cron[p].kind \in Kinds /\ Head(cron[p].todo) \in Users
    BY <1>4, HeadTailProperties DEF SweepNext, Sweep
  <2> QED BY <1>1, <1>2, <1>4, <2>1 DEF SweepNext
<1>5. ASSUME NEW p \in Processes, NEW t \in Slots, Claim(p, t) PROVE SameTask(s)
  <2>1. jobs'[s] = jobs[s] \/ jobs'[s] = [jobs[s] EXCEPT !.lock = p, !.old = FALSE]
    BY <1>5 DEF Claim
  <2> QED BY <1>b, <1>1, <2>1 DEF SameTask
<1>6. ASSUME NEW p \in Processes, Drained(p) PROVE SameTask(s)
  <2>1. jobs'[s] = jobs[s] \/ jobs'[s] = [jobs[s] EXCEPT !.lock = Null, !.old = FALSE]
    BY <1>6 DEF Drained
  <2> QED BY <1>b, <1>1, <2>1 DEF SameTask
<1>7. ASSUME NEW t \in Slots, Ready(t) PROVE SameTask(s)
  <2>1. jobs'[s] = jobs[s] \/ jobs'[s] = [jobs[s] EXCEPT !.ready = TRUE]
    BY <1>7 DEF Ready
  <2> QED BY <1>c, <1>1, <2>1 DEF SameTask
<1>8. ASSUME NEW t \in Slots, Aged(t) PROVE SameTask(s)
  <2>1. \/ jobs'[s] = jobs[s]
        \/ jobs'[s] = [jobs[s] EXCEPT !.old = TRUE, !.outlived = TRUE]
    BY <1>8 DEF Aged
  <2> QED BY <1>d, <1>1, <2>1 DEF SameTask
<1>9. ASSUME NEW p \in Processes,
             \/ Boot(p) \/ Sigterm(p) \/ Kill(p) \/ SweepEnds(p)
             \/ \E kind \in Kinds : SweepBegins(p, kind)
      PROVE  SameTask(s)
  BY <1>1, <1>9 DEF Boot, Sigterm, Kill, SweepEnds, SweepBegins
<1>10. CASE (\E kind \in Kinds : Elapse(kind)) \/ UNCHANGED vars
  BY <1>1, <1>10 DEF Elapse, vars
<1> QED BY <1>3, <1>4, <1>5, <1>6, <1>7, <1>8, <1>9, <1>10
        DEF Next, LockLeftBehind, LockOutlived

\* A job is tried MaxRetries + 1 times at the most by those who have it locked.
THEOREM AttemptsRunOutHolds == Spec => AttemptsRunOut
<1> DEFINE Counts(s) == jobs[s] # Null =>
      /\ jobs'[s] # Null =>
           /\ jobs'[s].kind = jobs[s].kind /\ jobs'[s].user = jobs[s].user
           /\ \/ jobs'[s].errors = jobs[s].errors
              \/ /\ jobs'[s].errors = jobs[s].errors + 1
                 /\ \E p \in Processes : Attempted(p, s)
      /\ \A p \in Processes : Attempted(p, s) /\ Owns(p, s) =>
           jobs'[s] = Null \/ jobs'[s].errors = jobs[s].errors + 1
<1>1. ASSUME QueueInv, [Next]_vars, NEW s \in Slots PROVE Counts(s)
  <2> SUFFICES ASSUME jobs[s] # Null PROVE Counts(s)
    OBVIOUS
  <2> USE <1>1, QueueNullAssumption DEF QueueInv
  <2>1. ASSUME NEW p \in Processes, Complete(p) \/ Fail(p) PROVE Counts(s)
    <3>1. /\ running[p] \in Slots /\ running' = [running EXCEPT ![p] = Null]
          /\ \A t \in Slots : t # running[p] => jobs'[t] = jobs[t]
          /\ proc' = proc
      BY <2>1, GivesUp
    <3>2. \A q \in Processes : Attempted(q, s) => q = p /\ running[p] = s
      BY <3>1 DEF Attempted, TypeOK
    <3>3. running[p] = s => Attempted(p, s)
      BY <2>1, <3>1 DEF Attempted, TypeOK, RunnersAreUp
    <3>4. CASE running[p] = s
      BY <2>1, <3>2, <3>3, <3>4, AttemptCounts
    <3>5. CASE running[p] # s
      BY <3>1, <3>2, <3>5
    <3> QED BY <3>4, <3>5
  <2>2. ASSUME \A p \in Processes : ~Complete(p) /\ ~Fail(p) PROVE Counts(s)
    <3>1. SameTask(s)
      BY <2>2, OthersKeepTasks
    <3>2. \A p \in Processes : ~Attempted(p, s)
      <4> SUFFICES ASSUME NEW p \in Processes, Attempted(p, s) PROVE FALSE
        OBVIOUS
      <4>1. ASSUME NEW q \in Processes, Claim(q, s) \/ \E t \in Slots : Claim(q, t)
            PROVE  FALSE
        BY <4>1 DEF Attempted, TypeOK, Claim
      <4>2. ASSUME NEW q \in Processes, Drained(q) \/ Kill(q) PROVE FALSE
        BY <4>2 DEF Attempted, TypeOK, Drained, Kill, Down
      <4>3. ASSUME running' = running PROVE FALSE
        BY <4>3 DEF Attempted
      <4> QED BY <2>2, <4>1, <4>2, <4>3
              DEF Next, vars, SignUp, Leave, Elapse, SweepBegins, SweepNext,
                  SweepEnds, Boot, Sigterm, Ready, LockLeftBehind,
                  LockOutlived, Aged
    <3> QED BY <3>1, <3>2 DEF SameTask
  <2> QED BY <2>1, <2>2
<1>2. QueueInv /\ [Next]_vars => [\A s \in Slots : Counts(s)]_vars
  BY <1>1
<1> QED BY <1>2, QueueInvariant, PTL DEF AttemptsRunOut, Spec

=============================================================================
