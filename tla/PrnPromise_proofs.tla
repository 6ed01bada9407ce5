-------------------------- MODULE PrnPromise_proofs --------------------------
(***************************************************************************)
(* The CLI keeps the promise of ReminderPromise, for any search, any clock *)
(* and any failures, as long as its runs do not overlap.                   *)
(***************************************************************************)
EXTENDS PrnCheck_proofs

\* A run has in memory what is in the file, until it sweeps.
ReadsTheFile == \A p \in Runs :
  run[p].pc \in {"search", "sweep"} => run[p].state = Loaded

\* GitHub and the searches know no comment of the future.
SeesThePast ==
  /\ \A r \in Pulls : draft[r] \in Time => draft[r] <= now
  /\ \A p \in Runs : run[p].pc \in {"search", "sweep"} =>
       \A d \in run[p].found : d.last <= now

ToldOfThePast == \A r \in Pulls : told[r] # Null => told[r].about <= told[r].at

\* An alert is in an entry, or the entry records a later one.
Kept(state, r) ==
  state[r] # Null /\ state[r].notified # Null /\ told[r].at <= state[r].notified

\* A run that has swept.
Swept(p) == run[p].pc \in {"open", "fill", "rename"}

\* What is not owed and was not reaped since is recorded, in the file and in
\* what goes there.
RecordsAreKept == \A r \in Pulls : told[r] # Null /\ r \notin owed \cup forgot =>
  /\ file \in StateFile /\ Kept(file, r)
  /\ \A p \in Runs : Swept(p) => run[p].state[r] = Null \/ Kept(run[p].state, r)

\* What the file watches, the state that goes there does not call backlog.
StaysWatched == \A p \in Runs : Swept(p) /\ file \in StateFile =>
  \A r \in Pulls : file[r] # Null /\ ~file[r].backlog =>
    run[p].state[r] = Null \/ ~run[p].state[r].backlog

PromiseInv ==
  /\ LoneInv /\ WatchedInv
  /\ ReadsTheFile /\ SeesThePast /\ ToldOfThePast /\ RecordsAreKept /\ StaysWatched

\* The page of a reply tells of comments up to now.
LEMMA PagePast ==
  ASSUME NEW gh \in SUBSET Pulls, NEW d \in [Pulls -> Time \cup {NoReview, Shell}],
         NEW at, \A r \in Pulls : d[r] \in Time => d[r] <= at,
         NEW cursor \in Nat, NEW reply \in Replies(PageAfter(gh, d, cursor)),
         NEW v \in extract_reviews(reply.page.nodes)
  PROVE  v.last <= at
<1> DEFINE ids   == {r \in gh : Place(gh, r) \in cursor + 1 .. cursor + PageSize}
           nodes == {[id |-> r, review |-> d[r]] : r \in ids}
           more  == Cardinality(gh) > cursor + PageSize
<1>1. reply.page.nodes \subseteq nodes
  <2>1. PageAfter(gh, d, cursor) = [nodes |-> nodes, hasNext |-> more, cursor |-> TRUE]
    BY DEF PageAfter
  <2> HIDE DEF nodes, more
  <2> QED BY <2>1, ReplyNodes
<1>2. PICK n \in reply.page.nodes :
        n.review \notin {NoReview, Shell} /\ v = [id |-> n.id, last |-> n.review]
  BY DEF extract_reviews
<1>3. PICK r \in ids : n = [id |-> r, review |-> d[r]]
  BY <1>1
<1>4. r \in Pulls /\ d[r] \in Time /\ v.last = d[r]
  BY <1>2, <1>3
<1> QED BY <1>4

-----------------------------------------------------------------------------
(* Steps that leave the files and the history alone *)

\* A step that starts a run, ends one without a rename, or is none of a run.
LEMMA QuietStep ==
  ASSUME PromiseInv, UNCHANGED <<file, told, owed, forgot>>, now <= now',
         \A r \in Pulls : draft'[r] \in Time => draft'[r] <= now',
         now' \in Int,
         \A p \in Runs : \/ run'[p] = run[p]
                         \/ run'[p].pc \in {"idle", "load"}
  PROVE  (ReadsTheFile /\ SeesThePast /\ ToldOfThePast /\ RecordsAreKept /\ StaysWatched)'
<1> USE DEF PromiseInv
<1>1. ReadsTheFile'
  BY DEF ReadsTheFile, Loaded
<1>2. SeesThePast'
  <2>1. ASSUME NEW p \in Runs, run'[p].pc \in {"search", "sweep"}, NEW d \in run'[p].found
        PROVE  d.last <= now'
    <3>1. d \in run[p].found /\ run[p].pc \in {"search", "sweep"} /\ d.last <= now
      BY <2>1 DEF SeesThePast
    <3>2. d.last \in Int
      <4>1. run[p] \in SearchRun \cup SweepRun
        BY <3>1, RunKinds DEF LoneInv, TypeOK, OneOf
      <4>2. run[p].found \in Found
        BY <4>1 DEF SearchRun, SweepRun
      <4> QED BY <3>1, <4>2 DEF Found, Time
    <3>3. now \in Int /\ now' \in Int
      BY DEF LoneInv, TypeOK, Time
    <3> QED BY <3>1, <3>2, <3>3
  <2> QED BY <2>1 DEF SeesThePast
<1>3. ToldOfThePast'
  BY DEF ToldOfThePast
<1>4. RecordsAreKept'
  BY DEF RecordsAreKept, Kept, Swept
<1>5. StaysWatched'
  BY DEF StaysWatched, Swept
<1> QED BY <1>1, <1>2, <1>3, <1>4, <1>5

\* The parts of the invariant that are about the promise.
Keeps ==
  ReadsTheFile /\ SeesThePast /\ ToldOfThePast /\ RecordsAreKept /\ StaysWatched

LEMMA OutsideKeeps ==
  ASSUME PromiseInv, UNCHANGED vars \/ Tick \/ GitHubUser PROVE Keeps'
<1> USE DEF PromiseInv, LoneInv
<1>n. now \in Int
  BY DEF TypeOK, Time
<1>p. \A r \in Pulls : draft[r] \in Time => draft[r] \in Int /\ draft[r] <= now
  BY DEF SeesThePast, Time
<1>1. CASE UNCHANGED vars
  BY <1>1, <1>n, <1>p, QuietStep DEF vars, Keeps
<1>2. CASE Tick
  <2>1. now' = now + 1 /\ UNCHANGED <<draft, file, told, owed, forgot, run>>
    BY <1>2 DEF Tick, github, files, history
  <2>2. \A r \in Pulls : draft'[r] \in Time => draft'[r] <= now'
    BY <2>1, <1>n, <1>p
  <2>3. now <= now' /\ now' \in Int
    BY <2>1, <1>n
  <2> QED BY <2>1, <2>2, <2>3, QuietStep DEF Keeps
<1>3. ASSUME NEW r \in Pulls, Comment(r) \/ Withdraw(r) \/ Close(r) \/ Reopen(r)
      PROVE  Keeps'
  <2>1. UNCHANGED <<now, file, told, owed, forgot, run>>
    BY <1>3 DEF Comment, Withdraw, Close, Reopen, Move, files
  <2>2. \A s \in Pulls : draft'[s] \in Time => draft'[s] = draft[s] \/ draft'[s] = now
    BY <1>3, PrnNullAssumption DEF Comment, Withdraw, Close, Reopen, TypeOK
  <2>3. \A s \in Pulls : draft'[s] \in Time => draft'[s] <= now
    BY <2>2, <1>n, <1>p
  <2> QED BY <2>1, <2>3, <1>n, QuietStep DEF Keeps
<1> QED BY <1>1, <1>2, <1>3 DEF GitHubUser

LEMMA EndsKeep ==
  ASSUME PromiseInv, NEW p \in Runs,
         \/ \E threshold \in Invocations : Start(p, threshold)
         \/ load(p) /\ Loaded = Torn
         \/ RenameFails(p) \/ Fail(p)
  PROVE  Keeps'
<1> USE DEF PromiseInv, LoneInv
<1>1. UNCHANGED <<now, draft, file, told, owed, forgot>>
  BY DEF Start, load, RenameFails, Fail, github, files, history
<1>2. \A q \in Runs : run'[q] = run[q] \/ run'[q].pc \in {"idle", "load"}
  <2>1. PICK next : run' = [run EXCEPT ![p] = next] /\ next.pc \in {"idle", "load"}
    BY DEF Start, load, RenameFails, Fail, Ends, Becomes, Idle
  <2> QED BY <2>1 DEF TypeOK
<1>3. now \in Int /\ \A r \in Pulls : draft[r] \in Time => draft[r] <= now
  BY DEF SeesThePast, TypeOK, Time
<1> QED BY <1>1, <1>2, <1>3, QuietStep DEF Keeps

-----------------------------------------------------------------------------
(* Steps of a run that leave the file and the history alone *)

LEMMA ReadingKeeps ==
  ASSUME Alone, PromiseInv, NEW p \in Runs,
         UNCHANGED <<now, draft, file, told, owed, forgot>>,
         run'[p].pc \in {"search", "sweep"}, run'[p].state = Loaded,
         \A d \in run'[p].found : d.last <= now
  PROVE  Keeps'
<1> USE DEF PromiseInv
<1>a. \A q \in Runs : q = p
  BY DEF Alone
<1>1. ReadsTheFile'
  BY <1>a DEF ReadsTheFile, Loaded
<1>2. SeesThePast'
  BY <1>a DEF SeesThePast
<1>3. ToldOfThePast'
  BY DEF ToldOfThePast
<1>4. RecordsAreKept' /\ StaysWatched'
  BY <1>a DEF RecordsAreKept, Kept, Swept, StaysWatched
<1> QED BY <1>1, <1>2, <1>3, <1>4 DEF Keeps

LEMMA LoadKeeps ==
  ASSUME Alone, PromiseInv, NEW p \in Runs, load(p), Loaded # Torn PROVE Keeps'
<1>1. /\ UNCHANGED <<now, draft, file, told, owed, forgot>>
      /\ run' = [run EXCEPT ![p] = [pc |-> "search", threshold |-> run[p].threshold,
                   state |-> Loaded, cursor |-> 0, count |-> 0, found |-> {}]]
  BY DEF load, Becomes, github, files
<1>2. /\ run'[p].pc = "search" /\ run'[p].state = Loaded /\ run'[p].found = {}
  BY <1>1 DEF PromiseInv, LoneInv, TypeOK
<1> QED BY <1>1, <1>2, ReadingKeeps

LEMMA SearchKeeps ==
  ASSUME Alone, PromiseInv, NEW p \in Runs, SearchPage(p) PROVE Keeps'
<1> USE DEF PromiseInv, LoneInv
<1>1. /\ run[p].pc = "search"
      /\ run'[p].pc \in {"search", "sweep"} /\ run'[p].state = run[p].state
      /\ UNCHANGED <<now, github, files, told, owed, forgot>>
  BY SearchStep
<1>2. run[p].state = Loaded
  BY <1>1 DEF ReadsTheFile
<1>3. ASSUME NEW d \in run'[p].found PROVE d.last <= now
  <2>1. CASE d \in run[p].found
    BY <1>1, <2>1 DEF SeesThePast
  <2>2. ASSUME NEW reply \in Replies(PageAfter(open, draft, run[p].cursor)),
               d \in extract_reviews(reply.page.nodes)
        PROVE  d.last <= now
    <3>1. run[p].cursor \in Nat
      <4>1. run[p] \in SearchRun
        BY <1>1, RunKinds DEF OneOf, TypeOK
      <4> QED BY <4>1 DEF SearchRun
    <3> QED BY <2>2, <3>1, PagePast DEF SeesThePast, TypeOK
  <2> QED BY <1>3, <2>1, <2>2, SearchStep
<1> QED BY <1>1, <1>2, <1>3, ReadingKeeps DEF github, files

\* While the temporary file is written the file and the state stay.
LEMMA WritingKeeps ==
  ASSUME Alone, PromiseInv, NEW p \in Runs, OpenTmp(p) \/ FillTmp(p) PROVE Keeps'
<1> USE DEF PromiseInv, LoneInv
<1>a. \A q \in Runs : q = p
  BY DEF Alone
<1>1. /\ UNCHANGED <<now, draft, file, told, owed, forgot>>
      /\ Swept(p) /\ run'[p].pc \in {"fill", "rename"} /\ run'[p].state = run[p].state
  <2>1. CASE OpenTmp(p)
    BY <2>1 DEF OpenTmp, Becomes, Swept, TypeOK, github, history
  <2>2. CASE FillTmp(p)
    <3>1. run[p].into = "tmp"
      BY <2>2 DEF FillTmp, WritesItsOwn
    <3> QED BY <2>2, <3>1 DEF FillTmp, Becomes, Swept, TypeOK, github, history
  <2> QED BY <2>1, <2>2
<1>2. (ReadsTheFile /\ SeesThePast /\ ToldOfThePast)'
  BY <1>a, <1>1 DEF ReadsTheFile, SeesThePast, ToldOfThePast
<1>3. RecordsAreKept'
  BY <1>a, <1>1 DEF RecordsAreKept, Kept, Swept
<1>4. StaysWatched'
  BY <1>a, <1>1 DEF StaysWatched, Swept
<1> QED BY <1>2, <1>3, <1>4 DEF Keeps

-----------------------------------------------------------------------------
(* The sweep and the rename *)

\* What a sweep does to an entry: a watched one never becomes backlog, and one
\* that is not alerted keeps its stamp.
LEMMA SweptEntry ==
  ASSUME NEW state \in StateFile, NEW found \in Found, NEW threshold, NEW at \in Time,
         NEW r \in Pulls, apply_sweep(state, found, threshold, at)[r] # Null
  PROVE  /\ state[r] # Null /\ ~state[r].backlog
              => ~apply_sweep(state, found, threshold, at)[r].backlog
         /\ state[r] # Null
              /\ (\A d \in Outcome(state, found, threshold, at)["alert"] : d.id # r)
              => apply_sweep(state, found, threshold, at)[r].notified = state[r].notified
<1>1. Listed(found, r) # {}
  BY DEF apply_sweep
<1>2. PICK d \in found : d.id = r /\ d.last = Newest(Listed(found, r))
  BY <1>1, NewestListed
<1>3. apply_sweep(state, found, threshold, at)[r] =
        Resolved(state[r], d.last, threshold, at)
  BY <1>1, <1>2 DEF apply_sweep
<1>4. state[r] # Null /\ ~state[r].backlog
        => Classify(state[r], d.last, threshold, at) # "backlog"
  BY DEF Classify, ResolveBacklog, Prior
<1>5. Classify(state[r], d.last, threshold, at) = "alert"
        => d \in Outcome(state, found, threshold, at)["alert"]
  BY <1>2 DEF Outcome, Section
<1>6. /\ Resolved(state[r], d.last, threshold, at).backlog
           = (Classify(state[r], d.last, threshold, at) = "backlog")
      /\ state[r] # Null /\ Classify(state[r], d.last, threshold, at) # "alert"
           => Resolved(state[r], d.last, threshold, at).notified = state[r].notified
  BY DEF Resolved
<1> QED BY <1>2, <1>3, <1>4, <1>5, <1>6

\* What a sweep has before it.
LEMMA SweepReads ==
  ASSUME PromiseInv, NEW p \in Runs, SweepAndPrint(p)
  PROVE  /\ run[p].pc = "sweep" /\ run[p].state = Loaded
         /\ run[p].state \in StateFile /\ run[p].found \in Found
         /\ now \in Time /\ now \in Int
         /\ \A d \in run[p].found : d.last \in Int /\ d.last <= now
<1>1. run[p] \in SweepRun
  BY RunKinds DEF SweepAndPrint, OneOf, PromiseInv, LoneInv, TypeOK
<1>2. run[p].pc = "sweep" /\ run[p].state \in StateFile /\ run[p].found \in Found
  BY <1>1 DEF SweepRun
<1>3. run[p].state = Loaded /\ \A d \in run[p].found : d.last <= now
  BY <1>2 DEF PromiseInv, ReadsTheFile, SeesThePast
<1>4. now \in Time /\ now \in Int
  BY DEF PromiseInv, LoneInv, TypeOK, Time
<1>5. \A d \in run[p].found : d.last \in Int
  BY <1>2 DEF Found, Time
<1> QED BY <1>2, <1>3, <1>4, <1>5

LEMMA SweepKeeps ==
  ASSUME Alone, PromiseInv, NEW p \in Runs, SweepAndPrint(p) PROVE Keeps'
<1> DEFINE me      == run[p]
           outcome == Outcome(me.state, me.found, me.threshold, now)
           alerts  == {d.id : d \in outcome["alert"]}
           swept   == apply_sweep(me.state, me.found, me.threshold, now)
<1>a. \A q \in Runs : q = p
  BY DEF Alone
<1>r. /\ me.pc = "sweep" /\ me.state = Loaded
      /\ me.state \in StateFile /\ me.found \in Found
      /\ now \in Time /\ now \in Int
      /\ \A d \in me.found : d.last \in Int /\ d.last <= now
  BY SweepReads
<1>f. /\ UNCHANGED <<now, draft, file>>
      /\ owed' = owed \cup alerts /\ forgot' = forgot \ alerts
  BY DEF SweepAndPrint, github, files
<1>u. run'[p].pc = "open" /\ run'[p].state = swept
  BY DEF SweepAndPrint, Becomes, PromiseInv, LoneInv, TypeOK
<1>t. \A r \in Pulls : IF r \in alerts
        THEN told'[r].at = now /\ told'[r].about <= now
        ELSE told'[r] = told[r]
  <2>1. ASSUME NEW r \in Pulls, r \in alerts
        PROVE  told'[r].at = now /\ told'[r].about <= now
    <3>1. told'[r] = [at |-> now, about |-> Newest(Listed(outcome["alert"], r))]
      BY <2>1 DEF SweepAndPrint
    <3> DEFINE listed == outcome["alert"]
    <3>2. listed \in Found
      BY <1>r DEF Outcome, Section, Found
    <3>3. Listed(listed, r) # {}
      BY <2>1 DEF Listed
    <3> HIDE DEF listed
    <3>4. \E d \in listed : d.id = r /\ d.last = Newest(Listed(listed, r))
      BY <3>2, <3>3, NewestListed
    <3>5. PICK d \in outcome["alert"] :
            d.id = r /\ d.last = Newest(Listed(outcome["alert"], r))
      BY <3>4 DEF listed
    <3>6. told'[r] = [at |-> now, about |-> d.last]
      BY <3>1, <3>5
    <3>7. d \in me.found
      BY DEF Outcome, Section
    <3> QED BY <1>r, <3>6, <3>7
  <2>2. ASSUME NEW r \in Pulls, r \notin alerts PROVE told'[r] = told[r]
    BY <2>2 DEF SweepAndPrint
  <2> HIDE DEF alerts, outcome
  <2> QED BY <2>1, <2>2
<1>w. \A r \in Pulls : swept[r] # Null /\ me.state[r] # Null =>
        /\ ~me.state[r].backlog => ~swept[r].backlog
        /\ r \notin alerts => swept[r].notified = me.state[r].notified
  BY <1>r, SweptEntry
<1>l. file \in StateFile => me.state = file
  BY <1>r, PrnNullAssumption DEF Loaded
<1> HIDE DEF me, outcome, alerts, swept
<1>1. ReadsTheFile'
  BY <1>a, <1>u DEF ReadsTheFile
<1>2. SeesThePast'
  BY <1>a, <1>u, <1>f DEF SeesThePast, PromiseInv
<1>3. ToldOfThePast'
  BY <1>t DEF ToldOfThePast, PromiseInv
<1>4. RecordsAreKept'
  <2> SUFFICES ASSUME NEW r \in Pulls, told'[r] # Null, r \notin owed' \cup forgot'
               PROVE  /\ file' \in StateFile /\ Kept(file, r)'
                      /\ swept[r] = Null \/ Kept(run[p].state, r)'
    BY <1>a, <1>u DEF RecordsAreKept, Kept
  <2>1. r \notin alerts /\ r \notin owed \cup forgot /\ told'[r] = told[r]
    BY <1>f, <1>t
  <2>2. file \in StateFile /\ Kept(file, r)
    BY <2>1 DEF RecordsAreKept, PromiseInv
  <2>3. swept[r] = Null \/ swept[r].notified = file[r].notified
    BY <1>l, <1>w, <2>1, <2>2 DEF Kept
  <2> QED BY <1>f, <1>u, <2>1, <2>2, <2>3 DEF Kept
<1>5. StaysWatched'
  BY <1>a, <1>u, <1>f, <1>l, <1>w DEF StaysWatched
<1> QED BY <1>1, <1>2, <1>3, <1>4, <1>5 DEF Keeps

\* The rename takes the state of the run.
LEMMA RenameTakes ==
  ASSUME PromiseInv, NEW p \in Runs, Rename(p)
  PROVE  /\ Swept(p) /\ file' = run[p].state /\ file' \in StateFile
         /\ run'[p] = Idle
         /\ told' = told /\ forgot' = forgot \cup Reaped(file')
<1>1. run[p].pc = "rename" /\ tmp = run[p].state
  BY DEF Rename, PromiseInv, LoneInv, WritesItsOwn
<1>2. run[p].state \in StateFile
  <2>1. run[p] \in RenameRun
    BY <1>1, RunKinds DEF OneOf, PromiseInv, LoneInv, TypeOK
  <2> QED BY <2>1 DEF RenameRun
<1> QED BY <1>1, <1>2 DEF Rename, Swept, PromiseInv, LoneInv, TypeOK

LEMMA RenameKeeps ==
  ASSUME Alone, PromiseInv, NEW p \in Runs, Rename(p) PROVE Keeps'
<1>a. \A q \in Runs : q = p
  BY DEF Alone
<1>1. /\ Swept(p) /\ file' = run[p].state /\ file' \in StateFile /\ run'[p] = Idle
      /\ told' = told /\ forgot' = forgot \cup Reaped(file')
  BY RenameTakes
<1>2. UNCHANGED <<now, draft>> /\ owed' = owed \ Recorded(run[p].state)
  BY DEF Rename, github
<1>3. ReadsTheFile' /\ StaysWatched'
  BY <1>a, <1>1 DEF ReadsTheFile, StaysWatched, Swept, Idle
<1>4. SeesThePast'
  BY <1>a, <1>1, <1>2 DEF SeesThePast, Idle, PromiseInv
<1>5. ToldOfThePast'
  BY <1>1 DEF ToldOfThePast, PromiseInv
<1>6. RecordsAreKept'
  <2> SUFFICES ASSUME NEW r \in Pulls, told[r] # Null, r \notin owed' \cup forgot'
               PROVE  Kept(file, r)'
    BY <1>a, <1>1 DEF RecordsAreKept, Swept, Idle
  <2>1. file'[r] # Null /\ r \notin forgot
    BY <1>1 DEF Reaped
  <2>2. CASE r \notin owed
    <3>1. Kept(run[p].state, r)
      BY <1>1, <2>1, <2>2 DEF RecordsAreKept, PromiseInv
    <3> QED BY <1>1, <2>1, <3>1 DEF Kept
  <2>3. CASE r \in Recorded(run[p].state)
    <3>1. file'[r].notified # Null /\ file'[r].notified >= told[r].at
      BY <1>1, <2>1, <2>3 DEF Recorded
    <3>2. file'[r].notified \in Int /\ told[r].at \in Int
      <4>1. file'[r] \in Entry /\ told[r] \in Alert
        BY <1>1, <2>1 DEF StateFile, PromiseInv, LoneInv, TypeOK
      <4> QED BY <3>1, <4>1 DEF Entry, Alert, Time
    <3> QED BY <1>1, <2>1, <3>1, <3>2 DEF Kept
  <2> QED BY <1>2, <2>2, <2>3
<1> QED BY <1>3, <1>4, <1>5, <1>6 DEF Keeps

LEMMA InitPromiseInv == Init => PromiseInv
<1>1. Init => SeesThePast
  BY PrnNullAssumption DEF Init, SeesThePast, Idle, Time
<1>2. Init => ReadsTheFile /\ ToldOfThePast /\ RecordsAreKept /\ StaysWatched
  BY DEF Init, ReadsTheFile, ToldOfThePast, RecordsAreKept, StaysWatched, Swept, Idle
<1> QED BY <1>1, <1>2, InitLoneInv, InitWatchedInv DEF PromiseInv

LEMMA NextPromiseInv ==
  ASSUME Alone, PromiseInv, [Next]_vars PROVE PromiseInv'
<1>1. LoneInv' /\ WatchedInv'
  BY NextLoneInv, NextWatchedInv DEF PromiseInv
<1>2. ASSUME UNCHANGED vars \/ Tick \/ GitHubUser PROVE Keeps'
  BY <1>2, OutsideKeeps
<1>3. ASSUME NEW p \in Runs, Starts(p) \/ Steps(p) \/ Fail(p) PROVE Keeps'
  BY <1>3, EndsKeep, LoadKeeps, SearchKeeps, WritingKeeps, SweepKeeps, RenameKeeps
     DEF Starts, Steps
<1>4. Keeps'
  BY <1>2, <1>3 DEF Next
<1> QED BY <1>1, <1>4 DEF Keeps, PromiseInv

-----------------------------------------------------------------------------
(* Every step is one of the promise, or none *)

LEMMA InitPromise == Init => Promise!Init
<1> SUFFICES ASSUME Init PROVE Promise!Init
  OBVIOUS
<1>1. Phases = [r \in Pulls |-> "unseen"]
  BY DEF Init, Phases
<1>2. now \in Int /\ told = [r \in Pulls |-> Null] /\ owed = {} /\ forgot = {}
  BY DEF Init
<1> QED BY <1>1, <1>2 DEF Promise!Init, Promise!Nobody

\* What a sweep alerts may be brought up: it is watched, and the last alert is
\* about an older comment, is past the window or was not recorded.
LEMMA AlertAllowed ==
  ASSUME PromiseInv, NEW p \in Runs, SweepAndPrint(p), NEW r \in Pulls,
         NEW d \in Outcome(run[p].state, run[p].found, run[p].threshold, now)["alert"],
         d.id = r
  PROVE  /\ Phases[r] = "watched"
         /\ \/ told[r] = Null
            \/ told[r].about < d.last
            \/ now - told[r].at > DedupWindow
            \/ r \in owed \cup forgot
<1>r. /\ run[p].pc = "sweep" /\ run[p].state = Loaded
      /\ run[p].state \in StateFile /\ run[p].found \in Found
      /\ now \in Int
      /\ \A e \in run[p].found : e.last \in Int
  BY SweepReads
<1>1. d \in run[p].found
      /\ Classify(run[p].state[r], d.last, run[p].threshold, now) = "alert"
  BY DEF Outcome, Section
<1>2. run[p].state[r] # Null /\ ~run[p].state[r].backlog
  BY <1>1, OnlyFreshIsNew
<1>3. file \in StateFile /\ run[p].state = file
  <2>1. file # NoFile
    BY <1>r, <1>2 DEF Loaded, Empty
  <2> QED BY <1>r, <2>1 DEF Loaded
<1>4. Phases[r] = "watched"
  BY <1>2, <1>3, PrnNullAssumption DEF Phases
<1>5. Renotifies(file[r], d.last, now)
  BY <1>1, <1>2, <1>3 DEF Classify
<1>6. ASSUME told[r] # Null, r \notin owed \cup forgot
      PROVE  told[r].about < d.last \/ now - told[r].at > DedupWindow
  <2>1. Kept(file, r)
    BY <1>6 DEF PromiseInv, RecordsAreKept
  <2>2. file[r].notified # Null /\ told[r].at <= file[r].notified
        /\ file[r].notified <= told[r].at
    BY <1>2, <1>3, <2>1 DEF Kept, PromiseInv, LoneInv, TrueStamps, Stamped
  <2>3. told[r].about <= told[r].at
    BY <1>6 DEF PromiseInv, ToldOfThePast
  <2>4. told[r].at \in Int /\ told[r].about \in Int /\ file[r].notified \in Int
    <3>1. told[r] \in Alert /\ file[r] \in Entry
      BY <1>2, <1>3, <1>6 DEF PromiseInv, LoneInv, TypeOK, StateFile
    <3> QED BY <2>2, <3>1 DEF Alert, Entry, Time
  <2>5. d.last \in Int
    BY <1>r, <1>1
  <2>6. file[r].notified < d.last \/ file[r].notified < now - DedupWindow
    BY <1>5, <2>2 DEF Renotifies
  <2>7. file[r].notified = told[r].at
    BY <2>2, <2>4
  <2>8. CASE file[r].notified < d.last
    BY <2>3, <2>4, <2>5, <2>7, <2>8
  <2>9. CASE file[r].notified < now - DedupWindow
    BY <1>r, <2>4, <2>7, <2>9, PrnAssumption
  <2> QED BY <2>6, <2>8, <2>9
<1> QED BY <1>4, <1>6

LEMMA SweepGives ==
  ASSUME PromiseInv, NEW p \in Runs, SweepAndPrint(p) PROVE Promise!Next
<1> DEFINE me      == run[p]
           outcome == Outcome(me.state, me.found, me.threshold, now)
           alerts  == {d.id : d \in outcome["alert"]}
<1>r. me.found \in Found /\ now \in Int /\ \A d \in me.found : d.last \in Int
  BY SweepReads
<1>a. alerts \in SUBSET Pulls
  BY <1>r DEF Outcome, Section, Found
<1>1. ASSUME NEW r \in alerts
      PROVE  /\ told'[r] \in Promise!Notice /\ told'[r].at = now
             /\ Promise!MayNotice(r, told'[r].about)
  <2> DEFINE listed == outcome["alert"]
  <2>1. listed \in Found
    BY <1>r DEF Outcome, Section, Found
  <2>2. Listed(listed, r) # {}
    BY DEF Listed
  <2> HIDE DEF listed
  <2>3. \E d \in listed : d.id = r /\ d.last = Newest(Listed(listed, r))
    BY <2>1, <2>2, NewestListed
  <2>4. PICK d \in outcome["alert"] :
          d.id = r /\ d.last = Newest(Listed(outcome["alert"], r))
    BY <2>3 DEF listed
  <2>5. told'[r] = [at |-> now, about |-> d.last]
    BY <1>a, <2>4 DEF SweepAndPrint
  <2>6. d.last \in Int
    BY <1>r DEF Outcome, Section
  <2>7. /\ Phases[r] = "watched"
        /\ \/ told[r] = Null
           \/ told[r].about < d.last
           \/ now - told[r].at > DedupWindow
           \/ r \in owed \cup forgot
    BY <1>a, <2>4, AlertAllowed
  <2> QED BY <1>r, <2>5, <2>6, <2>7 DEF Promise!Notice, Promise!MayNotice
<1>2. told' = [r \in Pulls |-> IF r \in alerts THEN told'[r] ELSE told[r]]
  BY DEF SweepAndPrint
<1>3. /\ owed' = owed \cup alerts /\ forgot' = forgot \ alerts
      /\ now' = now /\ file' = file
  BY DEF SweepAndPrint, files
<1>4. Phases' = Phases
  BY <1>3 DEF Phases
<1> HIDE DEF alerts, outcome
<1>5. Promise!Give(alerts)
  BY <1>1, <1>2, <1>3, <1>4 DEF Promise!Give, Promise!Nobody
<1> QED BY <1>a, <1>5 DEF Promise!Next

LEMMA RenameRecords ==
  ASSUME Alone, PromiseInv, NEW p \in Runs, Rename(p) PROVE Promise!Next
<1>1. /\ Swept(p) /\ file' = run[p].state /\ file' \in StateFile
      /\ told' = told /\ forgot' = forgot \cup Reaped(file')
  BY RenameTakes
<1>2. now' = now /\ owed' \in SUBSET owed
  BY DEF Rename
<1>3. Phases' \in [Pulls -> Promise!Phase]
  BY DEF Phases, Promise!Phase
<1>4. \A r \in Pulls : Phases'[r] =
        IF file'[r] = Null THEN "unseen"
        ELSE IF file'[r].backlog THEN "backlog" ELSE "watched"
  BY <1>1, PrnNullAssumption DEF Phases
<1>5. ASSUME NEW r \in Pulls PROVE Phases'[r] \in Promise!MayBecome[Phases[r]]
  <2>1. Phases[r] \in {"unseen", "backlog", "watched"}
    BY DEF Phases
  <2>2. CASE Phases[r] = "watched"
    <3>1. file \in StateFile /\ file[r] # Null /\ ~file[r].backlog
      BY <2>2 DEF Phases, PromiseInv, LoneInv, TypeOK
    <3>2. file'[r] = Null \/ ~file'[r].backlog
      BY <1>1, <3>1 DEF PromiseInv, StaysWatched
    <3> QED BY <1>4, <2>2, <3>2 DEF Promise!MayBecome
  <2>3. CASE Phases[r] \in {"unseen", "backlog"}
    BY <1>3, <2>3 DEF Promise!MayBecome
  <2> QED BY <2>1, <2>2, <2>3
<1>6. \A r \in forgot' \ forgot : r \in Pulls /\ Phases'[r] = "unseen"
  BY <1>1, <1>4 DEF Reaped
<1>7. Promise!Record
  BY <1>1, <1>2, <1>3, <1>5, <1>6 DEF Promise!Record
<1> QED BY <1>7 DEF Promise!Next

LEMMA NextPromise ==
  ASSUME Alone, PromiseInv, [Next]_vars PROVE [Promise!Next]_(Promise!vars)
<1>s. ASSUME UNCHANGED <<now, file, told, owed, forgot>> PROVE UNCHANGED Promise!vars
  BY <1>s DEF Promise!vars, Phases
<1>1. CASE UNCHANGED vars \/ GitHubUser
  BY <1>1, <1>s DEF vars, GitHubUser, Comment, Withdraw, Close, Reopen, Move, files
<1>2. CASE Tick
  <2>1. now' > now /\ now' \in Int /\ UNCHANGED <<file, told, owed, forgot>>
    BY <1>2 DEF Tick, files, history, PromiseInv, LoneInv, TypeOK, Time
  <2>2. Promise!Tick
    BY <2>1 DEF Promise!Tick, Phases
  <2> QED BY <2>2 DEF Promise!Next
<1>3. ASSUME NEW p \in Runs, SweepAndPrint(p) PROVE Promise!Next
  BY <1>3, SweepGives
<1>4. ASSUME NEW p \in Runs, Rename(p) PROVE Promise!Next
  BY <1>4, RenameRecords
<1>5. ASSUME NEW p \in Runs,
             \/ Starts(p) \/ load(p) \/ SearchPage(p) \/ OpenTmp(p) \/ FillTmp(p)
             \/ RenameFails(p) \/ Fail(p)
      PROVE  UNCHANGED Promise!vars
  <2>1. CASE FillTmp(p)
    <3>1. run[p].into = "tmp"
      BY <2>1 DEF FillTmp, PromiseInv, LoneInv, WritesItsOwn
    <3> QED BY <2>1, <3>1, <1>s DEF FillTmp, history
  <2>2. CASE ~FillTmp(p)
    BY <1>5, <1>s, <2>2 DEF Starts, Start, load, SearchPage, OpenTmp, RenameFails,
                            Fail, files, history
  <2> QED BY <2>1, <2>2
<1> QED BY <1>1, <1>2, <1>3, <1>4, <1>5 DEF Next, Steps

\* Runs that do not overlap keep the promise of ReminderPromise: what was stale
\* when first seen is not brought up, and nothing is brought up twice about the
\* same comment within the window, unless a run did not get to save what it had
\* printed, or the review was missing from a run in between, which dropped its
\* entry (state_file.rs apply_sweep and save, main.rs run).
THEOREM PromiseHolds == ASSUME Alone PROVE Spec => ImplementsPromise
<1>1. Init => PromiseInv
  BY InitPromiseInv
<1>2. PromiseInv /\ [Next]_vars => PromiseInv'
  BY NextPromiseInv
<1>3. Init => Promise!Init
  BY InitPromise
<1>4. PromiseInv /\ [Next]_vars => [Promise!Next]_(Promise!vars)
  BY NextPromise
<1> QED BY <1>1, <1>2, <1>3, <1>4, PTL DEF Spec, ImplementsPromise, Promise!Spec

=============================================================================
