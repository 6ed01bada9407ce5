--------------------------- MODULE PrnCheck_proofs ---------------------------
(***************************************************************************)
(* What the CLI tells and what it stores, for any search, any clock and,   *)
(* where a theorem says so, any number of runs at a time.                  *)
(***************************************************************************)
EXTENDS PrnCheck, FiniteSetTheorems, WellFoundedInduction, TLAPS

\* A set of numbers has a least one.
LEMMA LeastExists ==
  ASSUME NEW T \in SUBSET Nat, T # {}
  PROVE  \E m \in T : \A n \in T : m <= n
<1>1. PICK m \in T : \A n \in T : <<n, m>> \notin OpToRel(<, Nat)
  BY NatLessThanWellFounded, WFMin
<1>2. \A n \in T : ~(n < m)
  BY <1>1 DEF OpToRel
<1> QED BY <1>2

\* A set of times has a latest one.
LEMMA LatestExists ==
  ASSUME NEW T \in SUBSET Time, T # {}
  PROVE  Newest(T) \in T
<1> USE PrnAssumption
<1> DEFINE ToGo == {MaxTime - t : t \in T}
<1>1. ToGo \subseteq Nat /\ ToGo # {}
  <2>1. PICK t \in T : TRUE
    OBVIOUS
  <2>2. MaxTime - t \in ToGo
    BY <2>1
  <2>3. \A u \in T : MaxTime - u \in Nat
    BY DEF Time
  <2> QED BY <2>2, <2>3
<1>2. PICK least \in ToGo : \A y \in ToGo : least <= y
  <2> HIDE DEF ToGo
  <2> QED BY <1>1, LeastExists
<1>3. \A y \in ToGo : ~(y < least)
  <2> HIDE DEF ToGo
  <2> QED BY <1>1, <1>2
<1>4. PICK t \in T : least = MaxTime - t
  OBVIOUS
<1>5. \A u \in T : u <= t
  <2> TAKE u \in T
  <2>1. MaxTime - u \in ToGo
    OBVIOUS
  <2>2. ~(MaxTime - u < MaxTime - t)
    BY <1>3, <1>4, <2>1
  <2> QED BY <2>2 DEF Time
<1> QED BY <1>5 DEF Newest

\* How a run's process state is named.
OneOf(r) ==
  /\ r.pc \in {"idle", "load", "search", "sweep", "open", "fill", "rename"}
  /\ r.pc = "idle"   <=> r = Idle
  /\ r.pc = "load"   <=> r \in LoadRun
  /\ r.pc = "search" <=> r \in SearchRun
  /\ r.pc = "sweep"  <=> r \in SweepRun
  /\ r.pc = "open"   <=> r \in OpenRun
  /\ r.pc = "fill"   <=> r \in FillRun
  /\ r.pc = "rename" <=> r \in RenameRun

LEMMA RunKinds == \A r \in Run : OneOf(r)
BY DEF OneOf, Run, Idle, LoadRun, SearchRun, SweepRun, OpenRun, FillRun, RenameRun

-----------------------------------------------------------------------------
(* The command line *)

\* The parser's states after up to n arguments.
IsTurns(f, argv, n) ==
  f = [i \in 0 .. n |-> IF i = 0 THEN Parsing(Defaults) ELSE Consume(f[i - 1], argv[i])]

LEMMA TurnsExist ==
  ASSUME NEW argv, NEW len \in Nat
  PROVE  \E f : IsTurns(f, argv, len)
<1> DEFINE Bad == {n \in Nat : ~\E f : IsTurns(f, argv, n)}
<1>1. SUFFICES ASSUME Bad # {} PROVE FALSE
  OBVIOUS
<1>2. PICK m \in Bad : \A n \in Bad : m <= n
  BY <1>1, LeastExists
<1>3. CASE m = 0
  <2> DEFINE f == [i \in 0 .. 0 |-> Parsing(Defaults)]
  <2>1. IsTurns(f, argv, 0)
    BY DEF IsTurns
  <2> QED BY <1>2, <1>3, <2>1
<1>4. CASE m # 0
  <2>1. m \in Nat /\ m - 1 \in Nat /\ m - 1 \notin Bad
    BY <1>2, <1>4
  <2>2. PICK f : IsTurns(f, argv, m - 1)
    BY <2>1
  <2> DEFINE g == [i \in 0 .. m |-> IF i = m THEN Consume(f[m - 1], argv[m]) ELSE f[i]]
  <2>3. \A i \in 0 .. m : g[i] = IF i = 0 THEN Parsing(Defaults) ELSE Consume(g[i - 1], argv[i])
    <3> TAKE i \in 0 .. m
    <3>1. CASE i = m
      <4>1. g[i] = Consume(f[i - 1], argv[i]) /\ g[i - 1] = f[i - 1]
        BY <2>1, <3>1
      <4> QED BY <3>1, <4>1, <1>4
    <3>2. CASE i # m
      <4>1. i \in 0 .. m - 1 /\ g[i] = f[i]
        BY <2>1, <3>2
      <4>2. f[i] = IF i = 0 THEN Parsing(Defaults) ELSE Consume(f[i - 1], argv[i])
        BY <2>2, <4>1 DEF IsTurns
      <4>3. i # 0 => g[i - 1] = f[i - 1]
        BY <2>1, <4>1
      <4> QED BY <4>1, <4>2, <4>3
    <3> QED BY <3>1, <3>2
  <2>4. IsTurns(g, argv, m)
    BY <2>3 DEF IsTurns
  <2> QED BY <1>2, <2>4
<1> QED BY <1>3, <1>4

\* The loop over the arguments is what its recursive definition says.
LEMMA TurnsAre ==
  ASSUME NEW argv \in Seq(Argument)
  PROVE  /\ Turns(argv)[0] = Parsing(Defaults)
         /\ \A i \in 1 .. Len(argv) : Turns(argv)[i] = Consume(Turns(argv)[i - 1], argv[i])
<1>1. Turns(argv) = CHOOSE f : IsTurns(f, argv, Len(argv))
  BY DEF Turns, IsTurns
<1>2. Len(argv) \in Nat
  OBVIOUS
<1>3. IsTurns(Turns(argv), argv, Len(argv))
  BY <1>1, <1>2, TurnsExist
<1> DEFINE turns == Turns(argv)
<1> HIDE DEF turns
<1>4. turns = [i \in 0 .. Len(argv) |->
        IF i = 0 THEN Parsing(Defaults) ELSE Consume(turns[i - 1], argv[i])]
  BY <1>3 DEF IsTurns, turns
<1>5. /\ turns[0] = Parsing(Defaults)
      /\ \A i \in 1 .. Len(argv) : turns[i] = Consume(turns[i - 1], argv[i])
  BY <1>2, <1>4
<1> QED BY <1>5 DEF turns

\* The parser between two arguments.
Parser == [verdict : {"run", "help", "error"}, args : Args,
           waiting : TakesValue \cup {NoValue}]

\* What is set of a flag and its value is sound.
LEMMA SetType ==
  ASSUME NEW p \in Parser, NEW flag, NEW value \in Nat
  PROVE  SetValue(p, flag, value) \in Parser /\ SetSwitch(p, flag) \in Parser
<1>1. ASSUME NEW args \in Args PROVE Parsing(args) \in Parser
  BY DEF Parsing, Parser
<1>2. \A verdict \in {"help", "error"} : Ended(p, verdict) \in Parser
  BY DEF Ended, Parser
<1>3. p.args \in Args
  BY DEF Parser
<1>4. value >= 1 => [p.args EXCEPT !.threshold = value] \in Args
  BY <1>3 DEF Args
<1>5. /\ [p.args EXCEPT !.login = TRUE] \in Args /\ [p.args EXCEPT !.file = TRUE] \in Args
      /\ [p.args EXCEPT !.json = TRUE] \in Args /\ [p.args EXCEPT !.quiet = TRUE] \in Args
  BY <1>3 DEF Args
<1> QED BY <1>1, <1>2, <1>4, <1>5 DEF SetValue, SetSwitch

LEMMA ConsumeType ==
  ASSUME NEW p \in Parser, NEW arg \in Argument
  PROVE  Consume(p, arg) \in Parser
<1>1. AsText(arg) \in Nat
  BY DEF AsText, Argument
<1>2. arg.value # NoValue => arg.value \in Nat
  BY DEF Argument
<1>3. arg.flag \in TakesValue => [p EXCEPT !.waiting = arg.flag] \in Parser
  BY DEF Parser
<1>4. \A verdict \in {"help", "error"} : Ended(p, verdict) \in Parser
  BY DEF Ended, Parser
<1>5. \A flag, value : value \in Nat => SetValue(p, flag, value) \in Parser
  BY SetType
<1>6. \A flag : SetSwitch(p, flag) \in Parser
  BY SetType
<1> QED BY <1>1, <1>2, <1>3, <1>4, <1>5, <1>6 DEF Consume

LEMMA TurnsType ==
  ASSUME NEW argv \in Seq(Argument), NEW n \in 0 .. Len(argv)
  PROVE  Turns(argv)[n] \in Parser
<1> USE PrnAssumption
<1> DEFINE Bad == {i \in 0 .. Len(argv) : Turns(argv)[i] \notin Parser}
<1>1. SUFFICES ASSUME Bad # {} PROVE FALSE
  OBVIOUS
<1>2. PICK m \in Bad : \A i \in Bad : m <= i
  <2>1. Bad \in SUBSET Nat
    OBVIOUS
  <2> HIDE DEF Bad
  <2> QED BY <1>1, <2>1, LeastExists
<1>3. CASE m = 0
  <2>1. Parsing(Defaults) \in Parser
    BY DEF Parsing, Defaults, Parser, Args
  <2> QED BY <1>2, <1>3, <2>1, TurnsAre
<1>4. CASE m # 0
  <2>1. m - 1 \in 0 .. Len(argv) /\ m - 1 \notin Bad /\ m \in 1 .. Len(argv)
    BY <1>2, <1>4
  <2>2. Turns(argv)[m - 1] \in Parser /\ argv[m] \in Argument
    BY <2>1
  <2>3. Turns(argv)[m] = Consume(Turns(argv)[m - 1], argv[m])
    BY <2>1, TurnsAre
  <2> QED BY <1>2, <2>2, <2>3, ConsumeType
<1> QED BY <1>3, <1>4

\* What the parser lets through of any command line is a threshold of at least
\* one hour: a run never takes every review for stale, nor a negative age
\* (main.rs parse_args, "--threshold-hours must be at least 1").
THEOREM InvocationsAreSound == Invocations \subseteq Nat \ {0}
<1> SUFFICES ASSUME NEW argv \in CommandLines, NEW home \in BOOLEAN,
                    parse_args(argv, home).verdict = "run"
             PROVE  parse_args(argv, home).args.threshold \in Nat \ {0}
  BY DEF Invocations, Accepted
<1> DEFINE p == Turns(argv)[Len(argv)]
<1>1. argv \in Seq(Argument)
  BY PrnAssumption
<1>2. p \in Parser
  BY <1>1, TurnsType
<1>3. parse_args(argv, home) = p
  <2>1. Ended(p, "error").verdict = "error"
    BY <1>2 DEF Ended, Parser
  <2> QED BY <2>1 DEF parse_args
<1> HIDE DEF p
<1> QED BY <1>2, <1>3 DEF Parser, Args

\* What an argument decides is final: no later one makes a run of an error, or
\* of --help an error (main.rs parse_args returns from within the loop).
THEOREM DecisionsAreFinal ==
  ASSUME NEW argv \in Seq(Argument), NEW i \in 0 .. Len(argv),
         Turns(argv)[i].verdict # "run"
  PROVE  Turns(argv)[Len(argv)] = Turns(argv)[i]
<1> DEFINE Bad == {n \in i .. Len(argv) : Turns(argv)[n] # Turns(argv)[i]}
<1>1. SUFFICES ASSUME Bad # {} PROVE FALSE
  OBVIOUS
<1>2. PICK m \in Bad : \A n \in Bad : m <= n
  <2>1. Bad \in SUBSET Nat
    OBVIOUS
  <2> HIDE DEF Bad
  <2> QED BY <1>1, <2>1, LeastExists
<1>3. m # i /\ m - 1 \in i .. Len(argv) /\ m - 1 \notin Bad /\ m \in 1 .. Len(argv)
  BY <1>2
<1>4. Turns(argv)[m] = Consume(Turns(argv)[i], argv[m])
  BY <1>3, TurnsAre
<1> QED BY <1>2, <1>4 DEF Consume

-----------------------------------------------------------------------------
(* What a sweep makes of a state *)

\* An entry that is not backlog after a sweep was not before, or is fresh.
LEMMA OnlyFreshIsNew ==
  ASSUME NEW entry, NEW last, NEW threshold, NEW at,
         Classify(entry, last, threshold, at) # "backlog"
  PROVE  \/ entry # Null /\ ~entry.backlog
         \/ Classify(entry, last, threshold, at) = "fresh"
BY DEF Classify, ResolveBacklog, Prior

\* What a function makes of a finite set is finite.
LEMMA FiniteImage ==
  ASSUME NEW S, IsFiniteSet(S), NEW T, NEW f \in [S -> T],
         \A t \in T : \E s \in S : f[s] = t
  PROVE  IsFiniteSet(T)
<1>1. f \in Surjection(S, T)
  BY DEF Surjection
<1> QED BY <1>1, FS_Surjection

\* No reply has other nodes than the page.
LEMMA ReplyNodes ==
  ASSUME NEW page, NEW nodes, NEW more, NEW reply,
         page = [nodes |-> nodes, hasNext |-> more, cursor |-> TRUE],
         reply \in Replies(page)
  PROVE  reply.page.nodes \in {nodes, {}}
<1> DEFINE ok == [status |-> "ok", errors |-> FALSE, data |-> TRUE, page |-> page]
<1>1. ok.page.nodes = nodes
  OBVIOUS
<1>2. [ok EXCEPT !.status = "refused"].page = page /\ [ok EXCEPT !.data = FALSE].page = page
  OBVIOUS
<1>3. [ok EXCEPT !.errors = TRUE, !.page.nodes = {}, !.page.hasNext = FALSE].page.nodes = {}
  OBVIOUS
<1>4. [ok EXCEPT !.page.cursor = FALSE].page.nodes = nodes
  OBVIOUS
<1> QED BY <1>1, <1>2, <1>3, <1>4 DEF Replies

\* A page has finitely many reviews, each of a pull request, with a time.
LEMMA PageType ==
  ASSUME NEW gh \in SUBSET Pulls, NEW d \in [Pulls -> Time \cup {NoReview, Shell}],
         NEW cursor \in Nat, NEW reply \in Replies(PageAfter(gh, d, cursor))
  PROVE  /\ extract_reviews(reply.page.nodes) \in Found
         /\ IsFiniteSet(extract_reviews(reply.page.nodes))
<1> DEFINE ids == {r \in gh : Place(gh, r) \in cursor + 1 .. cursor + PageSize}
           nodes == {[id |-> r, review |-> d[r]] : r \in ids}
           more == Cardinality(gh) > cursor + PageSize
<1>1. reply.page.nodes \subseteq nodes
  <2>1. PageAfter(gh, d, cursor) = [nodes |-> nodes, hasNext |-> more, cursor |-> TRUE]
    BY DEF PageAfter
  <2> HIDE DEF nodes, more
  <2> QED BY <2>1, ReplyNodes
<1>2. IsFiniteSet(ids) /\ ids \subseteq Pulls
  BY DiscoveryAssumption, FS_Subset
<1>3. IsFiniteSet(nodes)
  <2> DEFINE f == [r \in ids |-> [id |-> r, review |-> d[r]]]
  <2>1. f \in [ids -> nodes]
    OBVIOUS
  <2>2. \A n \in nodes : \E r \in ids : f[r] = n
    OBVIOUS
  <2> HIDE DEF f, ids, nodes
  <2> QED BY <1>2, <2>1, <2>2, FiniteImage
<1> DEFINE kept == {m \in reply.page.nodes : m.review \notin {NoReview, Shell}}
           reviews == {[id |-> n.id, last |-> n.review] : n \in kept}
<1>4. IsFiniteSet(kept)
  <2>1. kept \subseteq nodes
    BY <1>1
  <2> HIDE DEF kept, nodes
  <2> QED BY <1>3, <2>1, FS_Subset
<1>5. \A n \in kept : [id |-> n.id, last |-> n.review] \in [id : Pulls, last : Time]
  <2> TAKE n \in kept
  <2>1. PICK r \in ids : n = [id |-> r, review |-> d[r]]
    BY <1>1
  <2>2. r \in Pulls /\ n.id = r /\ n.review = d[r] /\ d[r] \in Time
    BY <1>2, <2>1
  <2> QED BY <2>2
<1>6. IsFiniteSet(reviews)
  <2> DEFINE f == [n \in kept |-> [id |-> n.id, last |-> n.review]]
  <2>1. f \in [kept -> reviews]
    OBVIOUS
  <2>2. \A v \in reviews : \E n \in kept : f[n] = v
    OBVIOUS
  <2> HIDE DEF f, kept, reviews
  <2> QED BY <1>4, <2>1, <2>2, FiniteImage
<1>7. extract_reviews(reply.page.nodes) = reviews
  BY DEF extract_reviews
<1> QED BY <1>5, <1>6, <1>7 DEF Found

\* The listings of a review have a newest one.
LEMMA NewestListed ==
  ASSUME NEW found \in Found, NEW r, Listed(found, r) # {}
  PROVE  /\ Newest(Listed(found, r)) \in Time
         /\ \E d \in found : d.id = r /\ d.last = Newest(Listed(found, r))
<1>1. Listed(found, r) \subseteq Time
  BY DEF Listed, Found
<1>2. Newest(Listed(found, r)) \in Listed(found, r)
  BY <1>1, LatestExists
<1> QED BY <1>1, <1>2 DEF Listed

\* A sweep makes an entry of an entry and what is listed of a review.
LEMMA ResolvedType ==
  ASSUME NEW state \in StateFile, NEW found \in Found, NEW threshold, NEW at \in Time,
         NEW r \in Pulls, Listed(found, r) # {}
  PROVE  Resolved(state[r], Newest(Listed(found, r)), threshold, at) \in Entry
<1> DEFINE last == Newest(Listed(found, r))
           section == Classify(state[r], last, threshold, at)
           notified == IF section = "alert" THEN at
                       ELSE IF state[r] = Null THEN Null ELSE state[r].notified
<1>1. last \in Time
  BY NewestListed
<1>2. notified \in Time \cup {Null}
  BY DEF StateFile, Entry
<1>3. Resolved(state[r], last, threshold, at) =
        [last |-> last, backlog |-> section = "backlog", notified |-> notified]
  BY DEF Resolved
<1> HIDE DEF last, section, notified
<1> QED BY <1>1, <1>2, <1>3 DEF Entry, last

\* And a state of a state.
LEMMA SweptType ==
  ASSUME NEW state \in StateFile, NEW found \in Found, NEW threshold, NEW at \in Time
  PROVE  apply_sweep(state, found, threshold, at) \in StateFile
BY ResolvedType DEF apply_sweep, StateFile

\* An alert is about a time at which the review was listed.
LEMMA AlertType ==
  ASSUME NEW found \in Found, NEW state, NEW threshold, NEW at \in Time,
         NEW r \in {d.id : d \in Outcome(state, found, threshold, at)["alert"]}
  PROVE  [at |-> at, about |-> Newest(Listed(Outcome(state, found, threshold, at)["alert"], r))]
           \in Alert
<1> DEFINE listed == Outcome(state, found, threshold, at)["alert"]
<1>1. listed \in Found
  BY DEF Outcome, Section, Found
<1>2. Listed(listed, r) # {}
  BY DEF Listed
<1> HIDE DEF listed
<1> QED BY <1>1, <1>2, NewestListed DEF Alert, listed

-----------------------------------------------------------------------------
(* Types *)

LEMMA InitTypeOK == Init => TypeOK
BY PrnAssumption DEF Init, TypeOK, Run, Time

LEMMA OutsideType ==
  ASSUME TypeOK, Tick \/ GitHubUser PROVE TypeOK'
<1> USE PrnAssumption DEF TypeOK
<1>1. CASE Tick
  BY <1>1 DEF Tick, Time, github, files, bounds, history
<1>2. ASSUME NEW r \in Pulls, Comment(r) \/ Withdraw(r) \/ Close(r) \/ Reopen(r)
      PROVE  TypeOK'
  <2>1. ASSUME NEW lost \in SUBSET Pulls, Move(lost)
        PROVE  /\ excused' \in [Runs -> SUBSET Pulls] /\ moves' \in 0 .. MaxMoves
               /\ UNCHANGED <<now, files, run, mishaps, told, owed, forgot, watched>>
    BY <2>1 DEF Move
  <2>2. /\ excused' \in [Runs -> SUBSET Pulls] /\ moves' \in 0 .. MaxMoves
        /\ UNCHANGED <<now, files, run, mishaps, told, owed, forgot, watched>>
    <3>1. {s \in Pulls : s >= r} \in SUBSET Pulls /\ {r} \in SUBSET Pulls /\ {} \in SUBSET Pulls
      OBVIOUS
    <3> QED BY <1>2, <2>1, <3>1 DEF Comment, Withdraw, Close, Reopen
  <2>3. open' \subseteq Pulls /\ draft' \in [Pulls -> Time \cup {NoReview, Shell}]
    BY <1>2 DEF Comment, Withdraw, Close, Reopen
  <2> QED BY <2>2, <2>3 DEF files
<1> QED BY <1>1, <1>2 DEF GitHubUser

\* The local variables of a search after a page.
LEMMA NextPage ==
  ASSUME NEW me \in SearchRun, NEW cursor \in Nat, NEW count \in Nat, NEW found \in Found
  PROVE  [me EXCEPT !.cursor = cursor, !.count = count, !.found = found] \in SearchRun
<1>1. me \in [pc : {"search"}, threshold : Nat \ {0}, state : StateFile,
              cursor : Nat, count : Nat, found : Found]
  BY DEF SearchRun
<1>2. [me EXCEPT !.cursor = cursor] \in SearchRun
  BY <1>1 DEF SearchRun
<1>3. ASSUME NEW m \in SearchRun PROVE [m EXCEPT !.count = count] \in SearchRun
  BY DEF SearchRun
<1>4. ASSUME NEW m \in SearchRun PROVE [m EXCEPT !.found = found] \in SearchRun
  BY DEF SearchRun
<1> QED BY <1>2, <1>3, <1>4

LEMMA SearchType ==
  ASSUME TypeOK, NEW p \in Runs, SearchPage(p) PROVE TypeOK'
<1> USE PrnAssumption, DiscoveryAssumption DEF TypeOK
<1> DEFINE cursor == run[p].cursor
           sound  == PageAfter(open, draft, cursor)
<1>r. /\ run[p] \in SearchRun /\ cursor \in Nat /\ run[p].count \in Nat
      /\ run[p].found \in Found
  <2>1. run[p] \in SearchRun
    BY RunKinds DEF SearchPage, OneOf
  <2> QED BY <2>1 DEF SearchRun
<1> PICK reply \in Replies(sound) :
      LET new   == extract_reviews(reply.page.nodes)
          count == run[p].count + Cardinality(new)
          kept  == Truncated(new, MaxResults - run[p].count)
          found == run[p].found \cup kept
          rest  == {r \in open : Place(open, r) > cursor + PageSize}
      IN  /\ IF reply.page = sound THEN UNCHANGED bounds ELSE Mishap
          /\ Usable(reply)
          /\ IF LastPage(count, reply.page)
             THEN /\ Becomes(p, [pc |-> "sweep", threshold |-> run[p].threshold,
                                 state |-> run[p].state, found |-> found])
                  /\ excused' = [excused EXCEPT ![p] = @ \cup
                       IF count >= MaxResults \/ ~reply.page.cursor
                       THEN rest \cup {d.id : d \in new \ kept} ELSE {}]
             ELSE /\ Becomes(p, [run[p] EXCEPT !.cursor = @ + PageSize,
                                 !.count = count, !.found = found])
                  /\ UNCHANGED excused
  BY DEF SearchPage
<1> DEFINE new   == extract_reviews(reply.page.nodes)
           count == run[p].count + Cardinality(new)
           kept  == Truncated(new, MaxResults - run[p].count)
           found == run[p].found \cup kept
           rest  == {r \in open : Place(open, r) > cursor + PageSize}
           lost  == IF count >= MaxResults \/ ~reply.page.cursor
                    THEN rest \cup {d.id : d \in new \ kept} ELSE {}
<1>n. new \in Found /\ IsFiniteSet(new)
  BY <1>r, PageType
<1>c. count \in Nat
  <2> HIDE DEF new
  <2>1. Cardinality(new) \in Nat
    BY <1>n, FS_CardinalityType
  <2> QED BY <1>r, <2>1
<1>f. found \in Found
  <2>1. kept \subseteq new
    BY DEF Truncated
  <2> QED BY <1>r, <1>n, <2>1 DEF Found
<1>l. lost \subseteq Pulls
  BY <1>n DEF Found
<1>s. Becomes(p, [pc |-> "sweep", threshold |-> run[p].threshold,
                  state |-> run[p].state, found |-> found]) => run' \in [Runs -> Run]
  <2>1. [pc |-> "sweep", threshold |-> run[p].threshold,
         state |-> run[p].state, found |-> found] \in SweepRun
    BY <1>r, <1>f DEF SearchRun, SweepRun
  <2> HIDE DEF found
  <2> QED BY <2>1 DEF Becomes, Run
<1>g. Becomes(p, [run[p] EXCEPT !.cursor = @ + PageSize, !.count = count,
                                !.found = found]) => run' \in [Runs -> Run]
  <2> HIDE DEF count, found
  <2>1. run[p].cursor + PageSize \in Nat
    BY <1>r, DiscoveryAssumption DEF SearchRun
  <2>2. [run[p] EXCEPT !.cursor = run[p].cursor + PageSize, !.count = count,
                       !.found = found] \in SearchRun
    BY <1>r, <1>c, <1>f, <2>1, NextPage
  <2>3. [run[p] EXCEPT !.cursor = run[p].cursor + PageSize, !.count = count,
                       !.found = found] \in Run
    BY <2>2 DEF Run
  <2>4. ASSUME NEW next \in Run, run' = [run EXCEPT ![p] = next]
        PROVE  run' \in [Runs -> Run]
    BY <2>4
  <2> QED BY ONLY <2>3, <2>4 DEF Becomes
<1>b. moves' \in 0 .. MaxMoves /\ mishaps' \in 0 .. MaxMishaps
  BY DEF bounds, Mishap
<1>e. /\ run' \in [Runs -> Run]
      /\ excused' = [excused EXCEPT ![p] = @ \cup lost] \/ excused' = excused
  <2> HIDE DEF lost, found, count
  <2> QED BY <1>s, <1>g DEF lost, found, count
<1>x. excused' \in [Runs -> SUBSET Pulls]
  <2> HIDE DEF lost
  <2> QED BY <1>e, <1>l
<1>u. UNCHANGED <<now, github, files, told, owed, forgot, watched>>
  BY DEF SearchPage
<1> QED BY <1>b, <1>e, <1>x, <1>u DEF github, files

LEMMA SweepType ==
  ASSUME TypeOK, NEW p \in Runs, SweepAndPrint(p) PROVE TypeOK'
<1> USE DEF TypeOK
<1> DEFINE me      == run[p]
           outcome == Outcome(me.state, me.found, me.threshold, now)
           alerts  == {d.id : d \in outcome["alert"]}
           fresh   == {d.id : d \in outcome["fresh"]}
           swept   == apply_sweep(me.state, me.found, me.threshold, now)
<1>r. me \in SweepRun /\ me.state \in StateFile /\ me.found \in Found
  <2>1. me \in SweepRun
    BY RunKinds DEF SweepAndPrint, OneOf
  <2> QED BY <2>1 DEF SweepRun
<1>s. swept \in StateFile
  BY <1>r, SweptType
<1>a. alerts \subseteq Pulls /\ fresh \subseteq Pulls
  BY <1>r DEF Outcome, Section, Found
<1>t. \A r \in alerts : [at |-> now, about |-> Newest(Listed(outcome["alert"], r))] \in Alert
  BY <1>r, AlertType
<1>n. [pc |-> "open", alerts |-> alerts, state |-> swept] \in Run
  <2> HIDE DEF alerts, swept
  <2> QED BY <1>s, <1>a DEF OpenRun, Run
<1>1. run' \in [Runs -> Run]
  <2>1. run' = [run EXCEPT ![p] = [pc |-> "open", alerts |-> alerts, state |-> swept]]
    BY DEF SweepAndPrint, Becomes
  <2> HIDE DEF alerts, swept
  <2> QED BY <1>n, <2>1
<1>2. told' \in [Pulls -> Alert \cup {Null}]
  <2>1. told' = [r \in Pulls |-> IF r \in alerts
                  THEN [at |-> now, about |-> Newest(Listed(outcome["alert"], r))]
                  ELSE told[r]]
    BY DEF SweepAndPrint
  <2> HIDE DEF alerts, outcome
  <2> QED BY <1>t, <2>1
<1>3. owed' \subseteq Pulls /\ forgot' \subseteq Pulls /\ watched' \subseteq Pulls
  <2>1. /\ owed' = owed \cup alerts /\ forgot' = forgot \ alerts
        /\ watched' = watched \cup fresh
    BY DEF SweepAndPrint
  <2> HIDE DEF alerts, fresh
  <2> QED BY <1>a, <2>1
<1>4. UNCHANGED <<now, github, files, bounds, excused>>
  BY DEF SweepAndPrint
<1> QED BY <1>1, <1>2, <1>3, <1>4 DEF github, files, bounds

LEMMA RunType ==
  ASSUME TypeOK, NEW p \in Runs,
         \/ \E threshold \in Invocations : Start(p, threshold)
         \/ load(p) \/ OpenTmp(p) \/ FillTmp(p) \/ Rename(p) \/ RenameFails(p)
         \/ Fail(p)
  PROVE  TypeOK'
<1> USE PrnAssumption DEF TypeOK
<1>k. OneOf(run[p])
  BY RunKinds
<1>i. ASSUME Ends(p) PROVE /\ run' \in [Runs -> Run]
                           /\ excused' \in [Runs -> SUBSET Pulls]
  BY <1>i DEF Ends, Becomes, Run
<1>1. ASSUME NEW threshold \in Invocations, Start(p, threshold) PROVE TypeOK'
  <2>1. [pc |-> "load", threshold |-> threshold] \in Run
    BY InvocationsAreSound DEF Run, LoadRun
  <2> QED BY <1>1, <2>1 DEF Start, Becomes, github, files, bounds, history
<1>2. CASE load(p)
  <2>1. run[p] \in LoadRun
    BY <1>k, <1>2 DEF load, OneOf
  <2>2. Loaded \in StateFile \cup {Torn}
    BY DEF Loaded, Empty, StateFile
  <2>3. Loaded # Torn =>
          [pc |-> "search", threshold |-> run[p].threshold, state |-> Loaded,
           cursor |-> 0, count |-> 0, found |-> {}] \in Run
    <3>1. {} \in Found
      BY DEF Found
    <3> HIDE DEF Loaded
    <3> SUFFICES ASSUME Loaded \in StateFile
                 PROVE  [pc |-> "search", threshold |-> run[p].threshold, state |-> Loaded,
                         cursor |-> 0, count |-> 0, found |-> {}] \in SearchRun
      BY <2>2 DEF Run
    <3>2. run[p].threshold \in Nat \ {0}
      BY <2>1 DEF LoadRun
    <3> QED BY <3>1, <3>2 DEF SearchRun
  <2>4. run' \in [Runs -> Run] /\ excused' \in [Runs -> SUBSET Pulls]
    BY <1>2, <1>i, <2>3 DEF load, Becomes
  <2> QED BY <1>2, <2>4 DEF load, github, files, bounds
<1>3. CASE OpenTmp(p)
  <2>1. run[p] \in OpenRun
    BY <1>k, <1>3 DEF OpenTmp, OneOf
  <2>2. [pc |-> "fill", state |-> run[p].state, alerts |-> run[p].alerts,
         into |-> "tmp"] \in Run
    BY <2>1 DEF OpenRun, FillRun, Run
  <2> QED BY <1>3, <2>2 DEF OpenTmp, Becomes, github, bounds, history
<1>4. CASE FillTmp(p)
  <2>1. run[p] \in FillRun
    BY <1>k, <1>4 DEF FillTmp, OneOf
  <2>2. [pc |-> "rename", state |-> run[p].state, alerts |-> run[p].alerts] \in Run
    BY <2>1 DEF FillRun, RenameRun, Run
  <2>3. \A old : Over(old, run[p].state) \subseteq StateFile \cup {Torn}
    BY <2>1 DEF Over, FillRun
  <2>4. file' \in StateFile \cup {NoFile, Torn} /\ tmp' \in StateFile \cup {NoFile, Torn}
    BY <1>4, <2>3 DEF FillTmp
  <2> QED BY <1>4, <2>2, <2>4 DEF FillTmp, Becomes, github, bounds, history
<1>5. CASE Rename(p)
  <2>1. \A r \in Run : Moved(r) \in Run
    <3> TAKE r \in Run
    <3>1. CASE r.pc = "fill"
      <4>1. r \in FillRun
        BY <3>1, RunKinds DEF OneOf
      <4>2. [r EXCEPT !.into = IF @ = "tmp" THEN "file" ELSE "gone"] \in FillRun
        BY <4>1 DEF FillRun
      <4> QED BY <3>1, <4>2 DEF Moved, Run
    <3> QED BY <3>1 DEF Moved
  <2>2. run' \in [Runs -> Run]
    BY <1>5, <2>1 DEF Rename, Run
  <2>3. owed' \subseteq Pulls /\ forgot' \subseteq Pulls
    BY <1>5 DEF Rename, Reaped
  <2> QED BY <1>5, <2>2, <2>3 DEF Rename, github, bounds
<1>6. CASE RenameFails(p)
  BY <1>6, <1>i DEF RenameFails, github, files, bounds
<1>7. CASE Fail(p)
  BY <1>7, <1>i DEF Fail, Mishap, github, files
<1> QED BY <1>1, <1>2, <1>3, <1>4, <1>5, <1>6, <1>7

LEMMA NextTypeOK == ASSUME TypeOK, [Next]_vars PROVE TypeOK'
<1>1. CASE UNCHANGED vars
  BY <1>1 DEF TypeOK, vars
<1> QED BY <1>1, OutsideType, SearchType, SweepType, RunType DEF Next, Starts, Steps

\* Every variable keeps its type, for any command lines the parser accepts, any
\* search and any number of runs at a time (prn_check/main.rs, state_file.rs).
THEOREM PrnTypes == Spec => []TypeOK
<1>1. Init => TypeOK
  BY InitTypeOK
<1>2. TypeOK /\ [Next]_vars => TypeOK'
  BY NextTypeOK
<1> QED BY <1>1, <1>2, PTL DEF Spec

-----------------------------------------------------------------------------
(* Only what was seen fresh is ever alerted *)

\* An entry that is not backlog is about a review some run has found fresh.
Trusted(state) ==
  \A r \in Pulls : state[r] # Null /\ ~state[r].backlog => r \in watched

\* A stamp in an entry is not later than the last report of the review.
Stamped(state) ==
  \A r \in Pulls : state[r] # Null /\ state[r].notified # Null =>
    told[r] # Null /\ state[r].notified <= told[r].at

\* The processes that hold a state in memory.
Holding == {"search", "sweep", "open", "fill", "rename"}

TrustedFiles == /\ file \in StateFile => Trusted(file)
                /\ tmp \in StateFile => Trusted(tmp)
TrustedRuns  == \A p \in Runs : run[p].pc \in Holding => Trusted(run[p].state)

WatchedInv == TypeOK /\ WatchedOnly /\ TrustedFiles /\ TrustedRuns

\* What the step of a run does to the states in memory and to the files.
StatesMove(p) ==
  /\ \A q \in Runs \ {p} : run'[q].pc = run[q].pc
       /\ (run[q].pc \in Holding => run'[q].state = run[q].state)
  /\ run'[p].pc \in Holding =>
       \/ run[p].pc \in Holding /\ run'[p].state = run[p].state
       \/ file = NoFile /\ run'[p].state = Empty
       \/ file \in StateFile /\ run'[p].state = file
  /\ file' \in StateFile =>
       \/ file' = file
       \/ Rename(p) /\ file' = tmp
       \/ run[p].pc \in Holding /\ file' = run[p].state
  /\ tmp' \in StateFile =>
       \/ tmp' = tmp
       \/ run[p].pc \in Holding /\ tmp' = run[p].state

\* What a page leaves of a run: the search goes on or ends, with what it found
\* so far and what is on the page.
LEMMA SearchStep ==
  ASSUME TypeOK, NEW p \in Runs, SearchPage(p)
  PROVE  /\ run[p].pc = "search" /\ run' = [run EXCEPT ![p] = run'[p]]
         /\ run'[p].pc \in {"search", "sweep"} /\ run'[p].state = run[p].state
         /\ \A d \in run'[p].found :
              \/ d \in run[p].found
              \/ \E reply \in Replies(PageAfter(open, draft, run[p].cursor)) :
                   d \in extract_reviews(reply.page.nodes)
         /\ UNCHANGED <<now, github, files, told, owed, forgot, watched>>
<1> USE DEF TypeOK
<1>1. run[p].pc = "search" /\ run[p] \in SearchRun
  BY RunKinds DEF SearchPage, OneOf
<1>2. PICK reply \in Replies(PageAfter(open, draft, run[p].cursor)) :
        \E kept \in SUBSET extract_reviews(reply.page.nodes), count \in Int :
          \/ Becomes(p, [pc |-> "sweep", threshold |-> run[p].threshold,
                         state |-> run[p].state, found |-> run[p].found \cup kept])
          \/ Becomes(p, [run[p] EXCEPT !.cursor = @ + PageSize, !.count = count,
                                       !.found = run[p].found \cup kept])
  <2>1. PICK reply \in Replies(PageAfter(open, draft, run[p].cursor)) :
          LET new   == extract_reviews(reply.page.nodes)
              count == run[p].count + Cardinality(new)
              kept  == Truncated(new, MaxResults - run[p].count)
              found == run[p].found \cup kept
          IN  \/ Becomes(p, [pc |-> "sweep", threshold |-> run[p].threshold,
                             state |-> run[p].state, found |-> found])
              \/ Becomes(p, [run[p] EXCEPT !.cursor = @ + PageSize, !.count = count,
                                           !.found = found])
    BY DEF SearchPage
  <2> DEFINE new   == extract_reviews(reply.page.nodes)
             kept  == Truncated(new, MaxResults - run[p].count)
             count == run[p].count + Cardinality(new)
  <2>2. kept \subseteq new
    BY DEF Truncated
  <2>3. count \in Int
    <3>1. IsFiniteSet(new)
      BY <1>1, PageType DEF SearchRun
    <3> QED BY <1>1, <3>1, FS_CardinalityType DEF SearchRun
  <2> QED BY <2>1, <2>2, <2>3
<1>3. PICK kept \in SUBSET extract_reviews(reply.page.nodes), count \in Int :
        \/ Becomes(p, [pc |-> "sweep", threshold |-> run[p].threshold,
                       state |-> run[p].state, found |-> run[p].found \cup kept])
        \/ Becomes(p, [run[p] EXCEPT !.cursor = @ + PageSize, !.count = count,
                                     !.found = run[p].found \cup kept])
  BY <1>2
<1> DEFINE found  == run[p].found \cup kept
           after  == [pc |-> "sweep", threshold |-> run[p].threshold,
                      state |-> run[p].state, found |-> found]
           onward == [run[p] EXCEPT !.cursor = run[p].cursor + PageSize,
                                    !.count = count, !.found = found]
<1>4. /\ after.pc = "sweep" /\ after.state = run[p].state /\ after.found = found
      /\ onward.pc = "search" /\ onward.state = run[p].state /\ onward.found = found
  <2>1. ASSUME NEW cursor, NEW f
        PROVE  /\ [run[p] EXCEPT !.cursor = cursor, !.count = count, !.found = f].pc = "search"
               /\ [run[p] EXCEPT !.cursor = cursor, !.count = count, !.found = f].state
                    = run[p].state
               /\ [run[p] EXCEPT !.cursor = cursor, !.count = count, !.found = f].found = f
    BY <1>1 DEF SearchRun
  <2> QED BY <2>1
<1>5. run' = [run EXCEPT ![p] = after] \/ run' = [run EXCEPT ![p] = onward]
  BY <1>3 DEF Becomes
<1>6. UNCHANGED <<now, github, files, told, owed, forgot, watched>>
  BY DEF SearchPage
<1> HIDE DEF after, onward
<1>7. run' = [run EXCEPT ![p] = run'[p]] /\ run'[p] \in {after, onward}
  BY <1>5
<1> QED BY <1>1, <1>4, <1>6, <1>7

LEMMA SearchMoves ==
  ASSUME TypeOK, NEW p \in Runs, SearchPage(p) PROVE StatesMove(p)
BY SearchStep DEF StatesMove, Holding, files, TypeOK

LEMMA OthersMove ==
  ASSUME TypeOK, NEW p \in Runs,
         \/ \E threshold \in Invocations : Start(p, threshold)
         \/ load(p) \/ OpenTmp(p) \/ FillTmp(p) \/ Rename(p) \/ RenameFails(p)
         \/ Fail(p)
  PROVE  StatesMove(p)
<1> USE DEF TypeOK, StatesMove, Holding
<1>k. OneOf(run[p])
  BY RunKinds
<1>i. Idle.pc = "idle"
  BY DEF Idle
<1>1. ASSUME NEW threshold \in Invocations, Start(p, threshold) PROVE StatesMove(p)
  BY <1>1 DEF Start, Becomes, files
<1>2. CASE load(p)
  BY <1>2, <1>i, PrnNullAssumption DEF load, Loaded, Becomes, Ends, files
<1>3. CASE OpenTmp(p)
  BY <1>3, PrnNullAssumption DEF OpenTmp, Becomes
<1>4. CASE FillTmp(p)
  <2>1. file' \in StateFile => file' = file \/ file' = run[p].state
    BY <1>4, PrnNullAssumption DEF FillTmp, Over
  <2>2. tmp' \in StateFile => tmp' = tmp \/ tmp' = run[p].state
    BY <1>4, PrnNullAssumption DEF FillTmp, Over
  <2> QED BY <1>4, <2>1, <2>2 DEF FillTmp, Becomes
<1>5. CASE Rename(p)
  <2>1. ASSUME NEW me \in Run
        PROVE  Moved(me).pc = me.pc /\ (me.pc \in Holding => Moved(me).state = me.state)
    <3>1. CASE me.pc = "fill"
      <4>1. me \in FillRun
        BY <3>1, RunKinds DEF OneOf
      <4> QED BY <3>1, <4>1 DEF Moved, FillRun
    <3> QED BY <3>1 DEF Moved
  <2>2. run'[p] = Idle /\ \A q \in Runs \ {p} : run'[q] = Moved(run[q])
    BY <1>5 DEF Rename
  <2>3. file' = tmp /\ tmp' = NoFile
    BY <1>5 DEF Rename
  <2> QED BY <1>5, <2>1, <2>2, <2>3, <1>i, PrnNullAssumption
<1>6. CASE RenameFails(p)
  BY <1>6, <1>i DEF RenameFails, Ends, Becomes, files
<1>7. CASE Fail(p)
  BY <1>7, <1>i DEF Fail, Ends, Becomes, files
<1> QED BY <1>1, <1>2, <1>3, <1>4, <1>5, <1>6, <1>7

\* What those steps do to the history.
LEMMA HistoryMoves ==
  ASSUME NEW p \in Runs,
         \/ \E threshold \in Invocations : Start(p, threshold)
         \/ load(p) \/ SearchPage(p) \/ OpenTmp(p) \/ FillTmp(p)
         \/ Rename(p) \/ RenameFails(p) \/ Fail(p)
  PROVE  UNCHANGED <<now, told, watched>>
BY DEF Start, load, SearchPage, OpenTmp, FillTmp, Rename, RenameFails, Fail,
       history

\* The reviews a sweep alerts are watched already, and those it leaves watched
\* are so from then on.
LEMMA SweepIsTrusted ==
  ASSUME NEW state \in StateFile, NEW found \in Found, NEW threshold, NEW at \in Time,
         Trusted(state)
  PROVE  /\ \A d \in Outcome(state, found, threshold, at)["alert"] : d.id \in watched
         /\ \A r \in Pulls :
              apply_sweep(state, found, threshold, at)[r] # Null
                /\ ~apply_sweep(state, found, threshold, at)[r].backlog
              => \/ r \in watched
                 \/ \E d \in Outcome(state, found, threshold, at)["fresh"] : d.id = r
<1>1. ASSUME NEW d \in Outcome(state, found, threshold, at)["alert"]
      PROVE  d.id \in watched
  <2>1. d \in found /\ Classify(state[d.id], d.last, threshold, at) = "alert"
    BY <1>1 DEF Outcome, Section
  <2>2. state[d.id] # Null /\ ~state[d.id].backlog
    BY <2>1, OnlyFreshIsNew
  <2> QED BY <2>1, <2>2 DEF Trusted, Found
<1>2. ASSUME NEW r \in Pulls, apply_sweep(state, found, threshold, at)[r] # Null,
             ~apply_sweep(state, found, threshold, at)[r].backlog
      PROVE  \/ r \in watched
             \/ \E d \in Outcome(state, found, threshold, at)["fresh"] : d.id = r
  <2>1. Listed(found, r) # {}
    BY <1>2 DEF apply_sweep
  <2>2. PICK d \in found : d.id = r /\ d.last = Newest(Listed(found, r))
    BY <2>1, NewestListed
  <2>3. Classify(state[r], d.last, threshold, at) # "backlog"
    BY <1>2, <2>1, <2>2 DEF apply_sweep, Resolved
  <2>4. \/ state[r] # Null /\ ~state[r].backlog
        \/ Classify(state[r], d.last, threshold, at) = "fresh"
    BY <2>3, OnlyFreshIsNew
  <2> QED BY <2>2, <2>4 DEF Outcome, Section, Trusted
<1> QED BY <1>1, <1>2

LEMMA InitWatchedInv == Init => WatchedInv
<1>1. Init => WatchedOnly /\ TrustedFiles /\ TrustedRuns
  BY PrnNullAssumption DEF Init, WatchedOnly, TrustedFiles, TrustedRuns, Idle, Holding
<1> QED BY <1>1, InitTypeOK DEF WatchedInv

\* Steps that move states keep them trusted.
LEMMA MovesKeepTrust ==
  ASSUME WatchedInv, NEW p \in Runs, StatesMove(p), UNCHANGED <<told, watched>>
  PROVE  (WatchedOnly /\ TrustedFiles /\ TrustedRuns)'
<1> USE DEF WatchedInv
<1>1. \A state : Trusted(state)' <=> Trusted(state)
  BY DEF Trusted
<1>2. Trusted(Empty)
  BY DEF Trusted, Empty
<1>3. WatchedOnly'
  BY DEF WatchedOnly
<1>4. TrustedFiles'
  <2>1. file' \in StateFile => Trusted(file')
    BY DEF StatesMove, TrustedFiles, TrustedRuns
  <2>2. tmp' \in StateFile => Trusted(tmp')
    BY DEF StatesMove, TrustedFiles, TrustedRuns
  <2> QED BY <2>1, <2>2 DEF TrustedFiles, Trusted
<1>5. TrustedRuns'
  <2> SUFFICES ASSUME NEW q \in Runs, run'[q].pc \in Holding
               PROVE  Trusted(run'[q].state)
    BY DEF TrustedRuns, Trusted
  <2>1. CASE q # p
    BY <2>1 DEF StatesMove, TrustedRuns
  <2>2. CASE q = p
    BY <2>2, <1>2 DEF StatesMove, TrustedRuns, TrustedFiles
  <2> QED BY <2>1, <2>2
<1> QED BY <1>3, <1>4, <1>5

LEMMA SweepKeepsTrust ==
  ASSUME WatchedInv, NEW p \in Runs, SweepAndPrint(p)
  PROVE  (WatchedOnly /\ TrustedFiles /\ TrustedRuns)'
<1> USE DEF WatchedInv
<1> DEFINE me      == run[p]
           outcome == Outcome(me.state, me.found, me.threshold, now)
           alerts  == {d.id : d \in outcome["alert"]}
           fresh   == {d.id : d \in outcome["fresh"]}
           swept   == apply_sweep(me.state, me.found, me.threshold, now)
<1>r. me \in SweepRun /\ me.pc = "sweep" /\ me.state \in StateFile /\ me.found \in Found
  <2>1. me \in SweepRun
    BY RunKinds DEF SweepAndPrint, OneOf, TypeOK
  <2> QED BY <2>1 DEF SweepRun
<1>t. Trusted(me.state)
  BY <1>r DEF TrustedRuns, Holding
<1>s. /\ alerts \subseteq watched
      /\ \A r \in Pulls : swept[r] # Null /\ ~swept[r].backlog
           => r \in watched \/ r \in fresh
  BY <1>r, <1>t, SweepIsTrusted DEF TypeOK
<1>w. watched' = watched \cup fresh
  BY DEF SweepAndPrint
<1>o. \A r \in Pulls : told'[r] # Null => r \in alerts \/ told[r] # Null
  BY DEF SweepAndPrint
<1>f. UNCHANGED files
  BY DEF SweepAndPrint
<1>u. run' = [run EXCEPT ![p] = [pc |-> "open", alerts |-> alerts, state |-> swept]]
  BY DEF SweepAndPrint, Becomes
<1> HIDE DEF me, outcome, alerts, fresh, swept
<1>1. WatchedOnly'
  BY <1>s, <1>w, <1>o DEF WatchedOnly
<1>m. ASSUME NEW state, Trusted(state) PROVE Trusted(state)'
  BY <1>m, <1>w DEF Trusted
<1>2. TrustedFiles'
  BY <1>f, <1>w DEF files, TrustedFiles, Trusted
<1>3. TrustedRuns'
  <2> SUFFICES ASSUME NEW q \in Runs, run'[q].pc \in Holding
               PROVE  \A r \in Pulls : run'[q].state[r] # Null /\ ~run'[q].state[r].backlog
                                         => r \in watched'
    BY DEF TrustedRuns, Trusted
  <2>1. CASE q # p
    <3>1. run'[q] = run[q]
      BY <1>u, <2>1 DEF TypeOK
    <3> QED BY <3>1, <1>w DEF TrustedRuns, Trusted
  <2>2. CASE q = p
    <3>1. run'[q].state = swept
      BY <1>u, <2>2 DEF TypeOK
    <3> QED BY <3>1, <1>s, <1>w
  <2> QED BY <2>1, <2>2
<1> QED BY <1>1, <1>2, <1>3

LEMMA NextWatchedInv == ASSUME WatchedInv, [Next]_vars PROVE WatchedInv'
<1> USE DEF WatchedInv
<1>t. TypeOK'
  BY NextTypeOK
<1>1. CASE UNCHANGED <<file, tmp, run, told, watched>>
  BY <1>1, <1>t DEF WatchedOnly, TrustedFiles, TrustedRuns, Trusted
<1>2. CASE UNCHANGED vars \/ Tick \/ GitHubUser
  BY <1>1, <1>2 DEF vars, Tick, GitHubUser, Comment, Withdraw, Close, Reopen, Move,
                   files, history
<1>3. ASSUME NEW p \in Runs, SweepAndPrint(p) PROVE WatchedInv'
  BY <1>t, <1>3, SweepKeepsTrust
<1>4. ASSUME NEW p \in Runs,
             \/ \E threshold \in Invocations : Start(p, threshold)
             \/ load(p) \/ SearchPage(p) \/ OpenTmp(p) \/ FillTmp(p)
             \/ Rename(p) \/ RenameFails(p) \/ Fail(p)
      PROVE  WatchedInv'
  <2>1. StatesMove(p)
    BY <1>4, SearchMoves, OthersMove
  <2>2. UNCHANGED <<told, watched>>
    BY <1>4, HistoryMoves
  <2> QED BY <1>t, <2>1, <2>2, MovesKeepTrust
<1> QED BY <1>2, <1>3, <1>4 DEF Next, Starts, Steps

\* No alert is about a review that no run has found fresh, however many runs
\* overlap, whatever the state files go through and wherever a run is killed
\* (state_file.rs apply_sweep, discovery.rs resolve_backlog).
THEOREM WatchedOnlyHolds == Spec => []WatchedOnly
<1>1. Init => WatchedInv
  BY InitWatchedInv
<1>2. WatchedInv /\ [Next]_vars => WatchedInv'
  BY NextWatchedInv
<1>3. WatchedInv => WatchedOnly
  BY DEF WatchedInv
<1> QED BY <1>1, <1>2, <1>3, PTL DEF Spec

-----------------------------------------------------------------------------
(* Stamps are true, however many runs overlap *)

ToldInThePast == \A r \in Pulls : told[r] # Null => told[r].at <= now

TrueStamps ==
  /\ file \in StateFile => Stamped(file)
  /\ tmp \in StateFile => Stamped(tmp)
  /\ \A p \in Runs : run[p].pc \in Holding => Stamped(run[p].state)

StampInv == TypeOK /\ ToldInThePast /\ TrueStamps

LEMMA InitStampInv == Init => StampInv
<1>1. Init => ToldInThePast /\ TrueStamps
  BY PrnNullAssumption DEF Init, ToldInThePast, TrueStamps, Idle, Holding
<1> QED BY <1>1, InitTypeOK DEF StampInv

LEMMA HeldType ==
  ASSUME TypeOK, NEW p \in Runs, run[p].pc \in Holding
  PROVE  run[p].state \in StateFile
<1>1. OneOf(run[p])
  BY RunKinds DEF TypeOK
<1> QED BY <1>1 DEF OneOf, Holding, SearchRun, SweepRun, OpenRun, FillRun, RenameRun

\* Steps that move states keep their stamps true.
LEMMA MovesKeepStamps ==
  ASSUME StampInv, NEW p \in Runs, StatesMove(p), UNCHANGED <<now, told>>
  PROVE  (ToldInThePast /\ TrueStamps)'
<1> USE DEF StampInv
<1>1. \A state : Stamped(state)' <=> Stamped(state)
  BY DEF Stamped
<1>2. Stamped(Empty)
  BY DEF Stamped, Empty
<1>3. ToldInThePast'
  BY DEF ToldInThePast
<1>4. /\ file' \in StateFile => Stamped(file')
      /\ tmp' \in StateFile => Stamped(tmp')
  BY DEF StatesMove, TrueStamps
<1>5. ASSUME NEW q \in Runs, run'[q].pc \in Holding PROVE Stamped(run'[q].state)
  <2>1. CASE q # p
    BY <1>5, <2>1 DEF StatesMove, TrueStamps
  <2>2. CASE q = p
    BY <1>2, <1>5, <2>2 DEF StatesMove, TrueStamps
  <2> QED BY <2>1, <2>2
<1>6. TrueStamps'
  BY <1>4, <1>5 DEF TrueStamps, Stamped
<1> QED BY <1>3, <1>6

\* An entry keeps the stamp it had, or is stamped now because it is alerted.
LEMMA SweptStamps ==
  ASSUME NEW state \in StateFile, NEW found \in Found, NEW threshold, NEW at \in Time,
         NEW r \in Pulls, apply_sweep(state, found, threshold, at)[r] # Null,
         apply_sweep(state, found, threshold, at)[r].notified # Null
  PROVE  \/ /\ apply_sweep(state, found, threshold, at)[r].notified = at
            /\ \E d \in Outcome(state, found, threshold, at)["alert"] : d.id = r
         \/ /\ state[r] # Null /\ state[r].notified # Null
            /\ apply_sweep(state, found, threshold, at)[r].notified = state[r].notified
<1>1. Listed(found, r) # {}
  BY DEF apply_sweep
<1>2. PICK d \in found : d.id = r /\ d.last = Newest(Listed(found, r))
  BY <1>1, NewestListed
<1>3. apply_sweep(state, found, threshold, at)[r] =
        Resolved(state[r], d.last, threshold, at)
  BY <1>1, <1>2 DEF apply_sweep
<1>4. CASE Classify(state[r], d.last, threshold, at) = "alert"
  <2>1. d \in Outcome(state, found, threshold, at)["alert"]
    BY <1>2, <1>4 DEF Outcome, Section
  <2> QED BY <1>2, <1>3, <1>4, <2>1 DEF Resolved
<1>5. CASE Classify(state[r], d.last, threshold, at) # "alert"
  BY <1>3, <1>5 DEF Resolved
<1> QED BY <1>4, <1>5

LEMMA SweepKeepsStamps ==
  ASSUME StampInv, NEW p \in Runs, SweepAndPrint(p)
  PROVE  (ToldInThePast /\ TrueStamps)'
<1> USE DEF StampInv
<1> DEFINE me      == run[p]
           outcome == Outcome(me.state, me.found, me.threshold, now)
           alerts  == {d.id : d \in outcome["alert"]}
           swept   == apply_sweep(me.state, me.found, me.threshold, now)
<1>r. me.pc = "sweep" /\ me.state \in StateFile /\ me.found \in Found /\ now \in Time
  <2>1. me \in SweepRun
    BY RunKinds DEF SweepAndPrint, OneOf, TypeOK
  <2> QED BY <2>1 DEF SweepRun, TypeOK
<1>n. now \in Nat
  BY <1>r DEF Time
<1>t. \A r \in Pulls :
        /\ r \in alerts => told'[r] # Null /\ told'[r].at = now
        /\ r \notin alerts => told'[r] = told[r]
  <2>1. \A r \in alerts : [at |-> now, about |-> Newest(Listed(outcome["alert"], r))] \in Alert
    BY <1>r, AlertType
  <2>2. told' = [r \in Pulls |-> IF r \in alerts
                  THEN [at |-> now, about |-> Newest(Listed(outcome["alert"], r))]
                  ELSE told[r]]
    BY DEF SweepAndPrint
  <2> HIDE DEF alerts, outcome
  <2>3. \A r \in alerts \cap Pulls :
          told'[r] = [at |-> now, about |-> Newest(Listed(outcome["alert"], r))]
    BY <2>2
  <2>4. \A r \in alerts \cap Pulls : told'[r].at = now
    <3>1. \A about : [at |-> now, about |-> about].at = now
      OBVIOUS
    <3> QED BY <2>3, <3>1, Zenon
  <2>5. \A r \in alerts \cap Pulls : told'[r] \in Alert
    BY <2>1, <2>3
  <2> QED BY <2>2, <2>4, <2>5, PrnNullAssumption
<1>o. \A r \in Pulls : told[r] # Null => told[r].at \in Nat /\ told[r].at <= now
  BY DEF TypeOK, Alert, Time, ToldInThePast
<1>s. \A r \in Pulls : swept[r] # Null /\ swept[r].notified # Null =>
        \/ swept[r].notified = now /\ r \in alerts
        \/ /\ me.state[r] # Null /\ me.state[r].notified # Null
           /\ swept[r].notified = me.state[r].notified
  BY <1>r, SweptStamps
<1>m. Stamped(me.state)
  BY <1>r DEF TrueStamps, Holding
<1>e. \A state \in StateFile : \A r \in Pulls :
        state[r] # Null /\ state[r].notified # Null => state[r].notified \in Nat
  BY DEF StateFile, Entry, Time
<1>f. UNCHANGED <<now, file, tmp>>
  BY DEF SweepAndPrint, files
<1>u. run'[p].state = swept /\ \A q \in Runs \ {p} : run'[q] = run[q]
  BY DEF SweepAndPrint, Becomes, TypeOK
<1> HIDE DEF me, outcome, alerts, swept
<1>1. ToldInThePast'
  BY <1>t, <1>o, <1>n, <1>f DEF ToldInThePast
<1>2. \A r \in Pulls : swept[r] # Null /\ swept[r].notified # Null =>
        told'[r] # Null /\ swept[r].notified <= told'[r].at
  BY <1>t, <1>o, <1>n, <1>s, <1>m, <1>e, <1>r DEF Stamped
<1>3. ASSUME NEW state \in StateFile, Stamped(state),
             NEW r \in Pulls, state[r] # Null, state[r].notified # Null
      PROVE  told'[r] # Null /\ state[r].notified <= told'[r].at
  <2>1. told[r] # Null /\ state[r].notified <= told[r].at
    BY <1>3 DEF Stamped
  <2>2. state[r].notified \in Nat
    BY <1>3, <1>e
  <2> QED BY <2>1, <2>2, <1>t, <1>o, <1>n
<1>4. /\ file' \in StateFile => Stamped(file)'
      /\ tmp' \in StateFile => Stamped(tmp)'
  BY <1>3, <1>f DEF TrueStamps, Stamped
<1>5. ASSUME NEW q \in Runs, run'[q].pc \in Holding PROVE Stamped(run[q].state)'
  <2>1. CASE q # p
    <3>1. run'[q] = run[q] /\ run[q].state \in StateFile
      BY <1>5, <1>u, <2>1, HeldType
    <3>2. Stamped(run[q].state)
      BY <1>5, <3>1 DEF TrueStamps
    <3> QED BY <1>3, <3>1, <3>2 DEF Stamped
  <2>2. CASE q = p
    BY <1>2, <1>u, <2>2 DEF Stamped
  <2> QED BY <2>1, <2>2
<1> QED BY <1>1, <1>4, <1>5 DEF TrueStamps

LEMMA NextStampInv == ASSUME StampInv, [Next]_vars PROVE StampInv'
<1> USE DEF StampInv
<1>t. TypeOK'
  BY NextTypeOK
<1>n. now \in Nat
  BY DEF TypeOK, Time
<1>1. ASSUME UNCHANGED <<file, tmp, run, told>>, now <= now' PROVE StampInv'
  <2>1. ToldInThePast'
    <3>1. now \in Int /\ now' \in Int
      BY <1>t DEF TypeOK, Time
    <3>2. \A r \in Pulls : told[r] # Null => told[r].at \in Int
      BY DEF TypeOK, Alert, Time
    <3> QED BY <1>1, <3>1, <3>2 DEF ToldInThePast
  <2>2. TrueStamps'
    BY <1>1 DEF TrueStamps, Stamped
  <2> QED BY <1>t, <2>1, <2>2
<1>2. CASE UNCHANGED vars \/ Tick \/ GitHubUser
  BY <1>1, <1>2, <1>n DEF vars, Tick, GitHubUser, Comment, Withdraw, Close, Reopen,
                          Move, files, history
<1>3. ASSUME NEW p \in Runs, SweepAndPrint(p) PROVE StampInv'
  BY <1>t, <1>3, SweepKeepsStamps
<1>4. ASSUME NEW p \in Runs,
             \/ \E threshold \in Invocations : Start(p, threshold)
             \/ load(p) \/ SearchPage(p) \/ OpenTmp(p) \/ FillTmp(p)
             \/ Rename(p) \/ RenameFails(p) \/ Fail(p)
      PROVE  StampInv'
  <2>1. StatesMove(p)
    BY <1>4, SearchMoves, OthersMove
  <2>2. UNCHANGED <<now, told>>
    BY <1>4, HistoryMoves
  <2> QED BY <1>t, <2>1, <2>2, MovesKeepStamps
<1> QED BY <1>2, <1>3, <1>4 DEF Next, Starts, Steps

\* What the file says was reported was reported, and not earlier than it says,
\* however many runs overlap and wherever one is killed (main.rs saves after it
\* prints; state_file.rs apply_sweep).
THEOREM StampsAreTrueHolds == Spec => []StampsAreTrue
<1>1. Init => StampInv
  BY InitStampInv
<1>2. StampInv /\ [Next]_vars => StampInv'
  BY NextStampInv
<1>3. StampInv => StampsAreTrue
  BY DEF StampInv, TrueStamps, Stamped, StampsAreTrue
<1> QED BY <1>1, <1>2, <1>3, PTL DEF Spec

-----------------------------------------------------------------------------
(* One run at a time: the file is whole *)

Alone == \A p, q \in Runs : p = q

\* What is in the temporary file is what the run has written.
WritesItsOwn == \A p \in Runs :
  /\ run[p].pc = "fill" => run[p].into = "tmp" /\ tmp = Torn
  /\ run[p].pc = "rename" => tmp = run[p].state

LoneInv == TypeOK /\ StateFileWhole /\ WritesItsOwn /\ ToldInThePast /\ TrueStamps

LEMMA InitLoneInv == Init => LoneInv
<1>1. Init => StateFileWhole /\ WritesItsOwn
  BY PrnNullAssumption DEF Init, StateFileWhole, WritesItsOwn, Idle
<1> QED BY <1>1, InitStampInv DEF LoneInv, StampInv

\* Between opening the temporary file and the rename nobody else writes.
LEMMA RunsKeepWhole ==
  ASSUME Alone, LoneInv, NEW p \in Runs, Starts(p) \/ Steps(p) \/ Fail(p)
  PROVE  StateFileWhole' /\ WritesItsOwn'
<1> USE DEF LoneInv, TypeOK
<1>a. \A q \in Runs : q = p
  BY DEF Alone
<1>k. OneOf(run[p])
  BY RunKinds
<1>i. Idle.pc = "idle"
  BY DEF Idle
<1>q. ASSUME run'[p].pc \notin {"fill", "rename"}, file' = file
      PROVE  StateFileWhole' /\ WritesItsOwn'
  BY <1>a, <1>q DEF StateFileWhole, WritesItsOwn
<1>1. CASE Starts(p)
  BY <1>1, <1>q DEF Starts, Start, Becomes, files
<1>2. CASE load(p)
  BY <1>2, <1>q, <1>i DEF load, Becomes, Ends, files
<1>3. CASE SearchPage(p)
  BY <1>3, <1>q, SearchStep DEF files
<1>4. CASE SweepAndPrint(p)
  <2>1. run'[p].pc = "open" /\ file' = file
    BY <1>4 DEF SweepAndPrint, Becomes, files
  <2> QED BY <2>1, <1>q
<1>5. CASE OpenTmp(p)
  <2>1. run'[p].pc = "fill" /\ run'[p].into = "tmp" /\ tmp' = Torn /\ file' = file
    BY <1>5 DEF OpenTmp, Becomes
  <2> QED BY <2>1, <1>a DEF StateFileWhole, WritesItsOwn
<1>6. CASE FillTmp(p)
  <2>1. run[p].into = "tmp" /\ tmp = Torn
    BY <1>6 DEF FillTmp, WritesItsOwn
  <2>2. tmp' = run[p].state /\ file' = file
    BY <1>6, <2>1 DEF FillTmp, Over
  <2>3. run'[p] = [pc |-> "rename", state |-> run[p].state, alerts |-> run[p].alerts]
    BY <1>6 DEF FillTmp, Becomes
  <2> QED BY <2>2, <2>3, <1>a DEF StateFileWhole, WritesItsOwn
<1>7. CASE Rename(p)
  <2>1. run[p] \in RenameRun
    BY <1>7, <1>k DEF Rename, OneOf
  <2>2. file' = run[p].state /\ run'[p] = Idle
    BY <1>7 DEF Rename, WritesItsOwn
  <2>3. file' # Torn
    BY <2>1, <2>2, PrnNullAssumption DEF RenameRun
  <2> QED BY <2>2, <2>3, <1>a, <1>i DEF StateFileWhole, WritesItsOwn
<1>8. CASE RenameFails(p)
  BY <1>8, <1>q, <1>i DEF RenameFails, Ends, Becomes, files
<1>9. CASE Fail(p)
  BY <1>9, <1>q, <1>i DEF Fail, Ends, Becomes, files
<1> QED BY <1>1, <1>2, <1>3, <1>4, <1>5, <1>6, <1>7, <1>8, <1>9 DEF Steps

LEMMA NextLoneInv == ASSUME Alone, LoneInv, [Next]_vars PROVE LoneInv'
<1>1. StampInv'
  BY NextStampInv DEF LoneInv, StampInv
<1>2. CASE UNCHANGED vars \/ Tick \/ GitHubUser
  <2>1. UNCHANGED <<file, tmp, run>>
    BY <1>2 DEF vars, Tick, GitHubUser, Comment, Withdraw, Close, Reopen, Move, files
  <2> QED BY <1>1, <2>1 DEF LoneInv, StampInv, StateFileWhole, WritesItsOwn
<1>3. ASSUME NEW p \in Runs, Starts(p) \/ Steps(p) \/ Fail(p) PROVE LoneInv'
  BY <1>1, <1>3, RunsKeepWhole DEF LoneInv, StampInv
<1> QED BY <1>2, <1>3 DEF Next

LEMMA LoneInvariant == ASSUME Alone PROVE Spec => []LoneInv
<1>1. Init => LoneInv
  BY InitLoneInv
<1>2. LoneInv /\ [Next]_vars => LoneInv'
  BY NextLoneInv
<1> QED BY <1>1, <1>2, PTL DEF Spec

\* When runs do not overlap, the state file is never torn, wherever a run is
\* killed and whatever fails (state_file.rs save: write beside, then rename).
THEOREM StateFileWholeHolds == ASSUME Alone PROVE Spec => []StateFileWhole
<1>1. LoneInv => StateFileWhole
  BY DEF LoneInv
<1> QED BY <1>1, LoneInvariant, PTL
=============================================================================
