--------------------------- MODULE PrnSweep_proofs ---------------------------
(***************************************************************************)
(* What a search cannot miss, and that a run comes to an end, for any      *)
(* number of pull requests and pages, any moves on GitHub between two      *)
(* pages and any number of runs at a time.                                 *)
(***************************************************************************)
EXTENDS PrnCheck_proofs

\* A review a run has found.
FoundBy(p, r) == \E d \in run[p].found : d.id = r

\* What a run holds of a review it may not miss: while it searches the review
\* is pending, and found once the cursor has passed it; then it is found, and
\* then it is in the state that the run stores.
Holds(p, r) ==
  /\ run[p].pc = "search" =>
       Pending(r) /\ (Place(open, r) <= run[p].cursor => FoundBy(p, r))
  /\ run[p].pc = "sweep" => FoundBy(p, r)
  /\ run[p].pc \in {"open", "fill", "rename"} => run[p].state[r] # Null

NothingMissed == \A p \in Runs : \A r \in Pulls \ excused[p] : Holds(p, r)

\* A cursor is in front of something.
CursorInside == \A p \in Runs :
  run[p].pc = "search" => run[p].cursor = 0 \/ run[p].cursor < Cardinality(Pulls)

SearchInv == TypeOK /\ NothingMissed /\ CursorInside

\* How many steps a run has left at most.
StepsLeft(p) ==
  CASE run[p].pc = "idle"   -> 0
    [] run[p].pc = "rename" -> 1
    [] run[p].pc = "fill"   -> 2
    [] run[p].pc = "open"   -> 3
    [] run[p].pc = "sweep"  -> 4
    [] run[p].pc = "search" -> 5 + (Cardinality(Pulls) - run[p].cursor)
    [] run[p].pc = "load"   -> 6 + Cardinality(Pulls)

\* Every step of a run brings it nearer to its end, whatever GitHub replies,
\* and no step of anyone else takes it farther away.
RunsComeToAnEnd == [][\A p \in Runs :
  /\ StepsLeft(p) \in 0 .. 6 + Cardinality(Pulls)
  /\ Steps(p) \/ Fail(p) => StepsLeft(p)' < StepsLeft(p)
  /\ run[p].pc # "idle" => StepsLeft(p)' <= StepsLeft(p)]_vars

-----------------------------------------------------------------------------
(* The pages *)

LEMMA PullsFinite ==
  ASSUME NEW gh \in SUBSET Pulls
  PROVE  /\ IsFiniteSet(gh) /\ Cardinality(gh) \in Nat
         /\ Cardinality(gh) <= Cardinality(Pulls) /\ Cardinality(Pulls) \in Nat
<1>1. IsFiniteSet(Pulls)
  BY DiscoveryAssumption
<1>2. IsFiniteSet(gh) /\ Cardinality(gh) <= Cardinality(Pulls)
  BY <1>1, FS_Subset
<1> QED BY <1>1, <1>2, FS_CardinalityType

\* A pull request has a place among the results.
LEMMA PlaceIsInside ==
  ASSUME NEW gh \in SUBSET Pulls, NEW r \in gh
  PROVE  Place(gh, r) \in 1 .. Cardinality(gh)
<1> DEFINE before == {s \in gh : s <= r}
<1>1. IsFiniteSet(gh) /\ Cardinality(gh) \in Nat
  BY PullsFinite
<1>2. r \in before
  BY DiscoveryAssumption
<1>3. /\ IsFiniteSet(before) /\ Cardinality(before) \in Nat
      /\ Cardinality(before) <= Cardinality(gh)
  <2>1. before \in SUBSET gh
    OBVIOUS
  <2> HIDE DEF before
  <2> QED BY <1>1, <2>1, FS_Subset, FS_CardinalityType
<1>4. Cardinality(before) # 0
  <2> HIDE DEF before
  <2> QED BY <1>2, <1>3, FS_EmptySet
<1>5. Place(gh, r) = Cardinality(before)
  BY DEF Place
<1> HIDE DEF before
<1> QED BY <1>1, <1>3, <1>4, <1>5

\* It only moves back when another one is opened, and does not move when one
\* behind it is closed.
LEMMA PlaceMoves ==
  ASSUME NEW gh \in SUBSET Pulls, NEW r \in gh, NEW s \in Pulls
  PROVE  /\ Place(gh, r) <= Place(gh \cup {s}, r)
         /\ s > r => Place(gh \ {s}, r) = Place(gh, r)
<1>1. Place(gh, r) <= Place(gh \cup {s}, r)
  <2> DEFINE less == {t \in gh : t <= r}
             more == {t \in gh \cup {s} : t <= r}
  <2>1. less \in SUBSET more /\ more \in SUBSET Pulls
    OBVIOUS
  <2> HIDE DEF less, more
  <2>2. Cardinality(less) <= Cardinality(more)
    BY <2>1, PullsFinite, FS_Subset
  <2> QED BY <2>2 DEF Place, less, more
<1>2. ASSUME s > r PROVE Place(gh \ {s}, r) = Place(gh, r)
  <2>1. {t \in gh \ {s} : t <= r} = {t \in gh : t <= r}
    BY <1>2, DiscoveryAssumption
  <2> QED BY <2>1 DEF Place
<1> QED BY <1>1, <1>2

\* A reply that counts has the page's nodes and says whether there are more.
LEMMA UsablePage ==
  ASSUME NEW page, NEW nodes, NEW more \in BOOLEAN, NEW reply,
         page = [nodes |-> nodes, hasNext |-> more, cursor |-> TRUE],
         reply \in Replies(page), Usable(reply)
  PROVE  reply.page.nodes = nodes /\ reply.page.hasNext = more
<1> DEFINE ok == [status |-> "ok", errors |-> FALSE, data |-> TRUE, page |-> page]
<1>1. ok.page.nodes = nodes /\ ok.page.hasNext = more
  OBVIOUS
<1>2. ~Usable([ok EXCEPT !.status = "refused"]) /\ ~Usable([ok EXCEPT !.data = FALSE])
  BY DEF Usable
<1>3. ~Usable([ok EXCEPT !.errors = TRUE, !.page.nodes = {}, !.page.hasNext = FALSE])
  BY DEF Usable
<1>4. /\ [ok EXCEPT !.page.cursor = FALSE].page.nodes = nodes
      /\ [ok EXCEPT !.page.cursor = FALSE].page.hasNext = more
  OBVIOUS
<1> QED BY <1>1, <1>2, <1>3, <1>4 DEF Replies

\* It lists every pending review that has its place on the page.
LEMMA PageHolds ==
  ASSUME NEW gh \in SUBSET Pulls, NEW d, NEW cursor \in Nat,
         NEW reply \in Replies(PageAfter(gh, d, cursor)), Usable(reply)
  PROVE  /\ reply.page.hasNext = (Cardinality(gh) > cursor + PageSize)
         /\ \A r \in gh : /\ d[r] \notin {NoReview, Shell}
                          /\ Place(gh, r) \in cursor + 1 .. cursor + PageSize
              => \E n \in extract_reviews(reply.page.nodes) : n.id = r
<1> DEFINE ids == {r \in gh : Place(gh, r) \in cursor + 1 .. cursor + PageSize}
           nodes == {[id |-> r, review |-> d[r]] : r \in ids}
           more == Cardinality(gh) > cursor + PageSize
<1>1. PageAfter(gh, d, cursor) = [nodes |-> nodes, hasNext |-> more, cursor |-> TRUE]
  BY DEF PageAfter
<1>2. more \in BOOLEAN
  OBVIOUS
<1>3. reply.page.nodes = nodes /\ reply.page.hasNext = more
  <2> HIDE DEF nodes, more
  <2> QED BY <1>1, <1>2, UsablePage
<1>4. ASSUME NEW r \in ids, d[r] \notin {NoReview, Shell}
      PROVE  \E n \in extract_reviews(reply.page.nodes) : n.id = r
  <2> DEFINE n == [id |-> r, review |-> d[r]]
  <2>1. n \in nodes /\ n.id = r /\ n.review \notin {NoReview, Shell}
    BY <1>4
  <2> HIDE DEF n, nodes
  <2>2. [id |-> n.id, last |-> n.review] \in extract_reviews(reply.page.nodes)
    BY <1>3, <2>1 DEF extract_reviews
  <2> QED BY <2>1, <2>2
<1> QED BY <1>3, <1>4

\* Nothing is cut off a page below the ceiling.
LEMMA KeptWhole ==
  ASSUME NEW new, IsFiniteSet(new), NEW room \in Int, Cardinality(new) <= room
  PROVE  Truncated(new, room) = new
<1> SUFFICES ASSUME NEW r \in new
             PROVE  Cardinality({s \in new : s.id <= r.id}) <= room
  BY DEF Truncated
<1> DEFINE before == {s \in new : s.id <= r.id}
<1>1. before \in SUBSET new
  OBVIOUS
<1> HIDE DEF before
<1>2. /\ IsFiniteSet(before) /\ Cardinality(before) <= Cardinality(new)
  BY <1>1, FS_Subset
<1>3. Cardinality(before) \in Nat /\ Cardinality(new) \in Nat
  BY <1>2, FS_CardinalityType
<1> QED BY <1>2, <1>3 DEF before

-----------------------------------------------------------------------------
(* The search *)

\* A turn of the loop either goes on behind the page, or ends the search; what
\* is pending on the page is found then, and what is behind a last page is
\* excused.
LEMMA SearchFinds ==
  ASSUME TypeOK, NEW p \in Runs, SearchPage(p)
  PROVE  /\ run[p].pc = "search" /\ run' = [run EXCEPT ![p] = run'[p]]
         /\ excused' = [excused EXCEPT ![p] = excused'[p]] /\ excused[p] \subseteq excused'[p]
         /\ UNCHANGED github /\ run'[p].pc \in {"search", "sweep"}
         /\ run[p].found \subseteq run'[p].found
         /\ run'[p].pc = "search" =>
              /\ run'[p].cursor = run[p].cursor + PageSize
              /\ run'[p].cursor < Cardinality(open)
         /\ \A r \in Pulls \ excused'[p] :
              /\ Pending(r) /\ Place(open, r) > run[p].cursor
              /\ run'[p].pc = "search" => Place(open, r) <= run'[p].cursor
              => FoundBy(p, r)'
<1> USE DiscoveryAssumption DEF TypeOK
<1> DEFINE cursor == run[p].cursor
           sound  == PageAfter(open, draft, cursor)
<1>r. /\ run[p] \in SearchRun /\ cursor \in Nat /\ run[p].count \in Nat
      /\ run[p].found \in Found /\ run[p].pc = "search"
  <2>1. run[p] \in SearchRun
    BY RunKinds DEF SearchPage, OneOf
  <2> QED BY <2>1 DEF SearchRun
<1> PICK reply \in Replies(sound) :
      LET new   == extract_reviews(reply.page.nodes)
          count == run[p].count + Cardinality(new)
          kept  == Truncated(new, MaxResults - run[p].count)
          found == run[p].found \cup kept
          rest  == {r \in open : Place(open, r) > cursor + PageSize}
      IN  /\ Usable(reply)
          /\ IF LastPage(count, reply.page)
             THEN /\ Becomes(p, [pc |-> "sweep", threshold |-> run[p].threshold,
                                 state |-> run[p].state, found |-> found])
                  /\ excused' = [excused EXCEPT ![p] = @ \cup
                       IF count >= MaxResults \/ ~reply.page.cursor
                       THEN rest \cup {d.id : d \in new \ kept} ELSE {}]
             ELSE /\ Becomes(p, [run[p] EXCEPT !.cursor = @ + PageSize,
                                 !.count = count, !.found = found])
                  /\ UNCHANGED excused
  BY DEF SearchPage
<1> DEFINE new   == extract_reviews(reply.page.nodes)
           count == run[p].count + Cardinality(new)
           kept  == Truncated(new, MaxResults - run[p].count)
           found == run[p].found \cup kept
           rest  == {r \in open : Place(open, r) > cursor + PageSize}
           lost  == IF count >= MaxResults \/ ~reply.page.cursor
                    THEN rest \cup {d.id : d \in new \ kept} ELSE {}
           last  == [pc |-> "sweep", threshold |-> run[p].threshold,
                     state |-> run[p].state, found |-> found]
           next  == [run[p] EXCEPT !.cursor = run[p].cursor + PageSize,
                                   !.count = count, !.found = found]
<1>n. IsFiniteSet(new) /\ Cardinality(new) \in Nat
  BY <1>r, PageType, FS_CardinalityType
<1>h. /\ reply.page.hasNext = (Cardinality(open) > cursor + PageSize)
      /\ \A r \in open : /\ draft[r] \notin {NoReview, Shell}
                         /\ Place(open, r) \in cursor + 1 .. cursor + PageSize
           => \E n \in new : n.id = r
  BY <1>r, PageHolds
<1>k. count < MaxResults => kept = new
  <2> HIDE DEF new
  <2>1. count < MaxResults => Cardinality(new) <= MaxResults - run[p].count
    BY <1>n, <1>r
  <2> QED BY <1>n, <1>r, <2>1, KeptWhole
<1>o. /\ last.pc = "sweep" /\ last.found = found
      /\ next.pc = "search" /\ next.found = found /\ next.cursor = cursor + PageSize
  <2>1. ASSUME NEW c, NEW m, NEW f
        PROVE  /\ [run[p] EXCEPT !.cursor = c, !.count = m, !.found = f].pc = "search"
               /\ [run[p] EXCEPT !.cursor = c, !.count = m, !.found = f].cursor = c
               /\ [run[p] EXCEPT !.cursor = c, !.count = m, !.found = f].found = f
    BY <1>r DEF SearchRun
  <2> HIDE DEF found, count
  <2> QED BY <2>1
<1>p. \A r \in open : Place(open, r) \in Nat /\ Place(open, r) <= Cardinality(open)
  <2> HIDE DEF cursor, sound, new, count, kept, found, rest, lost, last, next
  <2> TAKE r \in open
  <2>1. open \in SUBSET Pulls
    OBVIOUS
  <2>2. Place(open, r) \in 1 .. Cardinality(open)
    BY <2>1, PlaceIsInside
  <2>3. Cardinality(open) \in Nat
    BY <2>1, PullsFinite
  <2> QED BY <2>2, <2>3
<1>c. Cardinality(open) \in Nat
  BY PullsFinite
<1>u. UNCHANGED github
  BY DEF SearchPage
<1>e. \/ LastPage(count, reply.page) /\ run' = [run EXCEPT ![p] = last]
         /\ excused' = [excused EXCEPT ![p] = @ \cup lost]
      \/ ~LastPage(count, reply.page) /\ run' = [run EXCEPT ![p] = next]
         /\ excused' = excused
  BY DEF Becomes
<1>l. LastPage(count, reply.page) <=>
        count >= MaxResults \/ ~(Cardinality(open) > cursor + PageSize) \/ ~reply.page.cursor
  BY <1>h DEF LastPage
<1>x. count \in Nat
  BY <1>r, <1>n
<1>z. kept \subseteq found /\ run[p].found \subseteq found
  OBVIOUS
<1> HIDE DEF new, count, kept, found, last, next
<1>1. CASE ~LastPage(count, reply.page)
  <2>1. run' = [run EXCEPT ![p] = next] /\ excused' = excused /\ run'[p] = next
    BY <1>1, <1>e
  <2>2. kept = new
    BY <1>1, <1>l, <1>k, <1>x
  <2>3. ASSUME NEW r \in Pulls, Pending(r), Place(open, r) > cursor,
               Place(open, r) <= cursor + PageSize
        PROVE  \E d \in found : d.id = r
    <3>1. Place(open, r) \in cursor + 1 .. cursor + PageSize
      BY <2>3, <1>p, <1>r DEF Pending
    <3> QED BY <2>2, <2>3, <3>1, <1>h, <1>z DEF Pending
  <2>4. cursor + PageSize < Cardinality(open)
    BY <1>1, <1>l, <1>r, <1>c
  <2> QED BY <1>r, <1>o, <1>u, <1>z, <2>1, <2>3, <2>4 DEF FoundBy
<1>2. CASE LastPage(count, reply.page)
  <2>1. /\ run' = [run EXCEPT ![p] = last] /\ run'[p] = last
        /\ excused' = [excused EXCEPT ![p] = @ \cup lost]
        /\ excused'[p] = excused[p] \cup lost
    BY <1>2, <1>e
  <2>2. ASSUME NEW r \in Pulls \ excused'[p], Pending(r), Place(open, r) > cursor
        PROVE  \E d \in found : d.id = r
    <3>1. r \in open /\ draft[r] \notin {NoReview, Shell} /\ r \notin lost
      BY <2>1, <2>2 DEF Pending
    <3>2. CASE count >= MaxResults \/ ~reply.page.cursor
      <4>1. Place(open, r) <= cursor + PageSize
        BY <3>1, <3>2, <1>p, <1>r
      <4>2. PICK n \in new : n.id = r
        BY <2>2, <3>1, <4>1, <1>h, <1>p, <1>r
      <4>3. n \in kept
        BY <3>1, <3>2, <4>2
      <4> QED BY <4>2, <4>3, <1>z
    <3>3. CASE count < MaxResults /\ reply.page.cursor
      <4>1. Place(open, r) <= cursor + PageSize
        BY <3>1, <3>3, <1>2, <1>l, <1>p, <1>r, <1>x, <1>c
      <4>2. PICK n \in new : n.id = r
        BY <2>2, <3>1, <4>1, <1>h, <1>p, <1>r
      <4> QED BY <4>2, <3>3, <1>k, <1>z
    <3> QED BY <3>2, <3>3, <1>x
  <2> QED BY <1>r, <1>o, <1>u, <1>z, <2>1, <2>2 DEF FoundBy
<1> QED BY <1>1, <1>2

-----------------------------------------------------------------------------
(* The invariant *)

LEMMA InitSearchInv == Init => SearchInv
<1>1. Init => NothingMissed /\ CursorInside
  BY DEF Init, NothingMissed, CursorInside, Holds, Idle
<1> QED BY <1>1, InitTypeOK DEF SearchInv

\* What the user does on GitHub hides no review from a search without excusing
\* it: what is submitted or closed, and what moves up over the cursor.
LEMMA MovesHideNothing ==
  ASSUME SearchInv, Tick \/ GitHubUser PROVE (NothingMissed /\ CursorInside)'
<1> USE DEF SearchInv
<1>1. CASE Tick
  BY <1>1 DEF Tick, NothingMissed, CursorInside, Holds, FoundBy, Pending, github, history
<1>2. ASSUME NEW s \in Pulls, Comment(s) \/ Withdraw(s) \/ Close(s) \/ Reopen(s)
      PROVE  (NothingMissed /\ CursorInside)'
  <2>1. /\ run' = run /\ \A p \in Runs : excused[p] \subseteq excused'[p]
    BY <1>2 DEF Comment, Withdraw, Close, Reopen, Move, TypeOK
  <2>2. CursorInside'
    BY <2>1 DEF CursorInside
  <2>3. ASSUME NEW p \in Runs, NEW r \in Pulls \ excused'[p], run[p].pc = "search"
        PROVE  Pending(r)' /\ Place(open, r) <= Place(open', r)
    <3>1. Pending(r)
      BY <2>1, <2>3 DEF NothingMissed, Holds
    <3>2. r \in open /\ open \in SUBSET Pulls /\ Place(open, r) \in Nat
      <4>1. r \in open
        BY <3>1 DEF Pending
      <4>2. open \in SUBSET Pulls
        BY DEF TypeOK
      <4>3. Cardinality(open) \in Nat
        BY <4>2, PullsFinite
      <4>4. Place(open, r) \in 1 .. Cardinality(open)
        BY <4>1, <4>2, PlaceIsInside
      <4> QED BY <4>1, <4>2, <4>3, <4>4
    <3>3. CASE Comment(s)
      <4>1. open' = open /\ draft' = [draft EXCEPT ![s] = now] /\ now \in Int
        BY <3>3 DEF Comment, TypeOK, Time
      <4>2. now \notin {NoReview, Shell}
        BY <4>1, DiscoveryAssumption
      <4> QED BY <3>1, <3>2, <4>1, <4>2 DEF Pending, TypeOK
    <3>4. CASE Withdraw(s)
      <4>1. s \in excused'[p]
        BY <2>3, <3>4 DEF Withdraw, Move, TypeOK
      <4>2. open' = open /\ draft'[r] = draft[r]
        BY <2>3, <3>4, <4>1 DEF Withdraw, TypeOK
      <4> QED BY <3>1, <3>2, <4>2 DEF Pending
    <3>5. CASE Close(s)
      <4>1. {t \in Pulls : t >= s} \subseteq excused'[p]
        BY <2>3, <3>5 DEF Close, Move, TypeOK
      <4>2. s > r
        BY <2>3, <4>1, DiscoveryAssumption
      <4>3. open' = open \ {s} /\ draft' = draft
        BY <3>5 DEF Close
      <4>4. Place(open \ {s}, r) = Place(open, r)
        BY <3>2, <4>2, PlaceMoves
      <4>5. r # s
        <5>1. r \in Nat /\ s \in Nat
          BY DiscoveryAssumption
        <5> QED BY <4>2, <5>1
      <4> QED BY <3>1, <3>2, <4>3, <4>4, <4>5 DEF Pending
    <3>6. CASE Reopen(s)
      <4>1. open' = open \cup {s} /\ draft' = draft
        BY <3>6 DEF Reopen
      <4> QED BY <3>1, <3>2, <4>1, PlaceMoves DEF Pending
    <3> QED BY <1>2, <3>3, <3>4, <3>5, <3>6
  <2>4. ASSUME NEW p \in Runs, NEW r \in Pulls \ excused'[p] PROVE Holds(p, r)'
    <3>1. Holds(p, r)
      BY <2>1, <2>4 DEF NothingMissed
    <3>2. CASE run[p].pc # "search"
      BY <2>1, <3>1, <3>2 DEF Holds, FoundBy
    <3>3. CASE run[p].pc = "search"
      <4>1. Pending(r) /\ Pending(r)' /\ Place(open, r) <= Place(open', r)
        BY <2>3, <2>4, <3>1, <3>3 DEF Holds
      <4>2. Place(open, r) \in Int /\ Place(open', r) \in Int /\ run[p].cursor \in Int
        <5>1. run[p] \in SearchRun
          BY <3>3, RunKinds DEF OneOf, TypeOK
        <5>2. open' \in SUBSET Pulls
          BY <1>2 DEF Comment, Withdraw, Close, Reopen, TypeOK
        <5>3. ASSUME NEW gh \in SUBSET Pulls, r \in gh PROVE Place(gh, r) \in Int
          BY <5>3, PlaceIsInside, PullsFinite
        <5>4. r \in open /\ r \in open' /\ open \in SUBSET Pulls
          BY <4>1 DEF Pending, TypeOK
        <5> QED BY <5>1, <5>2, <5>3, <5>4 DEF SearchRun
      <4> QED BY <2>1, <3>1, <3>3, <4>1, <4>2 DEF Holds, FoundBy
    <3> QED BY <3>2, <3>3
  <2> QED BY <2>2, <2>4 DEF NothingMissed
<1> QED BY <1>1, <1>2 DEF GitHubUser

\* The step of one run touches neither GitHub nor what another run holds.
LEMMA OthersStay ==
  ASSUME TypeOK, NEW p \in Runs, Starts(p) \/ Steps(p) \/ Fail(p),
         NEW q \in Runs \ {p}
  PROVE  /\ UNCHANGED github /\ excused'[q] = excused[q]
         /\ \/ run'[q] = run[q]
            \/ run[q].pc = "fill" /\ run'[q].pc = "fill" /\ run'[q].state = run[q].state
<1> USE DEF TypeOK
<1>1. CASE Starts(p)
  BY <1>1 DEF Starts, Start, Becomes, history
<1>2. CASE load(p)
  BY <1>2 DEF load, Becomes, Ends
<1>3. CASE SearchPage(p)
  BY <1>3, SearchFinds
<1>4. CASE SweepAndPrint(p)
  BY <1>4 DEF SweepAndPrint, Becomes
<1>5. CASE OpenTmp(p)
  BY <1>5 DEF OpenTmp, Becomes, history
<1>6. CASE FillTmp(p)
  BY <1>6 DEF FillTmp, Becomes, history
<1>7. CASE Rename(p)
  <2>1. run'[q] = Moved(run[q])
    BY <1>7 DEF Rename
  <2>2. CASE run[q].pc = "fill"
    <3>1. StatesMove(p)
      BY <1>7, OthersMove
    <3> QED BY <1>7, <2>2, <3>1 DEF Rename, StatesMove, Holding
  <2>3. CASE run[q].pc # "fill"
    BY <1>7, <2>1, <2>3 DEF Rename, Moved
  <2> QED BY <2>2, <2>3
<1>8. CASE RenameFails(p)
  BY <1>8 DEF RenameFails, Ends, Becomes
<1>9. CASE Fail(p)
  BY <1>9 DEF Fail, Ends, Becomes
<1> QED BY <1>1, <1>2, <1>3, <1>4, <1>5, <1>6, <1>7, <1>8, <1>9 DEF Steps

\* What a sweep has found is in the state it makes.
LEMMA SweptHolds ==
  ASSUME NEW state \in StateFile, NEW found \in Found, NEW threshold, NEW at \in Time,
         NEW d \in found
  PROVE  apply_sweep(state, found, threshold, at)[d.id] # Null
<1>1. d.id \in Pulls /\ Listed(found, d.id) # {}
  BY DEF Found, Listed
<1>2. apply_sweep(state, found, threshold, at)[d.id] =
        Resolved(state[d.id], Newest(Listed(found, d.id)), threshold, at)
  BY <1>1 DEF apply_sweep
<1>3. Resolved(state[d.id], Newest(Listed(found, d.id)), threshold, at) \in Entry
  BY <1>1, ResolvedType
<1> QED BY <1>2, <1>3, PrnNullAssumption

LEMMA RunMissesNothing ==
  ASSUME SearchInv, NEW p \in Runs, Starts(p) \/ Steps(p) \/ Fail(p),
         NEW r \in Pulls \ excused'[p]
  PROVE  Holds(p, r)'
<1> USE DEF SearchInv, TypeOK
<1>i. Idle.pc = "idle"
  BY DEF Idle
<1>k. OneOf(run[p])
  BY RunKinds
<1>e. ASSUME run'[p].pc \in {"idle", "load"} PROVE Holds(p, r)'
  BY <1>e DEF Holds
<1>h. r \notin excused[p] => Holds(p, r)
  BY DEF NothingMissed
<1>1. CASE Starts(p)
  BY <1>1, <1>e DEF Starts, Start, Becomes
<1>2. CASE load(p)
  <2>1. CASE Loaded = Torn
    BY <1>2, <1>i, <1>e, <2>1 DEF load, Becomes, Ends
  <2>2. CASE Loaded # Torn
    <3>1. /\ run'[p].pc = "search" /\ run'[p].cursor = 0
          /\ excused'[p] = {s \in Pulls : ~Pending(s)} /\ UNCHANGED github
      BY <1>2, <2>2 DEF load, Becomes
    <3>2. Pending(r)
      BY <3>1
    <3>3. Place(open, r) \in 1 .. Cardinality(open)
      BY <3>2, PlaceIsInside DEF Pending
    <3>4. ~(Place(open, r) <= 0)
      BY <3>3, PullsFinite
    <3>5. Pending(r)' /\ ~(Place(open', r) <= 0)
      BY <3>1, <3>2, <3>4 DEF github, Pending
    <3> QED BY <3>1, <3>5 DEF Holds
  <2> QED BY <2>1, <2>2
<1>3. CASE SearchPage(p)
  <2>1. /\ run[p].pc = "search" /\ excused[p] \subseteq excused'[p] /\ UNCHANGED github
        /\ run'[p].pc \in {"search", "sweep"} /\ run[p].found \subseteq run'[p].found
    BY <1>3, SearchFinds
  <2>2. Pending(r) /\ (Place(open, r) <= run[p].cursor => FoundBy(p, r))
    BY <1>h, <2>1 DEF Holds
  <2>3. FoundBy(p, r) => FoundBy(p, r)'
    BY <2>1 DEF FoundBy
  <2>4. Pending(r)' /\ Place(open', r) = Place(open, r)
    BY <2>1, <2>2 DEF github, Pending
  <2>5. Place(open, r) \in Int /\ run[p].cursor \in Int
    <3>1. run[p] \in SearchRun
      BY <1>k, <2>1 DEF OneOf
    <3>2. r \in open /\ open \in SUBSET Pulls
      BY <2>2 DEF Pending, SearchInv, TypeOK
    <3>3. Place(open, r) \in 1 .. Cardinality(open) /\ Cardinality(open) \in Nat
      BY <3>2, PlaceIsInside, PullsFinite
    <3>4. run[p].cursor \in Int
      BY <3>1 DEF SearchRun
    <3> QED BY <3>3, <3>4
  <2>6. /\ Place(open, r) > run[p].cursor
        /\ run'[p].pc = "search" => Place(open, r) <= run'[p].cursor
        => FoundBy(p, r)'
    BY <1>3, <2>2, SearchFinds
  <2>7. Place(open, r) <= run[p].cursor \/ Place(open, r) > run[p].cursor
    BY <2>5
  <2> QED BY <2>1, <2>2, <2>3, <2>4, <2>6, <2>7 DEF Holds
<1>4. CASE SweepAndPrint(p)
  <2> DEFINE swept == apply_sweep(run[p].state, run[p].found, run[p].threshold, now)
  <2>1. run[p] \in SweepRun /\ run[p].pc = "sweep"
    BY <1>k, <1>4 DEF SweepAndPrint, OneOf
  <2>2. run'[p].pc = "open" /\ run'[p].state = swept /\ excused' = excused
    BY <1>4 DEF SweepAndPrint, Becomes
  <2>3. PICK d \in run[p].found : d.id = r
    BY <1>h, <2>1, <2>2 DEF Holds, FoundBy
  <2>4. swept[r] # Null
    BY <2>1, <2>3, SweptHolds DEF SweepRun
  <2> HIDE DEF swept
  <2> QED BY <2>2, <2>4 DEF Holds
<1>5. CASE OpenTmp(p)
  <2>1. run'[p].pc = "fill" /\ run'[p].state = run[p].state /\ excused' = excused
        /\ run[p].pc = "open"
    BY <1>5 DEF OpenTmp, Becomes, history
  <2> QED BY <1>h, <2>1 DEF Holds
<1>6. CASE FillTmp(p)
  <2>1. run'[p].pc = "rename" /\ run'[p].state = run[p].state /\ excused' = excused
        /\ run[p].pc = "fill"
    BY <1>6 DEF FillTmp, Becomes, history
  <2> QED BY <1>h, <2>1 DEF Holds
<1>7. CASE Rename(p) \/ RenameFails(p) \/ Fail(p)
  BY <1>7, <1>i, <1>e DEF Rename, RenameFails, Fail, Ends, Becomes
<1> QED BY <1>1, <1>2, <1>3, <1>4, <1>5, <1>6, <1>7 DEF Steps

LEMMA RunKeepsInside ==
  ASSUME SearchInv, NEW p \in Runs, Starts(p) \/ Steps(p) \/ Fail(p),
         run'[p].pc = "search"
  PROVE  run'[p].cursor = 0 \/ run'[p].cursor < Cardinality(Pulls)
<1> USE DEF SearchInv, TypeOK
<1>i. Idle.pc = "idle"
  BY DEF Idle
<1>1. CASE load(p)
  BY <1>1, <1>i DEF load, Becomes, Ends
<1>2. CASE SearchPage(p)
  <2>1. run'[p].cursor = run[p].cursor + PageSize /\ run'[p].cursor < Cardinality(open)
    BY <1>2, SearchFinds
  <2>2. run[p].cursor \in Nat /\ PageSize \in Nat
    <3>1. run[p] \in SearchRun
      BY <1>2, RunKinds DEF SearchPage, OneOf
    <3> QED BY <3>1, DiscoveryAssumption DEF SearchRun
  <2> QED BY <2>1, <2>2, PullsFinite
<1>3. CASE SweepAndPrint(p) \/ OpenTmp(p) \/ FillTmp(p)
  BY <1>3 DEF SweepAndPrint, OpenTmp, FillTmp, Becomes
<1>4. CASE Starts(p) \/ Rename(p) \/ RenameFails(p) \/ Fail(p)
  BY <1>4, <1>i DEF Starts, Start, Rename, RenameFails, Fail, Ends, Becomes
<1> QED BY <1>1, <1>2, <1>3, <1>4 DEF Steps

LEMMA NextSearchInv == ASSUME SearchInv, [Next]_vars PROVE SearchInv'
<1> USE DEF SearchInv
<1>t. TypeOK'
  BY NextTypeOK
<1>1. CASE UNCHANGED vars
  BY <1>1, <1>t DEF vars, NothingMissed, CursorInside, Holds, FoundBy, Pending
<1>2. CASE Tick \/ GitHubUser
  BY <1>2, <1>t, MovesHideNothing
<1>3. ASSUME NEW p \in Runs, Starts(p) \/ Steps(p) \/ Fail(p) PROVE SearchInv'
  <2>1. ASSUME NEW q \in Runs, NEW r \in Pulls \ excused'[q] PROVE Holds(q, r)'
    <3>1. CASE q = p
      BY <1>3, <2>1, <3>1, RunMissesNothing
    <3>2. CASE q # p
      <4>1. /\ UNCHANGED github /\ excused'[q] = excused[q]
            /\ \/ run'[q] = run[q]
               \/ run[q].pc = "fill" /\ run'[q].pc = "fill" /\ run'[q].state = run[q].state
        BY <1>3, <3>2, OthersStay
      <4>2. Holds(q, r)
        BY <2>1, <4>1 DEF NothingMissed
      <4> QED BY <4>1, <4>2 DEF Holds, FoundBy, Pending, github
    <3> QED BY <3>1, <3>2
  <2>2. ASSUME NEW q \in Runs, run'[q].pc = "search"
        PROVE  run'[q].cursor = 0 \/ run'[q].cursor < Cardinality(Pulls)
    <3>1. CASE q = p
      BY <1>3, <2>2, <3>1, RunKeepsInside
    <3>2. CASE q # p
      <4>1. run'[q] = run[q]
        BY <1>3, <2>2, <3>2, OthersStay
      <4> QED BY <2>2, <4>1 DEF CursorInside
    <3> QED BY <3>1, <3>2
  <2> QED BY <1>t, <2>1, <2>2 DEF NothingMissed, CursorInside
<1> QED BY <1>1, <1>2, <1>3 DEF Next

LEMMA SearchInvariant == Spec => []SearchInv
<1>1. Init => SearchInv
  BY InitSearchInv
<1>2. SearchInv /\ [Next]_vars => SearchInv'
  BY NextSearchInv
<1> QED BY <1>1, <1>2, PTL DEF Spec

-----------------------------------------------------------------------------
(* The theorems *)

\* When runs do not overlap, a review that the search could not miss is in the
\* state file from the rename on, for any number of pages and whatever is
\* moved on GitHub, refused or lacking in a reply (discovery.rs
\* discover_pending_reviews, state_file.rs apply_sweep and save).
THEOREM SweepIsCompleteHolds == ASSUME Alone PROVE Spec => SweepIsComplete
<1>1. ASSUME LoneInv, SearchInv, [Next]_vars, NEW p \in Runs,
             run[p].pc = "rename", tmp # NoFile, tmp' = NoFile
      PROVE  \A r \in Pulls \ excused[p] : file'[r] # Null
  <2> USE <1>1 DEF LoneInv, TypeOK
  <2>1. tmp = run[p].state /\ \A q \in Runs : q = p
    BY DEF WritesItsOwn, Alone
  <2>2. run[p] \in RenameRun /\ run[p].state \in StateFile
    <3>1. run[p] \in RenameRun
      BY RunKinds DEF OneOf
    <3> QED BY <3>1 DEF RenameRun
  <2>3. file' = tmp
    <3>1. tmp' # tmp
      OBVIOUS
    <3>2. Rename(p)
      <4>1. CASE Tick \/ GitHubUser \/ UNCHANGED vars
        BY <3>1, <4>1 DEF Tick, GitHubUser, Comment, Withdraw, Close, Reopen, Move,
                          files, vars
      <4>2. CASE Starts(p) \/ Fail(p)
        BY <3>1, <4>2 DEF Starts, Start, Fail, files
      <4>3. CASE Steps(p)
        BY <3>1, <4>3 DEF Steps, load, SearchPage, SweepAndPrint, OpenTmp, FillTmp,
                          RenameFails, files
      <4> QED BY <2>1, <4>1, <4>2, <4>3 DEF Next
    <3> QED BY <3>2 DEF Rename
  <2>4. \A r \in Pulls \ excused[p] : run[p].state[r] # Null
    BY DEF SearchInv, NothingMissed, Holds
  <2> QED BY <2>1, <2>3, <2>4
<1>2. LoneInv /\ SearchInv /\ [Next]_vars =>
        [\A p \in Runs : run[p].pc = "rename" /\ tmp # NoFile /\ tmp' = NoFile
           => \A r \in Pulls \ excused[p] : file'[r] # Null]_vars
  BY <1>1
<1> QED BY <1>2, LoneInvariant, SearchInvariant, PTL DEF Spec, SweepIsComplete

\* What is left depends on where the process is and on its cursor.
LEMMA StepsLeftIs ==
  ASSUME SearchInv, NEW p \in Runs
  PROVE  /\ Cardinality(Pulls) \in Nat
         /\ StepsLeft(p) \in 0 .. 6 + Cardinality(Pulls)
         /\ run[p].pc = "idle"   => StepsLeft(p) = 0
         /\ run[p].pc = "rename" => StepsLeft(p) = 1
         /\ run[p].pc = "fill"   => StepsLeft(p) = 2
         /\ run[p].pc = "open"   => StepsLeft(p) = 3
         /\ run[p].pc = "sweep"  => StepsLeft(p) = 4
         /\ run[p].pc = "search" => /\ StepsLeft(p) = 5 + (Cardinality(Pulls) - run[p].cursor)
                                    /\ StepsLeft(p) >= 5 /\ run[p].cursor \in Nat
         /\ run[p].pc = "load"   => StepsLeft(p) = 6 + Cardinality(Pulls)
<1>1. OneOf(run[p])
  BY RunKinds DEF SearchInv, TypeOK
<1>2. Cardinality(Pulls) \in Nat
  BY PullsFinite
<1>3. run[p].pc = "search" =>
        run[p].cursor \in Nat /\ (run[p].cursor = 0 \/ run[p].cursor < Cardinality(Pulls))
  BY <1>1 DEF SearchInv, CursorInside, OneOf, SearchRun
<1>4. run[p].pc \in {"idle", "load", "search", "sweep", "open", "fill", "rename"}
  BY <1>1 DEF OneOf
<1> QED BY <1>2, <1>3, <1>4 DEF StepsLeft

LEMMA RunAdvances ==
  ASSUME SearchInv, SearchInv', NEW p \in Runs, Steps(p) \/ Fail(p)
  PROVE  StepsLeft(p)' < StepsLeft(p)
<1> USE DEF SearchInv, TypeOK
<1>l. /\ Cardinality(Pulls) \in Nat
      /\ StepsLeft(p) \in 0 .. 6 + Cardinality(Pulls)
      /\ run[p].pc = "idle"   => StepsLeft(p) = 0
      /\ run[p].pc = "rename" => StepsLeft(p) = 1
      /\ run[p].pc = "fill"   => StepsLeft(p) = 2
      /\ run[p].pc = "open"   => StepsLeft(p) = 3
      /\ run[p].pc = "sweep"  => StepsLeft(p) = 4
      /\ run[p].pc = "search" => /\ StepsLeft(p) = 5 + (Cardinality(Pulls) - run[p].cursor)
                                 /\ StepsLeft(p) >= 5 /\ run[p].cursor \in Nat
      /\ run[p].pc = "load"   => StepsLeft(p) = 6 + Cardinality(Pulls)
  BY StepsLeftIs
<1>m. /\ run'[p].pc = "idle"   => StepsLeft(p)' = 0
      /\ run'[p].pc = "rename" => StepsLeft(p)' = 1
      /\ run'[p].pc = "fill"   => StepsLeft(p)' = 2
      /\ run'[p].pc = "open"   => StepsLeft(p)' = 3
      /\ run'[p].pc = "sweep"  => StepsLeft(p)' = 4
      /\ run'[p].pc = "search" => StepsLeft(p)' = 5 + (Cardinality(Pulls) - run'[p].cursor)
  BY DEF StepsLeft
<1> HIDE DEF StepsLeft
<1>i. Idle.pc = "idle" /\ (run[p].pc = "idle" => run[p] = Idle)
  BY RunKinds DEF Idle, OneOf
<1>k. run[p].pc \in {"idle", "load", "search", "sweep", "open", "fill", "rename"}
  BY RunKinds DEF OneOf
<1>1. CASE load(p)
  <2>1. /\ run[p].pc = "load" /\ run'[p].pc \in {"idle", "search"}
        /\ run'[p].pc = "search" => run'[p].cursor = 0
    BY <1>1, <1>i DEF load, Becomes, Ends
  <2> QED BY <2>1, <1>l, <1>m
<1>2. CASE SearchPage(p)
  <2>1. /\ run[p].pc = "search" /\ run'[p].pc \in {"search", "sweep"}
        /\ run'[p].pc = "search" => run'[p].cursor = run[p].cursor + PageSize
    BY <1>2, SearchFinds
  <2> QED BY <2>1, <1>l, <1>m, DiscoveryAssumption
<1>3. CASE SweepAndPrint(p)
  <2>1. run[p].pc = "sweep" /\ run'[p].pc = "open"
    BY <1>3 DEF SweepAndPrint, Becomes
  <2> QED BY <2>1, <1>l, <1>m
<1>4. CASE OpenTmp(p)
  <2>1. run[p].pc = "open" /\ run'[p].pc = "fill"
    BY <1>4 DEF OpenTmp, Becomes
  <2> QED BY <2>1, <1>l, <1>m
<1>5. CASE FillTmp(p)
  <2>1. run[p].pc = "fill" /\ run'[p].pc = "rename"
    BY <1>5 DEF FillTmp, Becomes
  <2> QED BY <2>1, <1>l, <1>m
<1>6. CASE Rename(p) \/ RenameFails(p) \/ Fail(p)
  <2>1. run[p].pc # "idle" /\ run'[p].pc = "idle"
    BY <1>6, <1>i DEF Rename, RenameFails, Fail, Ends, Becomes
  <2> QED BY <2>1, <1>l, <1>m, <1>k
<1> QED BY <1>1, <1>2, <1>3, <1>4, <1>5, <1>6 DEF Steps

\* A run takes at most six steps and one for every pull request, each page
\* moves the cursor on and no reply brings it back (discovery.rs
\* discover_pending_reviews, main.rs run): so a run that is not stopped ends.
THEOREM RunsComeToAnEndHolds == Spec => RunsComeToAnEnd
<1>1. ASSUME SearchInv, SearchInv', [Next]_vars, NEW p \in Runs
      PROVE  /\ StepsLeft(p) \in 0 .. 6 + Cardinality(Pulls)
             /\ Steps(p) \/ Fail(p) => StepsLeft(p)' < StepsLeft(p)
             /\ run[p].pc # "idle" => StepsLeft(p)' <= StepsLeft(p)
  <2> USE <1>1 DEF SearchInv, TypeOK
  <2>1. StepsLeft(p) \in 0 .. 6 + Cardinality(Pulls) /\ Cardinality(Pulls) \in Nat
    BY StepsLeftIs
  <2>2. StepsLeft(p)' \in 0 .. 6 + Cardinality(Pulls)
    <3>1. OneOf(run'[p])
      BY RunKinds
    <3>2. run'[p].pc = "search" =>
            run'[p].cursor \in Nat /\ (run'[p].cursor = 0 \/ run'[p].cursor < Cardinality(Pulls))
      BY <3>1 DEF CursorInside, OneOf, SearchRun
    <3>3. run'[p].pc \in {"idle", "load", "search", "sweep", "open", "fill", "rename"}
      BY <3>1 DEF OneOf
    <3> QED BY <2>1, <3>2, <3>3 DEF StepsLeft
  <2>3. Steps(p) \/ Fail(p) => StepsLeft(p)' < StepsLeft(p)
    BY RunAdvances
  <2>4. ASSUME run'[p] = run[p] PROVE StepsLeft(p)' = StepsLeft(p)
    BY <2>4 DEF StepsLeft
  <2>5. ASSUME run[p].pc # "idle" PROVE StepsLeft(p)' <= StepsLeft(p)
    <3>1. CASE Steps(p) \/ Fail(p)
      BY <2>1, <2>2, <2>3, <3>1
    <3>2. CASE Starts(p)
      BY <2>5, <3>2 DEF Starts, Start, Idle
    <3>3. CASE Tick \/ GitHubUser \/ UNCHANGED vars
      <4>1. run' = run
        BY <3>3 DEF Tick, GitHubUser, Comment, Withdraw, Close, Reopen, Move, vars
      <4> QED BY <2>1, <2>4, <4>1
    <3>4. ASSUME NEW q \in Runs \ {p}, Starts(q) \/ Steps(q) \/ Fail(q)
          PROVE  StepsLeft(p)' <= StepsLeft(p)
      <4>1. \/ run'[p] = run[p]
            \/ run[p].pc = "fill" /\ run'[p].pc = "fill"
        BY <3>4, OthersStay
      <4>2. CASE run[p].pc = "fill" /\ run'[p].pc = "fill"
        BY <4>2 DEF StepsLeft
      <4> QED BY <2>1, <2>4, <4>1, <4>2
    <3> QED BY <3>1, <3>2, <3>3, <3>4 DEF Next
  <2> QED BY <2>1, <2>3, <2>5
<1>2. SearchInv /\ SearchInv' /\ [Next]_vars =>
        [\A p \in Runs :
           /\ StepsLeft(p) \in 0 .. 6 + Cardinality(Pulls)
           /\ Steps(p) \/ Fail(p) => StepsLeft(p)' < StepsLeft(p)
           /\ run[p].pc # "idle" => StepsLeft(p)' <= StepsLeft(p)]_vars
  BY <1>1
<1> QED BY <1>2, SearchInvariant, PTL DEF Spec, RunsComeToAnEnd
=============================================================================
