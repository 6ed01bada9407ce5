------------------------ MODULE TokenLifecycle_proofs ------------------------
(***************************************************************************)
(* What the row lock and the order of the statements guarantee about the   *)
(* token pair, for any number of callers, connections and pairs.           *)
(***************************************************************************)
EXTENDS TokenLifecycle, FiniteSetTheorems, TLAPS

\* A pair that GitHub has issued and a call has not stored yet.
Holds(c, p) ==
  \/ call[c].pc = "answered" /\ call[c].new = p
  \/ call[c].pc \in SigningIn /\ call[c].pair = p

\* One transaction has the row, and it has read the row as it is.
RowLock ==
  /\ \A c, d \in Callers : LocksRow(c) /\ LocksRow(d) => c = d
  /\ \A c \in Callers : LocksRow(c) => IsFor(c)
  /\ \A c \in Callers : Refreshing(c) =>
       user.pair = call[c].pair /\ user.pair \in aged

\* A refresh has an answer because GitHub spent its pair, and it is refused
\* because GitHub refused the pair in the row.
Answers ==
  /\ \A c \in Callers :
       /\ call[c].pc = "answered" => call[c].pair \in spent
       /\ call[c].pc = "refused" => refusal # Null
  /\ refusal # Null => user # Null /\ refusal.pair = user.pair

\* A pair on its way to the row is known to nobody else and was never used.
Unstored ==
  /\ \A c \in Callers, p \in Pairs : Holds(c, p) =>
       /\ p \in Issued /\ p \notin spent \cup inflight
       /\ user # Null => user.pair # p
  /\ \A c, d \in Callers, p \in Pairs : Holds(c, p) /\ Holds(d, p) => c = d
  /\ \A c \in Callers :
       /\ call[c].pc = "answered" => call[c].new \in Pairs
       /\ call[c].pc \in SigningIn => call[c].pair \in Pairs

\* Only pairs that were issued are stored or used, and only aged ones used.
Used ==
  /\ user # Null => user.pair \in Issued
  /\ spent \subseteq Issued \cap aged
  /\ inflight \subseteq Issued \cap aged

\* Whose call it is tells where it can be.
CallKinds == \A c \in Callers :
  /\ call[c].pc = "use" => call[c].kind = "sync"
  /\ call[c].pc \in SigningIn => call[c].kind = "signin"

TokenSafety ==
  /\ RowLock /\ Answers /\ Unstored /\ Used /\ CallKinds
  /\ StoredPairUsable /\ LockedOutOnlyIfRefused

TokenInv == TypeOK /\ TokenSafety

-----------------------------------------------------------------------------
(* Types *)

LEMMA IdleType == Idle \in Call
BY DEF Idle, Call, Kinds

\* A call that fails or returns is in a state a call may be in.
LEMMA OutcomeType ==
  ASSUME TypeOK, NEW c \in Callers
  PROVE  Fails(c) \in Call /\ \A p \in Pairs : Returns(c, p) \in Call
<1>1. call[c] \in Call /\ Idle \in Call
  BY IdleType DEF TypeOK
<1>2. Fails(c) \in Call
  BY <1>1 DEF Fails, Call, Kinds, Idle, Leaving
<1>3. ASSUME NEW p \in Pairs PROVE Returns(c, p) \in Call
  <2>1. call[c].kind \in Kinds \cup {Null} /\ call[c].id \in Pairs \cup {Null}
    BY <1>1 DEF Call
  <2>2. {"use", "revoke"} \subseteq
          {"idle", "use"} \cup Ensuring \cup Leaving \cup SigningIn
    BY DEF Leaving
  <2> QED BY <2>1, <2>2 DEF Returns, Call
<1> QED BY <1>2, <1>3

\* Every step of a caller keeps the types.
LEMMA CallerType ==
  ASSUME TokenInv, NEW c \in Callers, Caller(c)
  PROVE  TypeOK'
<1> USE PoolAssumption, NullAssumption DEF history
<1>a. /\ TypeOK /\ TokenSafety /\ call[c] \in Call
      /\ Idle \in Call /\ Fails(c) \in Call
      /\ \A p \in Pairs : Returns(c, p) \in Call
  BY IdleType, OutcomeType DEF TokenInv, TypeOK
<1>1. ASSUME NEW kind \in {"sync", "disconnect"}, EnsureStart(c, kind)
      PROVE  TypeOK'
  <2>1. user.id \in Pairs
    BY <1>1, <1>a DEF TypeOK, EnsureStart, User
  <2>2. [Idle EXCEPT !.pc = "begin", !.kind = kind, !.id = user.id] \in Call
    BY <2>1 DEF Idle, Call, Kinds, Ensuring
  <2> QED BY <1>1, <1>a, <2>2 DEF TypeOK, EnsureStart, Becomes, github
<1>2. CASE EnsureBegin(c)
  BY <1>2, <1>a
  DEF TypeOK, Call, Kinds, TokenSafety, EnsureBegin, Goes, Ensuring, github
<1>3. CASE EnsureRead(c)
  BY <1>3, <1>a
  DEF TypeOK, Call, Kinds, TokenSafety, EnsureRead, Ensuring, IsFor, User,
      github
<1>4. CASE GitHubRefreshes(c)
  <2>1. issued' \in Pairs /\ issued' \in 0 .. MaxPairs
    BY <1>4, <1>a DEF TypeOK, GitHubRefreshes, Rotates, Pairs
  <2>2. call[c].pair \in Pairs
    BY <1>4, <1>a DEF TypeOK, TokenSafety, RowLock, LocksRow, Refreshing,
                    IsFor, User, GitHubRefreshes
  <2>3. [call[c] EXCEPT !.pc = "answered", !.new = issued'] \in Call
    BY <2>1, <1>a DEF Call, Ensuring
  <2> QED BY <1>4, <1>a, <2>1, <2>2, <2>3
          DEF TypeOK, GitHubRefreshes, Rotates, Becomes
<1>5. CASE GitHubRefuses(c)
  <2>1. call[c].pair \in Pairs
    BY <1>5, <1>a DEF TypeOK, TokenSafety, RowLock, LocksRow, Refreshing,
                    IsFor, User, GitHubRefuses
  <2>2. refusal' \in Refusal \cup {Null}
    BY <1>5, <1>a, <2>1 DEF TypeOK, GitHubRefuses, Refusal
  <2>3. call' \in [Callers -> Call]
    <3>1. [call[c] EXCEPT !.pc = "refused"] \in Call
      BY <1>a DEF Call, Ensuring
    <3> QED BY <1>5, <1>a, <3>1 DEF TypeOK, GitHubRefuses, Goes
  <2>4. /\ issued' \in 0 .. MaxPairs /\ spent' \subseteq Pairs
        /\ revoked' = revoked /\ lost' \subseteq Pairs /\ inflight' \subseteq Pairs
    <3>1. CASE UNCHANGED <<github, inflight, lost>>
      BY <1>a, <3>1 DEF TypeOK, github
    <3>2. CASE Rotates(call[c].pair) /\ lost' = lost \cup {call[c].pair}
      <4>1. issued' = issued + 1 /\ issued < MaxPairs /\ issued \in 0 .. MaxPairs
        BY <1>a, <3>2 DEF TypeOK, Rotates
      <4>2. /\ spent' = spent \cup {call[c].pair} /\ revoked' = revoked
            /\ spent \subseteq Pairs /\ lost \subseteq Pairs
            /\ inflight' = inflight \ {call[c].pair} /\ inflight \subseteq Pairs
        BY <1>a, <3>2 DEF TypeOK, Rotates
      <4>3. issued' \in 0 .. MaxPairs
        BY <4>1
      <4> QED BY <2>1, <3>2, <4>2, <4>3
    <3> QED BY <1>5, <3>1, <3>2 DEF GitHubRefuses
  <2> QED BY <1>5, <1>a, <2>2, <2>3, <2>4 DEF TypeOK, GitHubRefuses
<1>6. CASE EnsurePersist(c)
  BY <1>6, <1>a
  DEF TypeOK, Call, Kinds, TokenSafety, EnsurePersist, Becomes, User, RowLock,
      LocksRow, Refreshing, IsFor, Unstored, github
<1>7. CASE EnsureReject(c)
  BY <1>7, <1>a
  DEF TypeOK, Call, Kinds, TokenSafety, EnsureReject, Becomes, User, RowLock,
      LocksRow, Refreshing, IsFor, github
<1>8. CASE EnsureErrs(c)
  BY <1>8, <1>a
  DEF TypeOK, Call, Kinds, TokenSafety, EnsureErrs, Becomes, Strands, RowLock,
      LocksRow, Refreshing, Answers, IsFor, User, github
<1>9. CASE SyncEnds(c)
  BY <1>9, <1>a DEF TypeOK, Call, Kinds, TokenSafety, SyncEnds, Becomes, github
<1>10. CASE FallBack(c)
  BY <1>10, <1>a
  DEF TypeOK, Call, Kinds, TokenSafety, FallBack, Becomes, IsFor, User,
      Leaving, github
<1>11. CASE Revoke(c)
  <2>1. revoked' \subseteq Pairs
    <3>1. Issued \subseteq Pairs
      BY <1>a DEF TypeOK, Issued, Pairs
    <3> QED BY <1>11, <1>a, <3>1 DEF TypeOK, Revoke, GrantEnds, github
  <2>2. call' \in [Callers -> Call]
    <3>1. [call[c] EXCEPT !.pc = "delete"] \in Call
      BY <1>a DEF Call, Leaving
    <3> QED BY <1>11, <1>a, <3>1 DEF TypeOK, Revoke, Goes
  <2>3. /\ UNCHANGED <<issued, spent, aged, user, history>>
        /\ inflight' \in {inflight, {}}
    BY <1>11 DEF Revoke, GrantEnds, github
  <2> QED BY <1>a, <2>1, <2>2, <2>3 DEF TypeOK, history
<1>12. CASE DeleteBegin(c)
  BY <1>12, <1>a
  DEF TypeOK, Call, Kinds, TokenSafety, DeleteBegin, Goes, Leaving, github
<1>13. CASE Delete(c)
  BY <1>13, <1>a DEF TypeOK, Call, Kinds, TokenSafety, Delete, Becomes, github
<1>14. CASE SignInExchange(c)
  <2>1. issued' \in Pairs /\ issued' \in 0 .. MaxPairs
    BY <1>14, <1>a DEF TypeOK, SignInExchange, Pairs
  <2>2. [Idle EXCEPT !.pc = "exchanged", !.kind = "signin", !.pair = issued']
          \in Call
    BY <2>1 DEF Idle, Call, Kinds, SigningIn
  <2> QED BY <1>14, <1>a, <2>1, <2>2 DEF TypeOK, SignInExchange, Becomes
<1>15. CASE SignInBegin(c)
  BY <1>15, <1>a
  DEF TypeOK, Call, Kinds, TokenSafety, SignInBegin, Goes, SigningIn, github
<1>16. CASE SignInSelect(c)
  <2>1. ASSUME NEW id \in Pairs \cup {Null}
        PROVE  [call[c] EXCEPT !.pc = "write", !.id = id] \in Call
    BY <1>a DEF Call, SigningIn
  <2>2. user # Null => user.id \in Pairs
    BY <1>a DEF TypeOK, User
  <2> QED BY <1>16, <1>a, <2>1, <2>2 DEF TypeOK, SignInSelect, Becomes, github
<1>17. CASE SignInUpdate(c)
  BY <1>17, <1>a
  DEF TypeOK, Call, Kinds, TokenSafety, SignInUpdate, Becomes, User, Unstored,
      SigningIn, RowLock, LocksRow, IsFor, github
<1>18. CASE SignInInsert(c)
  BY <1>18, <1>a
  DEF TypeOK, Call, Kinds, TokenSafety, SignInInsert, Becomes, User, Unstored,
      SigningIn, github
<1>19. CASE Abort(c)
  BY <1>19, <1>a
  DEF TypeOK, Call, Kinds, TokenSafety, Abort, Becomes, Strands, RowLock,
      LocksRow, Refreshing, Answers, IsFor, User, github
<1> QED BY <1>1, <1>2, <1>3, <1>4, <1>5, <1>6, <1>7, <1>8, <1>9, <1>10, <1>11,
       <1>12, <1>13, <1>14, <1>15, <1>16, <1>17, <1>18, <1>19
DEF Caller, Progresses

-----------------------------------------------------------------------------
(* The invariant *)

\* Every step of a caller keeps the rest of the invariant.
LEMMA CallerSafety ==
  ASSUME TokenInv, NEW c \in Callers, Caller(c)
  PROVE  TokenSafety'
<1> USE PoolAssumption, NullAssumption
    DEF TokenInv, TypeOK, TokenSafety, RowLock, Answers, Unstored, Used, CallKinds,
        StoredPairUsable, LockedOutOnlyIfRefused, Holds, LocksRow, Refreshing,
        IsFor, Dead, Issued, Pairs, Call, User, Idle, SigningIn, Kinds, github,
        Refusal, history
<1>1. ASSUME NEW kind \in {"sync", "disconnect"}, EnsureStart(c, kind)
      PROVE  TokenSafety'
  BY <1>1, SMTT(60) DEF EnsureStart, Becomes
<1>2. CASE EnsureBegin(c)
  BY <1>2, SMTT(60) DEF EnsureBegin, Goes
<1>3. CASE EnsureRead(c)
  <2>1. CASE ~IsFor(c)
    BY <1>3, <2>1, SMTT(60) DEF EnsureRead, RowIsFree, Fails
  <2>2. CASE IsFor(c) /\ user.pair \notin aged
    BY <1>3, <2>2, SMTT(60) DEF EnsureRead, RowIsFree, Returns
  <2>3. CASE IsFor(c) /\ user.pair \in aged
    <3>1. /\ call' = [call EXCEPT ![c] =
                [call[c] EXCEPT !.pc = "request", !.pair = user.pair]]
          /\ UNCHANGED <<issued, spent, revoked, inflight, aged, user, lost, refusal>>
          /\ \A d \in Callers : ~LocksRow(d)
          /\ call[c].pc = "wait" /\ call[c] \in Call
      BY <1>3, <2>3 DEF EnsureRead, RowIsFree
    <3>2. /\ call'[c].pc = "request" /\ call'[c].pair = user.pair
          /\ call'[c].id = call[c].id
          /\ \A d \in Callers : d # c => call'[d] = call[d]
      BY <3>1
    <3>3. RowLock'
      BY <2>3, <3>1, <3>2
    <3>4. Answers' /\ CallKinds' /\ Used'
      BY <3>1, <3>2
    <3>5. Unstored'
      BY <3>1, <3>2
    <3>6. StoredPairUsable' /\ LockedOutOnlyIfRefused'
      BY <3>1, <3>2
    <3> QED BY <3>3, <3>4, <3>5, <3>6
  <2> QED BY <2>1, <2>2, <2>3
<1>4. CASE GitHubRefreshes(c)
  BY <1>4, SMTT(60) DEF GitHubRefreshes, Rotates, Becomes
<1>5. CASE GitHubRefuses(c)
  <2>1. /\ call[c].pc = "request" /\ IsFor(c) /\ call[c].pair = user.pair
        /\ user.pair \in aged /\ user.pair \in Issued
        /\ \A d \in Callers \ {c} : ~LocksRow(d)
    BY <1>5 DEF GitHubRefuses
  <2>2. /\ call' = [call EXCEPT ![c].pc = "refused"]
        /\ UNCHANGED <<aged, user>>
        /\ refusal' # Null
        /\ refusal = Null => refusal'.pair = call[c].pair
        /\ refusal # Null => refusal' = refusal
    BY <1>5 DEF GitHubRefuses, Goes
  <2>3. /\ call'[c].pc = "refused" /\ call'[c].pair = call[c].pair
        /\ call'[c].id = call[c].id
        /\ \A d \in Callers : d # c => call'[d] = call[d]
    BY <2>2
  <2>4. \/ UNCHANGED <<issued, spent, revoked, inflight, lost>>
        \/ /\ issued' = issued + 1 /\ spent' = spent \cup {user.pair}
           /\ inflight' = inflight \ {user.pair}
           /\ revoked' = revoked /\ lost' = lost \cup {user.pair}
    BY <1>5, <2>1 DEF GitHubRefuses, Rotates
  <2>5. RowLock'
    BY <2>1, <2>2, <2>3
  <2>6. Answers' /\ LockedOutOnlyIfRefused'
    BY <2>1, <2>2, <2>3, <2>4
  <2>7. CallKinds' /\ Used'
    BY <2>1, <2>2, <2>3, <2>4
  <2>8. Unstored'
    BY <2>1, <2>2, <2>3, <2>4
  <2>9. StoredPairUsable'
    BY <2>1, <2>2, <2>3, <2>4
  <2> QED BY <2>5, <2>6, <2>7, <2>8, <2>9
<1>6. CASE EnsurePersist(c)
  BY <1>6, SMTT(60) DEF EnsurePersist, Becomes, Returns
<1>7. CASE EnsureReject(c)
  BY <1>7, SMTT(60) DEF EnsureReject, Becomes, Fails
<1>8. CASE EnsureErrs(c)
  BY <1>8, SMTT(60) DEF EnsureErrs, Becomes, Fails, Strands, Ensuring
<1>9. CASE SyncEnds(c)
  BY <1>9, SMTT(60) DEF SyncEnds, Becomes
<1>10. CASE FallBack(c)
  BY <1>10, SMTT(60) DEF FallBack, Becomes
<1>11. CASE Revoke(c)
  BY <1>11, SMTT(60) DEF Revoke, GrantEnds, Goes
<1>12. CASE DeleteBegin(c)
  BY <1>12, SMTT(60) DEF DeleteBegin, Goes
<1>13. CASE Delete(c)
  BY <1>13, SMTT(60) DEF Delete, Becomes, RowIsFree
<1>14. CASE SignInExchange(c)
  BY <1>14, SMTT(60) DEF SignInExchange, Becomes
<1>15. CASE SignInBegin(c)
  <2>1. /\ call[c].pc = "exchanged" /\ call' = [call EXCEPT ![c].pc = "select"]
        /\ UNCHANGED <<issued, spent, revoked, inflight, aged, user, lost, refusal>>
    BY <1>15 DEF SignInBegin, Goes
  <2>2. /\ call'[c].pc = "select" /\ call'[c].pair = call[c].pair
        /\ call'[c].new = call[c].new
        /\ call'[c].kind = call[c].kind /\ call'[c].id = call[c].id
        /\ \A d \in Callers : d # c => call'[d] = call[d]
    BY <2>1
  <2>3. RowLock' /\ Answers'
    BY <2>1, <2>2
  <2>4. Unstored'
    BY <2>1, <2>2
  <2>5. Used' /\ CallKinds'
    BY <2>1, <2>2
  <2>6. StoredPairUsable' /\ LockedOutOnlyIfRefused'
    BY <2>1, <2>2
  <2> QED BY <2>3, <2>4, <2>5, <2>6
<1>16. CASE SignInSelect(c)
  BY <1>16, SMTT(60) DEF SignInSelect, Becomes, RowIsFree
<1>17. CASE SignInUpdate(c)
  BY <1>17, SMTT(60) DEF SignInUpdate, Becomes
<1>18. CASE SignInInsert(c)
  BY <1>18, SMTT(60) DEF SignInInsert, Becomes
<1>19. CASE Abort(c)
  <2>0. /\ call' = [call EXCEPT ![c] = Idle] /\ Strands(c)
        /\ UNCHANGED <<issued, spent, revoked, aged, user, refusal>>
    BY <1>19 DEF Abort, Becomes
  <2>1. inflight' \subseteq Issued \cap aged
    <3>1. CASE inflight' = inflight
      BY <3>1
    <3>2. CASE call[c].pc = "request" /\ inflight' = inflight \cup {call[c].pair}
      <4>1. Refreshing(c) /\ call[c].pair = user.pair /\ IsFor(c)
        BY <3>2
      <4>2. inflight \subseteq Issued \cap aged /\ user.pair \in Issued \cap aged
        BY <4>1
      <4> HIDE DEF Issued, TokenInv
      <4> QED BY <3>2, <4>1, <4>2
    <3> QED BY <2>0, <3>1, <3>2 DEF Strands
  <2>2. Used' /\ CallKinds'
    BY <2>0, <2>1
  <2>3. RowLock' /\ Answers' /\ Unstored'
    BY <2>0, SMTT(60) DEF Strands
  <2>4. StoredPairUsable' /\ LockedOutOnlyIfRefused'
    BY <2>0 DEF Strands
  <2> QED BY <2>2, <2>3, <2>4
<1> QED BY <1>1, <1>2, <1>3, <1>4, <1>5, <1>6, <1>7, <1>8, <1>9, <1>10, <1>11,
       <1>12, <1>13, <1>14, <1>15, <1>16, <1>17, <1>18, <1>19
DEF Caller, Progresses

LEMMA InitTokenInv == Init => TokenInv
BY PoolAssumption, NullAssumption
   DEF Init, TokenInv, TypeOK, TokenSafety, RowLock, Answers, Unstored, Used,
       CallKinds, StoredPairUsable, LockedOutOnlyIfRefused, Holds, LocksRow,
       Refreshing, Issued, Pairs, Call, Kinds, Idle, SigningIn

LEMMA NextTokenInv == TokenInv /\ [Next]_vars => TokenInv'
<1> SUFFICES ASSUME TokenInv, [Next]_vars PROVE TokenInv'
  OBVIOUS
<1> USE PoolAssumption, NullAssumption
    DEF TokenInv, TypeOK, TokenSafety, RowLock, Answers, Unstored, Used, CallKinds,
        StoredPairUsable, LockedOutOnlyIfRefused, Holds, LocksRow, Refreshing,
        IsFor, Dead, Issued, Pairs, User, SigningIn, github, history
<1>1. CASE Age
  BY <1>1 DEF Age
<1>2. CASE RevokedByUser
  BY <1>2 DEF RevokedByUser, GrantEnds
<1>3. ASSUME NEW p \in Pairs, LateRefresh(p) PROVE TokenInv'
  BY <1>3 DEF LateRefresh, Rotates
<1>4. ASSUME NEW c \in Callers, Caller(c) PROVE TokenInv'
  <2>1. TypeOK' /\ TokenSafety'
    BY <1>4, CallerType, CallerSafety
  <2> QED BY <2>1
<1>5. CASE UNCHANGED vars
  BY <1>5 DEF vars
<1> QED BY <1>1, <1>2, <1>3, <1>4, <1>5 DEF Next

\* The invariant holds of every behaviour.
THEOREM TokenInvariant == Spec => []TokenInv
BY InitTokenInv, NextTokenInv, PTL DEF Spec

-----------------------------------------------------------------------------
(* What it is for *)

\* Every variable keeps its type, for any number of callers and pairs.
THEOREM TokenTypes == Spec => []TypeOK
<1>1. TokenInv => TypeOK
  BY DEF TokenInv
<1> QED BY <1>1, TokenInvariant, PTL

\* A refresh writes its answer over the very pair it asked about.
THEOREM RefreshesCurrentPairHolds == Spec => []RefreshesCurrentPair
<1>1. TokenInv => RefreshesCurrentPair
  BY DEF TokenInv, TokenSafety, RowLock, LocksRow, RefreshesCurrentPair
<1> QED BY <1>1, TokenInvariant, PTL

\* Rotation alone never leaves a spent token in the row.
THEOREM StoredPairUsableHolds == Spec => []StoredPairUsable
<1>1. TokenInv => StoredPairUsable
  BY DEF TokenInv, TokenSafety
<1> QED BY <1>1, TokenInvariant, PTL

\* Whoever is locked out holds a pair that GitHub itself has refused: neither a
\* failure on the way nor a refusal of an earlier pair locks anybody out.
THEOREM LockedOutHolds == Spec => []LockedOutOnlyIfRefused
<1>1. TokenInv => LockedOutOnlyIfRefused
  BY DEF TokenInv, TokenSafety
<1> QED BY <1>1, TokenInvariant, PTL

\* A fresh token is not rotated away under the sync that uses it.
THEOREM TokenSurvivesUseHolds == Spec => []TokenSurvivesUse
<1>1. TokenInv => TokenSurvivesUse
  BY DEF TokenInv, TokenSafety, Used, TokenSurvivesUse
<1> QED BY <1>1, TokenInvariant, PTL

\* A disconnect that is not cut short ends with its account gone.
THEOREM DisconnectDeletesHolds == Spec => DisconnectDeletes
<1> DEFINE Ends(c) == /\ call[c].kind = "disconnect" /\ call'[c] = Idle
                      /\ Progresses(c) \/ EnsureErrs(c)
           Gone(c) == user' = Null \/ user'.id # call[c].id
<1>1. ASSUME TokenInv, [Next]_vars, NEW c \in Callers, Ends(c) PROVE Gone(c)
  <2> USE NullAssumption
  <2>1. call[c] \in Call /\ call[c].pc # "use" /\ call[c].pc \notin SigningIn
    BY <1>1 DEF TokenInv, TypeOK, TokenSafety, CallKinds
  <2>2. /\ call'[c].kind = Null /\ "disconnect" # Null
        /\ Fails(c).kind = "disconnect"
        /\ \A p \in Pairs : Returns(c, p).kind = "disconnect"
    BY <1>1 DEF Fails, Returns, Idle, Kinds
  <2>3. FallBack(c) \/ Delete(c)
    <3>1. ~EnsureBegin(c) /\ ~GitHubRefuses(c) /\ ~Revoke(c) /\ ~DeleteBegin(c)
      BY <1>1, <2>1, <2>2
      DEF TokenInv, TypeOK, Call, EnsureBegin, GitHubRefuses, Revoke,
          DeleteBegin, Goes
    <3>2. ~GitHubRefreshes(c)
      <4>1. ASSUME NEW n
            PROVE  [call[c] EXCEPT !.pc = "answered", !.new = n].kind # Null
        BY <1>1, <2>1, <2>2 DEF Call
      <4> QED BY <1>1, <2>2, <4>1
              DEF TokenInv, TypeOK, GitHubRefreshes, Becomes
    <3>3. ~EnsureRead(c)
      <4>1. CASE IsFor(c)
        <5>1. ASSUME NEW p
              PROVE  [call[c] EXCEPT !.pc = "request", !.pair = p].kind # Null
          BY <1>1, <2>1, <2>2 DEF Call
        <5>2. user.pair \in Pairs
          BY <1>1, <4>1 DEF TokenInv, TypeOK, User, IsFor
        <5> QED BY <1>1, <2>2, <4>1, <5>1, <5>2
                DEF TokenInv, TypeOK, EnsureRead
      <4>2. CASE ~IsFor(c)
        BY <1>1, <2>1, <2>2, <4>2 DEF TokenInv, TypeOK, EnsureRead
      <4> QED BY <4>1, <4>2
    <3>4. ~EnsurePersist(c) /\ ~EnsureReject(c) /\ ~EnsureErrs(c)
      BY <1>1, <2>1, <2>2
      DEF TokenInv, TypeOK, TokenSafety, Unstored, EnsurePersist,
          EnsureReject, EnsureErrs, Becomes
    <3>5. /\ ~SyncEnds(c) /\ ~SignInBegin(c) /\ ~SignInSelect(c)
          /\ ~SignInUpdate(c) /\ ~SignInInsert(c)
      BY <2>1 DEF SyncEnds, SignInBegin, SignInSelect, SignInUpdate,
                  SignInInsert, SigningIn
    <3> QED BY <1>1, <3>1, <3>2, <3>3, <3>4, <3>5 DEF Progresses
  <2>4. CASE FallBack(c)
    BY <1>1, <2>1, <2>4
    DEF TokenInv, TypeOK, FallBack, Becomes, IsFor, Call, Idle
  <2>5. CASE Delete(c)
    BY <2>5 DEF Delete, IsFor
  <2> QED BY <2>3, <2>4, <2>5
<1>2. TokenInv /\ [Next]_vars => [\A c \in Callers :
        call[c].kind = "disconnect" /\ call'[c] = Idle
        /\ (Progresses(c) \/ EnsureErrs(c))
          => user' = Null \/ user'.id # call[c].id]_vars
  BY <1>1
<1> QED BY <1>2, TokenInvariant, PTL DEF DisconnectDeletes, Spec

-----------------------------------------------------------------------------
(* That calls come to an end *)

\* How many steps a call has before it, at most.
StepsLeft(c) ==
  CASE call[c].pc = "begin"      -> 8
    [] call[c].pc = "wait"       -> 7
    [] call[c].pc = "request"    -> 6
    [] call[c].pc = "answered"   -> 5
    [] call[c].pc = "refused"    -> 5
    [] call[c].pc = "fallback"   -> 4
    [] call[c].pc = "revoke"     -> 3
    [] call[c].pc = "exchanged"  -> 3
    [] call[c].pc = "delete"     -> 2
    [] call[c].pc = "select"     -> 2
    [] call[c].pc = "deleting"   -> 1
    [] call[c].pc = "write"      -> 1
    [] call[c].pc = "use"        -> 1
    [] OTHER                     -> 0

\* A call that has begun gets nearer to its end with each of its steps, and
\* nothing that others, GitHub or time do sends it back (oauth.rs
\* ensure_fresh_token returns after one refresh, it never tries another).
CallsComeToAnEnd == [][\A c \in Callers :
  /\ Progresses(c) \/ EnsureErrs(c) => StepsLeft(c)' < StepsLeft(c)
  /\ call[c] # Idle => StepsLeft(c)' <= StepsLeft(c)]_vars

\* What a call waits for: a connection to begin a transaction, or the row.
WaitsForRoom(c) ==
  call[c].pc \in {"begin", "fallback", "delete", "exchanged"} /\ ~HasRoom
WaitsForRow(c) ==
  call[c].pc \in {"wait", "select", "deleting"} /\ ~RowIsFree

\* Whoever waits for the row waits for one call that waits for nobody, and
\* whoever waits for a connection waits for one that does not need another;
\* what it gets back is enough to go on (oauth.rs ensure_fresh_token passes
\* its transaction on, state.rs max_connections).
NoCircularWait == \A c \in Callers :
  /\ WaitsForRow(c) => \E d \in Callers \ {c} :
       /\ LocksRow(d) /\ ~WaitsForRow(d) /\ ~WaitsForRoom(d)
       /\ \A e \in Callers \ {d} : ~LocksRow(e)
  /\ WaitsForRoom(c) => \E d \in Connected \ {c} :
       ~WaitsForRow(d) /\ ~WaitsForRoom(d)

LEMMA StepsLeftType == \A c \in Callers : StepsLeft(c) \in 0 .. 8
BY DEF StepsLeft

\* A step of its own lowers a call's rank.
LEMMA CallAdvances ==
  ASSUME TokenInv, NEW c \in Callers, Progresses(c) \/ EnsureErrs(c)
  PROVE  StepsLeft(c)' < StepsLeft(c)
<1>a. /\ call[c] \in Call /\ call \in [Callers -> Call] /\ Idle.pc = "idle"
      /\ Fails(c).pc \in {"idle", "fallback"}
      /\ \A p \in Pairs : Returns(c, p).pc \in {"use", "revoke"}
      /\ user # Null => user.pair \in Pairs
      /\ call[c].pc = "answered" => call[c].new \in Pairs
  BY NullAssumption
  DEF TokenInv, TypeOK, User, Fails, Returns, Idle, TokenSafety, Unstored
<1>1. CASE EnsureBegin(c)
  <2>1. call[c].pc = "begin" /\ call'[c].pc = "wait"
    BY <1>1, <1>a DEF EnsureBegin, Goes, Call
  <2> QED BY <2>1 DEF StepsLeft
<1>2. CASE EnsureRead(c)
  <2>1. /\ call[c].pc = "wait"
        /\ call'[c].pc \in {"idle", "fallback", "use", "revoke", "request"}
    <3>1. [call[c] EXCEPT !.pc = "request", !.pair = user.pair].pc = "request"
      BY <1>a DEF Call
    <3> QED BY <1>2, <1>a, <3>1 DEF EnsureRead, IsFor
  <2> QED BY <2>1 DEF StepsLeft
<1>3. CASE GitHubRefreshes(c)
  <2>1. call[c].pc = "request" /\ call'[c].pc = "answered"
    <3>1. \A n : [call[c] EXCEPT !.pc = "answered", !.new = n].pc = "answered"
      BY <1>a DEF Call
    <3> QED BY <1>3, <1>a, <3>1 DEF GitHubRefreshes, Becomes
  <2> QED BY <2>1 DEF StepsLeft
<1>4. CASE GitHubRefuses(c)
  <2>1. call[c].pc = "request" /\ call'[c].pc = "refused"
    BY <1>4, <1>a DEF GitHubRefuses, Goes, Call
  <2> QED BY <2>1 DEF StepsLeft
<1>5. CASE EnsurePersist(c)
  <2>1. call[c].pc = "answered" /\ call'[c].pc \in {"use", "revoke"}
    BY <1>5, <1>a DEF EnsurePersist, Becomes
  <2> QED BY <2>1 DEF StepsLeft
<1>6. CASE EnsureReject(c)
  <2>1. call[c].pc = "refused" /\ call'[c].pc \in {"idle", "fallback"}
    BY <1>6, <1>a DEF EnsureReject, Becomes
  <2> QED BY <2>1 DEF StepsLeft
<1>7. CASE EnsureErrs(c)
  <2>1. call[c].pc \in Ensuring /\ call'[c].pc \in {"idle", "fallback"}
    BY <1>7, <1>a DEF EnsureErrs, Becomes
  <2> QED BY <2>1 DEF StepsLeft, Ensuring
<1>8. CASE FallBack(c)
  <2>1. call[c].pc = "fallback" /\ call'[c].pc \in {"idle", "revoke"}
    <3>1. \A p : [call[c] EXCEPT !.pc = "revoke", !.pair = p].pc = "revoke"
      BY <1>a DEF Call
    <3> QED BY <1>8, <1>a, <3>1 DEF FallBack, Becomes
  <2> QED BY <2>1 DEF StepsLeft
<1>9. CASE Revoke(c)
  <2>1. call[c].pc = "revoke" /\ call'[c].pc = "delete"
    BY <1>9, <1>a DEF Revoke, Goes, Call
  <2> QED BY <2>1 DEF StepsLeft
<1>10. CASE DeleteBegin(c)
  <2>1. call[c].pc = "delete" /\ call'[c].pc = "deleting"
    BY <1>10, <1>a DEF DeleteBegin, Goes, Call
  <2> QED BY <2>1 DEF StepsLeft
<1>11. CASE SyncEnds(c) \/ Delete(c) \/ SignInUpdate(c) \/ SignInInsert(c)
  <2>1. call[c].pc \in {"use", "deleting", "write"} /\ call'[c].pc = "idle"
    BY <1>11, <1>a DEF SyncEnds, Delete, SignInUpdate, SignInInsert, Becomes
  <2> QED BY <2>1 DEF StepsLeft
<1>12. CASE SignInBegin(c)
  <2>1. call[c].pc = "exchanged" /\ call'[c].pc = "select"
    BY <1>12, <1>a DEF SignInBegin, Goes, Call
  <2> QED BY <2>1 DEF StepsLeft
<1>13. CASE SignInSelect(c)
  <2>1. call[c].pc = "select" /\ call'[c].pc = "write"
    <3>1. \A i : [call[c] EXCEPT !.pc = "write", !.id = i].pc = "write"
      BY <1>a DEF Call
    <3> QED BY <1>13, <1>a, <3>1 DEF SignInSelect, Becomes
  <2> QED BY <2>1 DEF StepsLeft
<1> QED BY <1>1, <1>2, <1>3, <1>4, <1>5, <1>6, <1>7, <1>8, <1>9, <1>10, <1>11,
       <1>12, <1>13 DEF Progresses

\* A step of somebody else leaves a call where it is.
LEMMA OthersLeaveCalls ==
  ASSUME TypeOK, NEW c \in Callers, NEW d \in Callers \ {c}, Caller(d)
  PROVE  call'[c] = call[c]
BY DEF TypeOK, Caller, Progresses, EnsureStart, EnsureBegin, EnsureRead,
       GitHubRefreshes, GitHubRefuses, EnsurePersist, EnsureReject, EnsureErrs,
       SyncEnds, FallBack, Revoke, DeleteBegin, Delete, SignInExchange,
       SignInBegin, SignInSelect, SignInUpdate, SignInInsert, Abort, Goes,
       Becomes

\* No call goes on for ever: each has at most eight steps, whatever the
\* others do.  This is the part of EveryCallEnds that needs no fairness.
THEOREM CallsComeToAnEndHolds == Spec => CallsComeToAnEnd
<1>1. ASSUME TokenInv, [Next]_vars, NEW c \in Callers
      PROVE  /\ Progresses(c) \/ EnsureErrs(c) => StepsLeft(c)' < StepsLeft(c)
             /\ call[c] # Idle => StepsLeft(c)' <= StepsLeft(c)
  <2> USE <1>1 DEF TokenInv
  <2>1. Progresses(c) \/ EnsureErrs(c) => StepsLeft(c)' < StepsLeft(c)
    BY CallAdvances
  <2>2. StepsLeft(c) \in 0 .. 8 /\ StepsLeft(c)' \in 0 .. 8
    BY StepsLeftType DEF StepsLeft
  <2>3. ASSUME call'[c] = call[c] PROVE StepsLeft(c)' = StepsLeft(c)
    BY <2>3 DEF StepsLeft
  <2>4. ASSUME call[c] # Idle PROVE StepsLeft(c)' <= StepsLeft(c)
    <3>1. CASE Caller(c)
      <4>1. CASE Abort(c)
        <5>1. call'[c].pc = "idle"
          BY <4>1 DEF Abort, Becomes, TypeOK, Idle
        <5>2. StepsLeft(c)' = 0
          BY <5>1 DEF StepsLeft
        <5> QED BY <2>2, <5>2
      <4> QED BY <2>1, <2>2, <2>4, <3>1, <4>1
              DEF Caller, EnsureStart, SignInExchange
    <3>2. ASSUME NEW d \in Callers \ {c}, Caller(d)
          PROVE  StepsLeft(c)' <= StepsLeft(c)
      BY <2>2, <2>3, <3>2, OthersLeaveCalls
    <3>3. CASE Age \/ RevokedByUser \/ (\E p \in Pairs : LateRefresh(p))
               \/ UNCHANGED vars
      <4>1. call'[c] = call[c]
        BY <3>3 DEF Age, RevokedByUser, LateRefresh, vars
      <4> QED BY <2>2, <2>3, <4>1
    <3> QED BY <3>1, <3>2, <3>3 DEF Next
  <2> QED BY <2>1, <2>4
<1>2. TokenInv /\ [Next]_vars => [\A c \in Callers :
        /\ Progresses(c) \/ EnsureErrs(c) => StepsLeft(c)' < StepsLeft(c)
        /\ call[c] # Idle => StepsLeft(c)' <= StepsLeft(c)]_vars
  BY <1>1
<1> QED BY <1>2, TokenInvariant, PTL DEF CallsComeToAnEnd, Spec

\* However small the pool, calls never wait for one another in a circle: with
\* the rank above, this is why EveryCallEnds needs only that connections, the
\* row and GitHub's answers come to those who can have them.
THEOREM NoCircularWaitHolds == Spec => []NoCircularWait
<1>1. ASSUME TokenInv PROVE NoCircularWait
  <2> USE DEF LocksRow, Refreshing, Connected
  <2>1. ASSUME NEW c \in Callers, WaitsForRow(c)
        PROVE  \E d \in Callers \ {c} :
                 /\ LocksRow(d) /\ ~WaitsForRow(d) /\ ~WaitsForRoom(d)
                 /\ \A e \in Callers \ {d} : ~LocksRow(e)
    <3>1. PICK d \in Callers : LocksRow(d)
      BY <2>1 DEF WaitsForRow, RowIsFree
    <3>2. d # c /\ ~WaitsForRow(d) /\ ~WaitsForRoom(d)
      BY <2>1, <3>1 DEF WaitsForRow, WaitsForRoom
    <3>3. \A e \in Callers \ {d} : ~LocksRow(e)
      BY <1>1, <3>1 DEF TokenInv, TokenSafety, RowLock
    <3> QED BY <3>1, <3>2, <3>3
  <2>2. ASSUME NEW c \in Callers, WaitsForRoom(c)
        PROVE  \E d \in Connected \ {c} : ~WaitsForRow(d) /\ ~WaitsForRoom(d)
    <3>1. PICK e \in Connected : TRUE
      <4>1. Connected # {}
        BY <2>2, PoolAssumption, FS_EmptySet DEF WaitsForRoom, HasRoom
      <4> QED BY <4>1
    <3>2. CASE ~WaitsForRow(e)
      BY <2>2, <3>1, <3>2 DEF WaitsForRoom
    <3>3. CASE WaitsForRow(e)
      <4>1. PICK d \in Callers : LocksRow(d)
        BY <3>3 DEF WaitsForRow, RowIsFree
      <4>2. d \in Connected /\ d # c /\ ~WaitsForRow(d) /\ ~WaitsForRoom(d)
        BY <2>2, <4>1 DEF WaitsForRow, WaitsForRoom
      <4> QED BY <4>2
    <3> QED BY <3>2, <3>3
  <2> QED BY <2>1, <2>2 DEF NoCircularWait
<1> QED BY <1>1, TokenInvariant, PTL

=============================================================================
