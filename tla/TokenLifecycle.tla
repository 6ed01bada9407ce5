--------------------------- MODULE TokenLifecycle ---------------------------
(***************************************************************************)
(* The GitHub tokens of one person: the pairs GitHub has issued, the users *)
(* row that stores one of them, and the calls that work on both at once:   *)
(* ensure_fresh_token of a sync job, the /callback of a sign-in            *)
(* (src/github/oauth.rs) and /disconnect (src/routes.rs).  A refresh token *)
(* is good for one refresh; the row lock, the transaction and the bounded  *)
(* connection pool (src/state.rs) are what keeps the calls from losing it. *)
(***************************************************************************)
EXTENDS Naturals, FiniteSets

CONSTANTS
  Workers,    \* job workers, which run sync jobs
  Requests,   \* web requests that may be served at a time
  PoolSize,   \* connections of the pool (5)
  MaxPairs,   \* bound: the token pairs GitHub issues
  Null        \* no row, no value

ASSUME PoolAssumption == PoolSize \in Nat \ {0} /\ MaxPairs \in Nat

Callers == Workers \cup Requests

\* Pairs are numbered in the order GitHub issues them.
Pairs == 1 .. MaxPairs

VARIABLES
  issued,    \* GitHub: how many pairs it has issued
  spent,     \* GitHub: the pairs whose refresh token has been used
  revoked,   \* GitHub: the pairs whose grant was revoked
  inflight,  \* network: refresh requests that GitHub may still grant though
             \*          their caller no longer waits
  aged,      \* stored pairs whose access token expires within five minutes
  user,      \* the users row, or Null
  call,      \* what each caller is doing
  lost,      \* history: spent pairs whose successor never reached the row
  refusal    \* history: the first refresh GitHub has refused since the row
             \*          got its pair

github  == <<issued, spent, revoked>>
history == <<lost, refusal>>
vars    == <<issued, spent, revoked, inflight, aged, user, call, lost, refusal>>

-----------------------------------------------------------------------------
(* State *)

\* A new account gets a new user_id, named here by the first pair it stores.
User == [id : Pairs, status : {"active", "needs_reauth"}, pair : Pairs]

Kinds == {"sync", "disconnect", "signin"}

\* A refusal, and what the refused pair was good for.
Refusal == [pair : Pairs, was : {"dead", "live"}]

ASSUME NullAssumption ==
  /\ Null \notin Pairs /\ Null \notin User /\ Null \notin Kinds
  /\ Null \notin Refusal

\* Where a call may be: of ensure_fresh_token, of what a disconnect does after
\* it, and of the callback once GitHub has exchanged the code.
Ensuring == {"begin", "wait", "request", "answered", "refused"}
Leaving  == {"fallback", "revoke", "delete", "deleting"}
SigningIn == {"exchanged", "select", "write"}

\*   id     the account the call is for; in a callback, the row it has locked
\*   pair   the pair the call has read, or got for its code
\*   new    the pair GitHub has answered a refresh with
Call == [pc   : {"idle", "use"} \cup Ensuring \cup Leaving \cup SigningIn,
         kind : Kinds \cup {Null},
         id   : Pairs \cup {Null}, pair : Pairs \cup {Null},
         new  : Pairs \cup {Null}]

Idle == [pc |-> "idle", kind |-> Null, id |-> Null, pair |-> Null,
         new |-> Null]

Dead(p)  == p \in spent \cup revoked
Issued   == 1 .. issued
IsFor(c) == user # Null /\ user.id = call[c].id

\* The calls inside a transaction, which holds a connection of the pool.
Connected == {c \in Callers : call[c].pc \in
  {"wait", "request", "answered", "refused", "deleting", "select", "write"}}
HasRoom   == Cardinality(Connected) < PoolSize

\* The calls between SELECT ... FOR UPDATE and the end of their transaction.
Refreshing(c) == call[c].pc \in {"request", "answered", "refused"}
LocksRow(c)   == Refreshing(c) \/ (call[c].pc = "write" /\ call[c].id # Null)
RowIsFree     == \A c \in Callers : ~LocksRow(c)

Init ==
  /\ issued = 0 /\ spent = {} /\ revoked = {} /\ inflight = {}
  /\ aged = {}
  /\ user = Null
  /\ call = [c \in Callers |-> Idle]
  /\ lost = {}
  /\ refusal = Null

Goes(c, pc)    == call' = [call EXCEPT ![c].pc = pc]
Becomes(c, to) == call' = [call EXCEPT ![c] = to]

-----------------------------------------------------------------------------
(* GitHub and time *)

\* The stored access token comes within five minutes of its expiry.
Age ==
  /\ user # Null /\ user.pair \notin aged
  /\ aged' = aged \cup {user.pair}
  /\ UNCHANGED <<github, inflight, user, call, history>>

\* The grant goes, and with it all its pairs: no request is granted any more.
GrantEnds ==
  /\ revoked' = Issued /\ inflight' = {}
  /\ UNCHANGED <<issued, spent>>

\* The person revokes the app's authorization, or removes the app.
RevokedByUser ==
  /\ revoked # Issued
  /\ GrantEnds
  /\ UNCHANGED <<aged, user, call, history>>

\* GitHub takes a refresh token: it is spent when the new pair exists, and any
\* other request with it comes too late.
Rotates(p) ==
  /\ ~Dead(p)
  /\ issued < MaxPairs
  /\ issued' = issued + 1
  /\ spent' = spent \cup {p}
  /\ inflight' = inflight \ {p}
  /\ UNCHANGED revoked

\* A request whose caller has given up is served all the same.
LateRefresh(p) ==
  /\ p \in inflight
  /\ Rotates(p)
  /\ lost' = lost \cup {p}
  /\ UNCHANGED <<aged, user, call, refusal>>

-----------------------------------------------------------------------------
(* ensure_fresh_token, for a sync job or a disconnect *)

EnsureStart(c, kind) ==
  /\ call[c] = Idle
  /\ user # Null
  /\ Becomes(c, [Idle EXCEPT !.pc = "begin", !.kind = kind, !.id = user.id])
  /\ UNCHANGED <<github, inflight, aged, user, history>>

EnsureBegin(c) ==
  /\ call[c].pc = "begin"
  /\ HasRoom
  /\ Goes(c, "wait")
  /\ UNCHANGED <<github, inflight, aged, user, history>>

\* The call returns an error.  A sync job fails; a disconnect goes on.
Fails(c) ==
  IF call[c].kind = "disconnect"
  THEN [Idle EXCEPT !.pc = "fallback", !.kind = "disconnect",
                    !.id = call[c].id]
  ELSE Idle

\* The call returns the access token of pair p.
Returns(c, p) ==
  [pc   |-> IF call[c].kind = "sync" THEN "use" ELSE "revoke",
   kind |-> call[c].kind, id |-> call[c].id, pair |-> p, new |-> Null]

\* Faulty variant: a plain SELECT, which waits for nobody.
EnsureRead_NoLock(c) ==
  /\ call[c].pc = "wait"
  /\ call' = [call EXCEPT ![c] =
       IF ~IsFor(c) THEN Fails(c)
       ELSE IF user.pair \notin aged THEN Returns(c, user.pair)
       ELSE [@ EXCEPT !.pc = "request", !.pair = user.pair]]
  /\ UNCHANGED <<github, inflight, aged, user, history>>

\* Faulty variant: the token is refreshed however fresh it is.
EnsureRead_AlwaysRefreshes(c) ==
  /\ call[c].pc = "wait"
  /\ RowIsFree
  /\ call' = [call EXCEPT ![c] =
       IF ~IsFor(c) THEN Fails(c)
       ELSE [@ EXCEPT !.pc = "request", !.pair = user.pair]]
  /\ UNCHANGED <<github, inflight, aged, user, history>>

\* SELECT ... FOR UPDATE: the row is read when nobody else holds it.
EnsureRead(c) ==
  /\ call[c].pc = "wait"
  /\ RowIsFree
  /\ call' = [call EXCEPT ![c] =
       IF ~IsFor(c) THEN Fails(c)
       ELSE IF user.pair \notin aged THEN Returns(c, user.pair)
       ELSE [@ EXCEPT !.pc = "request", !.pair = user.pair]]
  /\ UNCHANGED <<github, inflight, aged, user, history>>

GitHubRefreshes(c) ==
  /\ call[c].pc = "request"
  /\ Rotates(call[c].pair)
  /\ Becomes(c, [call[c] EXCEPT !.pc = "answered", !.new = issued'])
  /\ UNCHANGED <<aged, user, history>>

\* A refusal: a status of 400 to 499, an error in the body, or no complete
\* pair in it.  It need not mean that the pair is dead: a rate limit is one,
\* and so is the successor of a live pair with a field missing.
GitHubRefuses(c) ==
  LET pair == call[c].pair
  IN  /\ call[c].pc = "request"
      /\ \/ UNCHANGED <<github, inflight, lost>>
         \/ Rotates(pair) /\ lost' = lost \cup {pair}
      /\ refusal' = IF refusal # Null THEN refusal
                    ELSE [pair |-> pair, was |-> IF Dead(pair) THEN "dead" ELSE "live"]
      /\ Goes(c, "refused")
      /\ UNCHANGED <<aged, user>>

\* Faulty variant: only the new access token is used, the row keeps its pair.
EnsurePersist_NotStored(c) ==
  /\ call[c].pc = "answered"
  /\ user' = [user EXCEPT !.status = "active"]
  /\ Becomes(c, Returns(c, call[c].new))
  /\ UNCHANGED <<github, inflight, aged, history>>

\* Faulty variant: the UPDATE goes through the pool, not the transaction.
EnsurePersist_OtherConnection(c) ==
  /\ call[c].pc = "answered"
  /\ HasRoom
  /\ user' = [user EXCEPT !.pair = call[c].new, !.status = "active"]
  /\ Becomes(c, Returns(c, call[c].new))
  /\ refusal' = Null
  /\ UNCHANGED <<github, inflight, aged, lost>>

\* Both new tokens are committed before the access token is handed out.
EnsurePersist(c) ==
  /\ call[c].pc = "answered"
  /\ user' = [user EXCEPT !.pair = call[c].new, !.status = "active"]
  /\ Becomes(c, Returns(c, call[c].new))
  /\ refusal' = Null
  /\ UNCHANGED <<github, inflight, aged, lost>>

\* Faulty variant: the status the SELECTs look for is spelt another way.
EnsureReject_Misspelt(c) ==
  /\ call[c].pc = "refused"
  /\ user' = [user EXCEPT !.status = "needs-reauth"]
  /\ Becomes(c, Fails(c))
  /\ UNCHANGED <<github, inflight, aged, history>>

\* Faulty variant: a refusal is an error like any other.
EnsureReject_StatusKept(c) ==
  /\ call[c].pc = "refused"
  /\ Becomes(c, Fails(c))
  /\ UNCHANGED <<github, inflight, aged, user, history>>

EnsureReject(c) ==
  /\ call[c].pc = "refused"
  /\ user' = [user EXCEPT !.status = "needs_reauth"]
  /\ Becomes(c, Fails(c))
  /\ UNCHANGED <<github, inflight, aged, history>>

\* What a call leaves behind when it gives up: a request on its way, which
\* GitHub may grant, or a pair that GitHub has issued and nobody stores.
Strands(c) ==
  /\ \/ UNCHANGED inflight
     \/ /\ call[c].pc = "request" /\ ~Dead(call[c].pair)
        /\ inflight' = inflight \cup {call[c].pair}
  /\ lost' = IF call[c].pc = "answered" THEN lost \cup {call[c].pair} ELSE lost

\* Faulty variant: no answer counts as a refusal.
EnsureErrs_Rejects(c) ==
  /\ call[c].pc \in Ensuring
  /\ user' = IF call[c].pc = "request"
             THEN [user EXCEPT !.status = "needs_reauth"] ELSE user
  /\ Becomes(c, Fails(c))
  /\ Strands(c)
  /\ UNCHANGED <<github, aged, refusal>>

\* Faulty variant: a disconnect ends where its refresh fails.
EnsureErrs_EndsDisconnect(c) ==
  /\ call[c].pc \in Ensuring
  /\ Becomes(c, Idle)
  /\ Strands(c)
  /\ UNCHANGED <<github, aged, user, refusal>>

\* No connection in time, no answer from GitHub, a statement that fails: the
\* transaction rolls back and the row stays as it is.
EnsureErrs(c) ==
  /\ call[c].pc \in Ensuring
  /\ Becomes(c, Fails(c))
  /\ Strands(c)
  /\ UNCHANGED <<github, aged, user, refusal>>

-----------------------------------------------------------------------------
(* The rest of a sync and of a disconnect *)

\* The sync has read what it wanted from GitHub.
SyncEnds(c) ==
  /\ call[c].pc = "use"
  /\ Becomes(c, Idle)
  /\ UNCHANGED <<github, inflight, aged, user, history>>

\* Without a fresh token a disconnect takes the stored one.
FallBack(c) ==
  /\ call[c].pc = "fallback"
  /\ HasRoom
  /\ Becomes(c, IF IsFor(c)
                THEN [call[c] EXCEPT !.pc = "revoke", !.pair = user.pair]
                ELSE Idle)
  /\ UNCHANGED <<github, inflight, aged, user, history>>

\* GitHub drops the whole grant if it still knows the token; an unknown token,
\* and any failure of the call, are logged at most.
Revoke(c) ==
  /\ call[c].pc = "revoke"
  /\ \/ UNCHANGED <<github, inflight>>
     \/ ~Dead(call[c].pair) /\ GrantEnds
  /\ Goes(c, "delete")
  /\ UNCHANGED <<aged, user, history>>

DeleteBegin(c) ==
  /\ call[c].pc = "delete"
  /\ HasRoom
  /\ Goes(c, "deleting")
  /\ UNCHANGED <<github, inflight, aged, user, history>>

\* DELETE FROM users waits for whoever has locked the row.
Delete(c) ==
  /\ call[c].pc = "deleting"
  /\ RowIsFree
  /\ user' = IF IsFor(c) THEN Null ELSE user
  /\ Becomes(c, Idle)
  /\ refusal' = IF IsFor(c) THEN Null ELSE refusal
  /\ UNCHANGED <<github, inflight, aged, lost>>

-----------------------------------------------------------------------------
(* The callback of a sign-in *)

\* The person authorizes the app; the code buys a pair of its own.
SignInExchange(c) ==
  /\ call[c] = Idle
  /\ issued < MaxPairs
  /\ issued' = issued + 1
  /\ Becomes(c, [Idle EXCEPT !.pc = "exchanged", !.kind = "signin",
                             !.pair = issued'])
  /\ UNCHANGED <<spent, revoked, inflight, aged, user, history>>

SignInBegin(c) ==
  /\ call[c].pc = "exchanged"
  /\ HasRoom
  /\ Goes(c, "select")
  /\ UNCHANGED <<github, inflight, aged, user, history>>

\* A row that exists is locked; of a missing one there is nothing to lock.
SignInSelect(c) ==
  /\ call[c].pc = "select"
  /\ RowIsFree
  /\ Becomes(c, [call[c] EXCEPT !.pc = "write",
                                !.id = IF user = Null THEN Null ELSE user.id])
  /\ UNCHANGED <<github, inflight, aged, user, history>>

SignInUpdate(c) ==
  /\ call[c].pc = "write" /\ call[c].id # Null
  /\ user' = [user EXCEPT !.pair = call[c].pair, !.status = "active"]
  /\ Becomes(c, Idle)
  /\ refusal' = Null
  /\ UNCHANGED <<github, inflight, aged, lost>>

\* Two first sign-ins at once: the second violates the unique github_user_id.
SignInInsert(c) ==
  /\ call[c].pc = "write" /\ call[c].id = Null
  /\ user' = IF user = Null
             THEN [id |-> call[c].pair, status |-> "active",
                   pair |-> call[c].pair]
             ELSE user
  /\ Becomes(c, Idle)
  /\ UNCHANGED <<github, inflight, aged, history>>

-----------------------------------------------------------------------------

\* A job dies with its process, a request with the browser that waits for it,
\* or a statement outside ensure_fresh_token fails.
Abort(c) ==
  /\ call[c] # Idle
  /\ Becomes(c, Idle)
  /\ Strands(c)
  /\ UNCHANGED <<github, aged, user, refusal>>

\* The steps that bring a call nearer to its end.
Progresses(c) ==
  \/ EnsureBegin(c) \/ EnsureRead(c)
  \/ GitHubRefreshes(c) \/ GitHubRefuses(c)
  \/ EnsurePersist(c) \/ EnsureReject(c)
  \/ SyncEnds(c)
  \/ FallBack(c) \/ Revoke(c) \/ DeleteBegin(c) \/ Delete(c)
  \/ SignInBegin(c) \/ SignInSelect(c) \/ SignInUpdate(c) \/ SignInInsert(c)

Caller(c) ==
  \/ c \in Workers /\ EnsureStart(c, "sync")
  \/ c \in Requests /\ (EnsureStart(c, "disconnect") \/ SignInExchange(c))
  \/ Progresses(c)
  \/ EnsureErrs(c)
  \/ Abort(c)

Next ==
  \/ Age \/ RevokedByUser
  \/ \E p \in Pairs : LateRefresh(p)
  \/ \E c \in Callers : Caller(c)

Spec == Init /\ [][Next]_vars

\* Connections and row locks are handed out in the order they were asked for,
\* and a request to GitHub is answered or breaks.
CallsGoOn == \A c \in Callers :
  SF_vars(Progresses(c) \/ (call[c].pc = "request" /\ EnsureErrs(c)))

\* The cron starts syncs of active users for ever, and tokens age.  Syncs that
\* are tried again and again do not all fail at the same point: one gets its
\* connection, one the row, one GitHub's answer, and one writes it down.
SyncsGoThrough ==
  /\ WF_vars(Age)
  /\ \A w \in Workers :
       /\ SF_vars(EnsureStart(w, "sync") /\ user.status = "active")
       /\ []<>(call[w].pc = "begin") => []<><<EnsureBegin(w)>>_vars
       /\ []<>(call[w].pc = "wait") => []<><<EnsureRead(w)>>_vars
       /\ SF_vars(GitHubRefuses(w) /\ Dead(call[w].pair))
       /\ SF_vars(EnsureReject(w))

LiveSpec == Spec /\ CallsGoOn /\ SyncsGoThrough

-----------------------------------------------------------------------------
(* Properties *)

TypeOK ==
  /\ issued \in 0 .. MaxPairs
  /\ spent \subseteq Pairs /\ revoked \subseteq Pairs
  /\ inflight \subseteq Pairs /\ aged \subseteq Pairs /\ lost \subseteq Pairs
  /\ user \in User \cup {Null}
  /\ call \in [Callers -> Call]
  /\ refusal \in Refusal \cup {Null}

\* What a refresh read before it asked GitHub is still what the row says when
\* it writes the answer: no sign-in, deletion or second refresh has come in
\* between (oauth.rs ensure_fresh_token, FOR UPDATE).
RefreshesCurrentPair == \A c \in Callers :
  Refreshing(c) => IsFor(c) /\ user.pair = call[c].pair

\* The refresh token in the row is good for a refresh, or was when the grant
\* was revoked, unless the answer to an earlier refresh was lost; rotation by
\* itself never leaves a spent token behind (oauth.rs ensure_fresh_token).
StoredPairUsable == user # Null /\ user.pair \in spent =>
  \/ user.pair \in lost
  \/ \E c \in Callers : call[c].pc = "answered" /\ call[c].pair = user.pair

\* Who has to sign in again holds a pair that GitHub itself has refused: no
\* outage, lost answer or late error does it, and no refusal of an earlier
\* pair reaches the one a sign-in has brought since (oauth.rs
\* TokenRequestError, ensure_fresh_token).  The refusal may have been about a
\* live pair: the code does not tell a rate limit from a dead token.
LockedOutOnlyIfRefused ==
  user # Null /\ user.status = "needs_reauth" =>
    refusal # Null /\ refusal.pair = user.pair

\* The token a sync is using is not rotated away under it by another call as
\* long as it has more than five minutes left (oauth.rs, the expiry check).
TokenSurvivesUse == \A c \in Callers :
  call[c].pc = "use" /\ call[c].pair \in spent => call[c].pair \in aged

\* A step of its own ends a disconnect only when the account is gone, whatever
\* becomes of its refresh and of its revocation (routes.rs disconnect, "local
\* deletion must never be blockable by GitHub flakiness").
DisconnectDeletes == [][\A c \in Callers :
  call[c].kind = "disconnect" /\ call'[c] = Idle
  /\ (Progresses(c) \/ EnsureErrs(c))
    => user' = Null \/ user'.id # call[c].id]_vars

\* Every call comes to an end: a refresh holds its connection and the row
\* while it waits for GitHub, but never needs what those who wait for the row
\* hold (oauth.rs ensure_fresh_token, state.rs max_connections).
EveryCallEnds == \A c \in Callers : call[c] # Idle ~> call[c] = Idle

\* A user whose grant is gone does not stay active for ever: syncs find out,
\* unless the user signs in again or leaves (oauth.rs, jobs.rs SyncUser).
DeadPairNoticed ==
  user # Null /\ user.status = "active" /\ Dead(user.pair)
    ~> user = Null \/ user.status # "active" \/ ~Dead(user.pair)

\* "so a GitHub blip doesn't force everyone back through OAuth"
\* (src/github/oauth.rs:382): who has to sign in again has lost the grant, or
\* was refused with a pair that GitHub still took, which the comment counts as
\* a definitive rejection ("4xx").
BlipForcesNobodyOut ==
  user # Null /\ user.status = "needs_reauth" =>
    user.pair \in revoked \/ refusal = [pair |-> user.pair, was |-> "live"]
=============================================================================
