--------------------------- MODULE Accounts_proofs ---------------------------
(***************************************************************************)
(* Whose rows, sessions and forms are whose, for any number of browsers,   *)
(* GitHub accounts, requests at a time and failures.                       *)
(***************************************************************************)
EXTENDS Accounts, TLAPS

Requested == {Idle} \cup Callback \cup Post

\* How far a callback is tells what it has in its hands.
Progress == \A q \in Requests :
  /\ request[q].pc \in {"insert", "links", "session", "set_user", "respond"} =>
       request[q].id \in Ids
  /\ request[q].pc \in {"set_user", "respond"} => request[q].session \in Sids

\* An OAuth state is known to the browser it was given to, and to callbacks of
\* that browser, which have passed the check.
StatesAreOwn ==
  /\ \A b \in Browsers : browser[b].state # Null =>
       browser[b].state <= drawn.states /\ begun[browser[b].state] = b
  /\ \A q \in Requests : request[q] \in Callback =>
       request[q].state <= drawn.states /\ begun[request[q].state] = request[q].by

\* An id that a callback is about to insert is in nobody else's hands.
IdsAreNew ==
  /\ \A i \in Ids : users[i] # Null => i <= drawn.ids
  /\ \A q \in Requests : request[q] \in Callback /\ request[q].id # Null =>
       request[q].id <= drawn.ids
  /\ \A q \in Requests : request[q].pc = "insert" =>
       /\ users[request[q].id] = Null
       /\ \A p \in Requests \ {q} :
            request[p] \in Callback => request[p].id # request[q].id

\* A session that a callback is about to give its user is in nobody else's
\* hands.
SessionsAreNew ==
  /\ \A b \in Browsers :
       /\ browser[b].session # Null => browser[b].session <= drawn.sids
       /\ browser[b].page # Null => browser[b].page.csrf <= drawn.sids
  /\ \A q \in Requests : request[q] \in Callback /\ request[q].session # Null =>
       request[q].session <= drawn.sids
  /\ \A q \in Requests : request[q].pc = "set_user" =>
       /\ \A b \in Browsers :
            /\ browser[b].session # request[q].session
            /\ browser[b].page # Null => browser[b].page.csrf # request[q].session
       /\ \A p \in Requests \ {q} :
            request[p] \in Callback => request[p].session # request[q].session

\* The row a callback has in its hands is of the person who authorized.
RowsAreOwn == \A q \in Requests :
  /\ request[q] \in Callback /\ request[q].pc # "insert"
  /\ request[q].id # Null /\ users[request[q].id] # Null
  => users[request[q].id].person = request[q].person

\* A session's user is the person who was granted it.
UsersAreGranted == \A s \in Sids :
  sessions[s] # Null /\ sessions[s].user # Null =>
    granted[s] # Null /\ users[sessions[s].user].person = granted[s].person

\* A browser has a session that was granted in it, or soon will.
CookiesAreGranted ==
  /\ \A b \in Browsers : browser[b].session # Null =>
       granted[browser[b].session] # Null /\ granted[browser[b].session].by = b
  /\ \A q \in Requests : request[q].pc = "respond" =>
       granted[request[q].session] =
         [by |-> request[q].by, person |-> request[q].person]

\* A page and the forms sent from it are of the user of its session.
PagesAreOwn ==
  /\ \A b \in Browsers : browser[b].page # Null =>
       LET s == browser[b].page.csrf IN
       sessions[s] # Null /\ sessions[s].user # Null =>
         sessions[s].user = browser[b].page.user
  /\ \A q \in Requests : request[q] \in Post =>
       request[q].user = request[q].page.user

Rows == TokensReadable /\ OneRowPerAccount /\ NoGhosts /\ IdsAreNew /\ RowsAreOwn

Sign == Progress /\ StatesAreOwn /\ SessionsAreNew

Grants == UsersAreGranted /\ CookiesAreGranted /\ PagesAreOwn

AccountsInv == TypeOK /\ Sign /\ Rows /\ Grants

-----------------------------------------------------------------------------
(* Types *)

\* Where a request stands tells what kind of request it is.
LEMMA Kinds ==
  ASSUME NEW r \in Requested
  PROVE  /\ r \in Callback <=> r.pc \in {"exchange", "select", "insert", "links",
                                         "session", "set_user", "respond"}
         /\ r \in Post <=> r.pc \in {"settings", "logout", "revoke", "delete",
                                     "destroy", "left"}
         /\ r = Idle <=> r.pc = "idle"
BY DEF Requested, Idle, Callback, Post

\* A request that moves on is still a request of its kind.
LEMMA GoesType ==
  ASSUME TypeOK, NEW q \in Requests, NEW pc, Goes(q, pc),
         \/ request[q] \in Callback /\ pc \in {"exchange", "select", "insert",
                              "links", "session", "set_user", "respond"}
         \/ request[q] \in Post /\ pc \in {"settings", "logout", "revoke",
                              "delete", "destroy", "left"}
  PROVE  request' \in [Requests -> Requested]
<1>1. [request[q] EXCEPT !.pc = pc] \in Requested
  BY DEF Callback, Post, Requested
<1> QED BY <1>1 DEF TypeOK, Goes, Becomes, Requested

\* A callback that is refused leaves everything typed.
LEMMA RefuseType ==
  ASSUME TypeOK, NEW q \in Requests, request[q] \in Callback, Refuse(q)
  PROVE  browser' \in [Browsers -> Browser] /\ request' \in [Requests -> Requested]
<1>1. request[q].by \in Browsers
  BY DEF Callback
<1>2. [browser[request[q].by] EXCEPT !.state = Null] \in Browser
  BY <1>1 DEF TypeOK, Browser
<1>3. browser' \in [Browsers -> Browser]
  BY <1>1, <1>2 DEF TypeOK, Refuse, WithoutState
<1>4. request' \in [Requests -> Requested]
  BY DEF TypeOK, Refuse, Becomes, Requested
<1> QED BY <1>3, <1>4

LEMMA InitTypeOK == Init => TypeOK
BY AccountsAssumption, AccountsNullAssumption
   DEF Init, TypeOK, Browser, Ids, Sids, States

LEMMA VisitType ==
  ASSUME TypeOK, NEW b \in Browsers, Visit(b) PROVE TypeOK'
<1> USE AccountsAssumption DEF TypeOK
<1>b. browser[b] \in Browser /\ browser[b].session \in Sids \cup {Null}
  BY DEF Browser
<1>1. CASE login(b)
  <2>1. drawn'.states \in 1 .. MaxLogins /\ drawn'.states = drawn.states + 1
    BY <1>1 DEF login
  <2>2. [browser[b] EXCEPT !.state = drawn'.states] \in Browser
    BY <1>b, <2>1 DEF Browser, States
  <2>3. drawn' \in [ids : 0 .. MaxUsers, sids : 0 .. MaxSessions, states : 0 .. MaxLogins]
    BY <1>1 DEF login
  <2>4. browser' \in [Browsers -> Browser] /\ begun' \in [States -> Browsers \cup {Null}]
    BY <1>1, <2>1, <2>2 DEF login, States
  <2> QED BY <1>1, <2>3, <2>4 DEF login
<1>2. CASE Forget(b)
  <2>1. [browser[b] EXCEPT !.state = Null] \in Browser
    BY <1>b DEF Browser
  <2> QED BY <1>2, <2>1 DEF Forget, Fault, history
<1>3. CASE ReapExpired(b)
  <2>1. [user |-> Null, old |-> FALSE] \in Session
    BY DEF Session
  <2> QED BY <1>3, <2>1 DEF ReapExpired, history
<1>4. CASE OpenPage(b)
  <2>1. browser[b].session \in Sids /\ UserOf(b) \in Ids
    BY <1>4, <1>b DEF OpenPage, CurrentUser, UserOf, Session
  <2>2. [browser[b] EXCEPT !.page = [csrf |-> browser[b].session, user |-> UserOf(b)]]
          \in Browser
    BY <1>b, <2>1 DEF Browser, Page
  <2> QED BY <1>4, <2>2 DEF OpenPage, history
<1>5. ASSUME NEW q \in Requests, NEW n \in 1 .. drawn.states,
             NEW person \in Persons \cup {Null}, callback(q, b, n, person)
      PROVE  TypeOK'
  <2>1. [browser[b] EXCEPT !.state = Null] \in Browser
    BY <1>b DEF Browser
  <2>2. n \in States
    BY DEF States
  <2>3. person # Null =>
          [pc |-> "exchange", by |-> b, state |-> n, person |-> person,
           id |-> Null, session |-> Null] \in Callback
    BY <2>2 DEF Callback
  <2> QED BY <1>5, <2>1, <2>3 DEF callback, Becomes, WithoutState, history
<1>6. ASSUME NEW q \in Requests, NEW pc \in {"settings", "revoke", "logout"},
             UserOf(b) # Null, Submit(q, b, pc)
      PROVE  TypeOK'
  <2>1. browser[b].session \in Sids /\ UserOf(b) \in Ids
    BY <1>6, <1>b DEF UserOf, Session
  <2>2. browser[b].page \in Page
    BY <1>6, <1>b DEF Submit, csrf_matches, Browser
  <2>3. [pc |-> pc, by |-> b, session |-> browser[b].session,
         user |-> UserOf(b), page |-> browser[b].page] \in Post
    BY <2>1, <2>2 DEF Post
  <2> QED BY <1>6, <2>3 DEF Submit, Becomes, history
<1> QED BY <1>1, <1>2, <1>3, <1>4, <1>5, <1>6
        DEF Visit, SubmitSettings, SubmitDisconnect, SubmitLogout, CurrentUser

LEMMA SignInType ==
  ASSUME TypeOK, Progress, StatesAreOwn, NEW q \in Requests, SignIn(q)
  PROVE  TypeOK'
<1> DEFINE me == request[q]
<1> USE AccountsAssumption DEF TypeOK
<1>r. me \in Requested
  BY DEF Requested
<1>c. me \in Callback /\ me.pc \in {"exchange", "select", "insert", "links",
                                    "session", "set_user", "respond"}
  BY <1>r, Kinds DEF SignIn, Exchange, UpdateUser, DrawUser, InsertUser,
     LinkInstallations, create, set_user, SignedIn
<1>f. /\ me.by \in Browsers /\ me.state \in States /\ me.person \in Persons
      /\ me.id \in Ids \cup {Null} /\ me.session \in Sids \cup {Null}
  BY <1>c DEF Callback
<1>1. CASE Exchange(q)
  BY <1>1, <1>c, GoesType, RefuseType DEF Exchange, Requested, history
<1>2. CASE UpdateUser(q)
  <2> PICK i \in RowsOf(me.person) :
        /\ users' = [users EXCEPT ![i].tokens = encrypt(me.person, i)]
        /\ Becomes(q, [me EXCEPT !.pc = "links", !.id = i])
    BY <1>2 DEF UpdateUser
  <2>1. i \in Ids /\ users[i] \in User
    BY DEF RowsOf
  <2>2. encrypt(me.person, i) \in Sealed
    BY <1>f, <2>1 DEF encrypt, Sealed
  <2>3. [users[i] EXCEPT !.tokens = encrypt(me.person, i)] \in User
    BY <2>1, <2>2 DEF User
  <2>4. [me EXCEPT !.pc = "links", !.id = i] \in Callback
    BY <1>c, <2>1 DEF Callback
  <2> HIDE DEF me
  <2> QED BY <1>2, <2>1, <2>3, <2>4 DEF UpdateUser, Becomes, history
<1>3. CASE DrawUser(q)
  <2>1. drawn'.ids \in Ids
    BY <1>3 DEF DrawUser, Ids
  <2>2. [me EXCEPT !.pc = "insert", !.id = drawn'.ids] \in Callback
    BY <1>c, <2>1 DEF Callback
  <2>3. drawn' \in [ids : 0 .. MaxUsers, sids : 0 .. MaxSessions, states : 0 .. MaxLogins]
    BY <1>3 DEF DrawUser
  <2>4. request' \in [Requests -> Requested]
    BY <1>3, <2>2 DEF DrawUser, Becomes, Requested
  <2> QED BY <1>3, <2>3, <2>4 DEF DrawUser, history, Requested
<1>4. CASE InsertUser(q)
  <2>1. me.id \in Ids => [person |-> me.person, tokens |-> encrypt(me.person, me.id),
                          paused |-> FALSE] \in User
    BY <1>f DEF encrypt, Sealed, User
  <2>2. me.id \notin Ids => \A v : [users EXCEPT ![me.id] = v] = users
    OBVIOUS
  <2>3. users' \in [Ids -> User \cup {Null}]
    BY <1>4, <2>1, <2>2 DEF InsertUser
  <2>4. browser' \in [Browsers -> Browser] /\ request' \in [Requests -> Requested]
    BY <1>4, <1>c, GoesType, RefuseType DEF InsertUser
  <2> QED BY <1>4, <2>3, <2>4 DEF InsertUser, history, Requested
<1>5. CASE LinkInstallations(q)
  BY <1>5, <1>c, GoesType, RefuseType DEF LinkInstallations, Requested, history
<1>6. CASE create(q)
  <2>1. drawn'.sids \in Sids
    BY <1>6 DEF create, Sids
  <2>2. [me EXCEPT !.pc = "set_user", !.session = drawn'.sids] \in Callback
    BY <1>c, <2>1 DEF Callback
  <2>3. drawn' \in [ids : 0 .. MaxUsers, sids : 0 .. MaxSessions, states : 0 .. MaxLogins]
    BY <1>6 DEF create
  <2>4. request' \in [Requests -> Requested]
    BY <1>6, <2>2 DEF create, Becomes, Requested
  <2>5. [user |-> Null, old |-> FALSE] \in Session
    BY DEF Session
  <2> QED BY <1>6, <2>1, <2>3, <2>4, <2>5 DEF create, history, Requested
<1>7. CASE set_user(q)
  <2>1. me.id \in Ids /\ me.session \in Sids /\ begun[me.state] = me.by
    BY <1>7, <1>c DEF set_user, Progress, StatesAreOwn
  <2>2. [user |-> me.id, old |-> FALSE] \in Session
    BY <2>1 DEF Session
  <2>3. [by |-> begun[me.state], person |-> me.person] \in Grant
    BY <1>f, <2>1 DEF Grant
  <2>4. /\ sessions' \in [Sids -> Session \cup {Null}]
        /\ granted' \in [Sids -> Grant \cup {Null}]
    BY <1>7, <2>1, <2>2, <2>3 DEF set_user
  <2>5. browser' \in [Browsers -> Browser] /\ request' \in [Requests -> Requested]
    BY <1>7, <1>c, GoesType, RefuseType DEF set_user
  <2> QED BY <1>7, <2>4, <2>5 DEF set_user, Requested
<1>8. CASE SignedIn(q)
  <2>1. [browser[me.by] EXCEPT !.state = Null, !.session = me.session] \in Browser
    <3>1. browser[me.by] \in Browser
      BY <1>f
    <3> HIDE DEF me
    <3> QED BY <1>f, <3>1 DEF Browser
  <2>2. browser' \in [Browsers -> Browser]
    BY <1>8, <1>f, <2>1 DEF SignedIn, WithoutState, Browser
  <2> QED BY <1>8, <2>2 DEF SignedIn, Becomes, Requested, history
<1> QED BY <1>1, <1>2, <1>3, <1>4, <1>5, <1>6, <1>7, <1>8 DEF SignIn

LEMMA FormType ==
  ASSUME TypeOK, NEW q \in Requests, Form(q) PROVE TypeOK'
<1> DEFINE me == request[q]
<1> USE AccountsAssumption DEF TypeOK
<1>c. /\ me \in Post
      /\ me.pc \in {"settings", "logout", "revoke", "delete", "destroy", "left"}
  BY Kinds DEF Form, update_settings, logout, RevokeGrant, DeleteUser, destroy,
     Disconnected, Requested
<1>f. me.by \in Browsers /\ me.session \in Sids /\ me.user \in Ids
  BY <1>c DEF Post
<1>n. [user |-> Null, old |-> FALSE] \in Session
  BY DEF Session
<1>1. ASSUME NEW paused \in BOOLEAN, update_settings(q, paused) PROVE TypeOK'
  <2>1. users[me.user] # Null => [users[me.user] EXCEPT !.paused = paused] \in User
    BY <1>f DEF User
  <2>2. users' \in [Ids -> User \cup {Null}]
    BY <1>1, <1>f, <2>1 DEF update_settings
  <2> QED BY <1>1, <2>2 DEF update_settings, Becomes, history
<1>2. CASE logout(q)
  BY <1>2, <1>f, <1>n DEF logout, Becomes, history
<1>3. CASE RevokeGrant(q)
  <2>1. request' \in [Requests -> Requested]
    BY <1>3, <1>c, GoesType DEF RevokeGrant, Becomes, Requested
  <2> QED BY <1>3, <2>1 DEF RevokeGrant, Requested, history
<1>4. CASE DeleteUser(q)
  <2>1. request' \in [Requests -> Requested]
    BY <1>4, <1>c, GoesType DEF DeleteUser
  <2>2. users' \in [Ids -> User \cup {Null}]
    BY <1>4, <1>f DEF DeleteUser
  <2>3. sessions' \in [Sids -> Session \cup {Null}]
    BY <1>4, <1>n DEF DeleteUser, Orphaned
  <2> QED BY <1>4, <2>1, <2>2, <2>3 DEF DeleteUser, Requested, history
<1>5. CASE destroy(q)
  <2>1. request' \in [Requests -> Requested]
    BY <1>5, <1>c, GoesType DEF destroy
  <2> QED BY <1>5, <2>1 DEF destroy, Requested, history
<1>6. CASE Disconnected(q)
  <2>1. [browser[me.by] EXCEPT !.session = Null] \in Browser
    BY <1>f DEF Browser
  <2> QED BY <1>6, <1>f, <2>1 DEF Disconnected, Becomes, history
<1> QED BY <1>1, <1>2, <1>3, <1>4, <1>5, <1>6 DEF Form

\* What comes from outside: a failure, thirty days, an unsubscribe link.
LEMMA OutsideType ==
  ASSUME TypeOK,
         \/ \E q \in Requests : Fails(q)
         \/ \E s \in Sids : Expire(s)
         \/ \E i \in Ids : unsubscribe_pause(i)
         \/ Restart
  PROVE  TypeOK'
<1> USE AccountsAssumption DEF TypeOK
<1>1. ASSUME NEW q \in Requests, Fails(q) PROVE TypeOK'
  <2>1. request[q] \in Callback =>
          /\ request[q].by \in Browsers
          /\ [browser[request[q].by] EXCEPT !.state = Null] \in Browser
    BY DEF Callback, Browser
  <2>2. browser' \in [Browsers -> Browser]
    BY <1>1, <2>1 DEF Fails, WithoutState
  <2> QED BY <1>1, <2>2 DEF Fails, Becomes, Fault, history
<1>2. ASSUME NEW s \in Sids, Expire(s) PROVE TypeOK'
  <2>1. [sessions[s] EXCEPT !.old = TRUE] \in Session
    BY <1>2 DEF Expire, Session
  <2> QED BY <1>2, <2>1 DEF Expire, Fault, history
<1>3. ASSUME NEW i \in Ids, unsubscribe_pause(i) PROVE TypeOK'
  <2>1. [users[i] EXCEPT !.paused = TRUE] \in User
    BY <1>3 DEF unsubscribe_pause, User
  <2> QED BY <1>3, <2>1 DEF unsubscribe_pause, history
<1>4. CASE Restart
  BY <1>4 DEF Restart, Fault, history
<1> QED BY <1>1, <1>2, <1>3, <1>4

LEMMA NextTypeOK ==
  ASSUME TypeOK, Progress, StatesAreOwn, [Next]_vars PROVE TypeOK'
<1>1. CASE UNCHANGED vars
  BY <1>1 DEF TypeOK, vars
<1> QED BY <1>1, VisitType, SignInType, FormType, OutsideType DEF Next

-----------------------------------------------------------------------------
(* What a step does to each part of the state *)

\* A callback that has passed the check of its state.
Begins(q) ==
  /\ request[q] = Idle /\ request'[q] \in Callback
  /\ request' = [request EXCEPT ![q] = request'[q]]
  /\ request'[q].pc = "exchange"
  /\ request'[q].id = Null /\ request'[q].session = Null
  /\ request'[q].state = browser[request'[q].by].state
  /\ UNCHANGED <<users, browser, granted, drawn, begun>>

\* A callback that goes on, with the same login in its hands.
Advances(q) ==
  /\ request[q] \in Callback /\ request'[q] \in Callback
  /\ request' = [request EXCEPT ![q] = request'[q]]
  /\ request'[q].by = request[q].by
  /\ request'[q].state = request[q].state
  /\ request'[q].person = request[q].person

\* The row, and then the session, come into a callback's hands.
Takes(q) ==
  LET id == request'[q].id  session == request'[q].session  pc == request'[q].pc IN
  \/ /\ request[q].pc = "exchange" /\ pc = "select"
     /\ id = request[q].id /\ session = request[q].session
     /\ UNCHANGED users
  \/ /\ request[q].pc = "links" /\ pc = "session"
     /\ id = request[q].id /\ session = request[q].session
     /\ UNCHANGED users
  \/ /\ request[q].pc = "select" /\ pc = "links"
     /\ id \in RowsOf(request[q].person) /\ session = request[q].session
  \/ /\ request[q].pc = "select" /\ pc = "insert"
     /\ id \in Ids /\ id = drawn.ids + 1 /\ drawn'.ids = id
     /\ session = request[q].session
     /\ UNCHANGED users
  \/ /\ request[q].pc = "insert" /\ pc = "links" /\ InsertUser(q)
     /\ id = request[q].id /\ session = request[q].session
     /\ users'[id] # Null /\ users'[id].person = request[q].person
  \/ /\ request[q].pc = "session" /\ pc = "set_user"
     /\ id = request[q].id
     /\ session \in Sids /\ session = drawn.sids + 1 /\ drawn'.sids = session
     /\ UNCHANGED <<users, browser>>
  \/ /\ request[q].pc = "set_user" /\ pc = "respond"
     /\ id = request[q].id /\ session = request[q].session
     /\ granted'[session] = [by |-> begun[request[q].state], person |-> request[q].person]
     /\ UNCHANGED users

\* A form that has passed the checks of its session.
Submits(q) ==
  LET b == request'[q].by IN
  /\ request[q] = Idle /\ request'[q] \in Post
  /\ UserOf(b) # Null /\ csrf_matches(b, browser[b].page)
  /\ request'[q].session = browser[b].session
  /\ request'[q].user = UserOf(b) /\ request'[q].page = browser[b].page
  /\ UNCHANGED <<sessions, browser>>

\* A form that is being acted on.
Continues(q) ==
  /\ request[q] \in Post /\ request'[q] \in Post
  /\ request'[q].by = request[q].by /\ request'[q].session = request[q].session
  /\ request'[q].user = request[q].user /\ request'[q].page = request[q].page

LEMMA SignInRequest ==
  ASSUME TypeOK, NEW q \in Requests, SignIn(q), Progress
  PROVE  /\ \A p \in Requests \ {q} : request'[p] = request[p]
         /\ request'[q] = Idle \/ (Advances(q) /\ Takes(q))
<1> DEFINE me == request[q]
<1> USE AccountsAssumption DEF TypeOK
<1>r. me \in Requested
  BY DEF Requested
<1>c. me \in Callback
  BY <1>r, Kinds DEF SignIn, Exchange, UpdateUser, DrawUser, InsertUser,
     LinkInstallations, create, set_user, SignedIn
<1>o. (\E v : Becomes(q, v)) \/ Refuse(q) =>
        \A p \in Requests \ {q} : request'[p] = request[p]
  BY DEF Refuse, Becomes
<1>i. Refuse(q) => request'[q] = Idle
  BY DEF Refuse, Becomes
<1>g. ASSUME NEW pc \in {"exchange", "select", "insert", "links",
                          "session", "set_user", "respond"}, Goes(q, pc)
      PROVE  /\ Advances(q) /\ request'[q].pc = pc
             /\ request'[q].id = me.id /\ request'[q].session = me.session
  <2>1. request'[q] = [me EXCEPT !.pc = pc]
    BY <1>g DEF Goes, Becomes
  <2>2. [me EXCEPT !.pc = pc] \in Callback
    BY <1>c DEF Callback
  <2> QED BY <1>c, <1>g, <2>1, <2>2 DEF Callback, Advances, Goes, Becomes
<1>1. CASE Exchange(q)
  BY <1>1, <1>o, <1>i, <1>g DEF Exchange, Goes, Takes
<1>2. CASE UpdateUser(q)
  <2> PICK i \in RowsOf(me.person) : Becomes(q, [me EXCEPT !.pc = "links", !.id = i])
    BY <1>2 DEF UpdateUser
  <2>1. request'[q] = [me EXCEPT !.pc = "links", !.id = i] /\ i \in Ids
    BY DEF Becomes, RowsOf
  <2>2. [me EXCEPT !.pc = "links", !.id = i] \in Callback
    BY <1>c, <2>1 DEF Callback
  <2>3. Advances(q) /\ request'[q].pc = "links" /\ request'[q].id = i
        /\ request'[q].session = me.session
    BY <1>c, <2>1, <2>2 DEF Callback, Advances, Becomes
  <2> QED BY <1>2, <1>o, <2>3 DEF UpdateUser, Takes
<1>3. CASE DrawUser(q)
  <2>1. /\ drawn'.ids \in Ids /\ drawn'.ids = drawn.ids + 1
        /\ request'[q] = [me EXCEPT !.pc = "insert", !.id = drawn'.ids]
    BY <1>3 DEF DrawUser, Ids, Becomes
  <2>2. [me EXCEPT !.pc = "insert", !.id = drawn'.ids] \in Callback
    BY <1>c, <2>1 DEF Callback
  <2>3. Advances(q) /\ request'[q].pc = "insert" /\ request'[q].id = drawn'.ids
        /\ request'[q].session = me.session
    BY <1>3, <1>c, <2>1, <2>2 DEF Callback, Advances, Becomes, DrawUser
  <2> QED BY <1>3, <1>o, <2>1, <2>3 DEF DrawUser, Takes
<1>4. CASE InsertUser(q)
  <2>1. CASE Refuse(q)
    BY <2>1, <1>o, <1>i
  <2>2. CASE RowsOf(me.person) = {}
    <3>1. me.pc = "insert" /\ Goes(q, "links")
      BY <1>4, <2>2 DEF InsertUser
    <3>2. me.id \in Ids
      BY <3>1 DEF Progress
    <3>3. users'[me.id] = [person |-> me.person, tokens |-> encrypt(me.person, me.id),
                           paused |-> FALSE]
      BY <1>4, <2>2, <3>2 DEF InsertUser
    <3>4. users'[me.id] # Null
      <4>1. encrypt(me.person, me.id) \in Sealed /\ me.person \in Persons
        BY <3>2, <1>c DEF Callback, Sealed, encrypt
      <4>2. [person |-> me.person, tokens |-> encrypt(me.person, me.id),
             paused |-> FALSE] \in User
        BY <4>1 DEF User
      <4> QED BY <3>3, <4>2, AccountsNullAssumption
    <3>5. users'[me.id].person = me.person
      BY <3>3
    <3> HIDE DEF me
    <3> QED BY <1>4, <1>o, <1>g, <3>1, <3>4, <3>5 DEF Goes, Takes, me
  <2> QED BY <1>4, <2>1, <2>2 DEF InsertUser
<1>5. CASE LinkInstallations(q)
  BY <1>5, <1>o, <1>i, <1>g DEF LinkInstallations, Goes, Takes
<1>6. CASE create(q)
  <2>1. /\ drawn'.sids \in Sids /\ drawn'.sids = drawn.sids + 1
        /\ request'[q] = [me EXCEPT !.pc = "set_user", !.session = drawn'.sids]
    BY <1>6 DEF create, Sids, Becomes
  <2>2. [me EXCEPT !.pc = "set_user", !.session = drawn'.sids] \in Callback
    BY <1>c, <2>1 DEF Callback
  <2>3. Advances(q) /\ request'[q].pc = "set_user" /\ request'[q].id = me.id
        /\ request'[q].session = drawn'.sids
    BY <1>6, <1>c, <2>1, <2>2 DEF Callback, Advances, Becomes, create
  <2> QED BY <1>6, <1>o, <2>1, <2>3 DEF create, Takes
<1>7. CASE set_user(q)
  <2>1. CASE Refuse(q)
    BY <2>1, <1>o, <1>i
  <2>2. CASE users[me.id] # Null
    <3>1. me.session \in Sids
      BY <1>7 DEF set_user, Progress
    <3>2. granted'[me.session] = [by |-> begun[me.state], person |-> me.person]
      BY <1>7, <2>2, <3>1 DEF set_user
    <3> QED BY <1>7, <1>o, <1>g, <2>2, <3>2 DEF set_user, Goes, Takes
  <2> QED BY <1>7, <2>1, <2>2 DEF set_user
<1>8. CASE SignedIn(q)
  BY <1>8, <1>o DEF SignedIn, Becomes
<1> QED BY <1>1, <1>2, <1>3, <1>4, <1>5, <1>6, <1>7, <1>8 DEF SignIn

LEMMA RequestChange ==
  ASSUME TypeOK, Progress, [Next]_vars, NEW q \in Requests
  PROVE  \/ request'[q] = request[q] \/ request'[q] = Idle
         \/ Begins(q) \/ (Advances(q) /\ Takes(q))
         \/ Submits(q) \/ Continues(q)
<1> USE DEF TypeOK
<1>1. ASSUME NEW b \in Browsers, Visit(b)
      PROVE  request'[q] = request[q] \/ Begins(q) \/ Submits(q)
  <2>1. ASSUME NEW p \in Requests, NEW n \in 1 .. drawn.states,
               NEW person \in Persons \cup {Null}, callback(p, b, n, person)
        PROVE  request'[q] = request[q] \/ Begins(q)
    <3>1. CASE UNCHANGED request
      BY <3>1
    <3>2. CASE request' # request
      <4>1. /\ browser[b].state # Null /\ n = browser[b].state /\ person # Null
            /\ UNCHANGED browser /\ request[p] = Idle
            /\ Becomes(p, [pc |-> "exchange", by |-> b, state |-> n,
                           person |-> person, id |-> Null, session |-> Null])
        BY <2>1, <3>2 DEF callback
      <4>2. n \in States
        BY <4>1 DEF Browser
      <4>3. [pc |-> "exchange", by |-> b, state |-> n, person |-> person,
             id |-> Null, session |-> Null] \in Callback
        BY <4>1, <4>2 DEF Callback
      <4> QED BY <2>1, <4>1, <4>3 DEF Becomes, Begins, callback, history
    <3> QED BY <3>1, <3>2
  <2>2. ASSUME NEW p \in Requests, NEW pc \in {"settings", "revoke", "logout"},
               UserOf(b) # Null, Submit(p, b, pc)
        PROVE  request'[q] = request[q] \/ Submits(q)
    <3>1. CASE p # q
      BY <2>2, <3>1 DEF Submit, Becomes
    <3>2. CASE p = q
      <4>1. request'[q] = [pc |-> pc, by |-> b, session |-> browser[b].session,
                           user |-> UserOf(b), page |-> browser[b].page]
        BY <2>2, <3>2 DEF Submit, Becomes
      <4>2. request'[q] \in Post
        <5>1. browser[b].session \in Sids /\ UserOf(b) \in Ids
          BY <2>2 DEF UserOf, Session, Browser
        <5>2. browser[b].page \in Page
          BY <2>2 DEF Submit, csrf_matches, Browser
        <5> QED BY <4>1, <5>1, <5>2 DEF Post
      <4> QED BY <2>2, <3>2, <4>1, <4>2 DEF Submit, Submits
    <3> QED BY <3>1, <3>2
  <2> QED BY <1>1, <2>1, <2>2
          DEF Visit, login, Forget, ReapExpired, OpenPage, SubmitSettings,
              SubmitDisconnect, SubmitLogout, CurrentUser
<1>2. ASSUME NEW p \in Requests, SignIn(p)
      PROVE  request'[q] = request[q] \/ request'[q] = Idle \/ (Advances(q) /\ Takes(q))
  BY <1>2, SignInRequest
<1>3. ASSUME NEW p \in Requests, Form(p)
      PROVE  request'[q] = request[q] \/ request'[q] = Idle \/ Continues(q)
  <2>c. request[p] \in Post
    BY <1>3, Kinds DEF Form, update_settings, logout, RevokeGrant, DeleteUser,
       destroy, Disconnected, Requested
  <2>1. ASSUME NEW pc \in {"delete", "destroy", "left"}, Goes(p, pc)
        PROVE  request'[q] = request[q] \/ Continues(q)
    <3>1. [request[p] EXCEPT !.pc = pc] \in Post
      BY <2>c DEF Post
    <3> QED BY <2>c, <2>1, <3>1 DEF Goes, Becomes, Continues, Post
  <2>2. ASSUME Becomes(p, Idle) PROVE request'[q] = request[q] \/ request'[q] = Idle
    BY <2>2 DEF Becomes
  <2> QED BY <1>3, <2>1, <2>2
          DEF Form, update_settings, logout, RevokeGrant, DeleteUser, destroy,
              Disconnected
<1>4. ASSUME \/ \E p \in Requests : Fails(p)
             \/ \E s \in Sids : Expire(s)
             \/ \E i \in Ids : unsubscribe_pause(i)
             \/ Restart
      PROVE  request'[q] = request[q] \/ request'[q] = Idle
  BY <1>4 DEF Fails, Expire, unsubscribe_pause, Restart, Becomes
<1>5. CASE UNCHANGED vars
  BY <1>5 DEF vars
<1> QED BY <1>1, <1>2, <1>3, <1>4, <1>5 DEF Next

\* The row i stays its person's, is inserted, or is deleted.
Kept(i) ==
  /\ users[i] # Null /\ users'[i] # Null
  /\ users'[i].person = users[i].person
  /\ users'[i].tokens \in {users[i].tokens, encrypt(users[i].person, i)}
  /\ users[i].paused /\ ~users'[i].paused =>
       \E q \in Requests : request[q].pc = "settings" /\ request[q].user = i

Inserted(i) == \E q \in Requests :
  /\ request[q] \in Callback /\ request[q].pc = "insert" /\ request[q].id = i
  /\ InsertUser(q)
  /\ RowsOf(request[q].person) = {}
  /\ users' = [users EXCEPT ![i] = [person |-> request[q].person,
        tokens |-> encrypt(request[q].person, i), paused |-> FALSE]]
  /\ users'[i] # Null
  /\ UNCHANGED sessions

Deleted(i) == \E q \in Requests :
  /\ request[q].pc = "delete" /\ request[q].user = i
  /\ users'[i] = Null
  /\ sessions' = Orphaned(i)

LEMMA UsersChange ==
  ASSUME TypeOK, Progress, [Next]_vars, NEW i \in Ids
  PROVE  users'[i] = users[i] \/ Kept(i) \/ Inserted(i) \/ Deleted(i)
<1> USE AccountsAssumption, AccountsNullAssumption DEF TypeOK
<1>1. ASSUME NEW q \in Requests, UpdateUser(q)
      PROVE  users'[i] = users[i] \/ Kept(i)
  <2> PICK j \in RowsOf(request[q].person) :
        users' = [users EXCEPT ![j].tokens = encrypt(request[q].person, j)]
    BY <1>1 DEF UpdateUser
  <2>1. CASE i # j
    BY <2>1
  <2>2. CASE i = j
    <3>1. users[i] \in User /\ users[i].person = request[q].person
      BY <2>2 DEF RowsOf
    <3>2. request[q] \in Callback
      BY <1>1, Kinds DEF UpdateUser, Requested
    <3>3. encrypt(request[q].person, i) \in Sealed
      BY <3>2 DEF encrypt, Sealed, Callback
    <3>4. users'[i] = [users[i] EXCEPT !.tokens = encrypt(users[i].person, i)]
      BY <2>2, <3>1
    <3>5. users'[i] \in User /\ users'[i].person = users[i].person
          /\ users'[i].paused = users[i].paused
          /\ users'[i].tokens = encrypt(users[i].person, i)
      BY <3>1, <3>3, <3>4 DEF User
    <3> QED BY <3>1, <3>5 DEF Kept
  <2> QED BY <2>1, <2>2
<1>2. ASSUME NEW q \in Requests, InsertUser(q)
      PROVE  users'[i] = users[i] \/ Inserted(i)
  <2> DEFINE row == [person |-> request[q].person,
                     tokens |-> encrypt(request[q].person, request[q].id),
                     paused |-> FALSE]
  <2>1. request[q] \in Callback /\ request[q].pc = "insert" /\ request[q].id \in Ids
    BY <1>2, Kinds DEF InsertUser, Requested, Progress
  <2>2. CASE UNCHANGED users
    BY <2>2
  <2>3. CASE RowsOf(request[q].person) = {}
    <3>1. users' = [users EXCEPT ![request[q].id] = row]
      BY <1>2, <2>3 DEF InsertUser
    <3>2. CASE request[q].id # i
      BY <3>1, <3>2
    <3>3. CASE request[q].id = i
      <4>1. encrypt(request[q].person, i) \in Sealed /\ request[q].person \in Persons
        BY <2>1, <3>3 DEF encrypt, Sealed, Callback
      <4>2. row \in User
        BY <3>3, <4>1 DEF User
      <4>3. users'[i] # Null
        BY <3>1, <3>3, <4>2
      <4>4. users' = [users EXCEPT ![i] = [person |-> request[q].person,
              tokens |-> encrypt(request[q].person, i), paused |-> FALSE]]
        BY <3>1, <3>3
      <4>5. UNCHANGED sessions
        BY <1>2 DEF InsertUser
      <4> QED BY <1>2, <2>1, <2>3, <3>3, <4>3, <4>4, <4>5 DEF Inserted
    <3> QED BY <3>2, <3>3
  <2> QED BY <1>2, <2>2, <2>3 DEF InsertUser
<1>3. ASSUME NEW q \in Requests, NEW paused \in BOOLEAN, update_settings(q, paused)
      PROVE  users'[i] = users[i] \/ Kept(i)
  <2>1. CASE users'[i] = users[i]
    BY <2>1
  <2>2. CASE users'[i] # users[i]
    <3>1. /\ request[q].pc = "settings" /\ request[q].user = i /\ users[i] \in User
          /\ users'[i] = [users[i] EXCEPT !.paused = paused]
      BY <1>3, <2>2 DEF update_settings
    <3>2. /\ users'[i] \in User /\ users'[i].person = users[i].person
          /\ users'[i].tokens = users[i].tokens
      BY <3>1 DEF User
    <3> QED BY <3>1, <3>2 DEF Kept
  <2> QED BY <2>1, <2>2
<1>4. ASSUME NEW q \in Requests, DeleteUser(q)
      PROVE  users'[i] = users[i] \/ Deleted(i)
  BY <1>4 DEF DeleteUser, Deleted
<1>5. ASSUME NEW j \in Ids, unsubscribe_pause(j)
      PROVE  users'[i] = users[i] \/ Kept(i)
  <2>1. CASE i # j
    BY <1>5, <2>1 DEF unsubscribe_pause
  <2>2. CASE i = j
    <3>1. users[i] \in User /\ users'[i] = [users[i] EXCEPT !.paused = TRUE]
      BY <1>5, <2>2 DEF unsubscribe_pause
    <3>2. /\ users'[i] \in User /\ users'[i].person = users[i].person
          /\ users'[i].tokens = users[i].tokens /\ users'[i].paused
      BY <3>1 DEF User
    <3> QED BY <3>1, <3>2 DEF Kept
  <2> QED BY <2>1, <2>2
<1>6. ASSUME NEW b \in Browsers, Visit(b) PROVE UNCHANGED users
  BY <1>6 DEF Visit, login, Forget, ReapExpired, OpenPage, callback,
     SubmitSettings, SubmitDisconnect, SubmitLogout, Submit
<1>7. ASSUME NEW q \in Requests,
             \/ Exchange(q) \/ DrawUser(q) \/ LinkInstallations(q)
             \/ create(q) \/ set_user(q) \/ SignedIn(q)
             \/ logout(q) \/ RevokeGrant(q) \/ destroy(q) \/ Disconnected(q)
             \/ Fails(q)
      PROVE  UNCHANGED users
  BY <1>7 DEF Exchange, DrawUser, LinkInstallations, create, set_user, SignedIn,
     logout, RevokeGrant, destroy, Disconnected, Fails
<1>8. CASE (\E s \in Sids : Expire(s)) \/ Restart \/ UNCHANGED vars
  BY <1>8 DEF Expire, Restart, vars
<1> QED BY <1>1, <1>2, <1>3, <1>4, <1>5, <1>6, <1>7, <1>8 DEF Next, SignIn, Form

\* A session gets its user once, from the callback that made it.
SetsUser(q, s) ==
  /\ request[q] \in Callback /\ request[q].pc = "set_user"
  /\ set_user(q) /\ request[q].session = s
  /\ users[request[q].id] # Null /\ UNCHANGED users
  /\ sessions' = [sessions EXCEPT ![s] = [user |-> request[q].id, old |-> FALSE]]
  /\ granted' = [granted EXCEPT ![s] =
                   [by |-> begun[request[q].state], person |-> request[q].person]]

\* Otherwise it keeps the one it has or loses it.
SameUser(s) ==
  /\ granted'[s] = granted[s]
  /\ sessions'[s] # Null /\ sessions'[s].user # Null =>
       sessions[s] # Null /\ sessions'[s].user = sessions[s].user

LEMMA SessionsChange ==
  ASSUME TypeOK, Progress, [Next]_vars, NEW s \in Sids
  PROVE  SameUser(s) \/ \E q \in Requests : SetsUser(q, s)
<1> USE AccountsAssumption, AccountsNullAssumption DEF TypeOK
<1>1. ASSUME NEW q \in Requests, set_user(q)
      PROVE  SameUser(s) \/ \E p \in Requests : SetsUser(p, s)
  <2>1. /\ request[q] \in Callback /\ request[q].pc = "set_user"
        /\ request[q].session \in Sids
    BY <1>1, Kinds DEF set_user, Requested, Progress
  <2>2. CASE UNCHANGED <<sessions, granted>>
    BY <2>2 DEF SameUser
  <2>3. CASE users[request[q].id] # Null
    BY <1>1, <2>1, <2>3 DEF SameUser, set_user, SetsUser
  <2> QED BY <1>1, <2>2, <2>3 DEF set_user
<1>2. ASSUME NEW b \in Browsers, Visit(b) PROVE SameUser(s)
  <2>1. CASE ReapExpired(b)
    BY <2>1 DEF SameUser, ReapExpired, history
  <2> QED BY <1>2, <2>1
          DEF SameUser, Visit, login, Forget, OpenPage, callback, SubmitSettings,
              SubmitDisconnect, SubmitLogout, Submit, history
<1>3. ASSUME NEW q \in Requests, create(q) PROVE SameUser(s)
  BY <1>3 DEF SameUser, create, history
<1>4. ASSUME NEW q \in Requests, logout(q) PROVE SameUser(s)
  BY <1>4 DEF SameUser, logout, history
<1>5. ASSUME NEW q \in Requests, DeleteUser(q) PROVE SameUser(s)
  BY <1>5 DEF SameUser, DeleteUser, Orphaned, history
<1>6. ASSUME NEW q \in Requests, destroy(q) PROVE SameUser(s)
  BY <1>6 DEF SameUser, destroy, history
<1>7. ASSUME NEW t \in Sids, Expire(t) PROVE SameUser(s)
  <2>1. sessions[t] \in Session /\ sessions' = [sessions EXCEPT ![t] =
          [sessions[t] EXCEPT !.old = TRUE]]
    BY <1>7 DEF Expire
  <2>2. [sessions[t] EXCEPT !.old = TRUE].user = sessions[t].user
    BY <2>1 DEF Session
  <2> QED BY <1>7, <2>1, <2>2 DEF SameUser, Expire, history
<1>8. ASSUME NEW q \in Requests,
             \/ Exchange(q) \/ UpdateUser(q) \/ DrawUser(q) \/ InsertUser(q)
             \/ LinkInstallations(q) \/ SignedIn(q)
             \/ RevokeGrant(q) \/ Disconnected(q) \/ Fails(q)
             \/ \E paused \in BOOLEAN : update_settings(q, paused)
      PROVE  SameUser(s)
  <2>1. UNCHANGED <<sessions, granted>>
    BY <1>8 DEF Exchange, UpdateUser, DrawUser, InsertUser, LinkInstallations,
       SignedIn, RevokeGrant, Disconnected, Fails, update_settings, history
  <2> QED BY <2>1 DEF SameUser
<1>9. CASE (\E i \in Ids : unsubscribe_pause(i)) \/ Restart \/ UNCHANGED vars
  BY <1>9 DEF SameUser, unsubscribe_pause, Restart, vars, history
<1>10. ASSUME NEW q \in Requests, SignIn(q) \/ Form(q) \/ Fails(q)
       PROVE  SameUser(s) \/ \E p \in Requests : SetsUser(p, s)
  BY <1>1, <1>3, <1>4, <1>5, <1>6, <1>8, <1>10 DEF SignIn, Form
<1> QED BY <1>2, <1>7, <1>9, <1>10 DEF Next

\* A browser gets a state from /login, a session from a callback of its own, and
\* a page for the session it has.
LEMMA BrowserChange ==
  ASSUME TypeOK, Progress, [Next]_vars, NEW b \in Browsers
  PROVE  /\ \/ browser'[b].state \in {browser[b].state, Null}
            \/ /\ browser'[b].state = drawn.states + 1
               /\ drawn'.states = drawn.states + 1
               /\ begun' = [begun EXCEPT ![drawn'.states] = b]
         /\ \/ browser'[b].session \in {browser[b].session, Null}
            \/ \E q \in Requests :
                 /\ request[q] \in Callback /\ request[q].pc = "respond"
                 /\ request[q].by = b /\ browser'[b].session = request[q].session
                 /\ request'[q] = Idle
                 /\ \A p \in Requests \ {q} : request'[p] = request[p]
                 /\ UNCHANGED <<sessions, granted>>
         /\ \/ browser'[b].page = browser[b].page
            \/ /\ UserOf(b) # Null
               /\ browser'[b].page = [csrf |-> browser[b].session, user |-> UserOf(b)]
               /\ browser'[b].session = browser[b].session
               /\ UNCHANGED <<sessions, request, drawn>>
<1> USE AccountsAssumption, AccountsNullAssumption DEF TypeOK
<1> DEFINE
      Same == /\ browser'[b].state \in {browser[b].state, Null}
              /\ browser'[b].session \in {browser[b].session, Null}
              /\ browser'[b].page = browser[b].page
<1>b. \A a \in Browsers : browser[a] \in Browser
  OBVIOUS
<1>w. ASSUME NEW a \in Browsers, browser' = WithoutState(a) PROVE Same
  BY <1>b, <1>w DEF WithoutState, Browser
<1>u. ASSUME UNCHANGED browser PROVE Same
  BY <1>u
<1>1. ASSUME NEW a \in Browsers, login(a) PROVE
        /\ \/ browser'[b].state = browser[b].state
           \/ /\ browser'[b].state = drawn.states + 1
              /\ drawn'.states = drawn.states + 1
              /\ begun' = [begun EXCEPT ![drawn'.states] = b]
        /\ browser'[b].session = browser[b].session
        /\ browser'[b].page = browser[b].page
  <2>1. browser' = [browser EXCEPT ![a] = [browser[a] EXCEPT !.state = drawn'.states]]
        /\ drawn'.states = drawn.states + 1
    BY <1>1 DEF login
  <2>2. CASE a # b
    BY <2>1, <2>2
  <2>3. CASE a = b
    <3>1. browser'[b] = [browser[b] EXCEPT !.state = drawn'.states]
      BY <2>1, <2>3
    <3>2. browser'[b].state = drawn'.states /\ browser'[b].session = browser[b].session
          /\ browser'[b].page = browser[b].page
      BY <1>b, <3>1 DEF Browser
    <3> QED BY <1>1, <2>1, <2>3, <3>2 DEF login
  <2> QED BY <2>2, <2>3
<1>2. ASSUME NEW a \in Browsers, Forget(a) PROVE Same
  BY <1>2, <1>w DEF Forget, WithoutState
<1>3. ASSUME NEW a \in Browsers, OpenPage(a) PROVE
        /\ browser'[b].state = browser[b].state
        /\ browser'[b].session = browser[b].session
        /\ \/ browser'[b].page = browser[b].page
           \/ /\ UserOf(b) # Null
              /\ browser'[b].page = [csrf |-> browser[b].session, user |-> UserOf(b)]
              /\ UNCHANGED <<sessions, request, drawn>>
  <2>1. browser' = [browser EXCEPT ![a] = [browser[a] EXCEPT
           !.page = [csrf |-> browser[a].session, user |-> UserOf(a)]]]
    BY <1>3 DEF OpenPage
  <2> QED BY <1>3, <1>b, <2>1 DEF OpenPage, CurrentUser, Browser
<1>4. ASSUME NEW a \in Browsers, Visit(a), ~login(a), ~OpenPage(a) PROVE Same
  BY <1>4, <1>2, <1>u, <1>w
     DEF Visit, ReapExpired, callback, SubmitSettings, SubmitDisconnect,
         SubmitLogout, Submit
<1>5. ASSUME NEW q \in Requests, SignedIn(q) PROVE
        /\ browser'[b].state \in {browser[b].state, Null}
        /\ \/ browser'[b].session = browser[b].session
           \/ \E p \in Requests :
                /\ request[p] \in Callback /\ request[p].pc = "respond"
                /\ request[p].by = b /\ browser'[b].session = request[p].session
                /\ request'[p] = Idle
                /\ \A r \in Requests \ {p} : request'[r] = request[r]
                /\ UNCHANGED <<sessions, granted>>
        /\ browser'[b].page = browser[b].page
  <2>1. request[q] \in Callback /\ request[q].pc = "respond" /\ request[q].by \in Browsers
    BY <1>5, Kinds DEF SignedIn, Requested, Callback
  <2>2. browser' = [browser EXCEPT ![request[q].by] =
          [[browser[request[q].by] EXCEPT !.state = Null] EXCEPT !.session = request[q].session]]
    BY <1>5, <2>1 DEF SignedIn, WithoutState
  <2>3. CASE b # request[q].by
    BY <2>2, <2>3
  <2>4. CASE b = request[q].by
    <3>1. browser'[b].state = Null /\ browser'[b].session = request[q].session
          /\ browser'[b].page = browser[b].page
      BY <1>b, <2>2, <2>4 DEF Browser
    <3> QED BY <1>5, <2>1, <2>4, <3>1 DEF SignedIn, Becomes, history
  <2> QED BY <2>3, <2>4
<1>6. ASSUME NEW q \in Requests, Disconnected(q) PROVE Same
  <2>1. request[q].by \in Browsers
    BY <1>6, Kinds DEF Disconnected, Requested, Post
  <2> QED BY <1>6, <1>b, <2>1 DEF Disconnected, Browser
<1>7. ASSUME NEW q \in Requests, SignIn(q), ~SignedIn(q) PROVE Same
  <2>1. request[q] \in Callback
    BY <1>7, Kinds DEF SignIn, Exchange, UpdateUser, DrawUser, InsertUser,
       LinkInstallations, create, set_user, Requested
  <2>2. request[q].by \in Browsers
    BY <2>1 DEF Callback
  <2> QED BY <1>7, <1>u, <1>w, <2>2
          DEF SignIn, Exchange, UpdateUser, DrawUser, InsertUser,
              LinkInstallations, create, set_user, Refuse
<1>8. ASSUME NEW q \in Requests, Form(q), ~Disconnected(q) PROVE Same
  BY <1>8, <1>u DEF Form, update_settings, logout, RevokeGrant, DeleteUser, destroy
<1>9. ASSUME NEW q \in Requests, Fails(q) PROVE Same
  <2>1. request[q] \in Callback => request[q].by \in Browsers
    BY DEF Callback
  <2> QED BY <1>9, <1>u, <1>w, <2>1 DEF Fails
<1>10. CASE \/ \E s \in Sids : Expire(s)
            \/ \E i \in Ids : unsubscribe_pause(i)
            \/ Restart \/ UNCHANGED vars
  BY <1>10, <1>u DEF Expire, unsubscribe_pause, Restart, vars
<1> QED BY <1>1, <1>3, <1>4, <1>5, <1>6, <1>7, <1>8, <1>9, <1>10 DEF Next

\* Numbers are only drawn upwards, and what a login began stays known.
LEMMA DrawnChange ==
  ASSUME TypeOK, [Next]_vars
  PROVE  /\ drawn.ids <= drawn'.ids /\ drawn.sids <= drawn'.sids
         /\ drawn.states <= drawn'.states
         /\ \A n \in States : n <= drawn.states => begun'[n] = begun[n]
<1> USE AccountsAssumption DEF TypeOK
<1>1. ASSUME NEW b \in Browsers, login(b) PROVE
        /\ drawn'.ids = drawn.ids /\ drawn'.sids = drawn.sids
        /\ drawn'.states = drawn.states + 1
        /\ \A n \in States : n <= drawn.states => begun'[n] = begun[n]
  BY <1>1 DEF login, States
<1>2. ASSUME NEW q \in Requests, DrawUser(q) PROVE
        /\ drawn'.ids = drawn.ids + 1 /\ drawn'.sids = drawn.sids
        /\ drawn'.states = drawn.states /\ begun' = begun
  BY <1>2 DEF DrawUser, history
<1>3. ASSUME NEW q \in Requests, create(q) PROVE
        /\ drawn'.ids = drawn.ids /\ drawn'.sids = drawn.sids + 1
        /\ drawn'.states = drawn.states /\ begun' = begun
  BY <1>3 DEF create, history
<1>4. \/ \E b \in Browsers : login(b)
      \/ \E q \in Requests : DrawUser(q) \/ create(q)
      \/ UNCHANGED <<drawn, begun>>
  <2>1. ASSUME NEW b \in Browsers, Visit(b)
        PROVE  login(b) \/ UNCHANGED <<drawn, begun>>
    BY <2>1 DEF Visit, Forget, ReapExpired, OpenPage, callback, SubmitSettings,
       SubmitDisconnect, SubmitLogout, Submit, history
  <2>2. ASSUME NEW q \in Requests, SignIn(q)
        PROVE  DrawUser(q) \/ create(q) \/ UNCHANGED <<drawn, begun>>
    BY <2>2 DEF SignIn, Exchange, UpdateUser, InsertUser, LinkInstallations,
       set_user, SignedIn, history
  <2>3. ASSUME NEW q \in Requests, Form(q) PROVE UNCHANGED <<drawn, begun>>
    BY <2>3 DEF Form, update_settings, logout, RevokeGrant, DeleteUser, destroy,
       Disconnected, history
  <2>4. CASE \/ \E q \in Requests : Fails(q)
             \/ \E s \in Sids : Expire(s)
             \/ \E i \in Ids : unsubscribe_pause(i)
             \/ Restart \/ UNCHANGED vars
    BY <2>4 DEF Fails, Expire, unsubscribe_pause, Restart, vars, history
  <2> QED BY <2>1, <2>2, <2>3, <2>4 DEF Next
<1> QED BY <1>1, <1>2, <1>3, <1>4

-----------------------------------------------------------------------------
(* The invariant *)

LEMMA InitAccountsInv == Init => AccountsInv
<1>1. Init => TypeOK
  BY InitTypeOK
<1>2. Init => Sign
  BY DEF Init, Idle, Callback, Sign, Progress, StatesAreOwn, SessionsAreNew
<1>3. Init => Rows
  BY DEF Init, Idle, Callback, Rows, TokensReadable, OneRowPerAccount, NoGhosts,
     IdsAreNew, RowsAreOwn
<1>4. Init => Grants
  BY DEF Init, Idle, Post, Grants, UsersAreGranted, CookiesAreGranted, PagesAreOwn
<1> QED BY <1>1, <1>2, <1>3, <1>4 DEF AccountsInv

LEMMA NextProgress ==
  ASSUME TypeOK, Progress, [Next]_vars PROVE Progress'
<1> SUFFICES ASSUME NEW q \in Requests
             PROVE  /\ request'[q].pc \in {"insert", "links", "session", "set_user",
                                            "respond"} => request'[q].id \in Ids
                    /\ request'[q].pc \in {"set_user", "respond"} =>
                         request'[q].session \in Sids
  BY DEF Progress
<1>1. CASE request'[q] \in {request[q], Idle}
  BY <1>1 DEF Progress, Idle
<1>2. CASE Begins(q)
  BY <1>2 DEF Begins
<1>3. CASE Advances(q) /\ Takes(q)
  <2>1. request'[q].pc = "links" /\ request[q].pc = "select" => request'[q].id \in Ids
    BY <1>3 DEF Takes, RowsOf
  <2> QED BY <1>3, <2>1 DEF Advances, Takes, Progress
<1>4. CASE Submits(q) \/ Continues(q)
  BY <1>4 DEF Submits, Continues, Post
<1> QED BY <1>1, <1>2, <1>3, <1>4, RequestChange

LEMMA NextStatesAreOwn ==
  ASSUME TypeOK, Progress, StatesAreOwn, [Next]_vars PROVE StatesAreOwn'
<1>d. /\ drawn.states <= drawn'.states
      /\ \A n \in States : n <= drawn.states => begun'[n] = begun[n]
      /\ drawn.states \in Nat /\ drawn'.states \in Nat
  BY DrawnChange, NextTypeOK DEF TypeOK
<1>1. ASSUME NEW b \in Browsers, browser'[b].state # Null
      PROVE  browser'[b].state <= drawn'.states /\ begun'[browser'[b].state] = b
  <2>1. CASE browser'[b].state = browser[b].state
    <3>1. browser[b].state \in States
      BY <1>1, <2>1 DEF TypeOK, Browser
    <3> QED BY <1>1, <1>d, <2>1, <3>1 DEF StatesAreOwn, States
  <2>2. CASE /\ browser'[b].state = drawn.states + 1
             /\ drawn'.states = drawn.states + 1
             /\ begun' = [begun EXCEPT ![drawn'.states] = b]
    <3>1. browser'[b].state \in States
      BY <1>1, NextTypeOK DEF TypeOK, Browser
    <3> QED BY <1>d, <2>2, <3>1 DEF TypeOK
  <2> QED BY <1>1, <2>1, <2>2, BrowserChange
<1>2. ASSUME NEW q \in Requests, request'[q] \in Callback
      PROVE  /\ request'[q].state <= drawn'.states
             /\ begun'[request'[q].state] = request'[q].by
  <2>f. request'[q].state \in States /\ request'[q].by \in Browsers
    BY <1>2 DEF Callback
  <2>1. /\ request'[q].state <= drawn.states
        /\ begun[request'[q].state] = request'[q].by
    <3>1. CASE request'[q] = request[q]
      BY <1>2, <3>1 DEF StatesAreOwn
    <3>2. CASE Begins(q)
      <4>1. request'[q].state # Null
        BY <2>f, AccountsNullAssumption
      <4> QED BY <3>2, <2>f, <4>1 DEF Begins, StatesAreOwn
    <3>3. CASE Advances(q)
      BY <3>3 DEF Advances, StatesAreOwn
    <3>4. CASE request'[q] = Idle \/ Submits(q) \/ Continues(q)
      BY <1>2, <3>4 DEF Submits, Continues, Idle, Callback, Post
    <3> QED BY <3>1, <3>2, <3>3, <3>4, RequestChange
  <2> QED BY <1>d, <2>1, <2>f DEF States
<1> QED BY <1>1, <1>2 DEF StatesAreOwn

\* Where a callback that is not new has its row and its session from.
LEMMA Taken ==
  ASSUME TypeOK, Progress, [Next]_vars, NEW q \in Requests,
         request'[q] \in Callback
  PROVE  /\ \/ request'[q].id = Null
            \/ request[q] \in Callback /\ request'[q].id = request[q].id
            \/ /\ request[q].pc = "select" /\ request'[q].pc = "links"
               /\ request'[q].id \in RowsOf(request[q].person)
            \/ /\ request[q].pc = "select" /\ request'[q].pc = "insert"
               /\ request'[q].id = drawn.ids + 1 /\ drawn'.ids = drawn.ids + 1
               /\ UNCHANGED users
         /\ \/ request'[q].session = Null
            \/ request[q] \in Callback /\ request'[q].session = request[q].session
            \/ /\ request[q].pc = "session" /\ request'[q].pc = "set_user"
               /\ request'[q].session = drawn.sids + 1 /\ drawn'.sids = drawn.sids + 1
               /\ UNCHANGED browser
<1>1. CASE request'[q] = request[q]
  BY <1>1
<1>2. CASE request'[q] = Idle \/ Submits(q) \/ Continues(q)
  BY <1>2 DEF Submits, Continues, Idle, Callback, Post
<1>3. CASE Begins(q)
  BY <1>3 DEF Begins
<1>4. CASE Advances(q) /\ Takes(q)
  BY <1>4 DEF Advances, Takes
<1> QED BY <1>1, <1>2, <1>3, <1>4, RequestChange

\* One request moves at a time, unless several end.
LEMMA OneAtATime ==
  ASSUME TypeOK, Progress, [Next]_vars, NEW q \in Requests,
         request'[q] \in Callback, request'[q] # request[q],
         NEW p \in Requests \ {q}
  PROVE  request'[p] = request[p]
<1>1. CASE request'[q] = Idle \/ Submits(q) \/ Continues(q)
  BY <1>1 DEF Submits, Continues, Idle, Callback, Post
<1>2. CASE Begins(q) \/ Advances(q)
  <2>1. request' = [request EXCEPT ![q] = request'[q]]
    BY <1>2 DEF Begins, Advances
  <2> QED BY <2>1 DEF TypeOK
<1> QED BY <1>1, <1>2, RequestChange

LEMMA NextSessionsAreNew ==
  ASSUME TypeOK, Sign, [Next]_vars PROVE SessionsAreNew'
<1> USE DEF Sign
<1>d. drawn.sids \in Nat /\ drawn'.sids \in Nat /\ drawn.sids <= drawn'.sids
  BY DrawnChange, NextTypeOK DEF TypeOK
<1>s. ASSUME NEW q \in Requests, request[q] \in Callback, request[q].session # Null
      PROVE  request[q].session \in Nat /\ request[q].session <= drawn.sids
  BY <1>s DEF SessionsAreNew, Callback, Sids
<1>c. ASSUME NEW b \in Browsers, browser[b].session # Null
      PROVE  browser[b].session \in Nat /\ browser[b].session <= drawn.sids
  BY <1>c DEF TypeOK, SessionsAreNew, Browser, Sids
<1>p. ASSUME NEW b \in Browsers, browser[b].page # Null
      PROVE  browser[b].page.csrf \in Nat /\ browser[b].page.csrf <= drawn.sids
  BY <1>p DEF TypeOK, SessionsAreNew, Browser, Page, Sids
<1>u. ASSUME NEW b \in Browsers, UserOf(b) # Null PROVE browser[b].session # Null
  BY <1>u DEF UserOf
<1>1. ASSUME NEW b \in Browsers, browser'[b].session # Null
      PROVE  browser'[b].session <= drawn'.sids
  <2>1. CASE browser'[b].session = browser[b].session
    BY <1>1, <1>c, <1>d, <2>1
  <2>2. ASSUME NEW q \in Requests, request[q] \in Callback,
               browser'[b].session = request[q].session
        PROVE  browser'[b].session <= drawn'.sids
    BY <1>1, <1>s, <1>d, <2>2
  <2> QED BY <1>1, <2>1, <2>2, BrowserChange
<1>2. ASSUME NEW b \in Browsers, browser'[b].page # Null
      PROVE  browser'[b].page.csrf <= drawn'.sids
  <2>1. CASE browser'[b].page = browser[b].page
    BY <1>2, <1>p, <1>d, <2>1
  <2>2. CASE /\ UserOf(b) # Null
             /\ browser'[b].page = [csrf |-> browser[b].session, user |-> UserOf(b)]
    BY <1>u, <1>c, <1>d, <2>2
  <2> QED BY <2>1, <2>2, BrowserChange
<1>3. ASSUME NEW q \in Requests, request'[q] \in Callback, request'[q].session # Null
      PROVE  request'[q].session <= drawn'.sids
  BY <1>3, <1>s, <1>d, Taken
<1>4. ASSUME NEW q \in Requests, request'[q].pc = "set_user"
      PROVE  /\ \A b \in Browsers :
                  /\ browser'[b].session # request'[q].session
                  /\ browser'[b].page # Null =>
                       browser'[b].page.csrf # request'[q].session
             /\ \A p \in Requests \ {q} : request'[p] \in Callback =>
                  request'[p].session # request'[q].session
  <2>c. /\ request'[q] \in Callback /\ request'[q].session # Null
        /\ request'[q].session \in Sids
    BY <1>4, Kinds, NextTypeOK, NextProgress, AccountsNullAssumption
       DEF TypeOK, Requested, Progress
  <2>1. CASE request'[q] = request[q]
    <3>1. ASSUME NEW b \in Browsers
          PROVE  browser'[b].session # request[q].session
      <4>1. CASE browser'[b].session \in {browser[b].session, Null}
        BY <1>4, <2>1, <2>c, <4>1 DEF SessionsAreNew
      <4>2. ASSUME NEW p \in Requests, request[p] \in Callback, request[p].pc = "respond",
                   browser'[b].session = request[p].session
            PROVE  browser'[b].session # request[q].session
        BY <1>4, <2>1, <4>2 DEF SessionsAreNew
      <4> QED BY <4>1, <4>2, BrowserChange
    <3>2. ASSUME NEW b \in Browsers, browser'[b].page # Null
          PROVE  browser'[b].page.csrf # request[q].session
      <4>1. CASE browser'[b].page = browser[b].page
        BY <1>4, <2>1, <3>2, <4>1 DEF SessionsAreNew
      <4>2. CASE browser'[b].page = [csrf |-> browser[b].session, user |-> UserOf(b)]
        BY <1>4, <2>1, <4>2 DEF SessionsAreNew
      <4> QED BY <4>1, <4>2, BrowserChange
    <3>3. ASSUME NEW p \in Requests \ {q}, request'[p] \in Callback
          PROVE  request'[p].session # request[q].session
      <4>1. request[q].session \in Nat /\ request[q].session <= drawn.sids
        BY <2>1, <2>c, <1>s
      <4>2. request[p] \in Callback => request[p].session # request[q].session
        BY <1>4, <2>1 DEF SessionsAreNew
      <4> QED BY <2>1, <2>c, <3>3, <4>1, <4>2, <1>d, Taken
    <3> QED BY <2>1, <3>1, <3>2, <3>3
  <2>2. CASE request'[q] # request[q]
    <3>1. /\ request'[q].session = drawn.sids + 1 /\ UNCHANGED browser
      <4>1. Advances(q) /\ Takes(q)
        BY <1>4, <2>2, <2>c, RequestChange
           DEF Begins, Submits, Continues, Idle, Callback, Post
      <4> QED BY <1>4, <4>1 DEF Takes
    <3>2. ASSUME NEW b \in Browsers
          PROVE  /\ browser'[b].session # request'[q].session
                 /\ browser'[b].page # Null =>
                      browser'[b].page.csrf # request'[q].session
      BY <2>c, <3>1, <1>c, <1>p, <1>d
    <3>3. ASSUME NEW p \in Requests \ {q}, request'[p] \in Callback
          PROVE  request'[p].session # request'[q].session
      BY <2>2, <2>c, <3>1, <3>3, <1>s, <1>d, OneAtATime
    <3> QED BY <3>2, <3>3
  <2> QED BY <2>1, <2>2
<1> QED BY <1>1, <1>2, <1>3, <1>4 DEF SessionsAreNew

LEMMA NextIdsAreNew ==
  ASSUME TypeOK, Sign, IdsAreNew, [Next]_vars PROVE IdsAreNew'
<1> USE DEF Sign
<1>d. drawn.ids \in Nat /\ drawn'.ids \in Nat /\ drawn.ids <= drawn'.ids
  BY DrawnChange, NextTypeOK DEF TypeOK
<1>i. ASSUME NEW q \in Requests, request[q] \in Callback, request[q].id # Null
      PROVE  request[q].id \in Ids /\ request[q].id <= drawn.ids
  BY <1>i DEF IdsAreNew, Callback
<1>r. ASSUME NEW q \in Requests, NEW i \in RowsOf(request[q].person)
      PROVE  i \in Ids /\ users[i] # Null /\ i <= drawn.ids
  BY DEF RowsOf, IdsAreNew
<1>1. ASSUME NEW i \in Ids, users'[i] # Null PROVE i <= drawn'.ids
  <2>1. CASE users[i] # Null
    BY <1>d, <2>1 DEF IdsAreNew, Ids
  <2>2. CASE Inserted(i)
    BY <1>d, <1>i, <2>2, AccountsNullAssumption DEF Inserted, Ids
  <2> QED BY <1>1, <2>1, <2>2, UsersChange DEF Kept, Deleted
<1>2. ASSUME NEW q \in Requests, request'[q] \in Callback, request'[q].id # Null
      PROVE  request'[q].id <= drawn'.ids
  BY <1>2, <1>d, <1>i, <1>r, Taken DEF Ids
<1>3. ASSUME NEW q \in Requests, request'[q].pc = "insert"
      PROVE  /\ users'[request'[q].id] = Null
             /\ \A p \in Requests \ {q} :
                  request'[p] \in Callback => request'[p].id # request'[q].id
  <2>c. /\ request'[q] \in Callback
        /\ request'[q].id \in Ids /\ request'[q].id # Null
    BY <1>3, Kinds, NextTypeOK, NextProgress, AccountsNullAssumption
       DEF TypeOK, Requested, Progress
  <2>1. CASE request'[q] = request[q]
    <3> DEFINE i == request[q].id
    <3>1. users[i] = Null /\ i \in Ids /\ i # Null /\ i <= drawn.ids
      BY <1>3, <1>i, <2>1, <2>c DEF IdsAreNew
    <3>2. ~Inserted(i)
      <4> SUFFICES ASSUME NEW p \in Requests, request[p] \in Callback,
                          request[p].id = i, InsertUser(p),
                          RowsOf(request[p].person) = {}
                   PROVE  FALSE
        BY DEF Inserted
      <4>1. p = q
        BY <1>3, <2>1 DEF IdsAreNew
      <4>2. request'[q].pc = "links"
        BY <4>1, <2>c, <2>1 DEF InsertUser, Goes, Becomes, TypeOK, Callback
      <4> QED BY <1>3, <4>2
    <3>3. users'[i] = Null
      BY <3>1, <3>2, UsersChange DEF Kept, Deleted
    <3>4. ASSUME NEW p \in Requests \ {q}, request'[p] \in Callback
          PROVE  request'[p].id # i
      <4>1. request[p] \in Callback => request[p].id # i
        BY <1>3, <2>1 DEF IdsAreNew
      <4>2. request'[p].id \in RowsOf(request[p].person) => request'[p].id # i
        BY <3>1, <1>r
      <4>3. drawn.ids + 1 # i
        BY <3>1, <1>d DEF Ids
      <4> QED BY <3>1, <3>4, <4>1, <4>2, <4>3, Taken
    <3> QED BY <2>1, <3>3, <3>4
  <2>2. CASE request'[q] # request[q]
    <3>1. request'[q].id = drawn.ids + 1 /\ UNCHANGED users
      <4>1. Advances(q) /\ Takes(q)
        BY <1>3, <2>2, <2>c, RequestChange
           DEF Begins, Submits, Continues, Idle, Callback, Post
      <4> QED BY <1>3, <4>1 DEF Takes
    <3>2. users[request'[q].id] = Null
      <4>1. ~(request'[q].id <= drawn.ids)
        BY <3>1, <1>d
      <4> QED BY <2>c, <4>1 DEF IdsAreNew
    <3>3. ASSUME NEW p \in Requests \ {q}, request'[p] \in Callback
          PROVE  request'[p].id # request'[q].id
      BY <2>2, <2>c, <3>1, <3>3, <1>i, <1>d, OneAtATime DEF Ids
    <3> QED BY <3>1, <3>2, <3>3
  <2> QED BY <2>1, <2>2
<1> QED BY <1>1, <1>2, <1>3 DEF IdsAreNew

\* The row somebody has found or written stays its person's until it is gone.
LEMMA PersonStays ==
  ASSUME TypeOK, Progress, IdsAreNew, [Next]_vars, NEW i \in Ids,
         users[i] # Null, users'[i] # Null
  PROVE  users'[i].person = users[i].person
<1>1. ~Inserted(i)
  BY DEF Inserted, IdsAreNew
<1> QED BY <1>1, UsersChange DEF Kept, Deleted

LEMMA NextRowsAreOwn ==
  ASSUME TypeOK, Sign, IdsAreNew, RowsAreOwn, [Next]_vars PROVE RowsAreOwn'
<1> USE DEF Sign
<1> SUFFICES ASSUME NEW q \in Requests, request'[q] \in Callback,
                    request'[q].pc # "insert", request'[q].id # Null,
                    users'[request'[q].id] # Null
             PROVE  users'[request'[q].id].person = request'[q].person
  BY DEF RowsAreOwn
<1> DEFINE i == request'[q].id
<1>i. i \in Ids
  BY DEF Callback
<1>1. CASE /\ request[q] \in Callback /\ request[q].id = i
           /\ request[q].person = request'[q].person /\ request[q].pc # "insert"
  <2>1. ~Inserted(i)
    <3> SUFFICES ASSUME NEW p \in Requests, request[p].pc = "insert", request[p].id = i
                 PROVE  FALSE
      BY DEF Inserted
    <3>1. p # q
      BY <1>1
    <3> QED BY <1>1, <3>1 DEF IdsAreNew
  <2>2. users[i] # Null
    BY <1>i, <2>1, UsersChange DEF Kept, Deleted
  <2> QED BY <1>1, <1>i, <2>2, PersonStays DEF RowsAreOwn
<1>2. CASE Advances(q) /\ Takes(q)
  <2>1. CASE request'[q].id \in RowsOf(request[q].person)
    <3>1. users[i] # Null /\ users[i].person = request[q].person
      BY <2>1 DEF RowsOf
    <3> QED BY <1>2, <1>i, <3>1, PersonStays DEF Advances
  <2>2. CASE request[q].pc = "insert" /\ users'[i].person = request[q].person
    BY <1>2, <2>2 DEF Advances
  <2>3. CASE request[q].pc # "insert" /\ request[q].id = i
    BY <1>1, <1>2, <2>3 DEF Advances
  <2> QED BY <1>2, <2>1, <2>2, <2>3 DEF Takes
<1>3. CASE request'[q] = request[q]
  BY <1>1, <1>3
<1>4. CASE Begins(q)
  BY <1>4 DEF Begins
<1>5. CASE request'[q] = Idle \/ Submits(q) \/ Continues(q)
  BY <1>5 DEF Submits, Continues, Idle, Callback, Post
<1> QED BY <1>2, <1>3, <1>4, <1>5, RequestChange

LEMMA NextRows ==
  ASSUME TypeOK, Sign, Rows, [Next]_vars
  PROVE  TokensReadable' /\ OneRowPerAccount' /\ NoGhosts'
<1> USE DEF Sign, Rows
<1>t. TypeOK' /\ AccountsNullAssumption
  BY NextTypeOK, AccountsNullAssumption
<1>1. ASSUME NEW i \in Ids, users'[i] # Null
      PROVE  users'[i].tokens.bound = i /\ users'[i].tokens.of = users'[i].person
  <2>1. CASE users'[i] = users[i]
    BY <1>1, <2>1 DEF TokensReadable, decrypt
  <2>2. CASE Kept(i)
    BY <2>2 DEF Kept, TokensReadable, decrypt, encrypt
  <2>3. CASE Inserted(i)
    BY <2>3 DEF Inserted, encrypt, TypeOK
  <2> QED BY <1>1, <2>1, <2>2, <2>3, UsersChange DEF Deleted
<1>2. ASSUME NEW i \in Ids, NEW j \in Ids, i # j,
             users'[i] # Null, users'[j] # Null, users'[i].person = users'[j].person
      PROVE  FALSE
  <2>1. ASSUME NEW k \in Ids, NEW l \in Ids, k # l, Inserted(k),
               users'[k].person = users'[l].person, users'[l] # Null
        PROVE  FALSE
    <3> PICK q \in Requests :
          /\ RowsOf(request[q].person) = {}
          /\ users' = [users EXCEPT ![k] = [person |-> request[q].person,
                tokens |-> encrypt(request[q].person, k), paused |-> FALSE]]
      BY <2>1 DEF Inserted
    <3>1. users'[l] = users[l] /\ users'[k].person = request[q].person
      BY <2>1 DEF TypeOK
    <3> QED BY <2>1, <3>1 DEF RowsOf
  <2>2. users[i] # Null /\ users[j] # Null
    BY <1>2, <2>1, UsersChange DEF Kept, Deleted
  <2>3. users'[i].person = users[i].person /\ users'[j].person = users[j].person
    BY <1>2, <2>2, PersonStays
  <2> QED BY <1>2, <2>2, <2>3 DEF OneRowPerAccount
<1>3. ASSUME NEW s \in Sids, sessions'[s] # Null, sessions'[s].user # Null
      PROVE  users'[sessions'[s].user] # Null
  <2> DEFINE i == sessions'[s].user
  <2>i. i \in Ids
    BY <1>3, <1>t DEF TypeOK, Session
  <2>1. CASE SameUser(s)
    <3>1. sessions[s] # Null /\ sessions[s].user = i /\ users[i] # Null
      BY <1>3, <2>1 DEF SameUser, NoGhosts
    <3>2. ~Deleted(i)
      BY <1>3 DEF Deleted, Orphaned
    <3> QED BY <2>i, <3>1, <3>2, UsersChange DEF Kept, Inserted
  <2>2. ASSUME NEW q \in Requests, SetsUser(q, s) PROVE users'[i] # Null
    BY <2>2 DEF SetsUser, TypeOK
  <2> QED BY <2>1, <2>2, SessionsChange
<1> QED BY <1>1, <1>2, <1>3 DEF TokensReadable, OneRowPerAccount, NoGhosts, decrypt

LEMMA NextUsersAreGranted ==
  ASSUME TypeOK, Sign, Rows, UsersAreGranted, [Next]_vars
  PROVE  UsersAreGranted'
<1> USE DEF Sign, Rows
<1>t. TypeOK'
  BY NextTypeOK
<1> SUFFICES ASSUME NEW s \in Sids, sessions'[s] # Null, sessions'[s].user # Null
             PROVE  /\ granted'[s] # Null
                    /\ users'[sessions'[s].user].person = granted'[s].person
  BY DEF UsersAreGranted
<1> DEFINE i == sessions'[s].user
<1>i. i \in Ids /\ users'[i] # Null
  <2>1. NoGhosts'
    BY NextRows
  <2> QED BY <1>t, <2>1 DEF TypeOK, Session, NoGhosts
<1>1. CASE SameUser(s)
  <2>1. sessions[s] # Null /\ sessions[s].user = i /\ users[i] # Null
    BY <1>1 DEF SameUser, NoGhosts
  <2>2. granted'[s] = granted[s] /\ users'[i].person = users[i].person
    BY <1>1, <1>i, <2>1, PersonStays DEF SameUser
  <2> QED BY <2>1, <2>2 DEF UsersAreGranted
<1>2. ASSUME NEW q \in Requests, SetsUser(q, s)
      PROVE  granted'[s] # Null /\ users'[i].person = granted'[s].person
  <2>1. /\ sessions'[s] = [user |-> request[q].id, old |-> FALSE]
        /\ granted'[s] = [by |-> begun[request[q].state], person |-> request[q].person]
    BY <1>2 DEF SetsUser, TypeOK
  <2>2. i = request[q].id /\ users' = users /\ users[i] # Null /\ i # Null
    BY <1>2, <2>1 DEF SetsUser
  <2>3. users[i].person = request[q].person
    BY <1>2, <2>2 DEF SetsUser, RowsAreOwn
  <2>4. /\ request[q] \in Callback /\ begun[request[q].state] \in Browsers
        /\ request[q].person \in Persons
    BY <1>2 DEF SetsUser, StatesAreOwn, Callback
  <2>5. granted'[s] \in Grant
    BY <2>1, <2>4 DEF Grant
  <2> QED BY <2>1, <2>2, <2>3, <2>5, AccountsNullAssumption
<1> QED BY <1>1, <1>2, SessionsChange

LEMMA NextCookiesAreGranted ==
  ASSUME TypeOK, Sign, CookiesAreGranted, [Next]_vars
  PROVE  CookiesAreGranted'
<1> USE DEF Sign
<1>1. ASSUME NEW b \in Browsers, browser'[b].session # Null
      PROVE  /\ granted'[browser'[b].session] # Null
             /\ granted'[browser'[b].session].by = b
  <2>1. CASE browser'[b].session = browser[b].session
    <3>1. browser[b].session \in Sids
      BY <1>1, <2>1 DEF TypeOK, Browser
    <3>2. ~\E q \in Requests : SetsUser(q, browser[b].session)
      BY DEF SetsUser, SessionsAreNew
    <3>3. granted'[browser[b].session] = granted[browser[b].session]
      BY <3>1, <3>2, SessionsChange DEF SameUser
    <3> QED BY <1>1, <2>1, <3>3 DEF CookiesAreGranted
  <2>2. ASSUME NEW q \in Requests, request[q] \in Callback, request[q].pc = "respond",
               request[q].by = b, browser'[b].session = request[q].session,
               UNCHANGED granted
        PROVE  /\ granted'[browser'[b].session] # Null
               /\ granted'[browser'[b].session].by = b
    <3>1. /\ request[q].session \in Sids
          /\ granted[request[q].session] =
               [by |-> request[q].by, person |-> request[q].person]
      BY <2>2 DEF Progress, CookiesAreGranted
    <3>2. [by |-> request[q].by, person |-> request[q].person] \in Grant
      BY <2>2 DEF Callback, Grant
    <3> QED BY <2>2, <3>1, <3>2, AccountsNullAssumption
  <2> QED BY <1>1, <2>1, <2>2, BrowserChange
<1>2. ASSUME NEW q \in Requests, request'[q].pc = "respond"
      PROVE  granted'[request'[q].session] =
               [by |-> request'[q].by, person |-> request'[q].person]
  <2>c. request'[q] \in Callback /\ request'[q].session \in Sids
    BY <1>2, Kinds, NextTypeOK, NextProgress DEF TypeOK, Requested, Progress
  <2>1. CASE request'[q] = request[q]
    <3> DEFINE s == request[q].session
    <3>1. ~\E p \in Requests : SetsUser(p, s)
      <4> SUFFICES ASSUME NEW p \in Requests, request[p].pc = "set_user",
                          request[p].session = s
                   PROVE  FALSE
        BY DEF SetsUser
      <4>1. p # q
        BY <1>2, <2>1
      <4> QED BY <2>c, <2>1, <4>1 DEF SessionsAreNew
    <3>2. granted'[s] = granted[s]
      BY <2>c, <2>1, <3>1, SessionsChange DEF SameUser
    <3> QED BY <1>2, <2>1, <3>2 DEF CookiesAreGranted
  <2>2. CASE request'[q] # request[q]
    <3>1. Advances(q) /\ Takes(q)
      BY <1>2, <2>2, <2>c, RequestChange
         DEF Begins, Submits, Continues, Idle, Callback, Post
    <3>2. granted'[request'[q].session] =
            [by |-> begun[request[q].state], person |-> request[q].person]
      BY <1>2, <3>1 DEF Takes
    <3> QED BY <3>1, <3>2 DEF Advances, StatesAreOwn
  <2> QED BY <2>1, <2>2
<1> QED BY <1>1, <1>2 DEF CookiesAreGranted

LEMMA NextPagesAreOwn ==
  ASSUME TypeOK, Sign, PagesAreOwn, [Next]_vars
  PROVE  PagesAreOwn'
<1> USE DEF Sign
<1>1. ASSUME NEW b \in Browsers, browser'[b].page # Null,
             NEW s, s = browser'[b].page.csrf,
             sessions'[s] # Null, sessions'[s].user # Null
      PROVE  sessions'[s].user = browser'[b].page.user
  <2>1. CASE browser'[b].page = browser[b].page
    <3>1. s \in Sids
      BY <1>1, <2>1 DEF TypeOK, Browser, Page
    <3>2. ~\E q \in Requests : SetsUser(q, s)
      BY <1>1, <2>1 DEF SetsUser, SessionsAreNew
    <3>3. sessions[s] # Null /\ sessions'[s].user = sessions[s].user
      BY <1>1, <3>1, <3>2, SessionsChange DEF SameUser
    <3> QED BY <1>1, <2>1, <3>3 DEF PagesAreOwn
  <2>2. CASE /\ UserOf(b) # Null /\ UNCHANGED sessions
             /\ browser'[b].page = [csrf |-> browser[b].session, user |-> UserOf(b)]
    BY <1>1, <2>2 DEF UserOf
  <2> QED BY <2>1, <2>2, BrowserChange
<1>2. ASSUME NEW q \in Requests, request'[q] \in Post
      PROVE  request'[q].user = request'[q].page.user
  <2>1. CASE request'[q] = request[q] \/ Continues(q)
    BY <1>2, <2>1 DEF Continues, PagesAreOwn
  <2>2. CASE Submits(q)
    <3> DEFINE b == request'[q].by
    <3>1. b \in Browsers
      BY <1>2 DEF Post
    <3> QED BY <2>2, <3>1 DEF Submits, csrf_matches, UserOf, PagesAreOwn
  <2>3. CASE request'[q] = Idle \/ Begins(q) \/ Advances(q)
    BY <1>2, <2>3 DEF Begins, Advances, Idle, Callback, Post
  <2> QED BY <2>1, <2>2, <2>3, RequestChange
<1> QED BY <1>1, <1>2 DEF PagesAreOwn

LEMMA NextAccountsInv == AccountsInv /\ [Next]_vars => AccountsInv'
<1> SUFFICES ASSUME AccountsInv, [Next]_vars PROVE AccountsInv'
  OBVIOUS
<1> USE DEF AccountsInv
<1>1. TypeOK'
  BY NextTypeOK DEF Sign
<1>2. Sign'
  BY NextProgress, NextStatesAreOwn, NextSessionsAreNew DEF Sign
<1>3. Rows'
  BY NextRows, NextIdsAreNew, NextRowsAreOwn DEF Rows
<1>4. Grants'
  BY NextUsersAreGranted, NextCookiesAreGranted, NextPagesAreOwn DEF Grants
<1> QED BY <1>1, <1>2, <1>3, <1>4

\* The inductive invariant of sign-ins, sessions and forms.
THEOREM AccountsInvariant == Spec => []AccountsInv
BY InitAccountsInv, NextAccountsInv, PTL DEF Spec

-----------------------------------------------------------------------------
(* What it is for *)

\* Every variable keeps its type.
THEOREM AccountsTypes == Spec => []TypeOK
<1>1. AccountsInv => TypeOK
  BY DEF AccountsInv
<1> QED BY <1>1, AccountsInvariant, PTL

\* The tokens of a row are its person's and open under its id, whatever order
\* sign-ins, disconnects and new sign-ups come in.
THEOREM TokensReadableHolds == Spec => []TokensReadable
<1>1. AccountsInv => TokensReadable
  BY DEF AccountsInv, Rows
<1> QED BY <1>1, AccountsInvariant, PTL

\* However many first sign-ins of an account race, it has one row.
THEOREM OneRowPerAccountHolds == Spec => []OneRowPerAccount
<1>1. AccountsInv => OneRowPerAccount
  BY DEF AccountsInv, Rows
<1> QED BY <1>1, AccountsInvariant, PTL

\* No session is of a user who is gone, wherever a disconnect or a sign-in of
\* the same account stops.
THEOREM NoGhostsHolds == Spec => []NoGhosts
<1>1. AccountsInv => NoGhosts
  BY DEF AccountsInv, Rows
<1> QED BY <1>1, AccountsInvariant, PTL

\* A browser's session comes of a login begun in it and is of the person who
\* authorized that login.
THEOREM SessionsAreOwnHolds == Spec => []SessionsAreOwn
<1>1. AccountsInv => SessionsAreOwn
  <2> SUFFICES ASSUME AccountsInv, NEW b \in Browsers, browser[b].session # Null
               PROVE  LET s == browser[b].session IN
                        /\ granted[s] # Null /\ granted[s].by = b
                        /\ UserOf(b) # Null =>
                             users[UserOf(b)].person = granted[s].person
    BY DEF SessionsAreOwn
  <2>1. browser[b].session \in Sids
    BY DEF AccountsInv, TypeOK, Browser
  <2> QED BY <2>1 DEF AccountsInv, Grants, CookiesAreGranted, UsersAreGranted, UserOf
<1> QED BY <1>1, AccountsInvariant, PTL

\* A form acts for the user of the page it stands on, whoever the browser has
\* signed in as since.
THEOREM FormsActForTheirUserHolds == Spec => FormsActForTheirUser
<1> DEFINE OwnForms == \A i \in Ids : users[i] # Null =>
      /\ users'[i] = Null =>
           \E q \in Requests : request[q].pc = "delete" /\ request[q].page.user = i
      /\ users'[i] # Null /\ users[i].paused /\ ~users'[i].paused =>
           \E q \in Requests : request[q].pc = "settings" /\ request[q].page.user = i
<1>1. AccountsInv /\ [Next]_vars => [OwnForms]_vars
  <2> SUFFICES ASSUME AccountsInv, Next, NEW i \in Ids, users[i] # Null
               PROVE  /\ users'[i] = Null => \E q \in Requests :
                           request[q].pc = "delete" /\ request[q].page.user = i
                      /\ users'[i] # Null /\ users[i].paused /\ ~users'[i].paused =>
                           \E q \in Requests :
                             request[q].pc = "settings" /\ request[q].page.user = i
    OBVIOUS
  <2>t. TypeOK /\ Progress /\ IdsAreNew /\ PagesAreOwn
    BY DEF AccountsInv, Sign, Rows, Grants
  <2>p. ASSUME NEW q \in Requests, request[q].pc \in {"delete", "settings"}
        PROVE  request[q].user = request[q].page.user
    <3>1. request[q] \in Post
      BY <2>p, <2>t, Kinds DEF TypeOK, Requested
    <3> QED BY <2>t, <3>1 DEF PagesAreOwn
  <2>1. users'[i] = users[i] \/ Kept(i) \/ Deleted(i)
    <3>1. ~Inserted(i)
      BY <2>t DEF Inserted, IdsAreNew
    <3> QED BY <2>t, <3>1, UsersChange
  <2> QED BY <2>1, <2>p DEF Kept, Deleted
<1> QED BY <1>1, AccountsInvariant, PTL DEF Spec, FormsActForTheirUser

-----------------------------------------------------------------------------
(* Who stays signed in *)

\* The session of a form is of the form's user until it has none, and has none
\* when it is destroyed.
FormsEndTheirOwn == \A q \in Requests : request[q] \in Post =>
  LET s == request[q].session IN
  /\ s <= drawn.sids
  /\ \A p \in Requests : request[p].pc = "set_user" => request[p].session # s
  /\ sessions[s] # Null /\ sessions[s].user # Null =>
       sessions[s].user = request[q].user /\ request[q].pc # "destroy"

LEMMA NextFormsEndTheirOwn ==
  ASSUME AccountsInv, FormsEndTheirOwn, [Next]_vars PROVE FormsEndTheirOwn'
<1> SUFFICES ASSUME NEW q \in Requests, request'[q] \in Post,
                    NEW s, s = request'[q].session
             PROVE  /\ s <= drawn'.sids
                    /\ \A p \in Requests :
                         request'[p].pc = "set_user" => request'[p].session # s
                    /\ sessions'[s] # Null /\ sessions'[s].user # Null =>
                         /\ sessions'[s].user = request'[q].user
                         /\ request'[q].pc # "destroy"
  BY DEF FormsEndTheirOwn
<1>t. TypeOK /\ TypeOK' /\ Progress /\ Progress' /\ SessionsAreNew
  BY NextAccountsInv DEF AccountsInv, Sign
<1>s. s \in Sids /\ s # Null /\ s \in Nat
  BY AccountsNullAssumption DEF Post, Sids
<1>d. drawn.sids \in Nat /\ drawn'.sids \in Nat /\ drawn.sids <= drawn'.sids
  BY <1>t, DrawnChange DEF TypeOK
<1>k. request'[q] = request[q] \/ Submits(q) \/ Continues(q)
  BY <1>t, RequestChange DEF Begins, Advances, Idle, Callback, Post
<1>o. ASSUME \/ \E p \in Requests : Fails(p)
             \/ \E t \in Sids : Expire(t)
             \/ \E i \in Ids : unsubscribe_pause(i)
             \/ Restart \/ UNCHANGED vars
      PROVE  request'[q] \in {request[q], Idle}
  BY <1>o, <1>t DEF Fails, Expire, unsubscribe_pause, Restart, Becomes, vars, TypeOK
<1>1. /\ s <= drawn.sids
      /\ \A p \in Requests : request[p].pc = "set_user" => request[p].session # s
  <2>1. CASE request'[q] = request[q] \/ Continues(q)
    BY <2>1 DEF Continues, FormsEndTheirOwn
  <2>2. CASE Submits(q)
    <3>1. request'[q].by \in Browsers /\ browser[request'[q].by].session = s
      BY <2>2 DEF Submits, Post
    <3> QED BY <1>t, <1>s, <3>1 DEF SessionsAreNew
  <2> QED BY <1>k, <2>1, <2>2
<1>2. ASSUME NEW p \in Requests, request'[p].pc = "set_user"
      PROVE  request'[p].session # s
  <2>c. request'[p] \in Callback /\ request'[p].session # Null
    BY <1>2, <1>t, Kinds, AccountsNullAssumption DEF TypeOK, Requested, Progress
  <2>1. CASE request'[p] = request[p]
    BY <1>1, <1>2, <2>1
  <2>2. CASE request'[p] # request[p]
    <3>1. Advances(p) /\ Takes(p)
      BY <1>t, <1>2, <2>2, <2>c, RequestChange
         DEF Begins, Submits, Continues, Idle, Callback, Post
    <3>2. request'[p].session = drawn.sids + 1
      BY <1>2, <3>1 DEF Takes
    <3> QED BY <1>1, <1>d, <1>s, <3>2
  <2> QED BY <2>1, <2>2
<1>3. ASSUME sessions'[s] # Null, sessions'[s].user # Null
      PROVE  sessions'[s].user = request'[q].user /\ request'[q].pc # "destroy"
  <2>1. sessions[s] # Null /\ sessions[s].user = sessions'[s].user
    <3>1. ~\E p \in Requests : SetsUser(p, s)
      BY <1>1 DEF SetsUser
    <3> QED BY <1>t, <1>s, <1>3, <3>1, SessionsChange DEF SameUser
  <2>2. CASE request'[q] = request[q]
    BY <1>3, <2>1, <2>2 DEF FormsEndTheirOwn
  <2>3. CASE Submits(q)
    <3>1. request'[q].user = sessions[s].user
      BY <2>1, <2>3 DEF Submits, UserOf
    <3>2. request'[q].pc # "destroy"
      <4>1. ASSUME NEW b \in Browsers, Visit(b) PROVE request'[q].pc # "destroy"
        <5>1. ASSUME NEW p \in Requests,
                     NEW pc \in {"settings", "revoke", "logout"}, Submit(p, b, pc)
              PROVE  request'[q].pc # "destroy"
          BY <1>t, <2>3, <5>1 DEF Submit, Becomes, TypeOK, Submits, Idle
        <5> QED BY <1>t, <2>3, <4>1, <5>1
                DEF Visit, login, Forget, ReapExpired, OpenPage, callback, Becomes,
                    SubmitSettings, SubmitDisconnect, SubmitLogout, Submits,
                    Idle, Post, TypeOK
      <4>2. ASSUME NEW p \in Requests, Form(p) PROVE request'[q].pc # "destroy"
        <5>1. /\ request[p].pc \in {"settings", "logout", "revoke", "delete",
                                    "destroy", "left"}
              /\ \E v : Becomes(p, v)
          BY <4>2 DEF Form, update_settings, logout, RevokeGrant, DeleteUser,
             destroy, Disconnected, Goes
        <5>2. p # q
          BY <2>3, <5>1 DEF Submits, Idle
        <5>3. request'[q] = request[q]
          BY <5>1, <5>2, <1>t DEF Becomes, TypeOK
        <5> QED BY <2>3, <5>3 DEF Submits, Idle
      <4>3. ASSUME NEW p \in Requests, SignIn(p) PROVE request'[q].pc # "destroy"
        BY <1>t, <2>3, <4>3, SignInRequest DEF Submits, Advances, Idle, Callback, Post
      <4>4. CASE request'[q] \in {request[q], Idle}
        BY <2>3, <4>4 DEF Submits, Idle
      <4> QED BY <1>o, <4>1, <4>2, <4>3, <4>4 DEF Next
    <3> QED BY <2>1, <3>1, <3>2
  <2>4. CASE Continues(q)
    <3>1. request'[q].user = sessions[s].user /\ request[q].pc # "destroy"
      BY <1>3, <2>1, <2>4 DEF Continues, FormsEndTheirOwn
    <3>2. request'[q].pc = "destroy" /\ request[q].pc # "destroy" => DeleteUser(q)
      <4>1. ASSUME NEW p \in Requests, SignIn(p) PROVE request'[q] = request[q]
        BY <1>t, <2>4, <4>1, SignInRequest DEF Continues, Advances, Idle, Callback, Post
      <4>2. ASSUME NEW p \in Requests, Form(p), request'[q].pc = "destroy",
                   request[q].pc # "destroy"
            PROVE  DeleteUser(q)
        <5>1. p = q
          BY <1>t, <4>2
             DEF Form, update_settings, logout, RevokeGrant, DeleteUser, destroy,
                 Disconnected, Goes, Becomes, TypeOK
        <5> QED BY <1>t, <2>4, <4>2, <5>1
                DEF Form, update_settings, logout, RevokeGrant, DeleteUser, destroy,
                    Disconnected, Goes, Becomes, TypeOK, Idle, Continues, Post
      <4>3. ASSUME NEW b \in Browsers, Visit(b) PROVE request'[q] = request[q]
        BY <1>t, <2>4, <4>3
           DEF Visit, login, Forget, ReapExpired, OpenPage, callback, Becomes,
               SubmitSettings, SubmitDisconnect, SubmitLogout, Submit, Continues,
               Idle, Post, TypeOK
      <4>4. CASE request'[q] \in {request[q], Idle}
        BY <4>4 DEF Idle
      <4> QED BY <1>o, <4>1, <4>2, <4>3, <4>4 DEF Next
    <3>3. ~DeleteUser(q)
      <4> SUFFICES ASSUME DeleteUser(q) PROVE FALSE
        OBVIOUS
      <4>1. sessions' = Orphaned(request[q].user)
        BY DEF DeleteUser
      <4>2. request[q].user = sessions[s].user
        BY <2>4, <3>1 DEF Continues
      <4> QED BY <1>3, <1>s, <2>1, <4>1, <4>2 DEF Orphaned
    <3> QED BY <2>1, <3>1, <3>2, <3>3
  <2> QED BY <1>k, <2>2, <2>3, <2>4
<1> QED BY <1>1, <1>2, <1>3, <1>d, <1>s

LEMMA FormsEndTheirOwnHolds == Spec => [](AccountsInv /\ FormsEndTheirOwn)
<1>1. Init => AccountsInv /\ FormsEndTheirOwn
  BY InitAccountsInv DEF Init, FormsEndTheirOwn, Idle, Post
<1>2. AccountsInv /\ FormsEndTheirOwn /\ [Next]_vars => (AccountsInv /\ FormsEndTheirOwn)'
  BY NextAccountsInv, NextFormsEndTheirOwn
<1> QED BY <1>1, <1>2, PTL DEF Spec

\* Only the last response of a sign-in or a disconnect touches the cookie.
LEMMA CookieStays ==
  ASSUME TypeOK, [Next]_vars, NEW b \in Browsers,
         \A q \in Requests : request[q].pc \in {"respond", "left"} => request[q].by # b
  PROVE  browser'[b].session = browser[b].session
<1> USE DEF TypeOK
<1>b. \A a \in Browsers : browser[a] \in Browser
  OBVIOUS
<1>s. ASSUME NEW a, browser' = WithoutState(a)
      PROVE  browser'[b].session = browser[b].session
  BY <1>b, <1>s DEF WithoutState, Browser
<1>1. ASSUME NEW a \in Browsers, Visit(a)
      PROVE  browser'[b].session = browser[b].session
  <2>1. CASE login(a)
    <3>1. browser' = [browser EXCEPT ![a] = [browser[a] EXCEPT !.state = drawn'.states]]
      BY <2>1 DEF login
    <3> QED BY <1>b, <3>1 DEF Browser
  <2>2. CASE Forget(a)
    BY <1>b, <2>2 DEF Forget, Browser
  <2>3. CASE OpenPage(a)
    <3>1. browser' = [browser EXCEPT ![a] = [browser[a] EXCEPT
             !.page = [csrf |-> browser[a].session, user |-> UserOf(a)]]]
      BY <2>3 DEF OpenPage
    <3> QED BY <1>b, <3>1 DEF Browser
  <2> QED BY <1>1, <1>s, <2>1, <2>2, <2>3
          DEF Visit, ReapExpired, callback, SubmitSettings, SubmitDisconnect,
              SubmitLogout, Submit
<1>2. ASSUME NEW q \in Requests, SignIn(q)
      PROVE  browser'[b].session = browser[b].session
  <2>1. CASE SignedIn(q)
    <3>1. browser' = [browser EXCEPT ![request[q].by] =
            [[browser[request[q].by] EXCEPT !.state = Null] EXCEPT !.session = request[q].session]]
      <4>1. request[q] \in Callback /\ request[q].by \in Browsers
        BY <2>1, Kinds DEF SignedIn, Requested, Callback
      <4> QED BY <2>1, <4>1 DEF SignedIn, WithoutState
    <3>2. request[q].by # b
      BY <2>1 DEF SignedIn
    <3> QED BY <3>1, <3>2
  <2> QED BY <1>2, <1>s, <2>1
          DEF SignIn, Exchange, UpdateUser, DrawUser, InsertUser, LinkInstallations,
              create, set_user, Refuse
<1>3. ASSUME NEW q \in Requests, Form(q)
      PROVE  browser'[b].session = browser[b].session
  <2>1. CASE Disconnected(q)
    BY <2>1 DEF Disconnected
  <2> QED BY <1>3, <2>1
          DEF Form, update_settings, logout, RevokeGrant, DeleteUser, destroy
<1>4. ASSUME NEW q \in Requests, Fails(q)
      PROVE  browser'[b].session = browser[b].session
  BY <1>4, <1>s DEF Fails
<1>5. CASE \/ \E s \in Sids : Expire(s)
           \/ \E i \in Ids : unsubscribe_pause(i)
           \/ Restart \/ UNCHANGED vars
  BY <1>5 DEF Expire, unsubscribe_pause, Restart, vars
<1> QED BY <1>1, <1>2, <1>3, <1>4, <1>5 DEF Next

\* A session that is valid stays as it is until somebody ends it or it is old.
LEMMA SessionStays ==
  ASSUME AccountsInv, FormsEndTheirOwn, [Next]_vars,
         NEW b \in Browsers, CurrentUser(b),
         \A q \in Requests : ~Ends(q, browser[b].session, UserOf(b))
  PROVE  LET s == browser[b].session IN
         \/ sessions'[s] = sessions[s]
         \/ sessions'[s] # Null /\ sessions'[s].old
<1> DEFINE s == browser[b].session
           Stays == sessions'[s] = sessions[s] \/ (sessions'[s] # Null /\ sessions'[s].old)
<1>t. TypeOK /\ Progress /\ SessionsAreNew
  BY DEF AccountsInv, Sign
<1>s. /\ s # Null /\ s \in Sids /\ sessions[s] # Null /\ ~sessions[s].old
      /\ UserOf(b) = sessions[s].user /\ UserOf(b) # Null
  BY <1>t DEF CurrentUser, UserOf, TypeOK, Browser
<1> USE AccountsAssumption, AccountsNullAssumption DEF TypeOK
<1>1. ASSUME NEW a \in Browsers, Visit(a) PROVE Stays
  <2>1. CASE ReapExpired(a)
    BY <1>t, <1>s, <2>1 DEF ReapExpired
  <2> QED BY <1>1, <2>1
          DEF Visit, login, Forget, OpenPage, callback, SubmitSettings,
              SubmitDisconnect, SubmitLogout, Submit
<1>2. ASSUME NEW q \in Requests, SignIn(q) PROVE Stays
  <2>1. CASE create(q)
    <3>1. s <= drawn.sids /\ s \in Nat /\ drawn'.sids = drawn.sids + 1
      BY <1>t, <1>s, <2>1 DEF SessionsAreNew, Sids, create
    <3>2. drawn'.sids # s
      BY <1>t, <3>1
    <3> QED BY <1>t, <1>s, <2>1, <3>2 DEF create
  <2>2. CASE set_user(q)
    <3>1. request[q].session # s
      BY <1>t, <2>2 DEF set_user, SessionsAreNew
    <3> QED BY <1>t, <1>s, <2>2, <3>1 DEF set_user
  <2> QED BY <1>2, <2>1, <2>2
          DEF SignIn, Exchange, UpdateUser, DrawUser, InsertUser, LinkInstallations,
              SignedIn
<1>3. ASSUME NEW q \in Requests, Form(q) PROVE Stays
  <2>1. CASE logout(q)
    BY <1>t, <1>s, <2>1 DEF logout, Ends
  <2>2. CASE DeleteUser(q)
    BY <1>t, <1>s, <2>2 DEF DeleteUser, Ends, Orphaned
  <2>3. CASE destroy(q)
    <3>1. request[q] \in Post
      BY <1>t, <2>3, Kinds DEF destroy, Requested
    <3>2. request[q].session # s
      BY <1>s, <2>3, <3>1 DEF destroy, FormsEndTheirOwn
    <3> QED BY <1>t, <1>s, <2>3, <3>2 DEF destroy
  <2> QED BY <1>3, <2>1, <2>2, <2>3
          DEF Form, update_settings, RevokeGrant, Disconnected
<1>4. ASSUME NEW t \in Sids, Expire(t) PROVE Stays
  <2>1. CASE t # s
    BY <1>t, <1>s, <1>4, <2>1 DEF Expire
  <2>2. CASE t = s
    <3>1. sessions'[s] = [sessions[s] EXCEPT !.old = TRUE] /\ sessions[s] \in Session
      BY <1>t, <1>s, <1>4, <2>2 DEF Expire
    <3>2. sessions'[s] \in Session /\ sessions'[s].old
      BY <3>1 DEF Session
    <3> QED BY <3>2
  <2> QED BY <2>1, <2>2
<1>5. CASE \/ \E q \in Requests : Fails(q)
           \/ \E i \in Ids : unsubscribe_pause(i)
           \/ Restart \/ UNCHANGED vars
  BY <1>5 DEF Fails, unsubscribe_pause, Restart, vars
<1> QED BY <1>1, <1>2, <1>3, <1>4, <1>5 DEF Next

\* Who is signed in stays so, whatever the other browsers and users do and
\* however often the service is started again.
THEOREM StaysSignedInHolds == Spec => StaysSignedIn
<1> DEFINE Inv == AccountsInv /\ FormsEndTheirOwn
           Stays == \A b \in Browsers : CurrentUser(b) =>
             LET s == browser[b].session IN
             \/ CurrentUser(b)' /\ browser'[b].session = s
             \/ sessions'[s] # Null /\ sessions'[s].old
             \/ \E q \in Requests : Ends(q, s, UserOf(b))
             \/ \E q \in Requests :
                  request[q].pc \in {"respond", "left"} /\ request[q].by = b
<1>1. Inv /\ [Next]_vars => [Stays]_vars
  <2> SUFFICES ASSUME Inv, [Next]_vars, NEW b \in Browsers, CurrentUser(b),
                      NEW s, s = browser[b].session,
                      ~(sessions'[s] # Null /\ sessions'[s].old),
                      \A q \in Requests : ~Ends(q, s, UserOf(b)),
                      \A q \in Requests :
                        request[q].pc \in {"respond", "left"} => request[q].by # b
               PROVE  CurrentUser(b)' /\ browser'[b].session = s
    OBVIOUS
  <2>t. TypeOK /\ Progress
    BY DEF AccountsInv, Sign
  <2>1. browser'[b].session = s
    BY <2>t, CookieStays
  <2>2. sessions'[s] = sessions[s]
    BY SessionStays
  <2>3. UserOf(b)' = UserOf(b)
    BY <2>1, <2>2 DEF UserOf
  <2>4. UserOf(b) \in Ids /\ users[UserOf(b)] # Null
    BY <2>t DEF CurrentUser, UserOf, TypeOK, Browser, Session
  <2>5. users'[UserOf(b)] # Null
    BY <2>t, <2>4, UsersChange DEF Kept, Inserted, Deleted, Ends
  <2> QED BY <2>1, <2>2, <2>3, <2>5 DEF CurrentUser
<1> QED BY <1>1, FormsEndTheirOwnHolds, PTL DEF Spec, StaysSignedIn
=============================================================================
