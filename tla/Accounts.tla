------------------------------ MODULE Accounts ------------------------------
(***************************************************************************)
(* Who is who: browsers, the sessions the service gives them, the users    *)
(* rows behind the sessions, and the requests in between (src/session.rs,  *)
(* src/github/oauth.rs, src/routes.rs).  A request is a sequence of        *)
(* statements; other requests, of this browser or another, run between any *)
(* two of them, and the browser learns of its cookies only from the        *)
(* response.  Pages stay open in a browser after it has signed in as       *)
(* somebody else.                                                          *)
(***************************************************************************)
EXTENDS Replies

CONSTANTS
  Browsers,
  Requests,     \* requests that may be served at a time
  Persons,      \* GitHub accounts
  MaxUsers,     \* bound: users rows ever inserted
  MaxSessions,  \* bound: sessions ever signed in
  MaxLogins,    \* bound: visits to /login
  MaxFaults,    \* bound: requests that fail, restarts, expiries
  Null

ASSUME AccountsAssumption ==
  /\ MaxUsers \in Nat /\ MaxSessions \in Nat
  /\ MaxLogins \in Nat /\ MaxFaults \in Nat

\* Random ids never repeat: they are numbered as they are drawn.
Ids    == 1 .. MaxUsers
Sids   == 1 .. MaxSessions
States == 1 .. MaxLogins

VARIABLES
  users,     \* the users rows, or Null
  sessions,  \* the sessions rows with their user_sessions mapping, or Null
  browser,   \* what each browser holds: cookies and an open page
  request,   \* what each request is doing
  drawn,     \* how many ids, session ids and OAuth states have been drawn
  faults,    \* bound counter
  begun,     \* history: the browser each OAuth state was given to
  granted    \* history: who authorized each session, and in which browser

vars == <<users, sessions, browser, request, drawn, faults, begun, granted>>

-----------------------------------------------------------------------------
(* State *)

\* The stored tokens: whose they are, and the user_id they are sealed under.
Sealed == [of : Persons, bound : Ids]
User   == [person : Persons, tokens : Sealed, paused : BOOLEAN]

\* A session without a mapping row has the user Null.  A mapping row holds a
\* CSRF token minted with it, named by its session; old once 30 days have
\* passed.
Session == [user : Ids \cup {Null}, old : BOOLEAN]

\* A page carries the CSRF token of the session it was rendered for.
Page    == [csrf : Sids, user : Ids]
Browser == [state : States \cup {Null}, session : Sids \cup {Null},
            page : Page \cup {Null}]
Grant   == [by : Browsers, person : Persons]

ASSUME AccountsNullAssumption ==
  /\ Null \notin Ids /\ Null \notin Sids /\ Null \notin States
  /\ Null \notin User /\ Null \notin Session /\ Null \notin Page
  /\ Null \notin Browsers /\ Null \notin Grant

Idle == [pc |-> "idle"]

\* A callback that has passed the state check.  found: the row the SELECT has
\* seen; id: the row it has written; session: the session it has created.
Callback == [pc : {"exchange", "select", "insert", "links", "session",
                   "set_user", "respond"},
             by : Browsers, state : States, person : Persons,
             id : Ids \cup {Null}, session : Sids \cup {Null}]

\* A POST of a signed-in form that has passed CurrentUser and the CSRF check.
Post == [pc : {"settings", "logout", "revoke", "delete", "destroy", "left"},
         by : Browsers, session : Sids, user : Ids, page : Page]

Init ==
  /\ users = [i \in Ids |-> Null]
  /\ sessions = [s \in Sids |-> Null]
  /\ browser = [b \in Browsers |-> [state |-> Null, session |-> Null, page |-> Null]]
  /\ request = [q \in Requests |-> Idle]
  /\ drawn = [ids |-> 0, sids |-> 0, states |-> 0]
  /\ faults = 0
  /\ begun = [n \in States |-> Null]
  /\ granted = [s \in Sids |-> Null]

history == <<begun, granted>>

Becomes(q, next) == request' = [request EXCEPT ![q] = next]
Goes(q, pc)      == Becomes(q, [request[q] EXCEPT !.pc = pc])
Fault            == faults < MaxFaults /\ faults' = faults + 1

-----------------------------------------------------------------------------
(* Sessions (src/session.rs) *)

\* from_db: the user a browser's session cookie stands for, with the mapping
\* row joined in.  No cookie, no row and no mapping are all anonymous.
UserOf(b) ==
  LET s == browser[b].session
  IN  IF s = Null THEN Null
      ELSE IF sessions[s] = Null THEN Null ELSE sessions[s].user

\* The extractor CurrentUser lets a request through.
CurrentUser(b) ==
  LET id == UserOf(b)
  IN  /\ id # Null
      /\ ~sessions[browser[b].session].old
      /\ users[id] # Null

\* CurrentUser, for a mapping past its age: the mapping goes, the browser is
\* sent to /login.
ReapExpired(b) ==
  /\ UserOf(b) # Null
  /\ sessions[browser[b].session].old
  /\ sessions' = [sessions EXCEPT ![browser[b].session] = [user |-> Null, old |-> FALSE]]
  /\ UNCHANGED <<users, browser, request, drawn, faults, history>>

\* 30 days pass.
Expire(s) ==
  /\ sessions[s] # Null /\ sessions[s].user # Null /\ ~sessions[s].old
  /\ sessions' = [sessions EXCEPT ![s].old = TRUE]
  /\ Fault
  /\ UNCHANGED <<users, browser, request, drawn, history>>

\* Faulty variant: any token will do.
csrf_matches_Any(b, page) == page # Null

\* The token in the form is the one of the session that comes with it.
csrf_matches(b, page) == page # Null /\ page.csrf = browser[b].session

\* DELETE FROM users cascades to the mapping rows, not to the sessions.
Orphaned(id) == [s \in Sids |->
  IF sessions[s] # Null /\ sessions[s].user = id
  THEN [user |-> Null, old |-> FALSE] ELSE sessions[s]]

-----------------------------------------------------------------------------
(* Sign-in: /login and /callback (src/github/oauth.rs) *)

\* A fresh state goes to GitHub and, encrypted, into a cookie.
login(b) ==
  /\ drawn.states < MaxLogins
  /\ drawn' = [drawn EXCEPT !.states = @ + 1]
  /\ browser' = [browser EXCEPT ![b].state = drawn'.states]
  /\ begun' = [begun EXCEPT ![drawn'.states] = b]
  /\ UNCHANGED <<users, sessions, request, faults, granted>>

\* The browser drops the state cookie after ten minutes.
Forget(b) ==
  /\ browser[b].state # Null
  /\ browser' = [browser EXCEPT ![b].state = Null]
  /\ Fault
  /\ UNCHANGED <<users, sessions, request, drawn, history>>

\* Every response of /callback removes the state cookie.
WithoutState(b) == [browser EXCEPT ![b].state = Null]

\* GitHub or the database says no to the callback, which answers 500.
Refuse(q) == browser' = WithoutState(request[q].by) /\ Becomes(q, Idle)

\* Faulty variant: a state cookie is enough, whatever the URL says.
callback_AnyState(q, b, state, person) ==
  /\ request[q] = Idle
  /\ IF browser[b].state # Null /\ person # Null
     THEN /\ Becomes(q, [pc |-> "exchange", by |-> b, state |-> state,
                         person |-> person, id |-> Null, session |-> Null])
          /\ UNCHANGED browser
     ELSE browser' = WithoutState(b) /\ UNCHANGED request
  /\ UNCHANGED <<users, sessions, drawn, faults, history>>

\* Faulty variant: a callback without a code is exchanged as well.
callback_NoCode(q, b, state, person) ==
  /\ request[q] = Idle
  /\ IF browser[b].state # Null /\ state = browser[b].state
     THEN /\ Becomes(q, [pc |-> "exchange", by |-> b, state |-> state,
                         person |-> person, id |-> Null, session |-> Null])
          /\ UNCHANGED browser
     ELSE browser' = WithoutState(b) /\ UNCHANGED request
  /\ UNCHANGED <<users, sessions, drawn, faults, history>>

\* GitHub sends a browser back, or somebody opens a URL of a login that another
\* browser began.  person: who authorized at GitHub, Null for nobody.
callback(q, b, state, person) ==
  /\ request[q] = Idle
  /\ IF browser[b].state # Null /\ state = browser[b].state /\ person # Null
     THEN /\ Becomes(q, [pc |-> "exchange", by |-> b, state |-> state,
                         person |-> person, id |-> Null, session |-> Null])
          /\ UNCHANGED browser
     ELSE browser' = WithoutState(b) /\ UNCHANGED request
  /\ UNCHANGED <<users, sessions, drawn, faults, history>>

\* The code is exchanged, and GitHub asked who this is and where to mail: all
\* three replies have to be good.
Identified ==
  {exchange_code(r) /\ fetch_viewer(v) /\ fetch_primary_email(m, emails) # {} :
     r \in TokenReplies, v, m \in ReadReplies, emails \in Emails}

Exchange(q) ==
  /\ request[q].pc = "exchange"
  /\ \E good \in Identified :
       IF good THEN Goes(q, "select") /\ UNCHANGED browser ELSE Refuse(q)
  /\ UNCHANGED <<users, sessions, drawn, faults, history>>

\* What is sealed under one id opens under no other (src/crypto.rs).
encrypt(person, id)    == [of |-> person, bound |-> id]
decrypt(sealed, id)    == sealed.bound = id

RowsOf(person) == {i \in Ids : users[i] # Null /\ users[i].person = person}

\* Faulty variant: the tokens are sealed before the row is looked up, under
\* the id a new row would get.
UpdateUser_SealedEarly(q) ==
  LET me == request[q]
  IN  /\ me.pc = "select" /\ drawn.ids < MaxUsers
      /\ drawn' = [drawn EXCEPT !.ids = @ + 1]
      /\ \E i \in RowsOf(me.person) :
           /\ users' = [users EXCEPT ![i].tokens = encrypt(me.person, drawn'.ids)]
           /\ Becomes(q, [me EXCEPT !.pc = "links", !.id = i])
      /\ UNCHANGED <<sessions, browser, faults, history>>

\* SELECT ... FOR UPDATE finds the row and holds it until the commit.
UpdateUser(q) ==
  LET me == request[q]
  IN  /\ me.pc = "select"
      /\ \E i \in RowsOf(me.person) :
           /\ users' = [users EXCEPT ![i].tokens = encrypt(me.person, i)]
           /\ Becomes(q, [me EXCEPT !.pc = "links", !.id = i])
      /\ UNCHANGED <<sessions, browser, drawn, faults, history>>

\* The SELECT finds nothing, which locks nothing: an id is drawn.
DrawUser(q) ==
  LET me == request[q]
  IN  /\ me.pc = "select" /\ RowsOf(me.person) = {}
      /\ drawn.ids < MaxUsers
      /\ drawn' = [drawn EXCEPT !.ids = @ + 1]
      /\ Becomes(q, [me EXCEPT !.pc = "insert", !.id = drawn'.ids])
      /\ UNCHANGED <<users, sessions, browser, faults, history>>

\* Faulty variant: github_user_id is not UNIQUE.
InsertUser_NotUnique(q) ==
  LET me == request[q]
  IN  /\ me.pc = "insert"
      /\ users' = [users EXCEPT ![me.id] =
           [person |-> me.person, tokens |-> encrypt(me.person, me.id), paused |-> FALSE]]
      /\ Goes(q, "links")
      /\ UNCHANGED <<sessions, browser, drawn, faults, history>>

\* The loser of a race of first sign-ins violates the UNIQUE constraint.
InsertUser(q) ==
  LET me == request[q]
  IN  /\ me.pc = "insert"
      /\ IF RowsOf(me.person) = {}
         THEN /\ users' = [users EXCEPT ![me.id] =
                   [person |-> me.person, tokens |-> encrypt(me.person, me.id),
                    paused |-> FALSE]]
              /\ Goes(q, "links")
              /\ UNCHANGED browser
         ELSE Refuse(q) /\ UNCHANGED users
      /\ UNCHANGED <<sessions, drawn, faults, history>>

\* The user's installations are read and linked.  If the user was deleted
\* meanwhile the foreign key refuses the link, unless there is none to make.
LinkInstallations(q) ==
  /\ request[q].pc = "links"
  /\ \/ /\ \E reply \in ReadReplies : fetch_user_installations(reply)
        /\ Goes(q, "session")
        /\ UNCHANGED browser
     \/ /\ \/ users[request[q].id] = Null
           \/ \E reply \in ReadReplies : ~fetch_user_installations(reply)
        /\ Refuse(q)
  /\ UNCHANGED <<users, sessions, drawn, faults, history>>

\* PrnSession::create: a fresh session for every sign-in.
create(q) ==
  /\ request[q].pc = "session"
  /\ drawn.sids < MaxSessions
  /\ drawn' = [drawn EXCEPT !.sids = @ + 1]
  /\ sessions' = [sessions EXCEPT ![drawn'.sids] = [user |-> Null, old |-> FALSE]]
  /\ Becomes(q, [request[q] EXCEPT !.pc = "set_user", !.session = drawn'.sids])
  /\ UNCHANGED <<users, browser, faults, history>>

\* Faulty variant: no foreign key guards user_sessions.
set_user_NoForeignKey(q) ==
  LET me == request[q]
  IN  /\ me.pc = "set_user"
      /\ sessions' = [sessions EXCEPT ![me.session] = [user |-> me.id, old |-> FALSE]]
      /\ granted' = [granted EXCEPT ![me.session] =
                       [by |-> begun[me.state], person |-> me.person]]
      /\ Goes(q, "respond")
      /\ UNCHANGED <<users, browser, drawn, faults, begun>>

\* PrnSession::set_user: the session gets its user and a CSRF token, unless
\* the user is gone.
set_user(q) ==
  LET me == request[q]
  IN  /\ me.pc = "set_user"
      /\ IF users[me.id] # Null
         THEN /\ sessions' = [sessions EXCEPT ![me.session] = [user |-> me.id, old |-> FALSE]]
              /\ granted' = [granted EXCEPT ![me.session] =
                               [by |-> begun[me.state], person |-> me.person]]
              /\ Goes(q, "respond")
              /\ UNCHANGED browser
         ELSE Refuse(q) /\ UNCHANGED <<sessions, granted>>
      /\ UNCHANGED <<users, drawn, faults, begun>>

\* The first SyncUser is enqueued, or not, and the cookies are set.
SignedIn(q) ==
  LET me == request[q]
  IN  /\ me.pc = "respond"
      /\ browser' = [WithoutState(me.by) EXCEPT ![me.by].session = me.session]
      /\ Becomes(q, Idle)
      /\ UNCHANGED <<users, sessions, drawn, faults, history>>

-----------------------------------------------------------------------------
(* The signed-in pages (src/routes.rs) *)

\* GET /dashboard and /settings: every form of the page has the CSRF token of
\* the session it was rendered for.
OpenPage(b) ==
  /\ CurrentUser(b)
  /\ browser' = [browser EXCEPT ![b].page =
       [csrf |-> browser[b].session, user |-> UserOf(b)]]
  /\ UNCHANGED <<users, sessions, request, drawn, faults, history>>

\* A form of the open page is sent, with the cookie the browser has by now.
Submit(q, b, pc) ==
  /\ request[q] = Idle
  /\ csrf_matches(b, browser[b].page)
  /\ Becomes(q, [pc |-> pc, by |-> b, session |-> browser[b].session,
                 user |-> UserOf(b), page |-> browser[b].page])
  /\ UNCHANGED <<users, sessions, browser, drawn, faults, history>>

\* POST /settings, /disconnect
SubmitSettings(q, b)   == CurrentUser(b) /\ Submit(q, b, "settings")
SubmitDisconnect(q, b) == CurrentUser(b) /\ Submit(q, b, "revoke")

\* POST /logout asks for a session with a user, of any age.
SubmitLogout(q, b)     == UserOf(b) # Null /\ Submit(q, b, "logout")

\* UPDATE users: nobody's row, when the user is gone.
update_settings(q, paused) ==
  LET id == request[q].user
  IN  /\ request[q].pc = "settings"
      /\ users' = IF users[id] = Null THEN users
                  ELSE [users EXCEPT ![id].paused = paused]
      /\ Becomes(q, Idle)
      /\ UNCHANGED <<sessions, browser, drawn, faults, history>>

\* clear_user: the mapping goes, the session and its cookie stay.
logout(q) ==
  LET s == request[q].session
  IN  /\ request[q].pc = "logout"
      /\ sessions' = IF sessions[s] = Null THEN sessions
                     ELSE [sessions EXCEPT ![s] = [user |-> Null, old |-> FALSE]]
      /\ Becomes(q, Idle)
      /\ UNCHANGED <<users, browser, drawn, faults, history>>

\* A token is found, refreshed or stored, and the grant revoked with it if that
\* works; only a user who is gone stops the request.
RevokeGrant(q) ==
  /\ request[q].pc = "revoke"
  /\ IF users[request[q].user] # Null THEN Goes(q, "delete") ELSE Becomes(q, Idle)
  /\ UNCHANGED <<users, sessions, browser, drawn, faults, history>>

DeleteUser(q) ==
  LET id == request[q].user
  IN  /\ request[q].pc = "delete"
      /\ users' = [users EXCEPT ![id] = Null]
      /\ sessions' = Orphaned(id)
      /\ Goes(q, "destroy")
      /\ UNCHANGED <<browser, drawn, faults, history>>

\* PrnSession::destroy
destroy(q) ==
  /\ request[q].pc = "destroy"
  /\ sessions' = [sessions EXCEPT ![request[q].session] = Null]
  /\ Goes(q, "left")
  /\ UNCHANGED <<users, browser, drawn, faults, history>>

Disconnected(q) ==
  /\ request[q].pc = "left"
  /\ browser' = [browser EXCEPT ![request[q].by].session = Null]
  /\ Becomes(q, Idle)
  /\ UNCHANGED <<users, sessions, drawn, faults, history>>

\* POST /unsubscribe with the token of a user, from anywhere.
unsubscribe_pause(id) ==
  /\ users[id] # Null
  /\ users' = [users EXCEPT ![id].paused = TRUE]
  /\ UNCHANGED <<sessions, browser, request, drawn, faults, history>>

-----------------------------------------------------------------------------
(* Failures *)

\* A statement or a call of a request fails: 500.  A callback has marked the
\* state cookie for removal by then.
Fails(q) ==
  /\ request[q] # Idle
  /\ browser' = IF request[q] \in Callback THEN WithoutState(request[q].by) ELSE browser
  /\ Becomes(q, Idle)
  /\ Fault
  /\ UNCHANGED <<users, sessions, drawn, history>>

\* Faulty variant: a cookie key per boot, so the browsers' cookies are void.
Restart_NewKey ==
  /\ request' = [q \in Requests |-> Idle]
  /\ browser' = [b \in Browsers |-> [browser[b] EXCEPT !.state = Null, !.session = Null]]
  /\ Fault
  /\ UNCHANGED <<users, sessions, drawn, history>>

\* A deployment or a crash: requests are cut off unanswered, and the cookies
\* are read with the same COOKIE_KEY as before (src/state.rs).
Restart ==
  /\ request' = [q \in Requests |-> Idle]
  /\ Fault
  /\ UNCHANGED <<users, sessions, browser, drawn, history>>

-----------------------------------------------------------------------------
SignIn(q) ==
  \/ Exchange(q) \/ UpdateUser(q) \/ DrawUser(q) \/ InsertUser(q)
  \/ LinkInstallations(q) \/ create(q) \/ set_user(q) \/ SignedIn(q)

Form(q) ==
  \/ \E paused \in BOOLEAN : update_settings(q, paused)
  \/ logout(q)
  \/ RevokeGrant(q) \/ DeleteUser(q) \/ destroy(q) \/ Disconnected(q)

Visit(b) ==
  \/ login(b) \/ Forget(b) \/ ReapExpired(b) \/ OpenPage(b)
  \/ \E q \in Requests :
       \/ \E n \in 1 .. drawn.states, person \in Persons \cup {Null} :
            callback(q, b, n, person)
       \/ SubmitSettings(q, b) \/ SubmitDisconnect(q, b) \/ SubmitLogout(q, b)

Next ==
  \/ \E b \in Browsers : Visit(b)
  \/ \E q \in Requests : SignIn(q) \/ Form(q) \/ Fails(q)
  \/ \E s \in Sids : Expire(s)
  \/ \E i \in Ids : unsubscribe_pause(i)
  \/ Restart

Spec == Init /\ [][Next]_vars

-----------------------------------------------------------------------------
(* Properties *)

TypeOK ==
  /\ users \in [Ids -> User \cup {Null}]
  /\ sessions \in [Sids -> Session \cup {Null}]
  /\ browser \in [Browsers -> Browser]
  /\ request \in [Requests -> {Idle} \cup Callback \cup Post]
  /\ drawn \in [ids : 0 .. MaxUsers, sids : 0 .. MaxSessions, states : 0 .. MaxLogins]
  /\ faults \in 0 .. MaxFaults
  /\ begun \in [States -> Browsers \cup {Null}]
  /\ granted \in [Sids -> Grant \cup {Null}]

\* Whatever the order in which a person's sign-ins, disconnects and sign-ups
\* come, the row's tokens are its person's and open under the row's own id
\* (oauth.rs "encrypt under the definitive id", crypto.rs).
TokensReadable == \A i \in Ids : users[i] # Null =>
  decrypt(users[i].tokens, i) /\ users[i].tokens.of = users[i].person

\* A GitHub account has one row, also when two first sign-ins race between the
\* SELECT and the INSERT (oauth.rs "Two truly concurrent FIRST sign-ins").
OneRowPerAccount == \A i, j \in Ids :
  users[i] # Null /\ users[j] # Null /\ users[i].person = users[j].person => i = j

\* No session is of a user who is gone: not when a disconnect stops halfway,
\* and not when a sign-in of the same account is under way (routes.rs
\* disconnect, "cascades ... session mappings").
NoGhosts == \A s \in Sids :
  sessions[s] # Null /\ sessions[s].user # Null => users[sessions[s].user] # Null

\* The session a browser holds comes of a login begun in this browser, and is
\* of the person who authorized it: nobody is signed in as somebody else by a
\* link or by a response meant for another (oauth.rs callback, the state).
SessionsAreOwn == \A b \in Browsers :
  LET s == browser[b].session
  IN  s # Null =>
        /\ granted[s] # Null /\ granted[s].by = b
        /\ UserOf(b) # Null => users[UserOf(b)].person = granted[s].person

\* A form acts for the user of the page it stands on: one that is sent after
\* the browser has signed in as somebody else deletes no account and resumes
\* nobody's reminders (routes.rs, csrf_matches).
FormsActForTheirUser == [][\A i \in Ids : users[i] # Null =>
  /\ users'[i] = Null =>
       \E q \in Requests : request[q].pc = "delete" /\ request[q].page.user = i
  /\ users'[i] # Null /\ users[i].paused /\ ~users'[i].paused =>
       \E q \in Requests : request[q].pc = "settings" /\ request[q].page.user = i]_vars

\* The request that ends the session s of user id: a logout of this session,
\* or a disconnect of this user.
Ends(q, s, id) ==
  \/ request[q].pc = "logout" /\ request[q].session = s
  \/ request[q].pc = "delete" /\ request[q].user = id

\* Who is signed in stays so until the session is 30 days old or is ended, or
\* until a sign-in or disconnect of the same browser sets its cookie: not until
\* the next deployment, and not because of what other users do (state.rs
\* COOKIE_KEY, session.rs).
StaysSignedIn == [][\A b \in Browsers : CurrentUser(b) =>
  LET s == browser[b].session IN
  \/ CurrentUser(b)' /\ browser'[b].session = s
  \/ sessions'[s] # Null /\ sessions'[s].old
  \/ \E q \in Requests : Ends(q, s, UserOf(b))
  \/ \E q \in Requests : request[q].pc \in {"respond", "left"} /\ request[q].by = b]_vars
=============================================================================
