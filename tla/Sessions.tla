------------------------------ MODULE Sessions ------------------------------
(***************************************************************************)
(* Login and credentials (auth/, api/handlers/auth.rs over users,          *)
(* oidc_identities, user_sessions and api_tokens): a login state is kept   *)
(* in memory until the OIDC provider calls back, the identity it vouches   *)
(* for is linked to a user, a session row is written, and the browser gets *)
(* an access token and a refresh token, both signed and stored nowhere.    *)
(* Sessions can be revoked, personal access tokens made and revoked.       *)
(*                                                                         *)
(* Each statement is a step; the transaction of upsert_oidc_identity runs  *)
(* READ COMMITTED, so that others commit between its reads.  Rows are      *)
(* never deleted, and nothing disables a user.  Time is counted in ticks.  *)
(***************************************************************************)
EXTENDS Integers, FiniteSets

CONSTANTS
    Users,          \* ids that users may get
    Emails, Subjects,
    Claims,         \* <<subject, email>>: what the provider may vouch for
    LoginStates,    \* random state parameters
    Sessions,       \* ids that sessions may get
    Pats,           \* personal access tokens
    Requests,       \* handlers that may be in flight at the same time
    AccessTTL, RefreshTTL, SessionTTL,
    MaxNow          \* the clock stops there

ASSUME SessionAssumption ==
    /\ Claims \subseteq Subjects \X Emails
    /\ {AccessTTL, RefreshTTL, SessionTTL, MaxNow} \subseteq Nat

VARIABLES
    now,
    login,          \* login[o]: "pending" while OidcService holds state o
    users,          \* rows <<id, email>> of users
    identities,     \* rows <<subject, user id>> of oidc_identities
    session,        \* session[x]: row of user_sessions
    access,         \* access[x]: when the last access token for x expires
    pat,            \* pat[p]: row of api_tokens
    req             \* the handlers in flight and their locals

accountVars == <<users, identities>>
vars == <<now, login, users, identities, session, access, pat, req>>

-----------------------------------------------------------------------------
\* History: subject and state say which login the session comes from.
SessionRecord == [user : Users, created : 0..MaxNow, revoked : BOOLEAN,
                  subject : Subjects, state : LoginStates]
NoSession == [revoked |-> TRUE]

\* expires_at NULL.
Never == MaxNow + 1

\* History: answers counts the DELETEs answered with "revoked".
ApiTokenRecord == [user : Users, expires : 0..Never, revoked : BOOLEAN, answers : Nat]
NoToken == [revoked |-> TRUE]

Returned == [pc : {"exchange"}, state : LoginStates]
Vouched == [pc : {"identity", "email"}, state : LoginStates, claim : Claims]
Linking == [pc : {"link"}, state : LoginStates, claim : Claims, user : Users]
Registering == [pc : {"register"}, state : LoginStates, claim : Claims]
Known == [pc : {"session"}, state : LoginStates, claim : Claims, user : Users]
LoggingOut == [pc : {"revoke"}, session : Sessions]
RevokingPat == [pc : {"revoke_pat"}, user : Users, pat : Pats]
Idle == [pc |-> "idle"]

TypeOK ==
    /\ now \in 0..MaxNow
    /\ login \in [LoginStates -> {"unused", "pending", "removed"}]
    /\ users \subseteq Users \X Emails
    /\ identities \subseteq Subjects \X Users
    /\ session \in [Sessions -> SessionRecord \cup {NoSession}]
    /\ access \in [Sessions -> Nat]
    /\ pat \in [Pats -> ApiTokenRecord \cup {NoToken}]
    /\ req \in [Requests -> Returned \cup Vouched \cup Linking \cup Registering \cup Known
                            \cup LoggingOut \cup RevokingPat \cup {Idle}]

Init ==
    /\ now = 0
    /\ login = [o \in LoginStates |-> "unused"]
    /\ users = {}
    /\ identities = {}
    /\ session = [x \in Sessions |-> NoSession]
    /\ access = [x \in Sessions |-> 0]
    /\ pat = [p \in Pats |-> NoToken]
    /\ req = [r \in Requests |-> Idle]

At(r, step) == req[r].pc = step
Return(r) == req' = [req EXCEPT ![r] = Idle]
Goto(r, locals) == req' = [req EXCEPT ![r] = locals]
Begin(r, locals) == req[r] = Idle /\ Goto(r, locals)

-----------------------------------------------------------------------------
(***************************************************************************)
(* PgUserRepo, PgAuthStore, PgApiTokenRepo.                                *)
(***************************************************************************)
UserIds == {u[1] : u \in users}
WithEmail(e) == {u \in Users : <<u, e>> \in users}
WithIdentity(s) == {u \in Users : <<s, u>> \in identities}
HasSession(x) == session[x] # NoSession
HasPat(p) == pat[p] # NoToken
ListForUser(u) == {p \in Pats : HasPat(p) /\ pat[p].user = u /\ ~pat[p].revoked}

\* Mutation: oidc_identities without UNIQUE (issuer, subject).
LinkIdentity_Twice(s, u) == identities' = identities \cup {<<s, u>>}

\* UNIQUE (issuer, subject).
LinkIdentity(s, u) ==
    /\ WithIdentity(s) = {}
    /\ identities' = identities \cup {<<s, u>>}

\* users.email is UNIQUE.
InsertUser(u, e) ==
    /\ u \notin UserIds
    /\ WithEmail(e) = {}
    /\ users' = users \cup {<<u, e>>}

InsertSession(x, row) == session[x] = NoSession /\ session' = [session EXCEPT ![x] = row]
RevokeSession(x) == session' = [session EXCEPT ![x].revoked = TRUE]

\* Mutation: the WHERE clause has lost revoked_at IS NULL.
RevokePat_Again(p, u) ==
    pat' = IF HasPat(p) /\ pat[p].user = u
           THEN [pat EXCEPT ![p] = [@ EXCEPT !.revoked = TRUE, !.answers = pat[p].answers + 1]]
           ELSE pat

\* One UPDATE .. WHERE user_id = $2 AND revoked_at IS NULL; true if it found a row.
RevokePat(p, u) ==
    pat' = IF p \in ListForUser(u)
           THEN [pat EXCEPT ![p] = [@ EXCEPT !.revoked = TRUE, !.answers = pat[p].answers + 1]]
           ELSE pat

-----------------------------------------------------------------------------
(***************************************************************************)
(* OidcService.                                                            *)
(***************************************************************************)
AuthorizeUrl(o) ==
    /\ login[o] = "unused"
    /\ login' = [login EXCEPT ![o] = "pending"]
    /\ UNCHANGED <<now, accountVars, session, access, pat, req>>

\* Mutation: the state is removed when the login has succeeded.
CallbackBegin_Keeps(r, o) ==
    /\ login[o] = "pending"
    /\ Begin(r, [pc |-> "exchange", state |-> o])
    /\ UNCHANGED <<now, login, accountVars, session, access, pat>>

\* handle_callback removes the state, under the lock, before anything else.
CallbackBegin(r, o) ==
    /\ login[o] = "pending"
    /\ login' = [login EXCEPT ![o] = "removed"]
    /\ Begin(r, [pc |-> "exchange", state |-> o])
    /\ UNCHANGED <<now, accountVars, session, access, pat>>

\* Mutation: an ID token without an email is passed on as it is.
Exchange_WithoutEmail(r, claim) ==
    /\ At(r, "exchange")
    /\ Goto(r, [pc |-> "identity", state |-> req[r].state, claim |-> <<claim[1]>>])
    /\ UNCHANGED <<now, login, accountVars, session, access, pat>>

\* The provider takes the code and vouches for an identity.
Exchange(r, claim) ==
    /\ At(r, "exchange")
    /\ Goto(r, [pc |-> "identity", state |-> req[r].state, claim |-> claim])
    /\ UNCHANGED <<now, login, accountVars, session, access, pat>>

Continue(q, step) == [pc |-> step, state |-> q.state, claim |-> q.claim]
ContinueAs(q, step, u) == [pc |-> step, state |-> q.state, claim |-> q.claim, user |-> u]

\* Mutation: the user is always looked up by his email.
FindIdentity_ByEmail(r) ==
    LET q == req[r] IN
    /\ At(r, "identity")
    /\ IF WithIdentity(q.claim[1]) = {} THEN Goto(r, Continue(q, "email"))
       ELSE \E u \in WithEmail(q.claim[2]) \cup WithIdentity(q.claim[1]) :
               Goto(r, ContinueAs(q, "session", u))
    /\ UNCHANGED <<now, login, accountVars, session, access, pat>>

\* upsert_oidc_identity, first read: someone who has logged in before is known
\* by his subject, whatever his email is now.
FindIdentity(r) ==
    LET q == req[r] IN
    /\ At(r, "identity")
    /\ IF WithIdentity(q.claim[1]) = {} THEN Goto(r, Continue(q, "email"))
       ELSE \E u \in WithIdentity(q.claim[1]) : Goto(r, ContinueAs(q, "session", u))
    /\ UNCHANGED <<now, login, accountVars, session, access, pat>>

\* Second read: a user with this email is linked.
FindEmail(r) ==
    LET q == req[r] IN
    /\ At(r, "email")
    /\ IF WithEmail(q.claim[2]) = {} THEN Goto(r, Continue(q, "register"))
       ELSE \E u \in WithEmail(q.claim[2]) : Goto(r, ContinueAs(q, "link", u))
    /\ UNCHANGED <<now, login, accountVars, session, access, pat>>

\* The INSERTs and the commit, or the violation of a constraint.
Link(r) ==
    LET q == req[r] IN
    /\ At(r, "link")
    /\ LinkIdentity(q.claim[1], q.user)
    /\ Goto(r, ContinueAs(q, "session", q.user))
    /\ UNCHANGED <<now, login, users, session, access, pat>>

Register(r, u) ==
    LET q == req[r] IN
    /\ At(r, "register")
    /\ InsertUser(u, q.claim[2])
    /\ LinkIdentity(q.claim[1], u)
    /\ Goto(r, ContinueAs(q, "session", u))
    /\ UNCHANGED <<now, login, session, access, pat>>

\* The session row, then generate_access_token and generate_refresh_token.
OpenSession(r, x) ==
    LET q == req[r] IN
    /\ At(r, "session")
    /\ InsertSession(x, [user |-> q.user, created |-> now, revoked |-> FALSE,
                         subject |-> q.claim[1], state |-> q.state])
    /\ access' = [access EXCEPT ![x] = now + AccessTTL]
    /\ Return(r)
    /\ UNCHANGED <<now, login, accountVars, pat>>

-----------------------------------------------------------------------------
(***************************************************************************)
(* Sessions and tokens.                                                    *)
(***************************************************************************)
\* validate_refresh_token asks for the signature, the expiry and a session id.
\* The session's one refresh token has them, and so has an access token of the
\* session; one of an application names no session.
RefreshValid(x) ==
    HasSession(x) /\ (now < session[x].created + RefreshTTL \/ now < access[x])

\* refresh_token: the answer carries a new access token and the token it was given.
Refresh(x) ==
    /\ RefreshValid(x)
    /\ access' = [access EXCEPT ![x] = now + AccessTTL]
    /\ UNCHANGED <<now, login, accountVars, session, pat, req>>

\* authenticate_headers, by cookie.
SessionValid(x) == HasSession(x) /\ ~session[x].revoked /\ now < session[x].created + SessionTTL

\* logout: by the cookie, with the session's own CSRF token.
LogoutCheck(r, x) ==
    /\ SessionValid(x)
    /\ Begin(r, [pc |-> "revoke", session |-> x])
    /\ UNCHANGED <<now, login, accountVars, session, access, pat>>

LogoutWrite(r) ==
    /\ At(r, "revoke")
    /\ RevokeSession(req[r].session)
    /\ Return(r)
    /\ UNCHANGED <<now, login, accountVars, access, pat>>

\* resolve_authenticated_user: a live cookie, access token or personal token.
PatValid(p) == HasPat(p) /\ ~pat[p].revoked /\ now < pat[p].expires
Authenticated(u) ==
    \/ \E x \in Sessions : HasSession(x) /\ session[x].user = u /\ (SessionValid(x) \/ now < access[x])
    \/ \E p \in Pats : PatValid(p) /\ pat[p].user = u

CreateToken(u, p, expires) ==
    /\ Authenticated(u)
    /\ pat[p] = NoToken
    /\ pat' = [pat EXCEPT ![p] = [user |-> u, expires |-> expires, revoked |-> FALSE,
                                  answers |-> 0]]
    /\ UNCHANGED <<now, login, accountVars, session, access, req>>

RevokeTokenBegin(r, u, p) ==
    /\ Authenticated(u)
    /\ HasPat(p)
    /\ Begin(r, [pc |-> "revoke_pat", user |-> u, pat |-> p])
    /\ UNCHANGED <<now, login, accountVars, session, access, pat>>

RevokeTokenWrite(r) ==
    /\ At(r, "revoke_pat")
    /\ RevokePat(req[r].pat, req[r].user)
    /\ Return(r)
    /\ UNCHANGED <<now, login, accountVars, session, access>>

-----------------------------------------------------------------------------
\* A handler stops: the provider refuses the code or its token does not carry
\* the nonce, a constraint is violated, a statement fails.
Fail(r) ==
    /\ req[r] # Idle
    /\ Return(r)
    /\ UNCHANGED <<now, login, accountVars, session, access, pat>>

\* A restart forgets the login states and drops the handlers.
Restart ==
    /\ login' = [o \in LoginStates |-> IF login[o] = "pending" THEN "removed" ELSE login[o]]
    /\ req' = [r \in Requests |-> Idle]
    /\ UNCHANGED <<now, accountVars, session, access, pat>>

Tick ==
    /\ now < MaxNow
    /\ now' = now + 1
    /\ UNCHANGED <<login, accountVars, session, access, pat, req>>

Callback(r) ==
    \/ \E o \in LoginStates : CallbackBegin(r, o)
    \/ \E claim \in Claims : Exchange(r, claim)
    \/ FindIdentity(r)
    \/ FindEmail(r)
    \/ Link(r)
    \/ \E u \in Users : Register(r, u)
    \/ \E x \in Sessions : OpenSession(r, x)

Logout(r) == (\E x \in Sessions : LogoutCheck(r, x)) \/ LogoutWrite(r)

ManageTokens(r) ==
    (\E u \in Users, p \in Pats : RevokeTokenBegin(r, u, p)) \/ RevokeTokenWrite(r)

Next ==
    \/ \E o \in LoginStates : AuthorizeUrl(o)
    \/ \E r \in Requests : Callback(r) \/ Logout(r) \/ ManageTokens(r) \/ Fail(r)
    \/ \E x \in Sessions : Refresh(x)
    \/ \E u \in Users, p \in Pats, expires \in 0..Never : CreateToken(u, p, expires)
    \/ Restart
    \/ Tick

Spec == Init /\ [][Next]_vars

-----------------------------------------------------------------------------
(***************************************************************************)
(* Properties.                                                             *)
(***************************************************************************)

\* However many first logins of one person overlap, one subject is one user
\* and one email is one user (the handlers look first and insert later).
OneUserPerIdentity ==
    /\ \A s \in Subjects : \A u, v \in WithIdentity(s) : u = v
    /\ \A e \in Emails : \A u, v \in WithEmail(e) : u = v
    /\ \A s \in Subjects : WithIdentity(s) \subseteq UserIds

\* A session belongs to the user that the subject of its login is linked to,
\* even if the email that the provider reports is another user's by now.
SessionsBelongToIdentity ==
    \A x \in Sessions : HasSession(x) => <<session[x].subject, session[x].user>> \in identities

\* One login state makes one session at most: the callback is good once, also
\* when it arrives twice or is retried after a failure.
OneSessionPerLogin ==
    /\ \A x, y \in Sessions : HasSession(x) /\ HasSession(y) /\ session[x].state = session[y].state
                              => x = y
    /\ \A o \in LoginStates : login[o] # "removed" =>
          \A x \in Sessions : HasSession(x) => session[x].state # o

\* A personal token is revoked once: of the DELETEs for it that overlap, or come
\* again after a lost answer, one is answered as done and the others as not
\* found, and none is answered as done for a token that is still live.
RevokedAnsweredOnce ==
    \A p \in Pats : HasPat(p) => pat[p].answers = IF pat[p].revoked THEN 1 ELSE 0
=============================================================================
