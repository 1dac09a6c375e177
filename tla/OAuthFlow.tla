----------------------------- MODULE OAuthFlow -----------------------------
(***************************************************************************)
(* The OAuth 2.0 provider (api/handlers/oauth.rs over oauth_applications,  *)
(* oauth_authorization_codes and oauth_refresh_tokens): owners register,   *)
(* change, delete applications and rotate their secrets; users consent and *)
(* get a code; clients exchange a code, and then each refresh token, for   *)
(* the next refresh token.                                                 *)
(*                                                                         *)
(* Each statement is a step of its own; no handler uses a transaction.     *)
(* An application's owner and a token's application and user never change  *)
(* and no row is deleted, so a read of only these belongs to the statement *)
(* after it.  Access tokens are signed, not stored: what issues them       *)
(* changes no state.                                                       *)
(***************************************************************************)
EXTENDS Integers, FiniteSets

CONSTANTS
    Users,
    Apps,           \* applications; an id stands for the client_id as well
    Codes,          \* authorization codes; an id stands for its raw value
    Tokens,         \* refresh tokens; an id stands for its raw value
    Uris,           \* redirect URIs
    UriLists,       \* the redirect_uris that owners register, {} is refused
    Requests,       \* handlers that may be in flight at the same time
    MaxSecret       \* no owner rotates beyond this secret

ASSUME OAuthAssumption ==
    /\ UriLists \subseteq SUBSET Uris
    /\ MaxSecret \in Nat \ {0}
    /\ IsFiniteSet(Requests) /\ Requests # {}
    /\ IsFiniteSet(Tokens)

VARIABLES
    app,            \* app[a]: row of oauth_applications
    code,           \* code[k]: row of oauth_authorization_codes
    token,          \* token[t]: row of oauth_refresh_tokens
    req,            \* the handlers in flight and their locals
    torn            \* history: applications whose last rotation stopped half-way

vars == <<app, code, token, req, torn>>

-----------------------------------------------------------------------------
(***************************************************************************)
(* The records (models/oauth.rs).  Secrets are numbered in the order in    *)
(* which they are generated.                                               *)
(***************************************************************************)
OAuthApplication == [owner : Users, secret : 1..MaxSecret, uris : (SUBSET Uris) \ {{}},
                     revoked : BOOLEAN]
NoApp == [secret |-> 0]

\* expired: expires_at, ten minutes after the consent, has passed.
OAuthAuthorizationCode == [app : Apps, user : Users, uri : Uris,
                           expired : BOOLEAN, used : BOOLEAN]
NoCode == [used |-> FALSE]

\* History: root is the code at the start of the chain, via how the token was
\* obtained, secret the one the client had authenticated with, and issued
\* whether that one was still current.
OAuthRefreshToken == [app : Apps, user : Users, revoked : BOOLEAN, root : Codes,
                      via : {"code", "refresh"}, secret : 1..MaxSecret,
                      issued : {"in time", "closing", "late"}]
NoToken == [revoked |-> TRUE]

Exchanging == [pc : {"consume"}, app : Apps, secret : 1..MaxSecret, code : Codes, uri : Uris]
Refreshing == [pc : {"find", "revoke_old"}, app : Apps, secret : 1..MaxSecret, token : Tokens]
Issuing == [pc : {"issue"}, app : Apps, secret : 1..MaxSecret, user : Users, root : Codes,
            via : {"code", "refresh"}]
Revoking == [pc : {"revoke"}, app : Apps, token : Tokens]
Consenting == [pc : {"insert_code"}, app : Apps, user : Users, uri : Uris]
Ending == [pc : {"delete_app", "rotate_tokens"}, app : Apps]
Idle == [pc |-> "idle"]

TypeOK ==
    /\ app \in [Apps -> OAuthApplication \cup {NoApp}]
    /\ code \in [Codes -> OAuthAuthorizationCode \cup {NoCode}]
    /\ token \in [Tokens -> OAuthRefreshToken \cup {NoToken}]
    /\ req \in [Requests -> Exchanging \cup Refreshing \cup Issuing \cup Revoking
                            \cup Consenting \cup Ending \cup {Idle}]
    /\ torn \subseteq Apps

Init ==
    /\ app = [a \in Apps |-> NoApp]
    /\ code = [k \in Codes |-> NoCode]
    /\ token = [t \in Tokens |-> NoToken]
    /\ req = [r \in Requests |-> Idle]
    /\ torn = {}

At(r, step) == req[r].pc = step
Return(r) == req' = [req EXCEPT ![r] = Idle]
Goto(r, locals) == req' = [req EXCEPT ![r] = locals]
Begin(r, locals) == req[r] = Idle /\ Goto(r, locals)

-----------------------------------------------------------------------------
(***************************************************************************)
(* PgOAuthAppRepo, PgOAuthCodeRepo, PgOAuthTokenRepo.                      *)
(***************************************************************************)
\* get and find_by_client_id: a deleted application is found as well.
HasApp(a) == app[a] # NoApp
HasCode(k) == code[k] # NoCode
HasToken(t) == token[t] # NoToken
LiveApp(a) == HasApp(a) /\ ~app[a].revoked
LiveToken(t) == HasToken(t) /\ ~token[t].revoked
ListForUser(u) == {a \in Apps : LiveApp(a) /\ app[a].owner = u}

InsertApp(a, u, uris) ==
    /\ app[a] = NoApp
    /\ app' = [app EXCEPT ![a] = [owner |-> u, secret |-> 1, uris |-> uris, revoked |-> FALSE]]

\* update and rotate_secret, WHERE revoked_at IS NULL.
SetUris(a, uris) == app' = IF LiveApp(a) THEN [app EXCEPT ![a].uris = uris] ELSE app

NextSecret(a) == app' = IF LiveApp(a) THEN [app EXCEPT ![a].secret = @ + 1] ELSE app

\* The second statement of revoke; the first is RevokeAllForApp.
RevokeApp(a) == app' = [app EXCEPT ![a].revoked = TRUE]

InsertCode(k, c) == code[k] = NoCode /\ code' = [code EXCEPT ![k] = c]

\* consume: one UPDATE .. WHERE used_at IS NULL AND expires_at > NOW().
Consumable(k) == HasCode(k) /\ ~code[k].used /\ ~code[k].expired
Consume(k) == code' = [code EXCEPT ![k].used = TRUE]

InsertToken(t, row) == token[t] = NoToken /\ token' = [token EXCEPT ![t] = row]

RevokeToken(t) == token' = [token EXCEPT ![t].revoked = TRUE]

\* Mutation: only tokens of the current secret.
RevokeAllForApp_Current(a) ==
    token' = [t \in Tokens |->
        IF LiveToken(t) /\ token[t].app = a /\ token[t].secret = app[a].secret
        THEN [token[t] EXCEPT !.revoked = TRUE] ELSE token[t]]

RevokeAllForApp(a) ==
    token' = [t \in Tokens |-> IF LiveToken(t) /\ token[t].app = a
                               THEN [token[t] EXCEPT !.revoked = TRUE] ELSE token[t]]

-----------------------------------------------------------------------------
(***************************************************************************)
(* Applications.                                                           *)
(***************************************************************************)
RequireOwner(u, a) == HasApp(a) /\ app[a].owner = u

CreateApp(u, a, uris) ==
    /\ uris # {}
    /\ InsertApp(a, u, uris)
    /\ UNCHANGED <<code, token, req, torn>>

\* Mutation: an empty list passes.
UpdateApp_Empty(u, a, uris) ==
    /\ RequireOwner(u, a)
    /\ SetUris(a, uris)
    /\ UNCHANGED <<code, token, req, torn>>

UpdateApp(u, a, uris) ==
    /\ RequireOwner(u, a)
    /\ uris # {}
    /\ SetUris(a, uris)
    /\ UNCHANGED <<code, token, req, torn>>

\* delete_app: the tokens in one statement, the application in the next.
DeleteTokens(r, u, a) ==
    /\ RequireOwner(u, a)
    /\ RevokeAllForApp(a)
    /\ Begin(r, [pc |-> "delete_app", app |-> a])
    /\ torn' = torn \ {a}
    /\ UNCHANGED <<app, code>>

DeleteApp(r) ==
    /\ At(r, "delete_app")
    /\ RevokeApp(req[r].app)
    /\ Return(r)
    /\ UNCHANGED <<code, token, torn>>

\* rotate_secret: the secret in one statement, the tokens in the next.  On a
\* deleted application it answers with a secret that it has not stored.
RotateSecret(r, u, a) ==
    /\ RequireOwner(u, a)
    /\ app[a].secret < MaxSecret
    /\ NextSecret(a)
    /\ Begin(r, [pc |-> "rotate_tokens", app |-> a])
    /\ UNCHANGED <<code, token, torn>>

RotateTokens(r) ==
    /\ At(r, "rotate_tokens")
    /\ RevokeAllForApp(req[r].app)
    /\ Return(r)
    /\ torn' = torn \ {req[r].app}
    /\ UNCHANGED <<app, code>>

-----------------------------------------------------------------------------
(***************************************************************************)
(* Consent.                                                                *)
(***************************************************************************)
ValidateAuthorizeParams(a, uri) == LiveApp(a) /\ uri \in app[a].uris

\* authorize_post, approved.
AuthorizeCheck(r, u, a, uri) ==
    /\ ValidateAuthorizeParams(a, uri)
    /\ Begin(r, [pc |-> "insert_code", app |-> a, user |-> u, uri |-> uri])
    /\ UNCHANGED <<app, code, token, torn>>

AuthorizeInsert(r, k) ==
    /\ At(r, "insert_code")
    /\ InsertCode(k, [app |-> req[r].app, user |-> req[r].user, uri |-> req[r].uri,
                      expired |-> FALSE, used |-> FALSE])
    /\ Return(r)
    /\ UNCHANGED <<app, token, torn>>

\* Ten minutes pass.
CodeExpires(k) ==
    /\ HasCode(k) /\ ~code[k].expired
    /\ code' = [code EXCEPT ![k].expired = TRUE]
    /\ UNCHANGED <<app, token, req, torn>>

-----------------------------------------------------------------------------
(***************************************************************************)
(* The token endpoint.                                                     *)
(***************************************************************************)
\* Mutation: a deleted application may still authenticate.
Authenticated_Deleted(a, secret) == HasApp(a) /\ secret = app[a].secret

\* Once, at the start of the handler.
Authenticated(a, secret) == LiveApp(a) /\ secret = app[a].secret

\* grant_type authorization_code.
ExchangeBegin(r, a, secret, k, uri) ==
    /\ Authenticated(a, secret)
    /\ Begin(r, [pc |-> "consume", app |-> a, secret |-> secret, code |-> k, uri |-> uri])
    /\ UNCHANGED <<app, code, token, torn>>

IssueTo(q, user, root, via) ==
    [pc |-> "issue", app |-> q.app, secret |-> q.secret, user |-> user, root |-> root,
     via |-> via]

\* Mutation: the code is looked up, and marked when the token is issued.
ExchangeConsume_Reads(r) ==
    LET q == req[r] IN
    /\ At(r, "consume")
    /\ IF Consumable(q.code) /\ code[q.code].app = q.app /\ code[q.code].uri = q.uri
       THEN Goto(r, IssueTo(q, code[q.code].user, q.code, "code"))
       ELSE Return(r)
    /\ UNCHANGED <<app, code, token, torn>>

\* The code is used up first and compared with the request then: one that was
\* presented with a wrong URI or by another application is lost.
ExchangeConsume(r) ==
    LET q == req[r] IN
    /\ At(r, "consume")
    /\ IF Consumable(q.code)
       THEN /\ Consume(q.code)
            /\ IF code[q.code].app = q.app /\ code[q.code].uri = q.uri
               THEN Goto(r, IssueTo(q, code[q.code].user, q.code, "code"))
               ELSE Return(r)
       ELSE Return(r) /\ UNCHANGED code
    /\ UNCHANGED <<app, token, torn>>

\* grant_type refresh_token.
RefreshBegin(r, a, secret, t) ==
    /\ Authenticated(a, secret)
    /\ HasToken(t)
    /\ Begin(r, [pc |-> "find", app |-> a, secret |-> secret, token |-> t])
    /\ UNCHANGED <<app, code, token, torn>>

\* Mutation: the token's application is not compared.
RefreshFind_AnyApp(r) ==
    LET q == req[r] IN
    /\ At(r, "find")
    /\ IF LiveToken(q.token)
       THEN Goto(r, [pc |-> "revoke_old", app |-> q.app, secret |-> q.secret, token |-> q.token])
       ELSE Return(r)
    /\ UNCHANGED <<app, code, token, torn>>

RefreshFind(r) ==
    LET q == req[r] IN
    /\ At(r, "find")
    /\ IF LiveToken(q.token) /\ token[q.token].app = q.app
       THEN Goto(r, [pc |-> "revoke_old", app |-> q.app, secret |-> q.secret, token |-> q.token])
       ELSE Return(r)
    /\ UNCHANGED <<app, code, token, torn>>

\* WHERE revoked_at IS NULL, but nobody looks at how many rows it found.
RefreshRevoke(r) ==
    LET q == req[r] IN
    /\ At(r, "revoke_old")
    /\ RevokeToken(q.token)
    /\ Goto(r, IssueTo(q, token[q.token].user, token[q.token].root, "refresh"))
    /\ UNCHANGED <<app, code, torn>>

\* What the application has become since the client was authenticated.
Timing(q) ==
    IF app[q.app].revoked \/ app[q.app].secret # q.secret THEN "late"
    ELSE IF \E s \in Requests : At(s, "delete_app") /\ req[s].app = q.app THEN "closing"
    ELSE "in time"

\* issue_refresh_token, and the access token with it.
Issue(r, t) ==
    LET q == req[r] IN
    /\ At(r, "issue")
    /\ InsertToken(t, [app |-> q.app, user |-> q.user, revoked |-> FALSE, root |-> q.root,
                       via |-> q.via, secret |-> q.secret, issued |-> Timing(q)])
    /\ Return(r)
    /\ UNCHANGED <<app, code, torn>>

\* POST /oauth/token/revoke: a deleted application may still revoke.
RevokeBegin(r, a, secret, t) ==
    /\ HasApp(a) /\ secret = app[a].secret
    /\ HasToken(t)
    /\ Begin(r, [pc |-> "revoke", app |-> a, token |-> t])
    /\ UNCHANGED <<app, code, token, torn>>

Revoke(r) ==
    LET q == req[r] IN
    /\ At(r, "revoke")
    /\ IF token[q.token].app = q.app THEN RevokeToken(q.token) ELSE UNCHANGED token
    /\ Return(r)
    /\ UNCHANGED <<app, code, torn>>

-----------------------------------------------------------------------------
\* A handler stops at one of its statements: an error, a dropped connection,
\* a restart.
Fail(r) ==
    /\ req[r] # Idle
    /\ Return(r)
    /\ torn' = IF At(r, "rotate_tokens") THEN torn \cup {req[r].app} ELSE torn
    /\ UNCHANGED <<app, code, token>>

Owners(r) ==
    \/ \E u \in Users, a \in Apps : DeleteTokens(r, u, a) \/ RotateSecret(r, u, a)
    \/ DeleteApp(r)
    \/ RotateTokens(r)

Register == \E u \in Users, a \in Apps, uris \in UriLists :
    CreateApp(u, a, uris) \/ UpdateApp(u, a, uris)

Authorize(r) ==
    \/ \E u \in Users, a \in Apps, uri \in Uris : AuthorizeCheck(r, u, a, uri)
    \/ \E k \in Codes : AuthorizeInsert(r, k)

Token(r) ==
    \/ \E a \in Apps, s \in 1..MaxSecret, k \in Codes, uri \in Uris : ExchangeBegin(r, a, s, k, uri)
    \/ ExchangeConsume(r)
    \/ \E a \in Apps, s \in 1..MaxSecret, t \in Tokens : RefreshBegin(r, a, s, t)
    \/ RefreshFind(r)
    \/ RefreshRevoke(r)
    \/ \E t \in Tokens : Issue(r, t)

RevokeEndpoint(r) ==
    (\E a \in Apps, s \in 1..MaxSecret, t \in Tokens : RevokeBegin(r, a, s, t)) \/ Revoke(r)

Next ==
    \/ Register
    \/ \E r \in Requests : Owners(r) \/ Authorize(r) \/ Token(r) \/ RevokeEndpoint(r) \/ Fail(r)
    \/ \E k \in Codes : CodeExpires(k)

Spec == Init /\ [][Next]_vars

-----------------------------------------------------------------------------
(***************************************************************************)
(* Properties.                                                             *)
(***************************************************************************)

\* A chain of refresh tokens belongs to the application and to the user that
\* the consent at its start named, whoever presents codes and tokens to which
\* application: this holds for every token and for every one about to be issued.
TokensFollowConsent ==
    /\ \A t \in Tokens : HasToken(t) =>
          LET k == token[t].root IN
          code[k].used /\ token[t].app = code[k].app /\ token[t].user = code[k].user
    /\ \A r \in Requests : At(r, "issue") =>
          LET k == req[r].root IN
          code[k].used /\ req[r].app = code[k].app /\ req[r].user = code[k].user

\* An authorization code is exchanged once: at most one token, issued or about
\* to be, starts a chain from it, however many handlers present it at a time.
FirstTokens(k) == {t \in Tokens : HasToken(t) /\ token[t].via = "code" /\ token[t].root = k}
Exchanges(k) == {r \in Requests : At(r, "issue") /\ req[r].via = "code" /\ req[r].root = k}
CodeExchangedOnce ==
    \A k \in Codes :
        /\ \A t, u \in FirstTokens(k) : t = u
        /\ \A r, s \in Exchanges(k) : r = s
        /\ FirstTokens(k) = {} \/ Exchanges(k) = {}

\* Once a secret is replaced or the application deleted, only the requests
\* that had been authenticated by then still get a token for it: fewer than
\* may be in flight, the one that replaces or deletes being one of them.
LateIssuesBounded ==
    \A a \in Apps, s \in 1..MaxSecret :
        Cardinality({t \in Tokens : /\ HasToken(t) /\ token[t].issued = "late"
                                    /\ token[t].app = a /\ token[t].secret = s})
            < Cardinality(Requests)

\* Deleting an application or rotating its secret revokes the tokens that had
\* been issued by then: what is live belongs to an application that exists and
\* to its secret, except what was issued while the deletion was under way or
\* by a request overtaken by it, and what a rotation has not revoked (yet).
ExistingTokensRevoked ==
    \A t \in Tokens : LiveToken(t) /\ token[t].issued # "late" =>
        LET a == token[t].app IN
        /\ app[a].revoked => token[t].issued = "closing"
        /\ \/ token[t].secret = app[a].secret
           \/ a \in torn
           \/ \E r \in Requests : At(r, "rotate_tokens") /\ req[r].app = a
=============================================================================
