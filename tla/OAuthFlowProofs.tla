-------------------------- MODULE OAuthFlowProofs --------------------------
(***************************************************************************)
(* OAuthFlow for any applications, users, tokens and requests: its five    *)
(* invariants hold.                                                        *)
(*                                                                         *)
(* The inductive invariant adds what handlers know, that nothing but what  *)
(* is issued during a deletion survives it, and the count behind the bound *)
(* on late tokens: a request that was authenticated with a secret either   *)
(* still is in flight or has issued at most one token.                     *)
(***************************************************************************)
EXTENDS OAuthFlow, FiniteSetTheorems, TLAPS

Handler == Exchanging \cup Refreshing \cup Issuing \cup Revoking
              \cup Consenting \cup Ending \cup {Idle}

TokenSteps == {"consume", "find", "revoke_old", "issue"}

KnownTo(q) ==
    /\ q # Idle => HasApp(q.app)
    /\ q.pc \in {"find", "revoke_old", "revoke"} => HasToken(q.token)
    /\ q.pc = "revoke_old" => token[q.token].app = q.app
    /\ q.pc \in TokenSteps => q.secret <= app[q.app].secret

HandlersKnow == \A r \in Requests : KnownTo(req[r])

TokensHaveApps == \A t \in Tokens : HasToken(t) => HasApp(token[t].app)

\* While an application is being deleted, the tokens issued before are revoked.
DeletionRevokes ==
    \A r \in Requests, t \in Tokens :
        At(r, "delete_app") /\ LiveToken(t) /\ token[t].app = req[r].app
            => token[t].issued # "in time"

Old(a, s) == HasApp(a) /\ (app[a].revoked \/ app[a].secret > s)

Late(a, s) ==
    {t \in Tokens : HasToken(t) /\ token[t].issued = "late" /\ token[t].app = a
                    /\ token[t].secret = s}

Pending(a, s) ==
    {r \in Requests : req[r].pc \in TokenSteps /\ req[r].app = a /\ req[r].secret = s}

LateCounted ==
    \A a \in Apps, s \in 1..MaxSecret :
        /\ Old(a, s) => Cardinality(Late(a, s)) + Cardinality(Pending(a, s))
                            < Cardinality(Requests)
        /\ ~Old(a, s) => Late(a, s) = {}

IInv == /\ TypeOK /\ HandlersKnow /\ TokensHaveApps
        /\ TokensFollowConsent /\ CodeExchangedOnce
        /\ ExistingTokensRevoked /\ DeletionRevokes /\ LateCounted

-----------------------------------------------------------------------------
(***************************************************************************)
(* Records.                                                                *)
(***************************************************************************)

\* The step of a handler tells its locals.
LEMMA HandlerShape ==
    ASSUME NEW q \in Handler
    PROVE  /\ q.pc = "consume" => q \in Exchanging
           /\ q.pc \in {"find", "revoke_old"} => q \in Refreshing
           /\ q.pc = "issue" => q \in Issuing
           /\ q.pc = "revoke" => q \in Revoking
           /\ q.pc = "insert_code" => q \in Consenting
           /\ q.pc \in {"delete_app", "rotate_tokens"} => q \in Ending
           /\ q.pc = "idle" <=> q = Idle
           /\ q # Idle => q.app \in Apps
           /\ q.pc \in TokenSteps => q.secret \in 1..MaxSecret
           /\ q.pc \in {"find", "revoke_old", "revoke"} => q.token \in Tokens
           /\ q.pc = "issue" => q.root \in Codes
  BY DEF Handler, Exchanging, Refreshing, Issuing, Revoking, Consenting, Ending, Idle, TokenSteps

\* The null records are not rows.
LEMMA NullRecords ==
    /\ NoApp \notin OAuthApplication
    /\ NoCode \notin OAuthAuthorizationCode
    /\ NoToken \notin OAuthRefreshToken
  <1>1. NoApp \notin OAuthApplication
    BY OAuthAssumption DEF NoApp, OAuthApplication
  <1>2. NoCode \notin OAuthAuthorizationCode
    BY DEF NoCode, OAuthAuthorizationCode
  <1>3. NoToken \notin OAuthRefreshToken
    BY DEF NoToken, OAuthRefreshToken
  <1> QED BY <1>1, <1>2, <1>3

\* A row that is there is one.
LEMMA RowShape ==
    ASSUME TypeOK
    PROVE  /\ \A a \in Apps : HasApp(a) <=> app[a] \in OAuthApplication
           /\ \A k \in Codes : HasCode(k) <=> code[k] \in OAuthAuthorizationCode
           /\ \A t \in Tokens : HasToken(t) <=> token[t] \in OAuthRefreshToken
           /\ \A k \in Codes : code[k].used => HasCode(k)
           /\ \A a \in Apps : HasApp(a) => app[a].secret \in 1..MaxSecret
  <1>1. /\ \A a \in Apps : HasApp(a) <=> app[a] \in OAuthApplication
        /\ \A k \in Codes : HasCode(k) <=> code[k] \in OAuthAuthorizationCode
        /\ \A t \in Tokens : HasToken(t) <=> token[t] \in OAuthRefreshToken
    BY NullRecords DEF TypeOK, HasApp, HasCode, HasToken
  <1>2. \A k \in Codes : code[k].used => HasCode(k)
    BY DEF HasCode, NoCode
  <1>3. \A a \in Apps : HasApp(a) => app[a].secret \in 1..MaxSecret
    BY <1>1 DEF OAuthApplication
  <1> QED BY <1>1, <1>2, <1>3

\* What a step of one handler does to the handlers.
LEMMA OneHandler ==
    ASSUME TypeOK, NEW r \in Requests, NEW k \in Handler, req' = [req EXCEPT ![r] = k]
    PROVE  /\ req' \in [Requests -> Handler]
           /\ \A s \in Requests : req'[s] = IF s = r THEN k ELSE req[s]
  BY DEF TypeOK, Handler

\* The sets that are counted are finite.
LEMMA Counted ==
    ASSUME NEW a \in Apps, NEW s \in 1..MaxSecret
    PROVE  /\ IsFiniteSet(Late(a, s)) /\ IsFiniteSet(Pending(a, s))
           /\ Cardinality(Late(a, s)) \in Nat /\ Cardinality(Pending(a, s)) \in Nat
           /\ Cardinality(Requests) \in Nat
  BY OAuthAssumption, FS_Subset, FS_CardinalityType DEF Late, Pending

\* Fewer than all requests are pending if one of them is not.
LEMMA FewPending ==
    ASSUME NEW P \in SUBSET Requests, NEW r \in Requests, r \notin P
    PROVE  Cardinality(P) < Cardinality(Requests)
  <1>1. P \subseteq Requests \ {r} /\ IsFiniteSet(Requests \ {r})
    BY OAuthAssumption, FS_Subset
  <1>2. Cardinality(P) <= Cardinality(Requests \ {r})
    BY <1>1, FS_Subset
  <1>3. Cardinality(Requests \ {r}) = Cardinality(Requests) - 1
    BY OAuthAssumption, FS_RemoveElement
  <1>4. Cardinality(P) \in Nat /\ Cardinality(Requests) \in Nat
    BY <1>1, OAuthAssumption, FS_Subset, FS_CardinalityType
  <1> QED BY <1>2, <1>3, <1>4

-----------------------------------------------------------------------------
(***************************************************************************)
(* What rows keep.                                                         *)
(***************************************************************************)

\* A code that has been used stays so, and names the same application and user.
CodesStay ==
    \A k \in Codes : code[k].used =>
        code'[k].used /\ code'[k].app = code[k].app /\ code'[k].user = code[k].user

SameToken(t) ==
    /\ token'[t].app = token[t].app /\ token'[t].user = token[t].user
    /\ token'[t].root = token[t].root /\ token'[t].via = token[t].via
    /\ token'[t].secret = token[t].secret /\ token'[t].issued = token[t].issued

\* Tokens are at most revoked.
TokensStay ==
    \A t \in Tokens :
        /\ HasToken(t)' <=> HasToken(t)
        /\ HasToken(t) => SameToken(t) /\ (token[t].revoked => token'[t].revoked)

LEMMA LateStays ==
    ASSUME TokensStay, NEW a, NEW s
    PROVE  Late(a, s)' = Late(a, s)
  BY DEF Late, TokensStay, SameToken

LEMMA FirstStay ==
    ASSUME TokensStay, NEW k
    PROVE  FirstTokens(k)' = FirstTokens(k)
  BY DEF FirstTokens, TokensStay, SameToken

\* The count holds on if no pending request is added for an old secret.
LEMMA CountStays ==
    ASSUME IInv, \A a \in Apps, s \in 1..MaxSecret : Late(a, s)' = Late(a, s),
           \A a \in Apps, s \in 1..MaxSecret : Old(a, s)' <=> Old(a, s),
           \A a \in Apps, s \in 1..MaxSecret : Old(a, s) => Pending(a, s)' \subseteq Pending(a, s)
    PROVE  LateCounted'
  <1> SUFFICES ASSUME NEW a \in Apps, NEW s \in 1..MaxSecret
               PROVE  /\ Old(a, s) => Cardinality(Late(a, s)) + Cardinality(Pending(a, s)')
                                        < Cardinality(Requests)
                      /\ ~Old(a, s) => Late(a, s) = {}
    BY DEF LateCounted
  <1>1. CASE Old(a, s)
    <2>1. Pending(a, s)' \in SUBSET Pending(a, s)
      BY <1>1
    <2>2. Cardinality(Pending(a, s)') <= Cardinality(Pending(a, s)) /\ IsFiniteSet(Pending(a, s)')
      BY <2>1, Counted, FS_Subset
    <2>3. Cardinality(Pending(a, s)') \in Nat
      BY <2>2, FS_CardinalityType
    <2>4. Cardinality(Late(a, s)) + Cardinality(Pending(a, s)) < Cardinality(Requests)
      BY <1>1 DEF IInv, LateCounted
    <2> QED BY <1>1, <2>2, <2>3, <2>4, Counted
  <1>2. CASE ~Old(a, s)
    BY <1>2 DEF IInv, LateCounted
  <1> QED BY <1>1, <1>2

-----------------------------------------------------------------------------
(***************************************************************************)
(* A step of one handler that neither changes an application nor issues a  *)
(* token.                                                                  *)
(***************************************************************************)
LEMMA HandlerMoves ==
    ASSUME IInv, NEW r \in Requests, NEW k \in Handler, req' = [req EXCEPT ![r] = k],
           UNCHANGED app, torn' \subseteq Apps,
           code' \in [Codes -> OAuthAuthorizationCode \cup {NoCode}], CodesStay,
           token' \in [Tokens -> OAuthRefreshToken \cup {NoToken}], TokensStay,
           KnownTo(k)',
           k.pc \in TokenSteps =>
               \/ LiveApp(k.app) /\ k.secret = app[k.app].secret
               \/ req[r].pc \in TokenSteps /\ k.app = req[r].app /\ k.secret = req[r].secret,
           k.pc = "issue" =>
               /\ code'[k.root].used
               /\ k.app = code'[k.root].app /\ k.user = code'[k.root].user
               /\ k.via = "code" => FirstTokens(k.root) = {} /\ Exchanges(k.root) = {},
           k.pc = "delete_app" => \A t \in Tokens : LiveToken(t)' => token[t].app # k.app,
           \A a \in Apps : a \in torn \/ (At(r, "rotate_tokens") /\ req[r].app = a) =>
               a \in torn' \/ \A t \in Tokens : LiveToken(t)' => token[t].app # a
    PROVE  IInv'
  <1>1. /\ req' \in [Requests -> Handler]
        /\ \A s \in Requests : req'[s] = IF s = r THEN k ELSE req[s]
    BY OneHandler DEF IInv
  <1>2. TypeOK'
    BY <1>1 DEF IInv, TypeOK, Handler
  <1>3. HandlersKnow'
    <2> SUFFICES ASSUME NEW s \in Requests PROVE KnownTo(req[s])'
      BY DEF HandlersKnow
    <2>1. CASE s = r
      BY <1>1, <2>1 DEF KnownTo, HasApp, HasToken
    <2>2. CASE s # r
      <3>1. KnownTo(req[s]) /\ req'[s] = req[s] /\ req[s] \in Handler
        BY <1>1, <2>2 DEF IInv, HandlersKnow, TypeOK, Handler
      <3>2. req[s].pc \in {"find", "revoke_old", "revoke"} => req[s].token \in Tokens
        BY <3>1, HandlerShape
      <3> QED BY <3>1, <3>2 DEF KnownTo, HasApp, TokensStay, SameToken
    <2> QED BY <2>1, <2>2
  <1>4. TokensHaveApps'
    BY DEF IInv, TokensHaveApps, TokensStay, SameToken, HasApp
  <1>5. TokensFollowConsent'
    <2>1. \A t \in Tokens : HasToken(t)' =>
              LET c == token'[t].root IN
              code'[c].used /\ token'[t].app = code'[c].app /\ token'[t].user = code'[c].user
      <3> SUFFICES ASSUME NEW t \in Tokens, HasToken(t)
                   PROVE  LET c == token'[t].root IN
                          /\ code'[c].used /\ token'[t].app = code'[c].app
                          /\ token'[t].user = code'[c].user
        BY DEF TokensStay
      <3>1. token[t].root \in Codes
        BY RowShape DEF IInv, OAuthRefreshToken
      <3> QED BY <3>1 DEF IInv, TokensFollowConsent, TokensStay, SameToken, CodesStay
    <2>2. \A s \in Requests : req'[s].pc = "issue" =>
              LET c == req'[s].root IN
              code'[c].used /\ req'[s].app = code'[c].app /\ req'[s].user = code'[c].user
      <3> SUFFICES ASSUME NEW s \in Requests, s # r, req[s].pc = "issue"
                   PROVE  LET c == req[s].root IN
                          /\ code'[c].used /\ req[s].app = code'[c].app
                          /\ req[s].user = code'[c].user
        BY <1>1
      <3>1. req[s].root \in Codes
        BY HandlerShape DEF IInv, TypeOK, Handler
      <3> QED BY <3>1 DEF IInv, TokensFollowConsent, At, CodesStay
    <2> QED BY <2>1, <2>2 DEF TokensFollowConsent, At
  <1>6. CodeExchangedOnce'
    <2> SUFFICES ASSUME NEW c \in Codes
                 PROVE  /\ \A t, u \in FirstTokens(c) : t = u
                        /\ \A s, u \in Exchanges(c)' : s = u
                        /\ FirstTokens(c) = {} \/ Exchanges(c)' = {}
      BY FirstStay DEF CodeExchangedOnce
    <2>1. Exchanges(c)' \subseteq IF k.pc = "issue" /\ k.via = "code" /\ k.root = c
                                  THEN Exchanges(c) \cup {r} ELSE Exchanges(c)
      BY <1>1 DEF Exchanges, At
    <2> QED BY <2>1 DEF IInv, CodeExchangedOnce
  <1>7. ExistingTokensRevoked'
    <2> SUFFICES ASSUME NEW t \in Tokens, LiveToken(t)', token'[t].issued # "late"
                 PROVE  LET a == token'[t].app IN
                        /\ app[a].revoked => token'[t].issued = "closing"
                        /\ \/ token'[t].secret = app[a].secret
                           \/ a \in torn'
                           \/ \E s \in Requests : req'[s].pc = "rotate_tokens" /\ req'[s].app = a
      BY DEF ExistingTokensRevoked, At
    <2>1. LiveToken(t) /\ SameToken(t) /\ token[t].app \in Apps
      BY RowShape DEF LiveToken, TokensStay, IInv, OAuthRefreshToken
    <2>2. PICK a \in Apps : a = token[t].app
      BY <2>1
    <2>3. /\ app[a].revoked => token[t].issued = "closing"
          /\ \/ token[t].secret = app[a].secret
             \/ a \in torn
             \/ \E s \in Requests : At(s, "rotate_tokens") /\ req[s].app = a
      BY <2>1, <2>2 DEF IInv, ExistingTokensRevoked, SameToken
    <2>4. CASE \E s \in Requests \ {r} : At(s, "rotate_tokens") /\ req[s].app = a
      BY <1>1, <2>1, <2>2, <2>3, <2>4 DEF SameToken, At
    <2>5. CASE token[t].secret = app[a].secret
      BY <2>1, <2>2, <2>3, <2>5 DEF SameToken
    <2>6. CASE a \in torn \/ (At(r, "rotate_tokens") /\ req[r].app = a)
      BY <2>1, <2>2, <2>3, <2>6 DEF SameToken
    <2> QED BY <2>3, <2>4, <2>5, <2>6
  <1>8. DeletionRevokes'
    <2> SUFFICES ASSUME NEW s \in Requests, NEW t \in Tokens,
                        req'[s].pc = "delete_app", LiveToken(t)', token'[t].app = req'[s].app
                 PROVE  token'[t].issued # "in time"
      BY DEF DeletionRevokes, At
    <2>1. LiveToken(t) /\ SameToken(t)
      BY DEF LiveToken, TokensStay
    <2>2. CASE s = r
      <3>1. k.pc = "delete_app" /\ token[t].app = k.app
        BY <1>1, <2>1, <2>2 DEF SameToken
      <3> QED BY <3>1
    <2>3. CASE s # r
      <3>1. At(s, "delete_app") /\ token[t].app = req[s].app
        BY <1>1, <2>1, <2>3 DEF SameToken, At
      <3> QED BY <2>1, <3>1 DEF IInv, DeletionRevokes, SameToken
    <2> QED BY <2>2, <2>3
  <1>9. LateCounted'
    <2>1. \A a \in Apps, s \in 1..MaxSecret : Late(a, s)' = Late(a, s)
      BY LateStays
    <2>2. \A a \in Apps, s \in 1..MaxSecret : Old(a, s)' <=> Old(a, s)
      BY DEF Old, HasApp
    <2>3. \A a \in Apps, s \in 1..MaxSecret : Old(a, s) => Pending(a, s)' \subseteq Pending(a, s)
      <3> SUFFICES ASSUME NEW a \in Apps, NEW s \in 1..MaxSecret, Old(a, s),
                          NEW x \in Pending(a, s)'
                   PROVE  x \in Pending(a, s)
        OBVIOUS
      <3>1. x \in Requests /\ req'[x].pc \in TokenSteps /\ req'[x].app = a /\ req'[x].secret = s
        BY DEF Pending
      <3>2. CASE x # r
        BY <1>1, <3>1, <3>2 DEF Pending
      <3>3. CASE x = r
        <4>1. k.pc \in TokenSteps /\ k.app = a /\ k.secret = s
          BY <1>1, <3>1, <3>3
        <4>2. ~(LiveApp(k.app) /\ k.secret = app[k.app].secret)
          BY <4>1, RowShape DEF IInv, Old, LiveApp
        <4> QED BY <3>3, <4>1, <4>2 DEF Pending
      <3> QED BY <3>2, <3>3
    <2> QED BY <2>1, <2>2, <2>3, CountStays
  <1> QED BY <1>2, <1>3, <1>4, <1>5, <1>6, <1>7, <1>8, <1>9 DEF IInv

LEMMA IdleShape ==
    /\ Idle \in Handler /\ Idle.pc = "idle"
    /\ Idle.pc \notin TokenSteps /\ Idle.pc \notin {"issue", "delete_app", "revoke", "rotate_tokens"}
  BY DEF Handler, Idle, TokenSteps

LEMMA RowsUnchanged ==
    ASSUME IInv
    PROVE  /\ UNCHANGED code => CodesStay
                                /\ code' \in [Codes -> OAuthAuthorizationCode \cup {NoCode}]
           /\ UNCHANGED token => TokensStay
                                 /\ token' \in [Tokens -> OAuthRefreshToken \cup {NoToken}]
  BY DEF IInv, TypeOK, CodesStay, TokensStay, SameToken, HasToken

\* A handler that only reads.
LEMMA HandlerReads ==
    ASSUME IInv, NEW r \in Requests, NEW k \in Handler, req' = [req EXCEPT ![r] = k],
           UNCHANGED <<app, code, token, torn>>, ~At(r, "rotate_tokens"),
           KnownTo(k), k.pc \notin {"issue", "delete_app"},
           k.pc \in TokenSteps =>
               \/ LiveApp(k.app) /\ k.secret = app[k.app].secret
               \/ req[r].pc \in TokenSteps /\ k.app = req[r].app /\ k.secret = req[r].secret
    PROVE  IInv'
  <1>1. KnownTo(k)' /\ torn' \subseteq Apps
    BY DEF KnownTo, HasApp, HasToken, IInv, TypeOK
  <1> QED BY <1>1, RowsUnchanged, HandlerMoves

\* The begin of a request.
LEMMA BeginSteps ==
    ASSUME IInv, NEW r \in Requests, NEW a \in Apps,
           \/ \E u \in Users, uri \in Uris : AuthorizeCheck(r, u, a, uri)
           \/ \E s \in 1..MaxSecret, c \in Codes, uri \in Uris : ExchangeBegin(r, a, s, c, uri)
           \/ \E s \in 1..MaxSecret, t \in Tokens : RefreshBegin(r, a, s, t)
           \/ \E s \in 1..MaxSecret, t \in Tokens : RevokeBegin(r, a, s, t)
    PROVE  IInv'
  <1>1. UNCHANGED <<app, code, token, torn>> /\ req[r] = Idle
    BY DEF AuthorizeCheck, ExchangeBegin, RefreshBegin, RevokeBegin, Begin
  <1>2. ~At(r, "rotate_tokens")
    BY <1>1, IdleShape DEF At
  <1>3. HasApp(a) => app[a].secret \in 1..MaxSecret
    BY RowShape DEF IInv
  <1>4. CASE \E u \in Users, uri \in Uris : AuthorizeCheck(r, u, a, uri)
    <2>1. PICK u \in Users, uri \in Uris : AuthorizeCheck(r, u, a, uri)
      BY <1>4
    <2> DEFINE k == [pc |-> "insert_code", app |-> a, user |-> u, uri |-> uri]
    <2>2. k \in Handler /\ k.pc = "insert_code" /\ k.app = a
      BY DEF Handler, Consenting
    <2>3. req' = [req EXCEPT ![r] = k] /\ HasApp(a)
      BY <2>1 DEF AuthorizeCheck, Begin, Goto, ValidateAuthorizeParams, LiveApp
    <2> HIDE DEF k
    <2>4. KnownTo(k)
      BY <2>2, <2>3 DEF KnownTo, TokenSteps
    <2> QED BY <1>1, <1>2, <2>2, <2>3, <2>4, HandlerReads DEF TokenSteps
  <1>5. CASE \E s \in 1..MaxSecret, c \in Codes, uri \in Uris : ExchangeBegin(r, a, s, c, uri)
    <2>1. PICK s \in 1..MaxSecret, c \in Codes, uri \in Uris : ExchangeBegin(r, a, s, c, uri)
      BY <1>5
    <2> DEFINE k == [pc |-> "consume", app |-> a, secret |-> s, code |-> c, uri |-> uri]
    <2>2. k \in Handler /\ k.pc = "consume" /\ k.app = a /\ k.secret = s
      BY DEF Handler, Exchanging
    <2>3. req' = [req EXCEPT ![r] = k] /\ LiveApp(a) /\ s = app[a].secret
      BY <2>1 DEF ExchangeBegin, Begin, Goto, Authenticated
    <2> HIDE DEF k
    <2>4. KnownTo(k)
      BY <2>2, <2>3 DEF KnownTo, LiveApp
    <2> QED BY <1>1, <1>2, <2>2, <2>3, <2>4, HandlerReads
  <1>6. CASE \E s \in 1..MaxSecret, t \in Tokens : RefreshBegin(r, a, s, t)
    <2>1. PICK s \in 1..MaxSecret, t \in Tokens : RefreshBegin(r, a, s, t)
      BY <1>6
    <2> DEFINE k == [pc |-> "find", app |-> a, secret |-> s, token |-> t]
    <2>2. k \in Handler /\ k.pc = "find" /\ k.app = a /\ k.secret = s /\ k.token = t
      BY DEF Handler, Refreshing
    <2>3. req' = [req EXCEPT ![r] = k] /\ LiveApp(a) /\ s = app[a].secret /\ HasToken(t)
      BY <2>1 DEF RefreshBegin, Begin, Goto, Authenticated
    <2> HIDE DEF k
    <2>4. KnownTo(k)
      BY <2>2, <2>3 DEF KnownTo, LiveApp
    <2> QED BY <1>1, <1>2, <2>2, <2>3, <2>4, HandlerReads
  <1>7. CASE \E s \in 1..MaxSecret, t \in Tokens : RevokeBegin(r, a, s, t)
    <2>1. PICK s \in 1..MaxSecret, t \in Tokens : RevokeBegin(r, a, s, t)
      BY <1>7
    <2> DEFINE k == [pc |-> "revoke", app |-> a, token |-> t]
    <2>2. k \in Handler /\ k.pc = "revoke" /\ k.app = a /\ k.token = t
      BY DEF Handler, Revoking
    <2>3. req' = [req EXCEPT ![r] = k] /\ HasApp(a) /\ HasToken(t)
      BY <2>1 DEF RevokeBegin, Begin, Goto
    <2> HIDE DEF k
    <2>4. KnownTo(k)
      BY <2>2, <2>3 DEF KnownTo, TokenSteps
    <2> QED BY <1>1, <1>2, <2>2, <2>3, <2>4, HandlerReads DEF TokenSteps
  <1> QED BY <1>4, <1>5, <1>6, <1>7

\* A handler returns; it may have written a code, revoked tokens.
LEMMA HandlerReturns ==
    ASSUME IInv, NEW r \in Requests, Return(r), UNCHANGED app, torn' \subseteq Apps,
           code' \in [Codes -> OAuthAuthorizationCode \cup {NoCode}], CodesStay,
           token' \in [Tokens -> OAuthRefreshToken \cup {NoToken}], TokensStay,
           \A a \in Apps : a \in torn \/ (At(r, "rotate_tokens") /\ req[r].app = a) =>
               a \in torn' \/ \A t \in Tokens : LiveToken(t)' => token[t].app # a
    PROVE  IInv'
  <1>1. KnownTo(Idle)'
    BY IdleShape DEF KnownTo
  <1> QED BY <1>1, IdleShape, HandlerMoves DEF Return

LEMMA FailStep ==
    ASSUME IInv, NEW r \in Requests, Fail(r)
    PROVE  IInv'
  <1>1. At(r, "rotate_tokens") => req[r].app \in Apps
    BY HandlerShape, IdleShape DEF IInv, TypeOK, Handler, At
  <1>2. UNCHANGED <<app, code, token>> /\ Return(r)
    BY DEF Fail
  <1>3. torn' \subseteq Apps /\ torn \subseteq torn'
        /\ (At(r, "rotate_tokens") => req[r].app \in torn')
    BY <1>1 DEF Fail, IInv, TypeOK
  <1> QED BY <1>2, <1>3, RowsUnchanged, HandlerReturns

LEMMA AuthorizeInsertStep ==
    ASSUME IInv, NEW r \in Requests, NEW c \in Codes, AuthorizeInsert(r, c)
    PROVE  IInv'
  <1>1. req[r] \in Consenting /\ ~At(r, "rotate_tokens")
    BY HandlerShape DEF IInv, TypeOK, Handler, AuthorizeInsert, At
  <1> DEFINE new == [app |-> req[r].app, user |-> req[r].user, uri |-> req[r].uri,
                     expired |-> FALSE, used |-> FALSE]
  <1>2. new \in OAuthAuthorizationCode
    BY <1>1 DEF Consenting, OAuthAuthorizationCode
  <1>3. /\ ~code[c].used /\ code' = [code EXCEPT ![c] = new] /\ Return(r)
        /\ UNCHANGED <<app, token, torn>>
    BY DEF AuthorizeInsert, InsertCode, NoCode
  <1> HIDE DEF new
  <1>4. /\ code' \in [Codes -> OAuthAuthorizationCode \cup {NoCode}]
        /\ CodesStay /\ torn' \subseteq Apps
    BY <1>2, <1>3 DEF IInv, TypeOK, CodesStay
  <1> QED BY <1>1, <1>3, <1>4, RowsUnchanged, HandlerReturns

\* The code is used up, and nothing has been issued for it before.
LEMMA ExchangeConsumeStep ==
    ASSUME IInv, NEW r \in Requests, ExchangeConsume(r)
    PROVE  IInv'
  <1>1. /\ req[r] \in Exchanging /\ req[r].pc = "consume" /\ KnownTo(req[r])
        /\ UNCHANGED <<app, token, torn>>
    BY HandlerShape DEF IInv, TypeOK, Handler, HandlersKnow, ExchangeConsume, At
  <1>2. PICK c \in Codes : c = req[r].code
    BY <1>1 DEF Exchanging
  <1>3. ~At(r, "rotate_tokens") /\ torn' \subseteq Apps
    BY <1>1 DEF At, IInv, TypeOK
  <1>4. CASE Consumable(c)
    <2> DEFINE used == [code[c] EXCEPT !.used = TRUE]
    <2>1. /\ code[c] \in OAuthAuthorizationCode /\ ~code[c].used
      BY <1>4, RowShape DEF Consumable, IInv
    <2>2. /\ used \in OAuthAuthorizationCode /\ used.used
          /\ used.app = code[c].app /\ used.user = code[c].user
      BY <2>1 DEF OAuthAuthorizationCode
    <2>3. code' = [code EXCEPT ![c] = used]
      BY <1>2, <1>4 DEF ExchangeConsume, Consume
    <2> HIDE DEF used
    <2>4. /\ code' \in [Codes -> OAuthAuthorizationCode \cup {NoCode}]
          /\ CodesStay /\ code'[c] = used
      BY <2>1, <2>2, <2>3 DEF IInv, TypeOK, CodesStay
    <2>5. CASE Return(r)
      BY <1>1, <1>3, <2>4, <2>5, RowsUnchanged, HandlerReturns
    <2>6. CASE /\ code[c].app = req[r].app
               /\ Goto(r, IssueTo(req[r], code[c].user, c, "code"))
      <3>0. PICK k \in Handler : k = IssueTo(req[r], code[c].user, c, "code")
        BY <1>1, <2>1 DEF Handler, Issuing, Exchanging, IssueTo, OAuthAuthorizationCode
      <3>1. /\ k.pc = "issue" /\ k.app = req[r].app
            /\ k.secret = req[r].secret /\ k.user = code[c].user /\ k.root = c
        BY <3>0 DEF IssueTo
      <3>2. req' = [req EXCEPT ![r] = k]
        BY <2>6, <3>0 DEF Goto
      <3>3. KnownTo(k)'
        <4>1. HasApp(req[r].app) /\ req[r].secret <= app[req[r].app].secret
          BY <1>1, IdleShape DEF KnownTo, TokenSteps
        <4> QED BY <1>1, <3>1, <4>1 DEF KnownTo, HasApp
      <3>4. FirstTokens(c) = {} /\ Exchanges(c) = {}
        BY <2>1 DEF IInv, TokensFollowConsent, FirstTokens, Exchanges
      <3>5. req[r].pc \in TokenSteps /\ k.pc # "delete_app"
        BY <1>1, <3>1 DEF TokenSteps
      <3> QED BY <1>1, <1>3, <2>2, <2>4, <2>6, <3>1, <3>2, <3>3, <3>4, <3>5,
                 RowsUnchanged, HandlerMoves
    <2> QED BY <1>2, <1>4, <2>5, <2>6 DEF ExchangeConsume
  <1>5. CASE ~Consumable(c)
    <2>1. Return(r) /\ UNCHANGED code
      BY <1>2, <1>5 DEF ExchangeConsume
    <2> QED BY <1>1, <1>3, <2>1, RowsUnchanged, HandlerReturns
  <1> QED BY <1>4, <1>5

LEMMA RefreshFindStep ==
    ASSUME IInv, NEW r \in Requests, RefreshFind(r)
    PROVE  IInv'
  <1>1. /\ req[r] \in Refreshing /\ req[r].pc = "find" /\ KnownTo(req[r])
        /\ UNCHANGED <<app, code, token, torn>> /\ ~At(r, "rotate_tokens")
    BY HandlerShape DEF IInv, TypeOK, Handler, HandlersKnow, RefreshFind, At
  <1> DEFINE k == [pc |-> "revoke_old", app |-> req[r].app, secret |-> req[r].secret,
                   token |-> req[r].token]
  <1>2. /\ k \in Handler /\ k.pc = "revoke_old" /\ k.app = req[r].app
        /\ k.secret = req[r].secret /\ k.token = req[r].token
    BY <1>1 DEF Handler, Refreshing
  <1>3. CASE /\ LiveToken(req[r].token) /\ token[req[r].token].app = req[r].app
             /\ req' = [req EXCEPT ![r] = k]
    <2> HIDE DEF k
    <2>1. HasApp(req[r].app) /\ req[r].secret <= app[req[r].app].secret
      BY <1>1, IdleShape DEF KnownTo, TokenSteps
    <2>2. KnownTo(k)
      BY <1>2, <1>3, <2>1 DEF KnownTo, LiveToken
    <2>3. req[r].pc \in TokenSteps
      BY <1>1 DEF TokenSteps
    <2> QED BY <1>1, <1>2, <1>3, <2>2, <2>3, HandlerReads
  <1>4. CASE Return(r)
    <2>1. torn' \subseteq Apps
      BY <1>1 DEF IInv, TypeOK
    <2> QED BY <1>1, <1>4, <2>1, RowsUnchanged, HandlerReturns
  <1> QED BY <1>3, <1>4 DEF RefreshFind, Goto

\* Revoking a token changes that field of that row.
LEMMA RevokedStays ==
    ASSUME IInv, NEW t \in Tokens, HasToken(t), RevokeToken(t)
    PROVE  token' \in [Tokens -> OAuthRefreshToken \cup {NoToken}] /\ TokensStay
  <1> DEFINE new == [token[t] EXCEPT !.revoked = TRUE]
  <1>1. token[t] \in OAuthRefreshToken
    BY RowShape DEF IInv
  <1>2. /\ new \in OAuthRefreshToken /\ new.revoked
        /\ new.app = token[t].app /\ new.user = token[t].user /\ new.root = token[t].root
        /\ new.via = token[t].via /\ new.secret = token[t].secret
        /\ new.issued = token[t].issued
    BY <1>1 DEF OAuthRefreshToken
  <1>3. token' = [token EXCEPT ![t] = new]
    BY DEF RevokeToken
  <1> HIDE DEF new
  <1>4. \A u \in Tokens : token'[u] = IF u = t THEN new ELSE token[u]
    BY <1>3 DEF IInv, TypeOK
  <1>5. TokensStay
    BY <1>2, <1>4, NullRecords DEF TokensStay, SameToken, HasToken
  <1> QED BY <1>2, <1>3, <1>5 DEF IInv, TypeOK

\* Revoking all tokens of an application leaves none of them live.
LEMMA AllRevoked ==
    ASSUME IInv, NEW a \in Apps, RevokeAllForApp(a)
    PROVE  /\ token' \in [Tokens -> OAuthRefreshToken \cup {NoToken}] /\ TokensStay
           /\ \A t \in Tokens : LiveToken(t)' => token[t].app # a
  <1>1. ASSUME NEW t \in Tokens
        PROVE  /\ token'[t] \in OAuthRefreshToken \cup {NoToken}
               /\ HasToken(t)' <=> HasToken(t)
               /\ HasToken(t) => SameToken(t) /\ (token[t].revoked => token'[t].revoked)
               /\ LiveToken(t)' => token[t].app # a
    <2>1. CASE LiveToken(t) /\ token[t].app = a
      <3> DEFINE new == [token[t] EXCEPT !.revoked = TRUE]
      <3>1. token[t] \in OAuthRefreshToken
        BY <2>1, RowShape DEF IInv, LiveToken
      <3>2. /\ new \in OAuthRefreshToken /\ new.revoked
            /\ new.app = token[t].app /\ new.user = token[t].user /\ new.root = token[t].root
            /\ new.via = token[t].via /\ new.secret = token[t].secret
            /\ new.issued = token[t].issued
        BY <3>1 DEF OAuthRefreshToken
      <3>3. token'[t] = new
        BY <2>1 DEF RevokeAllForApp
      <3> HIDE DEF new
      <3> QED BY <2>1, <3>2, <3>3, NullRecords DEF SameToken, HasToken, LiveToken
    <2>2. CASE ~(LiveToken(t) /\ token[t].app = a)
      <3>1. token'[t] = token[t]
        BY <2>2 DEF RevokeAllForApp
      <3> QED BY <2>2, <3>1 DEF SameToken, HasToken, LiveToken, IInv, TypeOK
    <2> QED BY <2>1, <2>2
  <1> QED BY <1>1 DEF TokensStay, RevokeAllForApp

LEMMA RevokeStep ==
    ASSUME IInv, NEW r \in Requests, Revoke(r)
    PROVE  IInv'
  <1>1. /\ req[r] \in Revoking /\ req[r].pc = "revoke" /\ KnownTo(req[r])
        /\ UNCHANGED <<app, code, torn>> /\ Return(r) /\ ~At(r, "rotate_tokens")
    BY HandlerShape DEF IInv, TypeOK, Handler, HandlersKnow, Revoke, At
  <1>2. req[r].token \in Tokens /\ HasToken(req[r].token) /\ torn' \subseteq Apps
    BY <1>1 DEF Revoking, KnownTo, IInv, TypeOK
  <1>3. token' \in [Tokens -> OAuthRefreshToken \cup {NoToken}] /\ TokensStay
    BY <1>2, RevokedStays, RowsUnchanged DEF Revoke
  <1> QED BY <1>1, <1>2, <1>3, RowsUnchanged, HandlerReturns

LEMMA RefreshRevokeStep ==
    ASSUME IInv, NEW r \in Requests, RefreshRevoke(r)
    PROVE  IInv'
  <1>1. /\ req[r] \in Refreshing /\ req[r].pc = "revoke_old" /\ KnownTo(req[r])
        /\ UNCHANGED <<app, code, torn>> /\ ~At(r, "rotate_tokens")
    BY HandlerShape DEF IInv, TypeOK, Handler, HandlersKnow, RefreshRevoke, At
  <1>2. PICK t \in Tokens : t = req[r].token
    BY <1>1 DEF Refreshing
  <1>3. /\ HasToken(t) /\ token[t].app = req[r].app /\ token[t] \in OAuthRefreshToken
        /\ HasApp(req[r].app) /\ req[r].secret <= app[req[r].app].secret
        /\ torn' \subseteq Apps
    BY <1>1, <1>2, RowShape, IdleShape DEF KnownTo, TokenSteps, IInv, TypeOK
  <1>4. token' \in [Tokens -> OAuthRefreshToken \cup {NoToken}] /\ TokensStay
    BY <1>2, <1>3, RevokedStays DEF RefreshRevoke
  <1>5. PICK k \in Handler : k = IssueTo(req[r], token[t].user, token[t].root, "refresh")
    BY <1>1, <1>3 DEF Handler, Issuing, Refreshing, IssueTo, OAuthRefreshToken
  <1>6. /\ k.pc = "issue" /\ k.app = req[r].app /\ k.secret = req[r].secret
        /\ k.user = token[t].user /\ k.root = token[t].root /\ k.via = "refresh"
    BY <1>5 DEF IssueTo
  <1>7. req' = [req EXCEPT ![r] = k]
    BY <1>2, <1>5 DEF RefreshRevoke, Goto
  <1>8. KnownTo(k)'
    BY <1>1, <1>3, <1>6 DEF KnownTo, HasApp
  <1>9. /\ code'[k.root].used /\ k.app = code'[k.root].app /\ k.user = code'[k.root].user
    BY <1>1, <1>3, <1>6 DEF IInv, TokensFollowConsent
  <1>10. req[r].pc \in TokenSteps /\ k.pc # "delete_app" /\ k.via # "code"
    BY <1>1, <1>6 DEF TokenSteps
  <1> QED BY <1>1, <1>3, <1>4, <1>6, <1>7, <1>8, <1>9, <1>10, RowsUnchanged, HandlerMoves

LEMMA DeleteTokensStep ==
    ASSUME IInv, NEW r \in Requests, NEW u \in Users, NEW a \in Apps, DeleteTokens(r, u, a)
    PROVE  IInv'
  <1> DEFINE k == [pc |-> "delete_app", app |-> a]
  <1>1. k \in Handler /\ k.pc = "delete_app" /\ k.app = a
    BY DEF Handler, Ending
  <1>2. /\ req' = [req EXCEPT ![r] = k] /\ HasApp(a) /\ req[r] = Idle
        /\ UNCHANGED <<app, code>> /\ torn' = torn \ {a} /\ RevokeAllForApp(a)
    BY DEF DeleteTokens, Begin, Goto, RequireOwner
  <1> HIDE DEF k
  <1>3. ~At(r, "rotate_tokens") /\ torn' \subseteq Apps
    BY <1>2, IdleShape DEF At, IInv, TypeOK
  <1>4. KnownTo(k)' /\ k.pc \notin TokenSteps /\ k.pc # "issue"
    BY <1>1, <1>2 DEF KnownTo, HasApp, TokenSteps
  <1>5. /\ token' \in [Tokens -> OAuthRefreshToken \cup {NoToken}] /\ TokensStay
        /\ \A t \in Tokens : LiveToken(t)' => token[t].app # a
    BY <1>2, AllRevoked
  <1> QED BY <1>1, <1>2, <1>3, <1>4, <1>5, RowsUnchanged, HandlerMoves

LEMMA RotateTokensStep ==
    ASSUME IInv, NEW r \in Requests, RotateTokens(r)
    PROVE  IInv'
  <1>1. PICK a \in Apps : a = req[r].app
    BY HandlerShape DEF IInv, TypeOK, Handler, RotateTokens, At, Ending
  <1>2. /\ Return(r) /\ UNCHANGED <<app, code>> /\ torn' = torn \ {a} /\ RevokeAllForApp(a)
    BY <1>1 DEF RotateTokens
  <1>3. torn' \subseteq Apps
    BY <1>2 DEF IInv, TypeOK
  <1>4. /\ token' \in [Tokens -> OAuthRefreshToken \cup {NoToken}] /\ TokensStay
        /\ \A t \in Tokens : LiveToken(t)' => token[t].app # a
    BY <1>2, AllRevoked
  <1>5. \A b \in Apps : b \in torn \/ (At(r, "rotate_tokens") /\ req[r].app = b) =>
            b \in torn' \/ \A t \in Tokens : LiveToken(t)' => token[t].app # b
    BY <1>1, <1>2, <1>4
  <1> QED BY <1>2, <1>3, <1>4, <1>5, RowsUnchanged, HandlerReturns

-----------------------------------------------------------------------------
(***************************************************************************)
(* Steps that change an application.                                       *)
(***************************************************************************)

\* An application appears, or its URIs change, or a code expires.
LEMMA RegisterStep ==
    ASSUME IInv, UNCHANGED <<token, req, torn>>,
           app' \in [Apps -> OAuthApplication \cup {NoApp}],
           \A a \in Apps : HasApp(a) =>
               HasApp(a)' /\ app'[a].secret = app[a].secret /\ app'[a].revoked = app[a].revoked,
           \A a \in Apps : ~HasApp(a) /\ HasApp(a)' =>
               app'[a].secret = 1 /\ ~app'[a].revoked,
           code' \in [Codes -> OAuthAuthorizationCode \cup {NoCode}], CodesStay
    PROVE  IInv'
  <1>1. TypeOK'
    BY DEF IInv, TypeOK
  <1>2. HandlersKnow'
    <2> SUFFICES ASSUME NEW s \in Requests PROVE KnownTo(req[s])'
      BY DEF HandlersKnow
    <2>1. req[s] \in Handler /\ KnownTo(req[s])
      BY DEF IInv, HandlersKnow, TypeOK, Handler
    <2>2. req[s] # Idle => req[s].app \in Apps
      BY <2>1, HandlerShape
    <2> QED BY <2>1, <2>2, IdleShape DEF KnownTo, HasToken
  <1>3. TokensHaveApps'
    <2>1. \A t \in Tokens : HasToken(t) => token[t].app \in Apps
      BY RowShape DEF IInv, OAuthRefreshToken
    <2> QED BY <2>1 DEF IInv, TokensHaveApps, HasToken
  <1>4. TokensFollowConsent'
    <2>1. \A t \in Tokens : HasToken(t) => token[t].root \in Codes
      BY RowShape DEF IInv, OAuthRefreshToken
    <2>2. \A s \in Requests : At(s, "issue") => req[s].root \in Codes
      BY HandlerShape DEF IInv, TypeOK, Handler, At
    <2> QED BY <2>1, <2>2 DEF IInv, TokensFollowConsent, CodesStay, HasToken, At
  <1>5. CodeExchangedOnce'
    BY DEF IInv, CodeExchangedOnce, FirstTokens, Exchanges, HasToken, At
  <1>6. ExistingTokensRevoked'
    <2>1. \A t \in Tokens : LiveToken(t) => token[t].app \in Apps /\ HasApp(token[t].app)
      BY RowShape DEF IInv, OAuthRefreshToken, LiveToken, TokensHaveApps
    <2> QED BY <2>1 DEF IInv, ExistingTokensRevoked, LiveToken, HasToken, At
  <1>7. DeletionRevokes'
    BY DEF IInv, DeletionRevokes, LiveToken, HasToken, At
  <1>8. LateCounted'
    <2> SUFFICES ASSUME NEW a \in Apps, NEW s \in 1..MaxSecret
                 PROVE  /\ Late(a, s)' = Late(a, s)
                        /\ Old(a, s)' <=> Old(a, s)
                        /\ Old(a, s) => Pending(a, s)' \subseteq Pending(a, s)
      BY CountStays
    <2>1. Late(a, s)' = Late(a, s) /\ Pending(a, s)' = Pending(a, s)
      BY DEF Late, Pending, HasToken
    <2>2. CASE HasApp(a)
      BY <2>1, <2>2 DEF Old
    <2>3. CASE ~HasApp(a)
      BY <2>1, <2>3 DEF Old
    <2> QED BY <2>2, <2>3
  <1> QED BY <1>1, <1>2, <1>3, <1>4, <1>5, <1>6, <1>7, <1>8 DEF IInv

\* Its secret is replaced, with the tokens to be revoked next, or it is gone,
\* with the tokens revoked before: the other requests, one fewer than all, may
\* still be pending for the old secret.
LEMMA ApplicationEnds ==
    ASSUME IInv, NEW r \in Requests, NEW k \in Handler, req' = [req EXCEPT ![r] = k],
           UNCHANGED <<code, token, torn>>,
           app' \in [Apps -> OAuthApplication \cup {NoApp}],
           NEW a \in Apps,
           \A b \in Apps \ {a} : app'[b] = app[b],
           HasApp(a), HasApp(a)', app'[a].secret >= app[a].secret,
           app[a].revoked => app'[a].revoked,
           k.pc \notin TokenSteps, k.pc \notin {"issue", "delete_app", "revoke"},
           k # Idle => k.app = a,
           ~At(r, "rotate_tokens"),
           app'[a].secret # app[a].secret => k.pc = "rotate_tokens" /\ k.app = a,
           app'[a].revoked => app[a].revoked \/ (At(r, "delete_app") /\ req[r].app = a)
    PROVE  IInv'
  <1>1. /\ req' \in [Requests -> Handler]
        /\ \A s \in Requests : req'[s] = IF s = r THEN k ELSE req[s]
    BY OneHandler DEF IInv
  <1>2. \A b \in Apps : HasApp(b)' <=> HasApp(b)
    BY DEF HasApp
  <1>3. app[a].secret \in Nat /\ app'[a].secret \in Nat
    <2>1. app[a] \in OAuthApplication /\ app'[a] \in OAuthApplication
      BY RowShape DEF IInv, HasApp
    <2> QED BY <2>1 DEF OAuthApplication
  <1>4. \A b \in Apps : HasApp(b) => app[b].secret \in Nat
    BY RowShape DEF IInv
  <1>5. TypeOK'
    BY <1>1 DEF IInv, TypeOK, Handler
  <1>6. HandlersKnow'
    <2> SUFFICES ASSUME NEW s \in Requests PROVE KnownTo(req[s])'
      BY DEF HandlersKnow
    <2>1. CASE s = r
      <3>1. req'[s] = k /\ (k # Idle => HasApp(k.app)')
        BY <1>1, <2>1
      <3>2. k.pc \notin {"find", "revoke_old", "revoke"}
        BY DEF TokenSteps
      <3> QED BY <3>1, <3>2 DEF KnownTo, TokenSteps
    <2>2. CASE s # r
      <3>1. KnownTo(req[s]) /\ req'[s] = req[s] /\ req[s] \in Handler
        BY <1>1, <2>2 DEF IInv, HandlersKnow, TypeOK, Handler
      <3>2. /\ req[s] # Idle => req[s].app \in Apps
            /\ req[s].pc \in TokenSteps => req[s].secret \in Nat /\ req[s] # Idle
        BY <3>1, HandlerShape, IdleShape
      <3>3. req[s].pc \in TokenSteps => req[s].secret <= app'[req[s].app].secret
        BY <1>3, <3>1, <3>2 DEF KnownTo
      <3> QED BY <1>2, <3>1, <3>2, <3>3 DEF KnownTo, HasToken
    <2> QED BY <2>1, <2>2
  <1>7. \A t \in Tokens : HasToken(t) => token[t].app \in Apps
    BY RowShape DEF IInv, OAuthRefreshToken
  <1>8. TokensHaveApps'
    BY <1>2, <1>7 DEF IInv, TokensHaveApps, HasToken
  <1>9. TokensFollowConsent'
    BY <1>1 DEF IInv, TokensFollowConsent, HasToken, At
  <1>10. CodeExchangedOnce'
    <2>1. \A c \in Codes : Exchanges(c)' \subseteq Exchanges(c) /\ FirstTokens(c)' = FirstTokens(c)
      BY <1>1 DEF Exchanges, FirstTokens, HasToken, At
    <2> QED BY <2>1 DEF IInv, CodeExchangedOnce
  <1>11. ExistingTokensRevoked'
    <2> SUFFICES ASSUME NEW t \in Tokens, LiveToken(t), token[t].issued # "late",
                        NEW b \in Apps, b = token[t].app
                 PROVE  /\ app'[b].revoked => token[t].issued = "closing"
                        /\ \/ token[t].secret = app'[b].secret
                           \/ b \in torn
                           \/ \E s \in Requests : req'[s].pc = "rotate_tokens" /\ req'[s].app = b
      BY <1>7 DEF ExistingTokensRevoked, LiveToken, HasToken, At
    <2>1. /\ app[b].revoked => token[t].issued = "closing"
          /\ \/ token[t].secret = app[b].secret
             \/ b \in torn
             \/ \E s \in Requests : At(s, "rotate_tokens") /\ req[s].app = b
      BY DEF IInv, ExistingTokensRevoked
    <2>2. app'[b].revoked => token[t].issued = "closing"
      <3>1. token[t] \in OAuthRefreshToken
        BY RowShape DEF LiveToken, IInv
      <3>2. token[t].issued \in {"in time", "closing"}
        BY <3>1 DEF OAuthRefreshToken
      <3>3. At(r, "delete_app") /\ req[r].app = b => token[t].issued # "in time"
        BY DEF IInv, DeletionRevokes
      <3> QED BY <2>1, <3>2, <3>3
    <2>3. CASE \E s \in Requests : At(s, "rotate_tokens") /\ req[s].app = b
      BY <1>1, <2>2, <2>3 DEF At
    <2>4. CASE token[t].secret = app[b].secret
      <3>1. CASE app'[b].secret = app[b].secret
        BY <2>2, <2>4, <3>1
      <3>2. CASE app'[b].secret # app[b].secret
        BY <1>1, <2>2, <3>2
      <3> QED BY <3>1, <3>2
    <2> QED BY <2>1, <2>2, <2>3, <2>4
  <1>12. DeletionRevokes'
    <2> SUFFICES ASSUME NEW s \in Requests, NEW t \in Tokens, req'[s].pc = "delete_app",
                        LiveToken(t), token[t].app = req'[s].app
                 PROVE  token[t].issued # "in time"
      BY DEF DeletionRevokes, LiveToken, HasToken, At
    <2>1. req'[s] = req[s]
      BY <1>1
    <2> QED BY <2>1 DEF IInv, DeletionRevokes, At
  <1>13. LateCounted'
    <2> SUFFICES ASSUME NEW b \in Apps, NEW s \in 1..MaxSecret
                 PROVE  /\ Old(b, s)' => Cardinality(Late(b, s)) + Cardinality(Pending(b, s)')
                                            < Cardinality(Requests)
                        /\ ~Old(b, s)' => Late(b, s) = {}
      <3>1. \A b \in Apps, s \in 1..MaxSecret : Late(b, s)' = Late(b, s)
        BY DEF Late, HasToken
      <3> QED BY <3>1 DEF LateCounted
    <2>1. Old(b, s) => Old(b, s)'
      BY <1>2, <1>3 DEF Old
    <2>2. Pending(b, s)' \subseteq Pending(b, s) /\ r \notin Pending(b, s)'
      BY <1>1 DEF Pending
    <2>3. Pending(b, s)' \in SUBSET Requests
      BY DEF Pending
    <2>4. CASE Old(b, s)
      <3>1. Cardinality(Pending(b, s)') <= Cardinality(Pending(b, s))
            /\ IsFiniteSet(Pending(b, s)')
        BY <2>2, Counted, FS_Subset
      <3>2. Cardinality(Pending(b, s)') \in Nat
        BY <3>1, FS_CardinalityType
      <3>3. Cardinality(Late(b, s)) + Cardinality(Pending(b, s)) < Cardinality(Requests)
        BY <2>4 DEF IInv, LateCounted
      <3> QED BY <2>1, <2>4, <3>1, <3>2, <3>3, Counted
    <2>5. CASE ~Old(b, s)
      <3>1. Late(b, s) = {} /\ Cardinality(Late(b, s)) = 0
        BY <2>5, FS_EmptySet DEF IInv, LateCounted
      <3>2. Cardinality(Pending(b, s)') < Cardinality(Requests)
        BY <2>2, <2>3, FewPending
      <3>3. Cardinality(Pending(b, s)') \in Nat
        BY <2>3, OAuthAssumption, FS_Subset, FS_CardinalityType
      <3> QED BY <3>1, <3>2, <3>3
    <2> QED BY <2>4, <2>5
  <1> QED BY <1>5, <1>6, <1>8, <1>9, <1>10, <1>11, <1>12, <1>13 DEF IInv

LEMMA DeleteAppStep ==
    ASSUME IInv, NEW r \in Requests, DeleteApp(r)
    PROVE  IInv'
  <1>1. /\ req[r] \in Ending /\ req[r].pc = "delete_app" /\ KnownTo(req[r])
    BY HandlerShape DEF IInv, TypeOK, Handler, HandlersKnow, DeleteApp, At
  <1>2. PICK a \in Apps : a = req[r].app
    BY <1>1 DEF Ending
  <1> DEFINE new == [app[a] EXCEPT !.revoked = TRUE]
  <1>3. HasApp(a) /\ app[a] \in OAuthApplication
    BY <1>1, <1>2, IdleShape, RowShape DEF KnownTo, IInv
  <1>4. new \in OAuthApplication /\ new.secret = app[a].secret /\ new.revoked
    BY <1>3 DEF OAuthApplication
  <1>5. /\ app' = [app EXCEPT ![a] = new] /\ req' = [req EXCEPT ![r] = Idle]
        /\ UNCHANGED <<code, token, torn>>
    BY <1>2 DEF DeleteApp, RevokeApp, Return
  <1> HIDE DEF new
  <1>6. /\ app' \in [Apps -> OAuthApplication \cup {NoApp}] /\ app'[a] = new
        /\ \A b \in Apps \ {a} : app'[b] = app[b]
    BY <1>4, <1>5 DEF IInv, TypeOK
  <1>7. HasApp(a)' /\ app[a].secret \in Nat
    BY <1>3, <1>4, <1>6, NullRecords DEF HasApp, OAuthApplication
  <1>8. ~At(r, "rotate_tokens") /\ At(r, "delete_app") /\ app'[a].secret = app[a].secret
        /\ app'[a].revoked
    BY <1>1, <1>4, <1>6 DEF At
  <1>9. app'[a].secret >= app[a].secret
    BY <1>7, <1>8
  <1> QED BY <1>2, <1>3, <1>5, <1>6, <1>7, <1>8, <1>9, IdleShape, ApplicationEnds

LEMMA RotateSecretStep ==
    ASSUME IInv, NEW r \in Requests, NEW u \in Users, NEW a \in Apps, RotateSecret(r, u, a)
    PROVE  IInv'
  <1> DEFINE k == [pc |-> "rotate_tokens", app |-> a]
  <1>1. k \in Handler /\ k.pc = "rotate_tokens" /\ k.app = a
    BY DEF Handler, Ending
  <1>2. /\ req' = [req EXCEPT ![r] = k] /\ req[r] = Idle /\ HasApp(a)
        /\ app[a].secret < MaxSecret /\ NextSecret(a)
        /\ UNCHANGED <<code, token, torn>>
    BY DEF RotateSecret, Begin, Goto, RequireOwner
  <1> HIDE DEF k
  <1>3. app[a] \in OAuthApplication
    BY <1>2, RowShape DEF IInv
  <1>4. PICK new \in OAuthApplication :
            /\ app' = [app EXCEPT ![a] = new]
            /\ new.secret >= app[a].secret /\ new.revoked = app[a].revoked
    <2>1. CASE LiveApp(a)
      <3> DEFINE new == [app[a] EXCEPT !.secret = app[a].secret + 1]
      <3>1. /\ new \in OAuthApplication /\ new.secret >= app[a].secret
            /\ new.revoked = app[a].revoked
        BY <1>2, <1>3, OAuthAssumption DEF OAuthApplication
      <3>2. app' = [app EXCEPT ![a] = new]
        BY <1>2, <2>1 DEF NextSecret
      <3> HIDE DEF new
      <3> QED BY <3>1, <3>2
    <2>2. CASE ~LiveApp(a)
      <3>1. app' = [app EXCEPT ![a] = app[a]]
        BY <1>2, <2>2 DEF NextSecret, IInv, TypeOK
      <3>2. app[a].secret >= app[a].secret
        BY <1>3 DEF OAuthApplication
      <3> QED BY <1>3, <3>1, <3>2
    <2> QED BY <2>1, <2>2
  <1>5. /\ app' \in [Apps -> OAuthApplication \cup {NoApp}] /\ app'[a] = new
        /\ \A b \in Apps \ {a} : app'[b] = app[b]
    BY <1>4 DEF IInv, TypeOK
  <1>6. HasApp(a)'
    BY <1>5, NullRecords DEF HasApp
  <1>7. ~At(r, "rotate_tokens")
    BY <1>2, IdleShape DEF At
  <1>8. k.pc \notin TokenSteps /\ k.pc \notin {"issue", "delete_app", "revoke"}
    BY <1>1 DEF TokenSteps
  <1>9. app'[a].secret >= app[a].secret /\ app'[a].revoked = app[a].revoked
    BY <1>4, <1>5
  <1> QED BY <1>1, <1>2, <1>5, <1>6, <1>7, <1>8, <1>9, ApplicationEnds

LEMMA RegisterSteps ==
    ASSUME IInv, Register
    PROVE  IInv'
  <1>1. PICK u \in Users, a \in Apps, uris \in UriLists :
            CreateApp(u, a, uris) \/ UpdateApp(u, a, uris)
    BY DEF Register
  <1>2. uris \in (SUBSET Uris) \ {{}} /\ UNCHANGED <<code, token, req, torn>>
    BY <1>1, OAuthAssumption DEF CreateApp, UpdateApp
  <1>3. CASE CreateApp(u, a, uris)
    <2> DEFINE new == [owner |-> u, secret |-> 1, uris |-> uris, revoked |-> FALSE]
    <2>1. app' = [app EXCEPT ![a] = new] /\ ~HasApp(a)
      BY <1>3 DEF CreateApp, InsertApp, HasApp
    <2>2. new.secret = 1 /\ new.revoked = FALSE
      OBVIOUS
    <2>3. 1 \in 1..MaxSecret => new \in OAuthApplication
      BY <1>2 DEF OAuthApplication
    <2> HIDE DEF new
    <2>4. \A b \in Apps : app'[b] = IF b = a THEN new ELSE app[b]
      BY <2>1 DEF IInv, TypeOK
    <2>5. app' \in [Apps -> OAuthApplication \cup {NoApp}]
      BY <2>1, <2>3, OAuthAssumption DEF IInv, TypeOK
    <2> QED BY <1>2, <2>1, <2>2, <2>4, <2>5, RowsUnchanged, RegisterStep DEF HasApp
  <1>4. CASE UpdateApp(u, a, uris) /\ LiveApp(a)
    <2> DEFINE new == [app[a] EXCEPT !.uris = uris]
    <2>1. app[a] \in OAuthApplication /\ HasApp(a)
      BY <1>4, RowShape DEF LiveApp, IInv
    <2>2. /\ new \in OAuthApplication /\ new.secret = app[a].secret
          /\ new.revoked = app[a].revoked
      BY <1>2, <2>1 DEF OAuthApplication
    <2>3. app' = [app EXCEPT ![a] = new]
      BY <1>4 DEF UpdateApp, SetUris
    <2> HIDE DEF new
    <2>4. \A b \in Apps : app'[b] = IF b = a THEN new ELSE app[b]
      BY <2>3 DEF IInv, TypeOK
    <2>5. app' \in [Apps -> OAuthApplication \cup {NoApp}]
      BY <2>2, <2>3 DEF IInv, TypeOK
    <2>6. \A b \in Apps : HasApp(b)' <=> HasApp(b)
      BY <2>1, <2>2, <2>4, NullRecords DEF HasApp
    <2> QED BY <1>2, <2>2, <2>4, <2>5, <2>6, RowsUnchanged, RegisterStep
  <1>5. CASE UpdateApp(u, a, uris) /\ ~LiveApp(a)
    <2>1. UNCHANGED app
      BY <1>5 DEF UpdateApp, SetUris
    <2>2. app' \in [Apps -> OAuthApplication \cup {NoApp}] /\ \A b \in Apps : HasApp(b)' <=> HasApp(b)
      BY <2>1 DEF IInv, TypeOK, HasApp
    <2> QED BY <1>2, <2>1, <2>2, RowsUnchanged, RegisterStep
  <1> QED BY <1>1, <1>3, <1>4, <1>5

LEMMA CodeExpiresStep ==
    ASSUME IInv, NEW c \in Codes, CodeExpires(c)
    PROVE  IInv'
  <1> DEFINE new == [code[c] EXCEPT !.expired = TRUE]
  <1>1. code[c] \in OAuthAuthorizationCode
    BY RowShape DEF IInv, CodeExpires
  <1>2. /\ new \in OAuthAuthorizationCode /\ new.used = code[c].used
        /\ new.app = code[c].app /\ new.user = code[c].user
    BY <1>1 DEF OAuthAuthorizationCode
  <1>3. code' = [code EXCEPT ![c] = new] /\ UNCHANGED <<app, token, req, torn>>
    BY DEF CodeExpires
  <1> HIDE DEF new
  <1>4. code' \in [Codes -> OAuthAuthorizationCode \cup {NoCode}] /\ CodesStay
    BY <1>2, <1>3 DEF IInv, TypeOK, CodesStay
  <1>5. app' \in [Apps -> OAuthApplication \cup {NoApp}] /\ \A b \in Apps : HasApp(b)' <=> HasApp(b)
    BY <1>3 DEF IInv, TypeOK, HasApp
  <1> QED BY <1>3, <1>4, <1>5, RegisterStep

LEMMA Stutter ==
    ASSUME IInv, UNCHANGED vars
    PROVE  IInv'
  <1>1. app' \in [Apps -> OAuthApplication \cup {NoApp}] /\ \A b \in Apps : HasApp(b)' <=> HasApp(b)
    BY DEF IInv, TypeOK, HasApp, vars
  <1> QED BY <1>1, RowsUnchanged, RegisterStep DEF vars

-----------------------------------------------------------------------------
(***************************************************************************)
(* A token is issued.                                                      *)
(***************************************************************************)

\* What the count needs of arithmetic: a request turns into a token, or is gone.
LEMMA StillFewer ==
    \A l, m, n, o \in Nat : l + m < n => (l + 1) + (m - 1) < n /\ (o <= m => l + o < n)
  OBVIOUS

\* The timing says whether the secret that the client used is an old one.
LEMMA TimingTells ==
    ASSUME IInv, NEW r \in Requests, At(r, "issue")
    PROVE  /\ Timing(req[r]) \in {"in time", "closing", "late"}
           /\ Timing(req[r]) = "late" <=> Old(req[r].app, req[r].secret)
           /\ Timing(req[r]) # "late" => req[r].secret = app[req[r].app].secret
                                         /\ ~app[req[r].app].revoked
           /\ Timing(req[r]) = "in time" =>
                  \A s \in Requests : ~(At(s, "delete_app") /\ req[s].app = req[r].app)
  <1>1. req[r] \in Handler /\ req[r].pc = "issue" /\ KnownTo(req[r])
    BY DEF IInv, HandlersKnow, TypeOK, Handler, At
  <1>2. PICK a \in Apps : a = req[r].app
    BY <1>1, HandlerShape DEF Issuing
  <1>3. PICK s \in 1..MaxSecret : s = req[r].secret
    BY <1>1, HandlerShape DEF Issuing
  <1>4. HasApp(a) /\ s <= app[a].secret /\ app[a] \in OAuthApplication
    BY <1>1, <1>2, <1>3, IdleShape, RowShape DEF KnownTo, TokenSteps, IInv
  <1>5. app[a].secret \in Nat /\ app[a].revoked \in BOOLEAN
    BY <1>4 DEF OAuthApplication
  <1>6. Old(a, s) <=> app[a].revoked \/ app[a].secret # s
    BY <1>4, <1>5 DEF Old
  <1> QED BY <1>2, <1>3, <1>6 DEF Timing

LEMMA IssueStep ==
    ASSUME IInv, NEW r \in Requests, NEW t \in Tokens, Issue(r, t)
    PROVE  IInv'
  <1>1. /\ req[r] \in Issuing /\ req[r].pc = "issue" /\ At(r, "issue") /\ KnownTo(req[r])
        /\ UNCHANGED <<app, code, torn>> /\ ~HasToken(t)
    BY HandlerShape DEF IInv, TypeOK, Handler, HandlersKnow, Issue, InsertToken, At, HasToken
  <1>2. PICK a \in Apps : a = req[r].app
    BY <1>1 DEF Issuing
  <1>3. PICK s \in 1..MaxSecret : s = req[r].secret
    BY <1>1 DEF Issuing
  <1>4. PICK c \in Codes : c = req[r].root
    BY <1>1 DEF Issuing
  <1>5. PICK when \in {"in time", "closing", "late"} : when = Timing(req[r])
    BY <1>1, TimingTells
  <1>6. PICK new \in OAuthRefreshToken :
            new = [app |-> a, user |-> req[r].user, revoked |-> FALSE, root |-> c,
                   via |-> req[r].via, secret |-> s, issued |-> when]
    BY <1>1 DEF Issuing, OAuthRefreshToken
  <1>7. /\ new.app = a /\ new.user = req[r].user /\ new.root = c /\ new.via = req[r].via
        /\ new.secret = s /\ new.issued = when /\ ~new.revoked
    BY <1>6
  <1>8. token' = [token EXCEPT ![t] = new] /\ req' = [req EXCEPT ![r] = Idle]
    BY <1>2, <1>3, <1>4, <1>5, <1>6 DEF Issue, InsertToken, Return
  <1>9. /\ req' \in [Requests -> Handler]
        /\ \A x \in Requests : req'[x] = IF x = r THEN Idle ELSE req[x]
    BY <1>8, OneHandler, IdleShape DEF IInv
  <1>10. /\ \A u \in Tokens : token'[u] = IF u = t THEN new ELSE token[u]
         /\ \A u \in Tokens : HasToken(u)' <=> (u = t \/ HasToken(u))
    <2>1. \A u \in Tokens : token'[u] = IF u = t THEN new ELSE token[u]
      BY <1>8 DEF IInv, TypeOK
    <2>2. new # NoToken
      BY NullRecords
    <2> QED BY <2>1, <2>2 DEF HasToken
  <1>11. TypeOK'
    BY <1>1, <1>8, <1>9 DEF IInv, TypeOK, Handler
  <1>12. HandlersKnow'
    <2> SUFFICES ASSUME NEW x \in Requests PROVE KnownTo(req[x])'
      BY DEF HandlersKnow
    <2>1. CASE x = r
      BY <1>9, <2>1, IdleShape DEF KnownTo, TokenSteps
    <2>2. CASE x # r
      <3>1. KnownTo(req[x]) /\ req'[x] = req[x] /\ req[x] \in Handler
        BY <1>9, <2>2 DEF IInv, HandlersKnow, TypeOK, Handler
      <3>2. req[x].pc \in {"find", "revoke_old", "revoke"} =>
                /\ HasToken(req[x].token)' /\ token'[req[x].token] = token[req[x].token]
        BY <1>1, <1>10, <3>1, HandlerShape DEF KnownTo
      <3> QED BY <1>1, <3>1, <3>2 DEF KnownTo, HasApp
    <2> QED BY <2>1, <2>2
  <1>13. TokensHaveApps'
    <2>1. HasApp(a)
      BY <1>1, <1>2, IdleShape DEF KnownTo
    <2> QED BY <1>1, <1>7, <1>10, <2>1 DEF IInv, TokensHaveApps, HasApp
  <1>14. TokensFollowConsent'
    <2>1. code[c].used /\ a = code[c].app /\ req[r].user = code[c].user
      BY <1>1, <1>2, <1>4 DEF IInv, TokensFollowConsent
    <2>2. \A x \in Requests : req'[x].pc = "issue" => x # r /\ req'[x] = req[x]
      BY <1>9, IdleShape
    <2>3. \A u \in Tokens : HasToken(u)' =>
              LET k == token'[u].root IN
              code[k].used /\ token'[u].app = code[k].app /\ token'[u].user = code[k].user
      <3> SUFFICES ASSUME NEW u \in Tokens, HasToken(u)'
                   PROVE  LET k == token'[u].root IN
                          code[k].used /\ token'[u].app = code[k].app
                              /\ token'[u].user = code[k].user
        OBVIOUS
      <3>1. CASE u = t
        <4>1. token'[u] = new
          BY <1>10, <3>1
        <4> QED BY <1>7, <2>1, <4>1
      <3>2. CASE u # t
        <4>1. token'[u] = token[u] /\ HasToken(u)
          BY <1>10, <3>2
        <4>2. LET k == token[u].root IN
              code[k].used /\ token[u].app = code[k].app /\ token[u].user = code[k].user
          BY <4>1 DEF IInv, TokensFollowConsent
        <4> QED BY <4>1, <4>2
      <3> QED BY <3>1, <3>2
    <2>4. \A x \in Requests : req'[x].pc = "issue" =>
              LET k == req'[x].root IN
              code[k].used /\ req'[x].app = code[k].app /\ req'[x].user = code[k].user
      BY <2>2 DEF IInv, TokensFollowConsent, At
    <2> QED BY <1>1, <2>3, <2>4 DEF TokensFollowConsent, At
  <1>15. CodeExchangedOnce'
    <2> SUFFICES ASSUME NEW d \in Codes
                 PROVE  /\ \A x, y \in FirstTokens(d)' : x = y
                        /\ \A x, y \in Exchanges(d)' : x = y
                        /\ FirstTokens(d)' = {} \/ Exchanges(d)' = {}
      BY DEF CodeExchangedOnce
    <2>1. Exchanges(d)' = Exchanges(d) \ {r}
      BY <1>9, IdleShape DEF Exchanges, At
    <2>2. CASE req[r].via = "code" /\ d = c
      <3>1. r \in Exchanges(d)
        BY <1>1, <1>4, <2>2 DEF Exchanges
      <3>2. Exchanges(d)' = {} /\ FirstTokens(d) = {}
        <4>1. /\ \A x, y \in Exchanges(d) : x = y
              /\ FirstTokens(d) = {} \/ Exchanges(d) = {}
          BY DEF IInv, CodeExchangedOnce
        <4> HIDE DEF IInv
        <4> QED BY <2>1, <3>1, <4>1
      <3>3. FirstTokens(d)' \subseteq {t}
        BY <1>10, <3>2 DEF FirstTokens
      <3> QED BY <3>2, <3>3
    <2>3. CASE ~(req[r].via = "code" /\ d = c)
      <3>1. FirstTokens(d)' = FirstTokens(d)
        BY <1>1, <1>7, <1>10, <2>3 DEF FirstTokens
      <3>2. /\ \A x, y \in FirstTokens(d) : x = y
            /\ \A x, y \in Exchanges(d) : x = y
            /\ FirstTokens(d) = {} \/ Exchanges(d) = {}
        BY DEF IInv, CodeExchangedOnce
      <3>3. \A x, y \in FirstTokens(d)' : x = y
        BY <3>1, <3>2
      <3>4. \A x, y \in Exchanges(d)' : x = y
        BY <2>1, <3>2
      <3>5. FirstTokens(d)' = {} \/ Exchanges(d)' = {}
        BY <2>1, <3>1, <3>2
      <3> QED BY <3>3, <3>4, <3>5
    <2> QED BY <2>2, <2>3
  <1>16. ExistingTokensRevoked'
    <2> SUFFICES ASSUME NEW u \in Tokens, HasToken(u)', ~token'[u].revoked,
                        token'[u].issued # "late"
                 PROVE  LET b == token'[u].app IN
                        /\ app[b].revoked => token'[u].issued = "closing"
                        /\ \/ token'[u].secret = app[b].secret
                           \/ b \in torn
                           \/ \E x \in Requests : req'[x].pc = "rotate_tokens" /\ req'[x].app = b
      BY <1>1 DEF ExistingTokensRevoked, LiveToken, At
    <2>1. CASE u = t
      <3>1. when # "late" /\ token'[u] = new
        BY <1>7, <1>10, <2>1
      <3>2. s = app[a].secret /\ ~app[a].revoked
        BY <1>1, <1>2, <1>3, <1>5, <3>1, TimingTells
      <3> QED BY <1>7, <3>1, <3>2
    <2>2. CASE u # t
      <3>1. token'[u] = token[u] /\ LiveToken(u) /\ token[u].issued # "late"
        BY <1>10, <2>2 DEF LiveToken
      <3>2. \A x \in Requests : At(x, "rotate_tokens") => x # r /\ req'[x] = req[x]
        BY <1>1, <1>9 DEF At
      <3> QED BY <3>1, <3>2 DEF IInv, ExistingTokensRevoked, At
    <2> QED BY <2>1, <2>2
  <1>17. DeletionRevokes'
    <2> SUFFICES ASSUME NEW x \in Requests, NEW u \in Tokens, req'[x].pc = "delete_app",
                        HasToken(u)', ~token'[u].revoked, token'[u].app = req'[x].app
                 PROVE  token'[u].issued # "in time"
      BY DEF DeletionRevokes, LiveToken, At
    <2>1. At(x, "delete_app") /\ req'[x] = req[x]
      BY <1>9, IdleShape DEF At
    <2>2. CASE u = t
      <3>1. req[x].app = req[r].app
        BY <1>2, <1>7, <1>10, <2>1, <2>2
      <3>2. Timing(req[r]) # "in time"
        BY <1>1, <2>1, <3>1, TimingTells
      <3> QED BY <1>5, <1>7, <1>10, <2>2, <3>2
    <2>3. CASE u # t
      <3>1. token'[u] = token[u] /\ LiveToken(u)
        BY <1>10, <2>3 DEF LiveToken
      <3> QED BY <2>1, <3>1 DEF IInv, DeletionRevokes
    <2> QED BY <2>2, <2>3
  <1>18. LateCounted'
    <2> SUFFICES ASSUME NEW b \in Apps, NEW p \in 1..MaxSecret
                 PROVE  /\ Old(b, p) => Cardinality(Late(b, p)') + Cardinality(Pending(b, p)')
                                          < Cardinality(Requests)
                        /\ ~Old(b, p) => Late(b, p)' = {}
      BY <1>1 DEF LateCounted, Old, HasApp
    <2>1. Pending(b, p)' = Pending(b, p) \ {r}
      BY <1>9, IdleShape DEF Pending
    <2>2. /\ IsFiniteSet(Late(b, p)) /\ IsFiniteSet(Pending(b, p))
          /\ Cardinality(Late(b, p)) \in Nat /\ Cardinality(Pending(b, p)) \in Nat
          /\ Cardinality(Requests) \in Nat
      BY Counted
    <2>3. CASE when = "late" /\ b = a /\ p = s
      <3>1. Old(b, p)
        BY <1>1, <1>2, <1>3, <1>5, <2>3, TimingTells
      <3>2. r \in Pending(b, p)
        BY <1>1, <1>2, <1>3, <2>3 DEF Pending, TokenSteps
      <3>3. Late(b, p)' = Late(b, p) \cup {t} /\ t \notin Late(b, p)
        BY <1>1, <1>7, <1>10, <2>3 DEF Late
      <3>4. Cardinality(Late(b, p)') = Cardinality(Late(b, p)) + 1
        BY <2>2, <3>3, FS_AddElement
      <3>5. Cardinality(Pending(b, p)') = Cardinality(Pending(b, p)) - 1
        BY <2>1, <2>2, <3>2, FS_RemoveElement
      <3>6. Cardinality(Late(b, p)) + Cardinality(Pending(b, p)) < Cardinality(Requests)
        BY <3>1 DEF IInv, LateCounted
      <3>7. Cardinality(Late(b, p)') + Cardinality(Pending(b, p)') < Cardinality(Requests)
        <4>1. PICK l \in Nat, m \in Nat, n \in Nat :
                  l = Cardinality(Late(b, p)) /\ m = Cardinality(Pending(b, p))
                  /\ n = Cardinality(Requests)
          BY <2>2
        <4>2. l + m < n
          BY <3>6, <4>1
        <4>3. (l + 1) + (m - 1) < n
          BY <4>2, StillFewer
        <4> QED BY <3>4, <3>5, <4>1, <4>3
      <3> QED BY <3>1, <3>7
    <2>4. CASE ~(when = "late" /\ b = a /\ p = s)
      <3>1. Late(b, p)' = Late(b, p)
        BY <1>1, <1>7, <1>10, <2>4 DEF Late
      <3>2. Cardinality(Pending(b, p)') <= Cardinality(Pending(b, p))
            /\ IsFiniteSet(Pending(b, p)')
        BY <2>1, <2>2, FS_Subset
      <3>3. Cardinality(Pending(b, p)') \in Nat
        BY <3>2, FS_CardinalityType
      <3>4. Old(b, p) => Cardinality(Late(b, p)) + Cardinality(Pending(b, p))
                            < Cardinality(Requests)
        BY DEF IInv, LateCounted
      <3>5. ~Old(b, p) => Late(b, p) = {}
        BY DEF IInv, LateCounted
      <3>6. Old(b, p) => Cardinality(Late(b, p)') + Cardinality(Pending(b, p)')
                            < Cardinality(Requests)
        <4>1. PICK l \in Nat, m \in Nat, n \in Nat, o \in Nat :
                  l = Cardinality(Late(b, p)) /\ m = Cardinality(Pending(b, p))
                  /\ n = Cardinality(Requests) /\ o = Cardinality(Pending(b, p)')
          BY <2>2, <3>3
        <4>2. o <= m /\ (Old(b, p) => l + m < n)
          BY <3>2, <3>4, <4>1
        <4>3. Old(b, p) => l + o < n
          BY <4>2, StillFewer
        <4> QED BY <3>1, <4>1, <4>3
      <3> QED BY <3>1, <3>5, <3>6
    <2> QED BY <2>3, <2>4
  <1> QED BY <1>11, <1>12, <1>13, <1>14, <1>15, <1>16, <1>17, <1>18 DEF IInv

-----------------------------------------------------------------------------
LEMMA InitIInv == Init => IInv
  <1> SUFFICES ASSUME Init PROVE IInv
    OBVIOUS
  <1>1. TypeOK
    BY DEF Init, TypeOK
  <1>2. \A t \in Tokens : ~HasToken(t)
    BY DEF Init, HasToken
  <1>3. \A r \in Requests : req[r] = Idle
    BY DEF Init
  <1>4. \A a \in Apps : ~HasApp(a)
    BY DEF Init, HasApp
  <1>5. HandlersKnow
    BY <1>3, IdleShape DEF HandlersKnow, KnownTo, TokenSteps
  <1>6. TokensHaveApps /\ TokensFollowConsent /\ ExistingTokensRevoked /\ DeletionRevokes
    BY <1>2, <1>3, IdleShape
       DEF TokensHaveApps, TokensFollowConsent, ExistingTokensRevoked, DeletionRevokes, LiveToken, At
  <1>7. CodeExchangedOnce
    <2>1. \A c \in Codes : FirstTokens(c) = {} /\ Exchanges(c) = {}
      BY <1>2, <1>3, IdleShape DEF FirstTokens, Exchanges, At
    <2> QED BY <2>1 DEF CodeExchangedOnce
  <1>8. LateCounted
    BY <1>2, <1>4 DEF LateCounted, Late, Old
  <1> QED BY <1>1, <1>5, <1>6, <1>7, <1>8 DEF IInv

LEMMA StepIInv == IInv /\ [Next]_vars => IInv'
  <1> SUFFICES ASSUME IInv, [Next]_vars PROVE IInv'
    OBVIOUS
  <1>1. CASE Register
    BY <1>1, RegisterSteps
  <1>2. CASE \E r \in Requests : Owners(r)
    BY <1>2, DeleteTokensStep, RotateSecretStep, DeleteAppStep, RotateTokensStep DEF Owners
  <1>3. CASE \E r \in Requests : Authorize(r)
    BY <1>3, BeginSteps, AuthorizeInsertStep DEF Authorize
  <1>4. CASE \E r \in Requests : Token(r)
    <2>1. PICK r \in Requests : Token(r)
      BY <1>4
    <2>2. CASE \E a \in Apps, s \in 1..MaxSecret, k \in Codes, uri \in Uris :
                   ExchangeBegin(r, a, s, k, uri)
      BY <2>2, BeginSteps
    <2>3. CASE \E a \in Apps, s \in 1..MaxSecret, t \in Tokens : RefreshBegin(r, a, s, t)
      BY <2>3, BeginSteps
    <2> QED BY <2>1, <2>2, <2>3, ExchangeConsumeStep, RefreshFindStep, RefreshRevokeStep, IssueStep
            DEF Token
  <1>5. CASE \E r \in Requests : RevokeEndpoint(r)
    BY <1>5, BeginSteps, RevokeStep DEF RevokeEndpoint
  <1>6. CASE \E r \in Requests : Fail(r)
    BY <1>6, FailStep
  <1>7. CASE \E c \in Codes : CodeExpires(c)
    BY <1>7, CodeExpiresStep
  <1>8. CASE UNCHANGED vars
    BY <1>8, Stutter
  <1> QED BY <1>1, <1>2, <1>3, <1>4, <1>5, <1>6, <1>7, <1>8 DEF Next

-----------------------------------------------------------------------------
\* The inductive invariant holds of every reachable state.
THEOREM InductiveInvariant == Spec => []IInv
  BY InitIInv, StepIInv, PTL DEF Spec

\* Rows and handlers keep their types, and no application is left without a
\* redirect URI (create_app, update_app).
THEOREM TypeCorrect == Spec => []TypeOK
  <1>1. IInv => TypeOK
    BY DEF IInv
  <1> QED BY <1>1, InductiveInvariant, PTL

\* Every chain of refresh tokens belongs to the application and the user of
\* the consent at its start (authorize_post, token).
THEOREM ConsentFollowed == Spec => []TokensFollowConsent
  <1>1. IInv => TokensFollowConsent
    BY DEF IInv
  <1> QED BY <1>1, InductiveInvariant, PTL

\* However many requests present a code, one token starts from it
\* (PgOAuthCodeRepo::consume).
THEOREM CodesExchangedOnce == Spec => []CodeExchangedOnce
  <1>1. IInv => CodeExchangedOnce
    BY DEF IInv
  <1> QED BY <1>1, InductiveInvariant, PTL

\* Deleting an application or rotating its secret revokes the tokens issued by
\* then, unless it stops half-way (delete_app, rotate_secret).
THEOREM TokensRevoked == Spec => []ExistingTokensRevoked
  <1>1. IInv => ExistingTokensRevoked
    BY DEF IInv
  <1> QED BY <1>1, InductiveInvariant, PTL

\* At most one token fewer than requests may be in flight is issued for a
\* secret after its end (token, issue_refresh_token).
THEOREM LateBounded == Spec => []LateIssuesBounded
  <1>1. ASSUME IInv PROVE LateIssuesBounded
    <2> SUFFICES ASSUME NEW a \in Apps, NEW s \in 1..MaxSecret
                 PROVE  Cardinality(Late(a, s)) < Cardinality(Requests)
      BY DEF LateIssuesBounded, Late
    <2>1. CASE Old(a, s)
      BY <1>1, <2>1, Counted DEF IInv, LateCounted
    <2>2. CASE ~Old(a, s)
      <3>1. Cardinality(Late(a, s)) = 0
        BY <1>1, <2>2, FS_EmptySet DEF IInv, LateCounted
      <3>2. Cardinality(Requests) # 0 /\ Cardinality(Requests) \in Nat
        BY OAuthAssumption, FS_EmptySet, FS_CardinalityType
      <3> QED BY <3>1, <3>2
    <2> QED BY <2>1, <2>2
  <1> QED BY <1>1, InductiveInvariant, PTL

=============================================================================
