--------------------------- MODULE SessionsProofs ---------------------------
(***************************************************************************)
(* Sessions for any users, claims, login states, requests and lifetimes:   *)
(* its invariants hold.                                                    *)
(*                                                                         *)
(* The inductive invariant adds what a handler in the middle of a login    *)
(* knows: its state is removed, is nobody else's and has no session yet,   *)
(* and the user it has found stays one.                                    *)
(***************************************************************************)
EXTENDS Sessions, TLAPS

Handler == Returned \cup Vouched \cup Linking \cup Registering \cup Known
              \cup LoggingOut \cup RevokingPat \cup {Idle}

LoginSteps == {"exchange", "identity", "email", "link", "register", "session"}

Informed(q) ==
    /\ q.pc = "link" => q.user \in UserIds
    /\ q.pc = "session" => <<q.claim[1], q.user>> \in identities
    /\ q.pc = "revoke" => HasSession(q.session)
    /\ q.pc \in LoginSteps =>
          /\ login[q.state] = "removed"
          /\ \A x \in Sessions : HasSession(x) => session[x].state # q.state

HandlersInformed == \A r \in Requests : Informed(req[r])

OneHandlerPerLogin ==
    \A r, s \in Requests :
        req[r].pc \in LoginSteps /\ req[s].pc \in LoginSteps /\ req[r].state = req[s].state
            => r = s

IInv == /\ TypeOK /\ OneUserPerIdentity /\ SessionsBelongToIdentity /\ OneSessionPerLogin
        /\ RevokedAnsweredOnce /\ HandlersInformed /\ OneHandlerPerLogin

-----------------------------------------------------------------------------
(***************************************************************************)
(* Records.                                                                *)
(***************************************************************************)

\* The step of a handler tells its locals.
LEMMA HandlerShape ==
    ASSUME NEW q \in Handler
    PROVE  /\ q.pc = "exchange" => q \in Returned
           /\ q.pc \in {"identity", "email"} => q \in Vouched
           /\ q.pc = "link" => q \in Linking
           /\ q.pc = "register" => q \in Registering
           /\ q.pc = "session" => q \in Known
           /\ q.pc = "revoke" => q \in LoggingOut
           /\ q.pc = "revoke_pat" => q \in RevokingPat
           /\ q.pc \in LoginSteps => q.state \in LoginStates
  BY DEF Handler, Returned, Vouched, Linking, Registering, Known, LoggingOut, RevokingPat,
         Idle, LoginSteps

\* The provider vouches for a subject and an email.
LEMMA ClaimShape ==
    \A claim \in Claims : claim[1] \in Subjects /\ claim[2] \in Emails
  BY SessionAssumption

\* The null records are not rows.
LEMMA NullRecords == NoSession \notin SessionRecord /\ NoToken \notin ApiTokenRecord
  BY DEF NoSession, SessionRecord, NoToken, ApiTokenRecord

\* A row that is there is one.
LEMMA RowShape ==
    ASSUME TypeOK
    PROVE  /\ \A x \in Sessions : HasSession(x) <=> session[x] \in SessionRecord
           /\ \A p \in Pats : HasPat(p) <=> pat[p] \in ApiTokenRecord
  BY NullRecords DEF TypeOK, HasSession, HasPat

\* What a step of one handler does to the handlers.
LEMMA OneHandler ==
    ASSUME TypeOK, NEW r \in Requests, NEW k \in Handler, req' = [req EXCEPT ![r] = k]
    PROVE  /\ req' \in [Requests -> Handler]
           /\ \A s \in Requests : req'[s] = IF s = r THEN k ELSE req[s]
  BY DEF TypeOK, Handler

-----------------------------------------------------------------------------
(***************************************************************************)
(* Steps by what they change.                                              *)
(***************************************************************************)

\* A login goes on: the accounts may grow.
LEMMA LoginMoves ==
    ASSUME IInv, NEW r \in Requests, NEW k \in Handler, req' = [req EXCEPT ![r] = k],
           req[r].pc \in LoginSteps, k.pc \in LoginSteps, k.state = req[r].state,
           UNCHANGED <<now, login, session, access, pat>>,
           users' \subseteq Users \X Emails, identities' \subseteq Subjects \X Users,
           users \subseteq users', identities \subseteq identities',
           OneUserPerIdentity',
           k.pc = "link" => k.user \in UserIds',
           k.pc = "session" => <<k.claim[1], k.user>> \in identities'
    PROVE  IInv'
  <1>1. /\ req' \in [Requests -> Handler]
        /\ \A s \in Requests : req'[s] = IF s = r THEN k ELSE req[s]
    BY OneHandler DEF IInv
  <1>2. TypeOK'
    BY <1>1 DEF IInv, TypeOK, Handler
  <1>3. UserIds \subseteq UserIds'
    BY DEF UserIds
  <1>4. HandlersInformed'
    <2> SUFFICES ASSUME NEW s \in Requests PROVE Informed(req[s])'
      BY DEF HandlersInformed
    <2>1. CASE s = r
      <3>1. Informed(req[r])
        BY DEF IInv, HandlersInformed
      <3> QED BY <1>1, <2>1, <3>1 DEF Informed, HasSession, LoginSteps
    <2>2. CASE s # r
      <3>1. Informed(req[s]) /\ req'[s] = req[s]
        BY <1>1, <2>2 DEF IInv, HandlersInformed
      <3> QED BY <1>3, <3>1 DEF Informed, HasSession
    <2> QED BY <2>1, <2>2
  <1>5. OneHandlerPerLogin'
    BY <1>1 DEF IInv, OneHandlerPerLogin
  <1>6. SessionsBelongToIdentity' /\ OneSessionPerLogin' /\ RevokedAnsweredOnce'
    BY DEF IInv, SessionsBelongToIdentity, OneSessionPerLogin, RevokedAnsweredOnce,
           HasSession, HasPat
  <1> QED BY <1>2, <1>4, <1>5, <1>6 DEF IInv

\* A handler that is in no login after the step; sessions may be revoked.
LEMMA HandlerMoves ==
    ASSUME IInv, NEW r \in Requests, NEW k \in Handler, req' = [req EXCEPT ![r] = k],
           k.pc \notin LoginSteps, k.pc = "revoke" => HasSession(k.session),
           UNCHANGED <<now, login, users, identities, access>>,
           pat' \in [Pats -> ApiTokenRecord \cup {NoToken}], RevokedAnsweredOnce',
           session' \in [Sessions -> SessionRecord \cup {NoSession}],
           \A x \in Sessions : HasSession(x)' <=> HasSession(x),
           \A x \in Sessions : HasSession(x) =>
               /\ session'[x].user = session[x].user
               /\ session'[x].subject = session[x].subject
               /\ session'[x].state = session[x].state
    PROVE  IInv'
  <1>1. /\ req' \in [Requests -> Handler]
        /\ \A s \in Requests : req'[s] = IF s = r THEN k ELSE req[s]
    BY OneHandler DEF IInv
  <1>2. TypeOK'
    BY <1>1 DEF IInv, TypeOK, Handler
  <1>3. HandlersInformed'
    <2> SUFFICES ASSUME NEW s \in Requests PROVE Informed(req[s])'
      BY DEF HandlersInformed
    <2>0. req[s] \in Handler /\ Informed(req[s])
      BY DEF IInv, TypeOK, HandlersInformed, Handler
    <2>1. CASE s = r
      <3>1. k.pc = "revoke" => k.session \in Sessions
        BY HandlerShape DEF LoggingOut
      <3> QED BY <1>1, <2>1, <3>1 DEF Informed, LoginSteps
    <2>2. CASE s # r
      <3>1. req'[s] = req[s] /\ UserIds' = UserIds
        BY <1>1, <2>2 DEF UserIds
      <3>2. req[s].pc = "revoke" => req[s].session \in Sessions
        BY <2>0, HandlerShape DEF LoggingOut
      <3> QED BY <2>0, <3>1, <3>2 DEF Informed
    <2> QED BY <2>1, <2>2
  <1>4. OneHandlerPerLogin'
    BY <1>1 DEF IInv, OneHandlerPerLogin
  <1>5. OneUserPerIdentity'
    BY DEF IInv, OneUserPerIdentity, WithIdentity, WithEmail, UserIds
  <1>6. SessionsBelongToIdentity' /\ OneSessionPerLogin'
    BY DEF IInv, SessionsBelongToIdentity, OneSessionPerLogin
  <1> QED BY <1>2, <1>3, <1>4, <1>5, <1>6 DEF IInv

\* No handler moves, and no row of an account or session changes.
LEMMA RestMoves ==
    ASSUME IInv, UNCHANGED <<req, users, identities, session>>,
           now' \in 0..MaxNow,
           login' \in [LoginStates -> {"unused", "pending", "removed"}],
           \A o \in LoginStates : login'[o] = "removed" <=> login[o] = "removed",
           access' \in [Sessions -> Nat],
           pat' \in [Pats -> ApiTokenRecord \cup {NoToken}], RevokedAnsweredOnce'
    PROVE  IInv'
  <1>1. TypeOK'
    BY DEF IInv, TypeOK
  <1>2. HandlersInformed'
    <2> SUFFICES ASSUME NEW s \in Requests PROVE Informed(req[s])'
      BY DEF HandlersInformed
    <2>1. req[s] \in Handler /\ Informed(req[s])
      BY DEF IInv, TypeOK, HandlersInformed, Handler
    <2>2. req[s].pc \in LoginSteps => req[s].state \in LoginStates
      BY <2>1, HandlerShape
    <2> QED BY <2>1, <2>2 DEF Informed, UserIds, HasSession
  <1>3. OneHandlerPerLogin' /\ OneUserPerIdentity'
    BY DEF IInv, OneHandlerPerLogin, OneUserPerIdentity, WithIdentity, WithEmail, UserIds
  <1>4. SessionsBelongToIdentity' /\ OneSessionPerLogin'
    BY DEF IInv, SessionsBelongToIdentity, OneSessionPerLogin, HasSession
  <1> QED BY <1>1, <1>2, <1>3, <1>4 DEF IInv

-----------------------------------------------------------------------------
(***************************************************************************)
(* The actions.                                                            *)
(***************************************************************************)
LEMMA AuthorizeUrlStep ==
    ASSUME IInv, NEW o \in LoginStates, AuthorizeUrl(o)
    PROVE  IInv'
  <1>1. /\ login' \in [LoginStates -> {"unused", "pending", "removed"}]
        /\ \A p \in LoginStates : login'[p] = "removed" <=> login[p] = "removed"
    BY DEF AuthorizeUrl, IInv, TypeOK
  <1>2. UNCHANGED <<now, users, identities, session, access, pat, req>>
    BY DEF AuthorizeUrl, accountVars
  <1>3. /\ now' \in 0..MaxNow /\ access' \in [Sessions -> Nat]
        /\ pat' \in [Pats -> ApiTokenRecord \cup {NoToken}]
        /\ RevokedAnsweredOnce'
    BY <1>2 DEF IInv, TypeOK, RevokedAnsweredOnce, HasPat
  <1> QED BY <1>1, <1>2, <1>3, RestMoves

\* Nobody else is at a login state that is still pending.
LEMMA CallbackBeginStep ==
    ASSUME IInv, NEW r \in Requests, NEW o \in LoginStates, CallbackBegin(r, o)
    PROVE  IInv'
  <1> DEFINE k == [pc |-> "exchange", state |-> o]
  <1>1. k \in Handler /\ k.pc = "exchange" /\ k.state = o
    BY DEF Handler, Returned
  <1>2. /\ req' = [req EXCEPT ![r] = k] /\ login[o] = "pending"
        /\ UNCHANGED <<now, users, identities, session, access, pat>>
    BY DEF CallbackBegin, Begin, Goto, accountVars
  <1> HIDE DEF k
  <1>3. /\ login' \in [LoginStates -> {"unused", "pending", "removed"}]
        /\ \A p \in LoginStates : login'[p] = IF p = o THEN "removed" ELSE login[p]
    BY DEF CallbackBegin, IInv, TypeOK
  <1>4. /\ req' \in [Requests -> Handler]
        /\ \A s \in Requests : req'[s] = IF s = r THEN k ELSE req[s]
    BY <1>1, <1>2, OneHandler DEF IInv
  <1>5. \A s \in Requests : req[s].pc \in LoginSteps =>
            req[s].state \in LoginStates /\ req[s].state # o
    BY <1>2, HandlerShape DEF IInv, TypeOK, Handler, HandlersInformed, Informed
  <1>6. TypeOK'
    BY <1>2, <1>3, <1>4 DEF IInv, TypeOK, Handler
  <1>7. HandlersInformed'
    <2> SUFFICES ASSUME NEW s \in Requests PROVE Informed(req[s])'
      BY DEF HandlersInformed
    <2>1. CASE s = r
      BY <1>1, <1>2, <1>3, <1>4, <2>1 DEF IInv, OneSessionPerLogin, Informed, HasSession
    <2>2. CASE s # r
      BY <1>2, <1>3, <1>4, <1>5, <2>2 DEF IInv, HandlersInformed, Informed, UserIds, HasSession
    <2> QED BY <2>1, <2>2
  <1>8. OneHandlerPerLogin'
    BY <1>1, <1>4, <1>5 DEF IInv, OneHandlerPerLogin
  <1>9. OneUserPerIdentity'
    BY <1>2 DEF IInv, OneUserPerIdentity, WithIdentity, WithEmail, UserIds
  <1>10. SessionsBelongToIdentity' /\ OneSessionPerLogin'
    BY <1>2, <1>3 DEF IInv, SessionsBelongToIdentity, OneSessionPerLogin, HasSession
  <1>11. RevokedAnsweredOnce'
    BY <1>2 DEF IInv, RevokedAnsweredOnce, HasPat
  <1> QED BY <1>6, <1>7, <1>8, <1>9, <1>10, <1>11 DEF IInv

\* The steps that write no account.
LEMMA LookUpStep ==
    ASSUME IInv, NEW r \in Requests,
           (\E claim \in Claims : Exchange(r, claim)) \/ FindIdentity(r) \/ FindEmail(r)
    PROVE  IInv'
  <1>1. UNCHANGED <<now, login, users, identities, session, access, pat>>
    BY DEF Exchange, FindIdentity, FindEmail, accountVars
  <1>2. /\ req[r] \in Handler
        /\ req[r].pc = "exchange" => req[r] \in Returned
        /\ req[r].pc \in {"identity", "email"} => req[r] \in Vouched
    BY HandlerShape DEF IInv, TypeOK, Handler
  <1>3. PICK k \in Handler :
            /\ req' = [req EXCEPT ![r] = k]
            /\ req[r].pc \in LoginSteps /\ k.pc \in LoginSteps /\ k.state = req[r].state
            /\ k.pc = "link" => k.user \in UserIds
            /\ k.pc = "session" => <<k.claim[1], k.user>> \in identities
    <2>1. CASE \E claim \in Claims : Exchange(r, claim)
      <3>1. PICK claim \in Claims : Exchange(r, claim)
        BY <2>1
      <3> DEFINE k == [pc |-> "identity", state |-> req[r].state, claim |-> claim]
      <3>2. k \in Handler /\ k.pc = "identity" /\ k.state = req[r].state
        BY <1>2, <3>1 DEF Handler, Vouched, Returned, Exchange, At
      <3>3. req' = [req EXCEPT ![r] = k] /\ req[r].pc = "exchange"
        BY <3>1 DEF Exchange, Goto, At
      <3> HIDE DEF k
      <3> QED BY <3>2, <3>3 DEF LoginSteps
    <2>2. CASE FindIdentity(r) /\ WithIdentity(req[r].claim[1]) = {}
      <3> DEFINE k == Continue(req[r], "email")
      <3>1. k \in Handler /\ k.pc = "email" /\ k.state = req[r].state
        BY <1>2, <2>2 DEF Handler, Vouched, Continue, FindIdentity, At
      <3>2. req' = [req EXCEPT ![r] = k] /\ req[r].pc = "identity"
        BY <2>2 DEF FindIdentity, Goto, At
      <3> HIDE DEF k
      <3> QED BY <3>1, <3>2 DEF LoginSteps
    <2>3. CASE FindIdentity(r) /\ WithIdentity(req[r].claim[1]) # {}
      <3>1. PICK u \in WithIdentity(req[r].claim[1]) : Goto(r, ContinueAs(req[r], "session", u))
        BY <2>3 DEF FindIdentity
      <3> DEFINE k == ContinueAs(req[r], "session", u)
      <3>2. u \in Users /\ <<req[r].claim[1], u>> \in identities
        BY <3>1 DEF WithIdentity
      <3>3. /\ k \in Handler /\ k.pc = "session" /\ k.state = req[r].state
            /\ k.claim = req[r].claim /\ k.user = u
        BY <1>2, <2>3, <3>2 DEF Handler, Known, Vouched, ContinueAs, FindIdentity, At
      <3>4. req' = [req EXCEPT ![r] = k] /\ req[r].pc = "identity"
        BY <2>3, <3>1 DEF FindIdentity, Goto, At
      <3> HIDE DEF k
      <3> QED BY <3>2, <3>3, <3>4 DEF LoginSteps
    <2>4. CASE FindEmail(r) /\ WithEmail(req[r].claim[2]) = {}
      <3> DEFINE k == Continue(req[r], "register")
      <3>1. k \in Handler /\ k.pc = "register" /\ k.state = req[r].state
        BY <1>2, <2>4 DEF Handler, Registering, Vouched, Continue, FindEmail, At
      <3>2. req' = [req EXCEPT ![r] = k] /\ req[r].pc = "email"
        BY <2>4 DEF FindEmail, Goto, At
      <3> HIDE DEF k
      <3> QED BY <3>1, <3>2 DEF LoginSteps
    <2>5. CASE FindEmail(r) /\ WithEmail(req[r].claim[2]) # {}
      <3>1. PICK u \in WithEmail(req[r].claim[2]) : Goto(r, ContinueAs(req[r], "link", u))
        BY <2>5 DEF FindEmail
      <3> DEFINE k == ContinueAs(req[r], "link", u)
      <3>2. u \in Users /\ <<u, req[r].claim[2]>> \in users
        BY <3>1 DEF WithEmail
      <3>3. u \in UserIds
        BY <3>2 DEF UserIds
      <3>4. k \in Handler /\ k.pc = "link" /\ k.state = req[r].state /\ k.user = u
        BY <1>2, <2>5, <3>2 DEF Handler, Linking, Vouched, ContinueAs, FindEmail, At
      <3>5. req' = [req EXCEPT ![r] = k] /\ req[r].pc = "email"
        BY <2>5, <3>1 DEF FindEmail, Goto, At
      <3> HIDE DEF k
      <3> QED BY <3>3, <3>4, <3>5 DEF LoginSteps
    <2> QED BY <2>1, <2>2, <2>3, <2>4, <2>5
  <1>4. OneUserPerIdentity'
    BY <1>1 DEF IInv, OneUserPerIdentity, WithIdentity, WithEmail, UserIds
  <1>5. /\ users' \subseteq Users \X Emails /\ identities' \subseteq Subjects \X Users
        /\ UserIds' = UserIds
    BY <1>1 DEF IInv, TypeOK, UserIds
  <1> QED BY <1>1, <1>3, <1>4, <1>5, LoginMoves

\* The INSERTs: the constraints keep subjects and emails apart.
LEMMA LinkStep ==
    ASSUME IInv, NEW r \in Requests, Link(r)
    PROVE  IInv'
  <1>0. req[r] \in Linking /\ req[r].pc = "link"
    BY HandlerShape DEF IInv, TypeOK, Handler, Link, At
  <1>1. /\ req[r] \in Linking /\ req[r].user \in UserIds /\ req[r].pc = "link"
        /\ req[r].claim[1] \in Subjects /\ req[r].user \in Users
    <2>1. req[r].user \in UserIds
      BY <1>0 DEF IInv, HandlersInformed, Informed
    <2>2. req[r].claim \in Claims /\ req[r].user \in Users
      BY <1>0 DEF Linking
    <2> QED BY <1>0, <2>1, <2>2, ClaimShape
  <1> DEFINE k == ContinueAs(req[r], "session", req[r].user)
  <1>2. /\ k \in Handler /\ k.pc = "session" /\ k.state = req[r].state
        /\ k.claim = req[r].claim /\ k.user = req[r].user
    BY <1>1 DEF Handler, Known, Linking, ContinueAs
  <1>3. /\ req' = [req EXCEPT ![r] = k] /\ WithIdentity(req[r].claim[1]) = {}
        /\ identities' = identities \cup {<<req[r].claim[1], req[r].user>>}
        /\ UNCHANGED <<now, login, users, session, access, pat>>
    BY DEF Link, LinkIdentity, Goto
  <1> HIDE DEF k
  <1>4. identities' \subseteq Subjects \X Users /\ users' \subseteq Users \X Emails
    BY <1>1, <1>3 DEF IInv, TypeOK
  <1>5. OneUserPerIdentity'
    BY <1>1, <1>3 DEF IInv, OneUserPerIdentity, WithIdentity, WithEmail, UserIds
  <1> QED BY <1>1, <1>2, <1>3, <1>4, <1>5, LoginMoves DEF LoginSteps

LEMMA RegisterStep ==
    ASSUME IInv, NEW r \in Requests, NEW u \in Users, Register(r, u)
    PROVE  IInv'
  <1>1. /\ req[r] \in Registering /\ req[r].pc = "register"
        /\ req[r].claim[1] \in Subjects /\ req[r].claim[2] \in Emails
    BY HandlerShape, ClaimShape DEF IInv, TypeOK, Handler, Register, At, Registering
  <1> DEFINE k == ContinueAs(req[r], "session", u)
  <1>2. /\ k \in Handler /\ k.pc = "session" /\ k.state = req[r].state
        /\ k.claim = req[r].claim /\ k.user = u
    BY <1>1 DEF Handler, Known, Registering, ContinueAs
  <1>3. /\ req' = [req EXCEPT ![r] = k] /\ WithIdentity(req[r].claim[1]) = {}
        /\ u \notin UserIds /\ WithEmail(req[r].claim[2]) = {}
        /\ identities' = identities \cup {<<req[r].claim[1], u>>}
        /\ users' = users \cup {<<u, req[r].claim[2]>>}
        /\ UNCHANGED <<now, login, session, access, pat>>
    BY DEF Register, LinkIdentity, InsertUser, Goto
  <1> HIDE DEF k
  <1>4. identities' \subseteq Subjects \X Users /\ users' \subseteq Users \X Emails
    BY <1>1, <1>3 DEF IInv, TypeOK
  <1>5. UserIds \subseteq UserIds' /\ u \in UserIds'
    <2>1. <<u, req[r].claim[2]>> \in users' /\ <<u, req[r].claim[2]>>[1] = u
      BY <1>3
    <2> QED BY <1>3, <2>1 DEF UserIds
  <1>6. OneUserPerIdentity'
    BY <1>1, <1>3, <1>5 DEF IInv, OneUserPerIdentity, WithIdentity, WithEmail
  <1> QED BY <1>1, <1>2, <1>3, <1>4, <1>6, LoginMoves DEF LoginSteps

\* One session for the login state, which nobody else is at.
LEMMA OpenSessionStep ==
    ASSUME IInv, NEW r \in Requests, NEW x \in Sessions, OpenSession(r, x)
    PROVE  IInv'
  <1>1. req[r] \in Known /\ req[r].pc = "session"
    BY HandlerShape DEF IInv, TypeOK, Handler, OpenSession, At
  <1>2. /\ req[r].claim \in Claims /\ req[r].user \in Users /\ req[r].state \in LoginStates
        /\ req[r].claim[1] \in Subjects
    BY <1>1, ClaimShape DEF Known
  <1>3. /\ <<req[r].claim[1], req[r].user>> \in identities
        /\ login[req[r].state] = "removed"
        /\ \A y \in Sessions : HasSession(y) => session[y].state # req[r].state
    BY <1>1 DEF IInv, HandlersInformed, Informed, LoginSteps
  <1> DEFINE new == [user |-> req[r].user, created |-> now, revoked |-> FALSE,
                     subject |-> req[r].claim[1], state |-> req[r].state]
  <1>4. /\ new \in SessionRecord /\ new.user = req[r].user
        /\ new.subject = req[r].claim[1] /\ new.state = req[r].state
    BY <1>2 DEF IInv, TypeOK, SessionRecord
  <1>5. /\ ~HasSession(x) /\ session' = [session EXCEPT ![x] = new]
        /\ access' = [access EXCEPT ![x] = now + AccessTTL]
        /\ req' = [req EXCEPT ![r] = Idle]
        /\ UNCHANGED <<now, login, users, identities, pat>>
    BY DEF OpenSession, InsertSession, HasSession, Return, accountVars
  <1> HIDE DEF new
  <1>6. now \in Nat /\ AccessTTL \in Nat
    BY SessionAssumption DEF IInv, TypeOK
  <1>7. /\ \A y \in Sessions : session'[y] = IF y = x THEN new ELSE session[y]
        /\ session' \in [Sessions -> SessionRecord \cup {NoSession}]
        /\ \A y \in Sessions : access'[y] = IF y = x THEN now + AccessTTL ELSE access[y]
        /\ access' \in [Sessions -> Nat]
    BY <1>4, <1>5, <1>6 DEF IInv, TypeOK
  <1>8. \A y \in Sessions : HasSession(y)' <=> y = x \/ HasSession(y)
    BY <1>4, <1>7, NullRecords DEF HasSession
  <1>9. Idle \in Handler /\ Idle.pc = "idle"
    BY DEF Handler, Idle
  <1>10. /\ req' \in [Requests -> Handler]
         /\ \A s \in Requests : req'[s] = IF s = r THEN Idle ELSE req[s]
    BY <1>5, <1>9, OneHandler DEF IInv
  <1>11. TypeOK'
    BY <1>5, <1>7, <1>10 DEF IInv, TypeOK, Handler
  <1>12. HandlersInformed'
    <2> SUFFICES ASSUME NEW s \in Requests PROVE Informed(req[s])'
      BY DEF HandlersInformed
    <2>1. CASE s = r
      BY <1>9, <1>10, <2>1 DEF Informed, LoginSteps
    <2>2. CASE s # r
      <3>1. Informed(req[s]) /\ req'[s] = req[s] /\ req[s] \in Handler
        BY <1>10, <2>2 DEF IInv, TypeOK, HandlersInformed, Handler
      <3>2. req[s].pc \in LoginSteps => req[s].state # req[r].state
        BY <1>1, <2>2 DEF IInv, OneHandlerPerLogin, LoginSteps
      <3>3. req[s].pc = "revoke" => req[s].session \in Sessions
        BY <3>1, HandlerShape DEF LoggingOut
      <3>4. UserIds' = UserIds
        BY <1>5 DEF UserIds
      <3> QED BY <1>4, <1>5, <1>7, <1>8, <3>1, <3>2, <3>3, <3>4 DEF Informed
    <2> QED BY <2>1, <2>2
  <1>13. OneHandlerPerLogin'
    BY <1>9, <1>10 DEF IInv, OneHandlerPerLogin, LoginSteps
  <1>14. OneUserPerIdentity'
    BY <1>5 DEF IInv, OneUserPerIdentity, WithIdentity, WithEmail, UserIds
  <1>15. SessionsBelongToIdentity'
    BY <1>3, <1>4, <1>5, <1>7, <1>8 DEF IInv, SessionsBelongToIdentity
  <1>16. OneSessionPerLogin'
    BY <1>2, <1>3, <1>4, <1>5, <1>7, <1>8 DEF IInv, OneSessionPerLogin
  <1>17. RevokedAnsweredOnce'
    BY <1>5 DEF IInv, RevokedAnsweredOnce, HasPat
  <1> QED BY <1>11, <1>12, <1>13, <1>14, <1>15, <1>16, <1>17 DEF IInv

\* A refresh changes when the session's access ends, and nothing else.
LEMMA RefreshStep ==
    ASSUME IInv, NEW x \in Sessions, Refresh(x)
    PROVE  IInv'
  <1>1. /\ access' = [access EXCEPT ![x] = now + AccessTTL]
        /\ UNCHANGED <<now, login, users, identities, session, pat, req>>
    BY DEF Refresh, accountVars
  <1>2. access' \in [Sessions -> Nat]
    BY <1>1, SessionAssumption DEF IInv, TypeOK
  <1>3. /\ now' \in 0..MaxNow /\ login' \in [LoginStates -> {"unused", "pending", "removed"}]
        /\ pat' \in [Pats -> ApiTokenRecord \cup {NoToken}] /\ RevokedAnsweredOnce'
    BY <1>1 DEF IInv, TypeOK, RevokedAnsweredOnce, HasPat
  <1> QED BY <1>1, <1>2, <1>3, RestMoves

\* A personal token is made, or time passes, or nothing happens.
LEMMA OtherStep ==
    ASSUME IInv,
           \/ \E u \in Users, p \in Pats, expires \in 0..Never : CreateToken(u, p, expires)
           \/ Tick
           \/ UNCHANGED vars
    PROVE  IInv'
  <1>1. UNCHANGED <<login, users, identities, session, access, req>>
    BY DEF CreateToken, Tick, vars, accountVars
  <1>2. now' \in 0..MaxNow
    BY SessionAssumption DEF CreateToken, Tick, vars, IInv, TypeOK
  <1>3. /\ pat' \in [Pats -> ApiTokenRecord \cup {NoToken}]
        /\ RevokedAnsweredOnce'
    <2>1. CASE UNCHANGED pat
      BY <2>1 DEF IInv, TypeOK, RevokedAnsweredOnce, HasPat
    <2>2. CASE \E u \in Users, p \in Pats, expires \in 0..Never : CreateToken(u, p, expires)
      <3>1. PICK u \in Users, p \in Pats, expires \in 0..Never : CreateToken(u, p, expires)
        BY <2>2
      <3> DEFINE new == [user |-> u, expires |-> expires, revoked |-> FALSE, answers |-> 0]
      <3>2. new \in ApiTokenRecord /\ ~new.revoked /\ new.answers = 0
        BY DEF ApiTokenRecord
      <3>3. pat' = [pat EXCEPT ![p] = new]
        BY <3>1 DEF CreateToken
      <3> HIDE DEF new
      <3> QED BY <3>2, <3>3 DEF IInv, TypeOK, RevokedAnsweredOnce, HasPat
    <2> QED BY <2>1, <2>2 DEF Tick, vars
  <1>4. /\ access' \in [Sessions -> Nat]
        /\ login' \in [LoginStates -> {"unused", "pending", "removed"}]
    BY <1>1 DEF IInv, TypeOK
  <1> QED BY <1>1, <1>2, <1>3, <1>4, RestMoves

\* The handlers that are in no login after the step.
LEMMA LogoutStep ==
    ASSUME IInv, NEW r \in Requests, NEW x \in Sessions, LogoutCheck(r, x)
    PROVE  IInv'
  <1> DEFINE k == [pc |-> "revoke", session |-> x]
  <1>1. k \in Handler /\ k.pc \notin LoginSteps /\ k.session = x
    BY DEF Handler, LoggingOut, LoginSteps
  <1>2. /\ req' = [req EXCEPT ![r] = k] /\ HasSession(x)
        /\ UNCHANGED <<now, login, users, identities, session, access, pat>>
    BY DEF LogoutCheck, SessionValid, Begin, Goto, accountVars
  <1> HIDE DEF k
  <1>3. /\ pat' \in [Pats -> ApiTokenRecord \cup {NoToken}] /\ RevokedAnsweredOnce'
        /\ session' \in [Sessions -> SessionRecord \cup {NoSession}]
        /\ \A y \in Sessions : HasSession(y)' <=> HasSession(y)
    BY <1>2 DEF IInv, TypeOK, RevokedAnsweredOnce, HasPat, HasSession
  <1> QED BY <1>1, <1>2, <1>3, HandlerMoves

LEMMA IdleShape == Idle \in Handler /\ Idle.pc \notin LoginSteps /\ Idle.pc # "revoke"
  BY DEF Handler, Idle, LoginSteps

LEMMA LogoutWriteStep ==
    ASSUME IInv, NEW r \in Requests, LogoutWrite(r)
    PROVE  IInv'
  <1>1. req[r].session \in Sessions /\ HasSession(req[r].session)
    <2>1. req[r] \in LoggingOut /\ req[r].pc = "revoke"
      BY HandlerShape DEF IInv, TypeOK, Handler, LogoutWrite, At
    <2> QED BY <2>1 DEF IInv, HandlersInformed, Informed, LoggingOut
  <1>2. PICK x \in Sessions : x = req[r].session
    BY <1>1
  <1> DEFINE new == [session[x] EXCEPT !.revoked = TRUE]
  <1>3. session[x] \in SessionRecord
    BY <1>1, <1>2, RowShape DEF IInv
  <1>4. /\ new \in SessionRecord /\ new.user = session[x].user
        /\ new.subject = session[x].subject
        /\ new.state = session[x].state
    BY <1>3 DEF SessionRecord
  <1>5. /\ session' = [session EXCEPT ![x] = new] /\ req' = [req EXCEPT ![r] = Idle]
        /\ UNCHANGED <<now, login, users, identities, access, pat>>
    BY <1>2 DEF LogoutWrite, RevokeSession, Return, accountVars
  <1> HIDE DEF new
  <1>6. /\ \A y \in Sessions : session'[y] = IF y = x THEN new ELSE session[y]
        /\ session' \in [Sessions -> SessionRecord \cup {NoSession}]
    BY <1>4, <1>5 DEF IInv, TypeOK
  <1>7. \A y \in Sessions : HasSession(y)' <=> HasSession(y)
    BY <1>1, <1>2, <1>4, <1>6, NullRecords DEF HasSession
  <1>8. /\ pat' \in [Pats -> ApiTokenRecord \cup {NoToken}] /\ RevokedAnsweredOnce'
    BY <1>5 DEF IInv, TypeOK, RevokedAnsweredOnce, HasPat
  <1> QED BY <1>4, <1>5, <1>6, <1>7, <1>8, IdleShape, HandlerMoves

LEMMA RevokeTokenStep ==
    ASSUME IInv, NEW r \in Requests,
           (\E u \in Users, p \in Pats : RevokeTokenBegin(r, u, p)) \/ RevokeTokenWrite(r) \/ Fail(r)
    PROVE  IInv'
  <1>1. UNCHANGED <<now, login, users, identities, session, access>>
    BY DEF RevokeTokenBegin, RevokeTokenWrite, Fail, accountVars
  <1>2. PICK k \in Handler :
            req' = [req EXCEPT ![r] = k] /\ k.pc \notin LoginSteps /\ k.pc # "revoke"
    <2>1. CASE \E u \in Users, p \in Pats : RevokeTokenBegin(r, u, p)
      <3>1. PICK u \in Users, p \in Pats : RevokeTokenBegin(r, u, p)
        BY <2>1
      <3> DEFINE k == [pc |-> "revoke_pat", user |-> u, pat |-> p]
      <3>2. k \in Handler /\ k.pc = "revoke_pat"
        BY DEF Handler, RevokingPat
      <3>3. req' = [req EXCEPT ![r] = k]
        BY <3>1 DEF RevokeTokenBegin, Begin, Goto
      <3> HIDE DEF k
      <3> QED BY <3>2, <3>3 DEF LoginSteps
    <2>2. CASE RevokeTokenWrite(r) \/ Fail(r)
      BY <2>2, IdleShape DEF RevokeTokenWrite, Fail, Return
    <2> QED BY <2>1, <2>2
  <1>3. pat' \in [Pats -> ApiTokenRecord \cup {NoToken}] /\ RevokedAnsweredOnce'
    <2>1. CASE UNCHANGED pat
      BY <2>1 DEF IInv, TypeOK, RevokedAnsweredOnce, HasPat
    <2>2. CASE RevokeTokenWrite(r) /\ req[r].pat \in ListForUser(req[r].user)
      <3>1. PICK p \in Pats : p = req[r].pat
        BY <2>2 DEF ListForUser
      <3>2. pat[p] \in ApiTokenRecord /\ ~pat[p].revoked /\ pat[p].answers = 0
        BY <2>2, <3>1, RowShape DEF ListForUser, IInv, RevokedAnsweredOnce
      <3> DEFINE new == [pat[p] EXCEPT !.revoked = TRUE, !.answers = 1]
      <3>3. new \in ApiTokenRecord /\ new.revoked = TRUE /\ new.answers = 1
        BY <3>2 DEF ApiTokenRecord
      <3>4. [pat[p] EXCEPT !.revoked = TRUE, !.answers = pat[p].answers + 1] = new
        BY <3>2
      <3>5. pat' = [pat EXCEPT ![p] = new]
        BY <2>2, <3>1, <3>4 DEF RevokeTokenWrite, RevokePat
      <3> HIDE DEF new
      <3> QED BY <3>3, <3>5 DEF IInv, TypeOK, RevokedAnsweredOnce, HasPat
    <2> QED BY <2>1, <2>2 DEF RevokeTokenBegin, RevokeTokenWrite, RevokePat, Fail
  <1>4. /\ session' \in [Sessions -> SessionRecord \cup {NoSession}]
        /\ \A x \in Sessions : HasSession(x)' <=> HasSession(x)
    BY <1>1 DEF IInv, TypeOK, HasSession
  <1> QED BY <1>1, <1>2, <1>3, <1>4, HandlerMoves

LEMMA RestartStep ==
    ASSUME IInv, Restart
    PROVE  IInv'
  <1>1. /\ \A r \in Requests : req'[r] = Idle
        /\ \A o \in LoginStates : login[o] = "removed" => login'[o] = "removed"
        /\ login' \in [LoginStates -> {"unused", "pending", "removed"}]
        /\ UNCHANGED <<now, users, identities, session, access, pat>>
    BY DEF Restart, IInv, TypeOK, accountVars
  <1>2. TypeOK'
    BY <1>1 DEF Restart, IInv, TypeOK
  <1>3. HandlersInformed' /\ OneHandlerPerLogin'
    BY <1>1, IdleShape DEF HandlersInformed, Informed, OneHandlerPerLogin, Idle
  <1>4. OneUserPerIdentity'
    BY <1>1 DEF IInv, OneUserPerIdentity, WithIdentity, WithEmail, UserIds
  <1>5. SessionsBelongToIdentity' /\ OneSessionPerLogin'
    BY <1>1 DEF IInv, SessionsBelongToIdentity, OneSessionPerLogin, HasSession
  <1>6. RevokedAnsweredOnce'
    BY <1>1 DEF IInv, RevokedAnsweredOnce, HasPat
  <1> QED BY <1>2, <1>3, <1>4, <1>5, <1>6 DEF IInv

-----------------------------------------------------------------------------
(***************************************************************************)
(* The invariant, and the theorems about the specification.                *)
(***************************************************************************)
LEMMA InitIInv == Init => IInv
  <1> SUFFICES ASSUME Init PROVE IInv
    OBVIOUS
  <1>1. TypeOK
    BY SessionAssumption DEF Init, TypeOK
  <1>2. OneUserPerIdentity
    BY DEF Init, OneUserPerIdentity, WithIdentity, WithEmail
  <1>3. SessionsBelongToIdentity /\ OneSessionPerLogin
    BY DEF Init, SessionsBelongToIdentity, OneSessionPerLogin, HasSession
  <1>4. RevokedAnsweredOnce
    BY DEF Init, RevokedAnsweredOnce, HasPat
  <1>5. HandlersInformed /\ OneHandlerPerLogin
    BY IdleShape DEF Init, HandlersInformed, Informed, OneHandlerPerLogin, Idle
  <1> QED BY <1>1, <1>2, <1>3, <1>4, <1>5 DEF IInv

LEMMA StepIInv == IInv /\ [Next]_vars => IInv'
  <1> SUFFICES ASSUME IInv, [Next]_vars PROVE IInv'
    OBVIOUS
  <1>1. CASE \E r \in Requests : Callback(r) \/ Logout(r) \/ ManageTokens(r) \/ Fail(r)
    <2>1. PICK r \in Requests : Callback(r) \/ Logout(r) \/ ManageTokens(r) \/ Fail(r)
      BY <1>1
    <2>2. CASE Callback(r)
      BY <2>2, CallbackBeginStep, LookUpStep, LinkStep, RegisterStep, OpenSessionStep
         DEF Callback
    <2>3. CASE Logout(r)
      BY <2>3, LogoutStep, LogoutWriteStep DEF Logout
    <2>4. CASE ManageTokens(r) \/ Fail(r)
      BY <2>4, RevokeTokenStep DEF ManageTokens
    <2> QED BY <2>1, <2>2, <2>3, <2>4
  <1>2. CASE (\E o \in LoginStates : AuthorizeUrl(o)) \/ (\E x \in Sessions : Refresh(x))
    BY <1>2, AuthorizeUrlStep, RefreshStep
  <1>3. CASE Restart
    BY <1>3, RestartStep
  <1>4. CASE \/ \E u \in Users, p \in Pats, expires \in 0..Never : CreateToken(u, p, expires)
             \/ Tick
             \/ UNCHANGED vars
    BY <1>4, OtherStep
  <1> QED BY <1>1, <1>2, <1>3, <1>4 DEF Next

\* What the login handlers know of accounts, states and sessions stays true
\* while others commit between their statements (auth/, handlers/auth.rs).
THEOREM InductiveInvariant == Spec => []IInv
  BY InitIInv, StepIInv, PTL DEF Spec

\* Login states, accounts, sessions, personal tokens and handlers' locals are
\* always well formed.
THEOREM TypeCorrect == Spec => []TypeOK
  BY InductiveInvariant, PTL DEF IInv

\* A subject and an email are one user each, however many first logins overlap.
THEOREM IdentitiesUnique == Spec => []OneUserPerIdentity
  BY InductiveInvariant, PTL DEF IInv

\* A session is that of the user its subject is linked to.
THEOREM SessionsIdentified == Spec => []SessionsBelongToIdentity
  BY InductiveInvariant, PTL DEF IInv

\* A login state makes at most one session.
THEOREM LoginsUsedOnce == Spec => []OneSessionPerLogin
  BY InductiveInvariant, PTL DEF IInv

\* Of any number of DELETEs of a personal token, overlapping or repeated, one is
\* answered with "revoked".
THEOREM TokenRevokedOnce == Spec => []RevokedAnsweredOnce
  BY InductiveInvariant, PTL DEF IInv
=============================================================================
