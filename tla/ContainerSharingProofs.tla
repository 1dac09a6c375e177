----------------------- MODULE ContainerSharingProofs -----------------------
(***************************************************************************)
(* ContainerSharing for any sets of users, programs, containers,           *)
(* permissions and requests: TypeOK and the other properties hold.         *)
(*                                                                         *)
(* The inductive invariant adds what the handlers in flight still know of  *)
(* what they checked: permissions are never taken back, so that a check    *)
(* that held once holds when its handler writes; an admission may be, and  *)
(* then the handler has been overtaken.                                    *)
(***************************************************************************)
EXTENDS ContainerSharing, TLAPS

Handler == Creating \cup Asking \cup Inviting \cup {Idle}

\* What entitles a creation in flight to its INSERT.
LetIn(q) == IsAdmin(q.actor) \/ Admitted(q.actor.user) \/ q.overtaken

\* The sender of an invitation, an admin apart, still may share.
MayShare(q) == IsAdmin(q.actor) \/ "share" \in perm[q.ct][q.actor.user]

CheckedRequest(q) ==
    /\ q.pc = "create_insert" => LetIn(q)
    /\ q.pc \in {"invite_subset", "invite_insert"} =>
          q.ct \in ContainerRows /\ "view" \in q.permissions /\ MayShare(q)
    /\ q.pc = "invite_insert" => q.permissions \subseteq PermissionsOf(q.actor, q.ct)

InFlightChecked == \A r \in Requests : CheckedRequest(req[r])

InvitationsProper ==
    \A c \in Containers, u \in Users :
        Invited(c, u) => c \in ContainerRows /\ "view" \in inv[c][u].permissions

IInv == /\ TypeOK /\ GrantsFlowDown /\ CreatorKeepsAll /\ ListsMatchAnswers
        /\ InFlightChecked /\ InvitationsProper

-----------------------------------------------------------------------------
(***************************************************************************)
(* Records.                                                                *)
(***************************************************************************)

\* The null records are not rows or requests.
LEMMA NullRecords ==
    NoInvitation \notin Invitation /\ NoPInvitation \notin PInvitation
  BY SharingAssumption DEF NoInvitation, Invitation, NoPInvitation, PInvitation

\* The step of a handler tells its locals.
LEMMA HandlerShape ==
    ASSUME NEW q \in Handler
    PROVE  /\ q.pc = "create_insert" => q \in Creating
           /\ q.pc = "invite_subset" => q \in Asking
           /\ q.pc = "invite_insert" => q \in Inviting
  BY DEF Handler, Creating, Asking, Inviting, Idle

\* An actor is a user.
LEMMA ActorIsUser == \A a \in Actors : a.user \in Users
  BY ProgramAssumption DEF Actors

\* An invitation was sent by a user.
LEMMA SenderIsUser ==
    ASSUME TypeOK
    PROVE  \A c \in Containers, u \in Users :
              Invited(c, u) => inv[c][u] \in Invitation /\ inv[c][u].by \in Users
  BY DEF TypeOK, Invited, Invitation

-----------------------------------------------------------------------------
(***************************************************************************)
(* What no step takes back: permissions, creators.                         *)
(***************************************************************************)
Grows ==
    /\ \A c \in Containers, u \in Users : perm[c][u] \subseteq perm'[c][u]
    /\ \A c \in ContainerRows : primary'[c] = primary[c]

\* What a handler has checked of permissions stays true.
LEMMA CheckedStays ==
    ASSUME TypeOK, Grows, NEW q \in Handler, CheckedRequest(q),
           q.pc = "create_insert" => UNCHANGED programVars
    PROVE  CheckedRequest(q)'
  <1>1. CASE q.pc = "create_insert"
    BY <1>1 DEF CheckedRequest, LetIn, IsAdmin, Admitted, ProgramRows, Members, PInvRows,
                programVars
  <1>2. CASE q.pc \in {"invite_subset", "invite_insert"}
    <2>1. q.ct \in Containers /\ q.actor.user \in Users
      BY <1>2, HandlerShape, ActorIsUser DEF Asking, Inviting
    <2>2. q.ct \in ContainerRows => (q.ct \in ContainerRows)'
      BY <2>1 DEF Grows, ContainerRows
    <2>3. perm[q.ct][q.actor.user] \subseteq perm'[q.ct][q.actor.user]
      BY <2>1 DEF Grows
    <2> QED BY <1>2, <2>2, <2>3 DEF CheckedRequest, MayShare, PermissionsOf, IsAdmin
  <1>3. CASE q.pc \notin {"create_insert", "invite_subset", "invite_insert"}
    BY <1>3 DEF CheckedRequest
  <1> QED BY <1>1, <1>2, <1>3

\* So it does for all handlers but one, and for that one if it has checked
\* what its new record says.
LEMMA OthersStay ==
    ASSUME TypeOK, InFlightChecked, Grows, UNCHANGED programVars, NEW r \in Requests,
           NEW k \in Handler, req' = [req EXCEPT ![r] = k], CheckedRequest(k)'
    PROVE  InFlightChecked' /\ req' \in [Requests -> Handler]
  <1>1. req \in [Requests -> Handler]
    BY DEF TypeOK, Handler
  <1>2. \A s \in Requests : req'[s] = IF s = r THEN k ELSE req[s]
    BY <1>1
  <1>3. ASSUME NEW s \in Requests, s # r
        PROVE  CheckedRequest(req[s])'
    <2>1. req[s] \in Handler /\ CheckedRequest(req[s]) /\ req'[s] = req[s]
      BY <1>1, <1>2, <1>3 DEF InFlightChecked
    <2> QED BY <2>1, CheckedStays
  <1> QED BY <1>1, <1>2, <1>3 DEF InFlightChecked

-----------------------------------------------------------------------------
(***************************************************************************)
(* Steps of programs: nothing of sharing changes, and whoever relied on an *)
(* admission that ends has been overtaken.                                 *)
(***************************************************************************)
LEMMA ProgramTypes ==
    ASSUME ProgramTypeOK, ProgramNext
    PROVE  ProgramTypeOK'
  <1>1. PICK a \in Actors :
            \/ \E p \in ProgramIds, flag \in {"open", "closed"} :
                  CreateProgram(a, p, flag) \/ UpdateProgram(a, p, flag)
            \/ \E p \in ProgramIds, u \in Users : InviteToProgram(a, p, u)
            \/ \E i \in PInvIds, answer \in Answers : AnswerProgram(a, i, answer)
    BY DEF ProgramNext
  <1>2. CASE \E p \in ProgramIds, flag \in {"open", "closed"} :
                CreateProgram(a, p, flag) \/ UpdateProgram(a, p, flag)
    <2>1. PICK p \in ProgramIds, flag \in {"open", "closed"} :
              /\ UNCHANGED pinv
              /\ \/ programs' = [programs EXCEPT ![p] = flag]
                 \/ programs' = [programs EXCEPT ![p] = IF @ = "absent" THEN @ ELSE flag]
      BY <1>2 DEF CreateProgram, UpdateProgram, InsertProgram, SetFlag
    <2> QED BY <2>1 DEF ProgramTypeOK, ProgramStates
  <1>3. CASE \E p \in ProgramIds, u \in Users : InviteToProgram(a, p, u)
    <2>1. PICK p \in ProgramIds, u \in Users, i \in PInvIds \ PInvRows :
              /\ pinv' = [pinv EXCEPT ![i] = [program |-> p, user |-> u, response |-> "none"]]
              /\ UNCHANGED programs
      BY <1>3 DEF InviteToProgram, InsertPInvitation
    <2>2. [program |-> p, user |-> u, response |-> "none"] \in PInvitation
      BY DEF PInvitation, Responses
    <2> QED BY <2>1, <2>2 DEF ProgramTypeOK
  <1>4. CASE \E i \in PInvIds, answer \in Answers : AnswerProgram(a, i, answer)
    <2>1. PICK i \in PInvRows, answer \in Answers :
              pinv' = [pinv EXCEPT ![i].response = answer] /\ UNCHANGED programs
      BY <1>4 DEF AnswerProgram, WriteAnswer
    <2>2. pinv[i] \in PInvitation
      BY <2>1 DEF ProgramTypeOK, PInvRows
    <2>3. [pinv[i] EXCEPT !.response = answer] \in PInvitation
      BY <2>2 DEF PInvitation, Answers, Responses
    <2> QED BY <2>1, <2>3 DEF ProgramTypeOK
  <1> QED BY <1>1, <1>2, <1>3, <1>4

LEMMA ProgramStep ==
    ASSUME IInv, ChangePrograms
    PROVE  IInv'
  <1>1. ProgramTypeOK' /\ Grows
    BY ProgramTypes DEF IInv, TypeOK, ChangePrograms, Grows
  <1>2. ASSUME NEW r \in Requests
        PROVE  req'[r] \in Handler /\ CheckedRequest(req[r])'
    <2>1. req[r] \in Handler /\ CheckedRequest(req[r])
      BY DEF IInv, TypeOK, InFlightChecked, Handler
    <2>2. req'[r] = IF At(r, "create_insert") /\ req[r].actor.user \in Dismissed
                    THEN [req[r] EXCEPT !.overtaken = TRUE] ELSE req[r]
      BY DEF ChangePrograms
    <2>3. CASE ~At(r, "create_insert")
      BY <1>1, <2>1, <2>2, <2>3, CheckedStays DEF At, IInv
    <2>4. CASE At(r, "create_insert") /\ req[r].actor.user \in Dismissed
      <3> DEFINE k == [req[r] EXCEPT !.overtaken = TRUE]
      <3>1. k \in Creating /\ k.pc = "create_insert" /\ k.overtaken
        BY <2>1, <2>4, HandlerShape DEF At, Creating
      <3>2. req'[r] = k
        BY <2>2, <2>4
      <3> HIDE DEF k
      <3> QED BY <3>1, <3>2 DEF CheckedRequest, LetIn, Handler
    <2>5. CASE At(r, "create_insert") /\ req[r].actor.user \notin Dismissed
      <3>1. req[r] \in Creating /\ req[r].pc = "create_insert" /\ LetIn(req[r])
        BY <2>1, <2>5, HandlerShape DEF At, CheckedRequest
      <3>2. PICK w \in Users : w = req[r].actor.user
        BY <3>1, ActorIsUser DEF Creating
      <3>3. Admitted(w) => Admitted(w)'
        BY <2>5, <3>2 DEF Dismissed
      <3>4. req'[r] = req[r]
        BY <2>2, <2>5
      <3>5. LetIn(req[r])'
        BY <3>1, <3>2, <3>3, <3>4 DEF LetIn, IsAdmin
      <3> QED BY <2>1, <3>1, <3>4, <3>5 DEF CheckedRequest
    <2> QED BY <2>3, <2>4, <2>5
  <1>3. req' \in [Requests -> Handler] /\ InFlightChecked'
    <2>1. req' = [r \in Requests |-> req'[r]]
      BY DEF ChangePrograms
    <2> QED BY ONLY <1>2, <2>1 DEF InFlightChecked
  <1>4. UNCHANGED <<primary, perm, inv>>
    BY DEF ChangePrograms
  <1>5. TypeOK'
    BY <1>1, <1>3, <1>4 DEF IInv, TypeOK, Handler
  <1> QED BY <1>3, <1>4, <1>5
          DEF IInv, GrantsFlowDown, CreatorKeepsAll, ListsMatchAnswers, InvitationsProper,
              Invited, ContainerRows, Listed, Pending

-----------------------------------------------------------------------------
(***************************************************************************)
(* Steps of a handler that change no row.                                  *)
(***************************************************************************)
LEMMA QuietStep ==
    ASSUME IInv, UNCHANGED <<programs, pinv, primary, perm, inv>>,
           NEW r \in Requests, NEW k \in Handler,
           req' = [req EXCEPT ![r] = k], CheckedRequest(k)
    PROVE  IInv'
  <1>1. Grows /\ UNCHANGED programVars
    BY DEF Grows, programVars
  <1>2. CheckedRequest(k)'
    BY <1>1, CheckedStays DEF IInv
  <1>3. InFlightChecked' /\ req' \in [Requests -> Handler]
    BY <1>1, <1>2, OthersStay DEF IInv
  <1>4. TypeOK'
    BY <1>3 DEF IInv, TypeOK, ProgramTypeOK, Handler
  <1> QED BY <1>3, <1>4
          DEF IInv, GrantsFlowDown, CreatorKeepsAll, ListsMatchAnswers, InvitationsProper,
              Invited, ContainerRows, Listed, Pending

LEMMA ReturnQuiet ==
    ASSUME IInv, UNCHANGED <<programs, pinv, primary, perm, inv>>,
           NEW r \in Requests, Return(r)
    PROVE  IInv'
  <1>1. CheckedRequest(Idle) /\ Idle \in Handler
    BY DEF CheckedRequest, Idle, Handler
  <1> QED BY <1>1, QuietStep DEF Return

LEMMA CreateCheckStep ==
    ASSUME IInv, NEW r \in Requests, NEW a \in Actors, CreateCheck(r, a)
    PROVE  IInv'
  <1> DEFINE k == [pc |-> "create_insert", actor |-> a, overtaken |-> FALSE]
  <1>1. k \in Handler
    BY DEF Handler, Creating
  <1>2. IsAdmin(a) \/ Admitted(a.user)
    <2>1. CASE IsAdmin(a)
      BY <2>1
    <2>2. CASE UserCanCreate(a.user)
      <3>1. PICK i \in PInvRows : /\ pinv[i].user = a.user /\ pinv[i].response = "accepted"
                                  /\ programs[pinv[i].program] = "open"
        BY <2>2 DEF UserCanCreate
      <3>2. pinv[i].program \in ProgramRows
        BY <3>1 DEF IInv, TypeOK, ProgramTypeOK, PInvRows, PInvitation, ProgramRows
      <3>3. a.user \in Members(pinv[i].program)
        BY <3>1, ActorIsUser DEF Members
      <3> QED BY <3>1, <3>2, <3>3 DEF Admitted
    <2> QED BY <2>1, <2>2 DEF CreateCheck, CanCreateContainer
  <1>3. CheckedRequest(k)
    BY <1>2 DEF CheckedRequest, LetIn
  <1>4. req' = [req EXCEPT ![r] = k] /\ UNCHANGED <<programs, pinv, primary, perm, inv>>
    BY DEF CreateCheck, Begin
  <1> HIDE DEF k
  <1> QED BY <1>1, <1>3, <1>4, QuietStep

LEMMA InviteCheckStep ==
    ASSUME IInv, NEW r \in Requests, NEW a \in Actors, NEW c \in Containers,
           NEW u \in Users, NEW P \in Offers, InviteCheck(r, a, c, u, P)
    PROVE  IInv'
  <1> DEFINE k == [pc |-> "invite_subset", actor |-> a, ct |-> c, user |-> u,
                   permissions |-> P]
  <1>1. k \in Handler
    BY DEF Handler, Asking
  <1>2. CheckedRequest(k)
    BY DEF InviteCheck, CheckedRequest, MayShare, MayUse, PermissionsOf
  <1>3. req' = [req EXCEPT ![r] = k] /\ UNCHANGED <<programs, pinv, primary, perm, inv>>
    BY DEF InviteCheck, Begin
  <1> HIDE DEF k
  <1> QED BY <1>1, <1>2, <1>3, QuietStep

LEMMA InviteSubsetStep ==
    ASSUME IInv, NEW r \in Requests, InviteSubset(r)
    PROVE  IInv'
  <1>1. CASE req[r].permissions \subseteq PermissionsOf(req[r].actor, req[r].ct)
    <2> DEFINE k == [req[r] EXCEPT !.pc = "invite_insert"]
    <2>1. req[r] \in Asking /\ CheckedRequest(req[r]) /\ req[r].pc = "invite_subset"
      BY HandlerShape DEF IInv, TypeOK, InviteSubset, At, InFlightChecked, Handler
    <2>2. PermissionsOf(req[r].actor, req[r].ct) \subseteq Perms
      BY <2>1, ActorIsUser DEF PermissionsOf, IInv, TypeOK, Asking
    <2>3. /\ k \in Inviting /\ k.pc = "invite_insert" /\ k.actor = req[r].actor
          /\ k.ct = req[r].ct /\ k.permissions = req[r].permissions
      BY <1>1, <2>1, <2>2 DEF Inviting, Asking
    <2>4. req' = [req EXCEPT ![r] = k] /\ UNCHANGED <<programs, pinv, primary, perm, inv>>
      BY <1>1 DEF InviteSubset, Goto, IInv, TypeOK
    <2> HIDE DEF k
    <2>5. CheckedRequest(k)
      BY <1>1, <2>1, <2>3 DEF CheckedRequest, MayShare
    <2> QED BY <2>3, <2>4, <2>5, QuietStep DEF Handler
  <1>2. CASE ~(req[r].permissions \subseteq PermissionsOf(req[r].actor, req[r].ct))
    BY <1>2, ReturnQuiet DEF InviteSubset
  <1> QED BY <1>1, <1>2

-----------------------------------------------------------------------------
(***************************************************************************)
(* Steps that write rows.                                                  *)
(***************************************************************************)
LEMMA CreateInsertStep ==
    ASSUME IInv, NEW r \in Requests, CreateInsert(r)
    PROVE  IInv'
  <1>1. PICK c \in Containers \ ContainerRows :
            /\ primary' = [primary EXCEPT ![c] = req[r].actor.user]
            /\ perm' = [perm EXCEPT ![c][req[r].actor.user] = Perms]
            /\ UNCHANGED <<programs, pinv, inv>>
            /\ req' = [req EXCEPT ![r] = Idle]
    BY DEF CreateInsert, InsertOwned, Return
  <1> DEFINE w == req[r].actor.user
  <1>2. w \in Users
    BY HandlerShape, ActorIsUser DEF CreateInsert, At, IInv, TypeOK, Handler, Creating
  <1>3. /\ primary' \in [Containers -> Users \cup {Nobody}]
        /\ \A d \in Containers : primary'[d] = IF d = c THEN w ELSE primary[d]
        /\ perm' \in [Containers -> [Users -> SUBSET Perms]]
        /\ \A d \in Containers, u \in Users :
              perm'[d][u] = IF d = c /\ u = w THEN Perms ELSE perm[d][u]
    BY <1>1, <1>2 DEF IInv, TypeOK
  <1> HIDE DEF w
  <1>4. ContainerRows' = ContainerRows \cup {c}
    BY <1>1, <1>2, <1>3, SharingAssumption DEF ContainerRows
  <1>6. Grows /\ UNCHANGED programVars
    BY <1>1, <1>3 DEF Grows, IInv, TypeOK, ContainerRows, programVars
  <1>7. CheckedRequest(Idle)' /\ Idle \in Handler
    BY DEF CheckedRequest, Idle, Handler
  <1>8. InFlightChecked' /\ req' \in [Requests -> Handler]
    BY <1>1, <1>6, <1>7, OthersStay DEF IInv
  <1>9. TypeOK'
    BY <1>1, <1>3, <1>8 DEF IInv, TypeOK, ProgramTypeOK, Handler
  <1>10. \A u \in Users : ~Invited(c, u)
    BY <1>1 DEF IInv, InvitationsProper
  <1>11. GrantsFlowDown'
    <2> SUFFICES ASSUME NEW d \in Containers, NEW u \in Users
                 PROVE  /\ perm'[d][u] # {} /\ primary'[d] # u =>
                              Invited(d, u) /\ perm[d][u] = inv[d][u].permissions
                                            /\ perm'[d][u] = perm[d][u]
                        /\ Invited(d, u) /\ ~inv[d][u].as_admin =>
                              inv[d][u].permissions \cup {"share"}
                                  \subseteq perm'[d][inv[d][u].by]
      BY <1>1 DEF GrantsFlowDown, Invited
    <2>1. perm'[d][u] # {} /\ primary'[d] # u =>
              Invited(d, u) /\ perm[d][u] = inv[d][u].permissions /\ perm'[d][u] = perm[d][u]
      BY <1>1, <1>3, SharingAssumption DEF IInv, GrantsFlowDown, ContainerRows
    <2>2. Invited(d, u) => d # c /\ inv[d][u].by \in Users
      BY <1>10, SenderIsUser DEF IInv
    <2> QED BY <1>3, <2>1, <2>2 DEF IInv, GrantsFlowDown
  <1>12. CreatorKeepsAll'
    BY <1>2, <1>3, <1>4 DEF IInv, CreatorKeepsAll, ContainerRows, TypeOK
  <1>14. InvitationsProper'
    BY <1>1, <1>4 DEF IInv, InvitationsProper, Invited
  <1>15. ListsMatchAnswers'
    BY <1>1, <1>3, <1>4, <1>10 DEF IInv, ListsMatchAnswers, Invited, Listed, Pending
  <1> QED BY <1>8, <1>9, <1>11, <1>12, <1>14, <1>15 DEF IInv

LEMMA InviteInsertStep ==
    ASSUME IInv, NEW r \in Requests, InviteInsert(r)
    PROVE  IInv'
  <1>1. CASE Invited(req[r].ct, req[r].user)
    BY <1>1, ReturnQuiet DEF InviteInsert
  <1>2. CASE ~Invited(req[r].ct, req[r].user)
    <2> DEFINE c == req[r].ct
               w == req[r].user
               a == req[r].actor
               row == [by |-> a.user, as_admin |-> IsAdmin(a),
                       permissions |-> req[r].permissions, response |-> "none"]
    <2>1. /\ inv' = [inv EXCEPT ![c][w] = row]
          /\ UNCHANGED <<programs, pinv, primary, perm>>
          /\ req' = [req EXCEPT ![r] = Idle]
      BY <1>2 DEF InviteInsert, InsertInvitation, Return
    <2>2. /\ c \in Containers /\ w \in Users /\ a \in Actors /\ a.user \in Users
          /\ req[r].permissions \in SUBSET Perms
          /\ CheckedRequest(req[r]) /\ req[r].pc = "invite_insert"
      BY HandlerShape, ActorIsUser
         DEF InviteInsert, At, IInv, TypeOK, Handler, Inviting, InFlightChecked
    <2>3. /\ c \in ContainerRows /\ "view" \in req[r].permissions
          /\ ~IsAdmin(a) => req[r].permissions \cup {"share"} \subseteq perm[c][a.user]
      BY <2>2 DEF CheckedRequest, MayShare, PermissionsOf
    <2>4. row \in Invitation
      BY <2>2 DEF Invitation, Responses, IsAdmin
    <2>5. /\ row.by = a.user /\ row.as_admin = IsAdmin(a)
          /\ row.permissions = req[r].permissions /\ row.response = "none"
      OBVIOUS
    <2>6. /\ inv' \in [Containers -> [Users -> Invitation \cup {NoInvitation}]]
          /\ \A d \in Containers, u \in Users :
                inv'[d][u] = IF d = c /\ u = w THEN row ELSE inv[d][u]
      BY <2>1, <2>2, <2>4 DEF IInv, TypeOK
    <2>7. perm[c][w] = {} \/ primary[c] = w
      BY <1>2, <2>2 DEF IInv, GrantsFlowDown, Invited
    <2> HIDE DEF c, w, a, row
    <2>8. \A d \in Containers, u \in Users :
              Invited(d, u)' <=> Invited(d, u) \/ (d = c /\ u = w)
      BY <2>4, <2>6, NullRecords DEF Invited
    <2>9. Grows /\ UNCHANGED programVars
      BY <2>1 DEF Grows, programVars
    <2>10. CheckedRequest(Idle)' /\ Idle \in Handler
      BY DEF CheckedRequest, Idle, Handler
    <2>11. InFlightChecked' /\ req' \in [Requests -> Handler]
      BY <2>1, <2>9, <2>10, OthersStay DEF IInv
    <2>12. TypeOK'
      BY <2>1, <2>6, <2>11 DEF IInv, TypeOK, ProgramTypeOK, Handler
    <2>13. GrantsFlowDown'
      <3> SUFFICES ASSUME NEW d \in Containers, NEW u \in Users
                   PROVE  /\ perm[d][u] # {} /\ primary[d] # u =>
                                Invited(d, u)' /\ perm[d][u] = inv'[d][u].permissions
                          /\ Invited(d, u)' /\ ~inv'[d][u].as_admin =>
                                inv'[d][u].permissions \cup {"share"}
                                    \subseteq perm[d][inv'[d][u].by]
        BY <2>1 DEF GrantsFlowDown
      <3>1. CASE d = c /\ u = w
        BY <2>2, <2>3, <2>5, <2>6, <2>7, <3>1
      <3>2. CASE ~(d = c /\ u = w)
        <4>1. inv'[d][u] = inv[d][u] /\ (Invited(d, u)' <=> Invited(d, u))
          BY <2>6, <2>8, <3>2
        <4>2. perm[d][u] # {} /\ primary[d] # u =>
                  Invited(d, u) /\ perm[d][u] = inv[d][u].permissions
          BY DEF IInv, GrantsFlowDown
        <4>3. Invited(d, u) /\ ~inv[d][u].as_admin =>
                  inv[d][u].permissions \cup {"share"} \subseteq perm[d][inv[d][u].by]
          BY DEF IInv, GrantsFlowDown
        <4> QED BY <4>1, <4>2, <4>3
      <3> QED BY <3>1, <3>2
    <2>14. InvitationsProper'
      BY <2>1, <2>3, <2>5, <2>6, <2>8 DEF IInv, InvitationsProper, ContainerRows
    <2>15. ListsMatchAnswers'
      BY <2>1, <2>2, <2>5, <2>6, <2>7, <2>8
         DEF IInv, ListsMatchAnswers, Listed, Pending, ContainerRows
    <2>16. CreatorKeepsAll'
      BY <2>1 DEF IInv, CreatorKeepsAll, ContainerRows
    <2> QED BY <2>11, <2>12, <2>13, <2>14, <2>15, <2>16 DEF IInv
  <1> QED BY <1>1, <1>2

LEMMA AnswerStep ==
    ASSUME IInv, NEW a \in Actors, NEW c \in Containers, NEW answer \in Answers,
           Answer(a, c, answer)
    PROVE  IInv'
  <1> DEFINE w == a.user
             row == [inv[c][w] EXCEPT !.response = answer]
  <1>1. /\ Invited(c, w)
        /\ inv' = [inv EXCEPT ![c][w].response = answer]
        /\ \/ /\ answer = "accepted"
              /\ perm' = [perm EXCEPT ![c][w] = IF @ = {} THEN inv[c][w].permissions ELSE @]
           \/ answer # "accepted" /\ UNCHANGED perm
        /\ UNCHANGED <<programs, pinv, primary, req>>
    BY DEF Answer, RecordAnswer, Grant
  <1>2. w \in Users /\ inv[c][w] \in Invitation
    BY <1>1, ActorIsUser DEF IInv, TypeOK, Invited
  <1>3. /\ row \in Invitation /\ row.by = inv[c][w].by /\ row.as_admin = inv[c][w].as_admin
        /\ row.permissions = inv[c][w].permissions /\ row.response = answer
    BY <1>2 DEF Invitation, Answers
  <1>4. /\ inv' \in [Containers -> [Users -> Invitation \cup {NoInvitation}]]
        /\ \A d \in Containers, u \in Users :
              inv'[d][u] = IF d = c /\ u = w THEN row ELSE inv[d][u]
    BY <1>1, <1>2, <1>3 DEF IInv, TypeOK
  <1>5. inv[c][w].permissions \in SUBSET Perms
    BY <1>2 DEF Invitation
  <1>6. /\ perm' \in [Containers -> [Users -> SUBSET Perms]]
        /\ \A d \in Containers, u \in Users :
              perm'[d][u] = IF d = c /\ u = w /\ answer = "accepted" /\ perm[c][w] = {}
                            THEN inv[c][w].permissions ELSE perm[d][u]
    <2>1. CASE answer = "accepted"
      <3>1. perm' = [perm EXCEPT ![c][w] = IF @ = {} THEN inv[c][w].permissions ELSE @]
        BY <1>1, <2>1
      <3> HIDE DEF w
      <3> QED BY <1>2, <1>5, <2>1, <3>1 DEF IInv, TypeOK
    <2>2. CASE answer # "accepted"
      BY <1>1, <2>2 DEF IInv, TypeOK
    <2> QED BY <2>1, <2>2
  <1> HIDE DEF w, row
  <1>7. \A d \in Containers, u \in Users : Invited(d, u)' <=> Invited(d, u)
    BY <1>1, <1>3, <1>4, NullRecords DEF Invited
  <1>8. Grows /\ UNCHANGED programVars
    BY <1>1, <1>6 DEF Grows, programVars
  <1>9. InFlightChecked'
    BY <1>1, <1>8, CheckedStays DEF IInv, InFlightChecked, TypeOK, Handler
  <1>10. TypeOK'
    BY <1>1, <1>4, <1>6 DEF IInv, TypeOK, ProgramTypeOK
  <1>11. "view" \in inv[c][w].permissions /\ c \in ContainerRows
    BY <1>1, <1>2 DEF IInv, InvitationsProper
  <1>12. \A d \in Containers, u \in Users : Invited(d, u) => inv[d][u].by \in Users
    BY SenderIsUser DEF IInv
  <1>13. GrantsFlowDown'
    <2> SUFFICES ASSUME NEW d \in Containers, NEW u \in Users
                 PROVE  /\ perm'[d][u] # {} /\ primary[d] # u =>
                              Invited(d, u)' /\ perm'[d][u] = inv'[d][u].permissions
                        /\ Invited(d, u)' /\ ~inv'[d][u].as_admin =>
                              inv'[d][u].permissions \cup {"share"}
                                  \subseteq perm'[d][inv'[d][u].by]
      BY <1>1 DEF GrantsFlowDown
    <2>1. /\ inv'[d][u].permissions = inv[d][u].permissions
          /\ inv'[d][u].by = inv[d][u].by /\ inv'[d][u].as_admin = inv[d][u].as_admin
      BY <1>3, <1>4
    <2>2. perm'[d][u] # {} /\ primary[d] # u =>
              Invited(d, u) /\ perm'[d][u] = inv[d][u].permissions
      BY <1>1, <1>6 DEF IInv, GrantsFlowDown
    <2>3. Invited(d, u) /\ ~inv[d][u].as_admin =>
              inv[d][u].permissions \cup {"share"} \subseteq perm'[d][inv[d][u].by]
      <3> SUFFICES ASSUME Invited(d, u), ~inv[d][u].as_admin
                   PROVE  inv[d][u].permissions \cup {"share"} \subseteq perm'[d][inv[d][u].by]
        OBVIOUS
      <3>1. PICK b \in Users : b = inv[d][u].by
        BY <1>12
      <3>2. inv[d][u].permissions \cup {"share"} \subseteq perm[d][b]
        BY <3>1 DEF IInv, GrantsFlowDown
      <3>3. perm[d][b] \subseteq perm'[d][b]
        BY <1>6
      <3> HIDE DEF IInv
      <3> QED BY <3>1, <3>2, <3>3
    <2> QED BY <1>7, <2>1, <2>2, <2>3
  <1>14. CreatorKeepsAll'
    BY <1>1, <1>2, <1>6, <1>11, SharingAssumption
       DEF IInv, TypeOK, CreatorKeepsAll, ContainerRows
  <1>16. InvitationsProper'
    BY <1>1, <1>3, <1>4, <1>7 DEF IInv, InvitationsProper, ContainerRows
  <1>17. ListsMatchAnswers'
    BY <1>1, <1>2, <1>3, <1>4, <1>6, <1>7, <1>11
       DEF IInv, ListsMatchAnswers, Listed, Pending, ContainerRows, Answers
  <1> QED BY <1>9, <1>10, <1>13, <1>14, <1>16, <1>17 DEF IInv

-----------------------------------------------------------------------------
(***************************************************************************)
(* The theorems.                                                           *)
(***************************************************************************)
LEMMA InitIInv == Init => IInv
  <1> SUFFICES ASSUME Init PROVE IInv
    OBVIOUS
  <1>1. /\ ContainerRows = {}
        /\ \A c \in Containers, u \in Users : ~Invited(c, u) /\ perm[c][u] = {}
        /\ \A r \in Requests : req[r] = Idle
    BY DEF Init, ContainerRows, Invited
  <1>2. TypeOK
    BY DEF Init, ProgramInit, TypeOK, ProgramTypeOK, ProgramStates
  <1>3. InFlightChecked
    BY <1>1 DEF InFlightChecked, CheckedRequest, Idle
  <1> QED BY <1>1, <1>2, <1>3
          DEF IInv, GrantsFlowDown, CreatorKeepsAll, ListsMatchAnswers, InvitationsProper

LEMMA NextIInv == IInv /\ [Next]_vars => IInv'
  <1> SUFFICES ASSUME IInv, [Next]_vars PROVE IInv'
    OBVIOUS
  <1>1. CASE ChangePrograms
    BY <1>1, ProgramStep
  <1>2. ASSUME NEW r \in Requests, Create(r) \/ Share(r) \/ Fail(r)
        PROVE  IInv'
    <2>1. CASE Create(r)
      BY <2>1, CreateCheckStep, CreateInsertStep DEF Create
    <2>2. CASE Share(r)
      BY <2>2, InviteCheckStep, InviteSubsetStep, InviteInsertStep DEF Share
    <2>3. CASE Fail(r)
      BY <2>3, ReturnQuiet DEF Fail
    <2> QED BY <1>2, <2>1, <2>2, <2>3
  <1>3. CASE Respond
    BY <1>3, AnswerStep DEF Respond
  <1>4. CASE UNCHANGED vars
    BY <1>4 DEF vars, IInv, TypeOK, ProgramTypeOK, GrantsFlowDown, CreatorKeepsAll,
                ListsMatchAnswers, InFlightChecked, CheckedRequest, InvitationsProper,
                LetIn, Admitted, MayShare, PermissionsOf, Invited, ContainerRows, Listed,
                Pending, ProgramRows, Members, PInvRows
  <1> QED BY <1>1, <1>2, <1>3, <1>4 DEF Next

\* Only CreateInsert writes primary, into one row, for a handler that was let in.
LEMMA NextAdmits ==
    ASSUME IInv, Next, NEW c \in Containers, primary'[c] # primary[c]
    PROVE  /\ primary[c] = Nobody
           /\ \E r \in Requests :
                 /\ At(r, "create_insert") /\ ~At(r, "create_insert")'
                 /\ req[r].actor.user = primary'[c]
                 /\ IsAdmin(req[r].actor) \/ Admitted(primary'[c]) \/ req[r].overtaken
  <1>1. PICK r \in Requests : CreateInsert(r)
    BY DEF Next, ChangePrograms, Create, CreateCheck, Share, InviteCheck, InviteSubset,
           InviteInsert, Fail, Respond, Answer
  <1>2. PICK d \in Containers \ ContainerRows : primary' = [primary EXCEPT ![d] = req[r].actor.user]
    BY <1>1 DEF CreateInsert, InsertOwned
  <1>3. c = d /\ primary[c] = Nobody /\ primary'[c] = req[r].actor.user
    BY <1>2 DEF IInv, TypeOK, ContainerRows
  <1>4. At(r, "create_insert") /\ LetIn(req[r])
    BY <1>1 DEF CreateInsert, At, IInv, InFlightChecked, CheckedRequest
  <1>5. ~At(r, "create_insert")'
    BY <1>1 DEF CreateInsert, Return, At, Idle, IInv, TypeOK
  <1> QED BY <1>3, <1>4, <1>5 DEF LetIn

LEMMA Inductive == Spec => []IInv
  BY InitIInv, NextIInv, PTL DEF Spec

\* The variables keep their types; no mask with a bit that is no permission is
\* ever stored.
THEOREM TypeCorrect == Spec => []TypeOK
  BY Inductive, PTL DEF IInv

\* Nobody ever holds, or offers, a permission its giver does not hold:
\* invite_by_email compares with what is read before the INSERT, and that is
\* never taken back.
THEOREM PermissionsFlowDown == Spec => []GrantsFlowDown
  BY Inductive, PTL DEF IInv

\* No invitation takes anything from the creator of a container.
THEOREM CreatorsKeepAll == Spec => []CreatorKeepsAll
  BY Inductive, PTL DEF IInv

\* A container gets its creator once, from a handler that the program service
\* let in and whose admission holds at the INSERT or ended while it was in flight.
THEOREM OnlyAdmittedCreate == Spec => CreatorsAdmitted
  <1>1. IInv /\ [Next]_vars =>
          [\A c \in Containers : primary'[c] # primary[c] =>
              /\ primary[c] = Nobody
              /\ \E r \in Requests :
                    /\ At(r, "create_insert") /\ ~At(r, "create_insert")'
                    /\ req[r].actor.user = primary'[c]
                    /\ IsAdmin(req[r].actor) \/ Admitted(primary'[c]) \/ req[r].overtaken]_vars
    BY NextAdmits
  <1> QED BY <1>1, Inductive, PTL DEF Spec, CreatorsAdmitted

\* The lists a user is shown agree with the answers on record.
THEOREM ListsCorrect == Spec => []ListsMatchAnswers
  BY Inductive, PTL DEF IInv
=============================================================================
