-------------------------- MODULE ContainerSharing --------------------------
(***************************************************************************)
(* Who may do what with a container (services/container_service.rs over    *)
(* container_ownerships and container_invitations): the creator gets all   *)
(* permissions, and whoever holds "share" may invite others to a part of   *)
(* his own.  A container is created by someone a program admits            *)
(* (module Programs), minutes after he was admitted.                       *)
(*                                                                         *)
(* create and invite_by_email check first and write later, in statements   *)
(* of their own; other handlers run in between.  An answer to an           *)
(* invitation is one transaction, after a read of columns that never       *)
(* change; it is one step.                                                 *)
(***************************************************************************)
EXTENDS Programs

CONSTANTS
    Containers,     \* ids the containers may get
    Perms,          \* the permission bits (PERM_*); "view" and "share" matter here
    Offers,         \* the masks that callers ask to share, of whatever bits
    Requests,       \* handlers that may be in flight at the same time
    MaxInvites      \* no handler begins to invite beyond this many

Nobody == "nobody"

ASSUME SharingAssumption ==
    /\ Nobody \notin Users
    /\ {"view", "share"} \subseteq Perms
    /\ MaxInvites \in Nat

VARIABLES
    primary,        \* primary[c]: the user with is_primary in c's ownerships
    perm,           \* perm[c][u]: column permissions of u's row, {} without one
    inv,            \* inv[c][u]: the invitation of u to c (they are UNIQUE)
    req             \* the handlers in flight and their locals

vars == <<programs, pinv, primary, perm, inv, req>>

-----------------------------------------------------------------------------
\* as_admin records how the inviter was authorised, which the row does not.
Invitation == [by : Users, as_admin : BOOLEAN, permissions : SUBSET Perms,
               response : Responses]
NoInvitation == [by |-> Nobody]

\* History: overtaken says that the admission the handler was let in by has ended.
Creating == [pc : {"create_insert"}, actor : Actors, overtaken : BOOLEAN]
Asking == [pc : {"invite_subset"}, actor : Actors, ct : Containers, user : Users,
           permissions : Offers]
Inviting == [pc : {"invite_insert"}, actor : Actors, ct : Containers, user : Users,
             permissions : SUBSET Perms]
Idle == [pc |-> "idle"]

TypeOK ==
    /\ ProgramTypeOK
    /\ primary \in [Containers -> Users \cup {Nobody}]
    /\ perm \in [Containers -> [Users -> SUBSET Perms]]
    /\ inv \in [Containers -> [Users -> Invitation \cup {NoInvitation}]]
    /\ req \in [Requests -> Creating \cup Asking \cup Inviting \cup {Idle}]

Init ==
    /\ ProgramInit
    /\ primary = [c \in Containers |-> Nobody]
    /\ perm = [c \in Containers |-> [u \in Users |-> {}]]
    /\ inv = [c \in Containers |-> [u \in Users |-> NoInvitation]]
    /\ req = [r \in Requests |-> Idle]

At(r, step) == req[r].pc = step
Goto(r, step) == req' = [req EXCEPT ![r].pc = step]
Return(r) == req' = [req EXCEPT ![r] = Idle]
Begin(r, locals) == req[r] = Idle /\ req' = [req EXCEPT ![r] = locals]

-----------------------------------------------------------------------------
(***************************************************************************)
(* PgContainerRepo.                                                        *)
(***************************************************************************)
ContainerRows == {c \in Containers : primary[c] # Nobody}
Invited(c, u) == inv[c][u] # NoInvitation
InviteCount == Cardinality({k \in Containers \X Users : Invited(k[1], k[2])})

\* list_for_user and pending_container_invitations: what a user is shown.
Listed(u) == {c \in ContainerRows : perm[c][u] # {}}
Pending(u) == {c \in ContainerRows : Invited(c, u) /\ inv[c][u].response = "none"}

\* create: the container with its primary ownership, in a transaction.
InsertOwned(c, u) ==
    /\ primary' = [primary EXCEPT ![c] = u]
    /\ perm' = [perm EXCEPT ![c][u] = Perms]

InsertInvitation(q) ==
    inv' = [inv EXCEPT ![q.ct][q.user] =
        [by |-> q.actor.user, as_admin |-> IsAdmin(q.actor),
         permissions |-> q.permissions, response |-> "none"]]

\* Mutation: ON CONFLICT DO UPDATE SET permissions.
Grant_Overwrites(c, u, P) == perm' = [perm EXCEPT ![c][u] = P]

\* INSERT .. ON CONFLICT DO NOTHING: a row that exists stays as it is.
Grant(c, u, P) == perm' = [perm EXCEPT ![c][u] = IF @ = {} THEN P ELSE @]

\* Mutation: the two statements are not one transaction; the second may fail.
RecordAnswer_Torn(c, u, answer) ==
    /\ inv' = [inv EXCEPT ![c][u].response = answer]
    /\ Grant(c, u, inv[c][u].permissions) \/ UNCHANGED perm

\* respond_to_container_invitation: a row once granted is never taken away.
RecordAnswer(c, u, answer) ==
    /\ inv' = [inv EXCEPT ![c][u].response = answer]
    /\ IF answer = "accepted" THEN Grant(c, u, inv[c][u].permissions) ELSE UNCHANGED perm

-----------------------------------------------------------------------------
(***************************************************************************)
(* ContainerService.                                                       *)
(***************************************************************************)
\* get_permissions_for_user, require_permission.
PermissionsOf(a, c) == IF IsAdmin(a) THEN Perms ELSE perm[c][a.user]
MayUse(a, c, flag) == flag \in PermissionsOf(a, c)

\* The handler create looks only at the admission; the container is built and
\* started meanwhile (module ContainerLifecycle) and gets an id of its own.
CreateCheck(r, a) ==
    /\ ContainerRows # Containers
    /\ CanCreateContainer(a)
    /\ Begin(r, [pc |-> "create_insert", actor |-> a, overtaken |-> FALSE])
    /\ UNCHANGED <<programs, pinv, primary, perm, inv>>

CreateInsert(r) ==
    /\ At(r, "create_insert")
    /\ \E c \in Containers \ ContainerRows : InsertOwned(c, req[r].actor.user)
    /\ Return(r)
    /\ UNCHANGED <<programs, pinv, inv>>

\* invite_by_email: the first of two reads of the caller's permissions.
InviteCheck(r, a, c, u, P) ==
    /\ c \in ContainerRows
    /\ InviteCount < MaxInvites
    /\ MayUse(a, c, "share")
    /\ "view" \in P
    /\ Begin(r, [pc |-> "invite_subset", actor |-> a, ct |-> c, user |-> u,
                 permissions |-> P])
    /\ UNCHANGED <<programs, pinv, primary, perm, inv>>

\* Mutation: the mask is compared with all bits there are, not with the caller's.
InviteSubset_Unchecked(r) ==
    /\ At(r, "invite_subset")
    /\ IF req[r].permissions \subseteq Perms THEN Goto(r, "invite_insert") ELSE Return(r)
    /\ UNCHANGED <<programs, pinv, primary, perm, inv>>

\* Mutation: an admin passes unexamined, as he does in require_permission.
InviteSubset_AdminBypass(r) ==
    /\ At(r, "invite_subset")
    /\ IF IsAdmin(req[r].actor) \/ req[r].permissions \subseteq PermissionsOf(req[r].actor, req[r].ct)
       THEN Goto(r, "invite_insert")
       ELSE Return(r)
    /\ UNCHANGED <<programs, pinv, primary, perm, inv>>

\* The second read: nobody grants what he does not hold.
InviteSubset(r) ==
    /\ At(r, "invite_subset")
    /\ IF req[r].permissions \subseteq PermissionsOf(req[r].actor, req[r].ct)
       THEN Goto(r, "invite_insert")
       ELSE Return(r)
    /\ UNCHANGED <<programs, pinv, primary, perm, inv>>

\* The INSERT fails on the UNIQUE constraint if the user has been invited
\* before, whatever became of that invitation.
InviteInsert(r) ==
    /\ At(r, "invite_insert")
    /\ IF Invited(req[r].ct, req[r].user) THEN UNCHANGED inv ELSE InsertInvitation(req[r])
    /\ Return(r)
    /\ UNCHANGED <<programs, pinv, primary, perm>>

\* respond_to_invitation: also for an invitation that has been answered.
Answer(a, c, answer) ==
    /\ Invited(c, a.user)
    /\ RecordAnswer(c, a.user, answer)
    /\ UNCHANGED <<programs, pinv, primary, req>>

\* A handler fails: a database error, a failed provisioning, a crash.
Fail(r) ==
    /\ req[r] # Idle
    /\ Return(r)
    /\ UNCHANGED <<programs, pinv, primary, perm, inv>>

\* Who belongs to a program that is open, by the list of its members.
Admitted(u) == \E p \in ProgramRows : programs[p] = "open" /\ u \in Members(p)

\* Whose admission a step ends.
Dismissed == {u \in Users : Admitted(u) /\ ~Admitted(u)'}

\* A handler of programs runs.  History: it overtakes the creations that were
\* let in by an admission it ends.
ChangePrograms ==
    /\ ProgramNext
    /\ req' = [r \in Requests |->
          IF At(r, "create_insert") /\ req[r].actor.user \in Dismissed
          THEN [req[r] EXCEPT !.overtaken = TRUE]
          ELSE req[r]]
    /\ UNCHANGED <<primary, perm, inv>>

Create(r) == (\E a \in Actors : CreateCheck(r, a)) \/ CreateInsert(r)

Share(r) ==
    \/ \E a \in Actors, c \in Containers, u \in Users, P \in Offers :
          InviteCheck(r, a, c, u, P)
    \/ InviteSubset(r)
    \/ InviteInsert(r)

Respond == \E a \in Actors, c \in Containers, answer \in Answers : Answer(a, c, answer)

Next ==
    \/ ChangePrograms
    \/ \E r \in Requests : Create(r) \/ Share(r) \/ Fail(r)
    \/ Respond

Spec == Init /\ [][Next]_vars

-----------------------------------------------------------------------------
(***************************************************************************)
(* Properties.                                                             *)
(***************************************************************************)

\* Permissions only ever flow down: a row that is not the creator's has what
\* its invitation grants, and an invitation that no admin made grants no more
\* than its sender holds now, who holds "share".  (invite_by_email reads the
\* sender's permissions twice, in statements before the INSERT.)
GrantsFlowDown ==
    \A c \in Containers, u \in Users :
        /\ perm[c][u] # {} /\ primary[c] # u =>
              Invited(c, u) /\ perm[c][u] = inv[c][u].permissions
        /\ Invited(c, u) /\ ~inv[c][u].as_admin =>
              inv[c][u].permissions \cup {"share"} \subseteq perm[c][inv[c][u].by]

\* The creator of a container keeps every permission on it, whatever
\* invitations are sent and answered, to himself included.
CreatorKeepsAll == \A c \in ContainerRows : perm[c][primary[c]] = Perms

\* A container gets its creator once, by a handler that is done with it; and he
\* is then an admin in his own right or a member of an open program, unless an
\* answer or a change of the programs has ended his membership while this very
\* handler was in flight: no admission outlives the requests it let in.
CreatorsAdmitted ==
    [][\A c \in Containers : primary'[c] # primary[c] =>
          /\ primary[c] = Nobody
          /\ \E r \in Requests :
                /\ At(r, "create_insert") /\ ~At(r, "create_insert")'
                /\ req[r].actor.user = primary'[c]
                /\ IsAdmin(req[r].actor) \/ Admitted(primary'[c]) \/ req[r].overtaken]_vars

\* What a user is shown (pending invitations, container list): an accepted
\* invitation puts the container on his list, and one that is pending has not
\* put it there.
ListsMatchAnswers ==
    \A c \in Containers, u \in Users : Invited(c, u) =>
        /\ inv[c][u].response = "accepted" => c \in Listed(u)
        /\ c \in Pending(u) /\ c \in Listed(u) => primary[c] = u

\* db/container_repo.rs:95 "so that the invitation state and the ownership row
\* are always consistent": whoever has declined has no row.
InvitationConsistent ==
    \A c \in Containers, u \in Users :
        Invited(c, u) /\ inv[c][u].response = "declined" /\ primary[c] # u => perm[c][u] = {}
=============================================================================
