------------------------------ MODULE Programs ------------------------------
(***************************************************************************)
(* Programs and their invitations (services/program_service.rs over        *)
(* db/program_repo.rs).  Admins create programs, open and close them for   *)
(* container creation, and invite users; whoever has accepted an           *)
(* invitation to a program that is open may create containers.             *)
(*                                                                         *)
(* A handler that reads before it writes (respond, invite_by_email) reads  *)
(* only what never changes once it exists: the owner of an invitation, the *)
(* existence of a program.  It is one step here.                           *)
(***************************************************************************)
EXTENDS Naturals, FiniteSets

CONSTANTS
    Users,          \* registered users
    Admins,         \* those with the admin role
    ProgramIds,     \* ids the programs may get
    MaxPInv         \* bound on program invitations

ASSUME ProgramAssumption ==
    /\ Admins \subseteq Users
    /\ MaxPInv \in Nat

VARIABLES
    programs,       \* programs[p]: absent, open (can_create_containers) or closed
    pinv            \* pinv[i]: row i of program_invitations, if it exists

programVars == <<programs, pinv>>

-----------------------------------------------------------------------------
\* The caller of a handler: a user who is logged in, or an application that
\* acts for one.  An application has the role "user" whatever its user's role
\* is, so it is told apart from the user only if that is an admin.
Actors == [user : Users, via : {"own"}] \cup [user : Admins, via : {"oauth"}]

IsAdmin(a) == a.user \in Admins /\ a.via = "own"

ProgramStates == {"absent", "open", "closed"}
Responses == {"none", "accepted", "declined"}
Answers == Responses \ {"none"}

PInvIds == 1..MaxPInv
PInvitation == [program : ProgramIds, user : Users, response : Responses]
NoPInvitation == [program |-> "none"]

ProgramTypeOK ==
    /\ programs \in [ProgramIds -> ProgramStates]
    /\ pinv \in [PInvIds -> PInvitation \cup {NoPInvitation}]

ProgramInit ==
    /\ programs = [p \in ProgramIds |-> "absent"]
    /\ pinv = [i \in PInvIds |-> NoPInvitation]

-----------------------------------------------------------------------------
(***************************************************************************)
(* PgProgramRepo.                                                          *)
(***************************************************************************)
ProgramRows == {p \in ProgramIds : programs[p] # "absent"}
PInvRows == {i \in PInvIds : pinv[i] # NoPInvitation}

PendingPrograms(u) == {i \in PInvRows : pinv[i].user = u /\ pinv[i].response = "none"}

\* list_members: whom a program shows as its members.
Members(p) ==
    {u \in Users : \E i \in PInvRows :
        pinv[i].program = p /\ pinv[i].user = u /\ pinv[i].response = "accepted"}

\* Mutation: the WHERE clause has lost response = 'accepted'.
UserCanCreate_Invited(u) ==
    \E i \in PInvRows : pinv[i].user = u /\ programs[pinv[i].program] = "open"

\* user_can_create_container, one SELECT EXISTS over the join of the two tables.
UserCanCreate(u) ==
    \E i \in PInvRows :
        /\ pinv[i].user = u
        /\ pinv[i].response = "accepted"
        /\ programs[pinv[i].program] = "open"

InsertProgram(p, flag) ==
    /\ p \notin ProgramRows
    /\ programs' = [programs EXCEPT ![p] = flag]
    /\ UNCHANGED pinv

\* The UPDATE changes nothing if there is no such program.
SetFlag(p, flag) ==
    /\ programs' = [programs EXCEPT ![p] = IF @ = "absent" THEN @ ELSE flag]
    /\ UNCHANGED pinv

\* There is no UNIQUE constraint: a user may be invited again, also while an
\* invitation is open or accepted.
InsertPInvitation(p, u) ==
    /\ \E i \in PInvIds \ PInvRows :
          pinv' = [pinv EXCEPT ![i] = [program |-> p, user |-> u, response |-> "none"]]
    /\ UNCHANGED programs

WriteAnswer(i, answer) ==
    /\ pinv' = [pinv EXCEPT ![i].response = answer]
    /\ UNCHANGED programs

-----------------------------------------------------------------------------
(***************************************************************************)
(* ProgramService.                                                         *)
(***************************************************************************)
CreateProgram(a, p, flag) == IsAdmin(a) /\ InsertProgram(p, flag)
UpdateProgram(a, p, flag) == IsAdmin(a) /\ SetFlag(p, flag)
InviteToProgram(a, p, u) == IsAdmin(a) /\ p \in ProgramRows /\ InsertPInvitation(p, u)

\* An invitation may be answered again at any time.
AnswerProgram(a, i, answer) ==
    i \in PInvRows /\ pinv[i].user = a.user /\ WriteAnswer(i, answer)

CanCreateContainer(a) == IsAdmin(a) \/ UserCanCreate(a.user)

\* The handlers of api/handlers/programs.rs that change something.
ProgramNext ==
    \E a \in Actors :
        \/ \E p \in ProgramIds, flag \in {"open", "closed"} :
              CreateProgram(a, p, flag) \/ UpdateProgram(a, p, flag)
        \/ \E p \in ProgramIds, u \in Users : InviteToProgram(a, p, u)
        \/ \E i \in PInvIds, answer \in Answers : AnswerProgram(a, i, answer)
=============================================================================
