--------------------------- MODULE PrivateNetwork ---------------------------
(***************************************************************************)
(* Private networks: NetworkService (services/network_service.rs), its     *)
(* tables (db/network_repo.rs, migration 20240104000000) and the bridges   *)
(* and container NICs it drives on the Proxmox node.                       *)
(*                                                                         *)
(* Every handler is an async function; each await on the database or on    *)
(* Proxmox is one step here, and the steps of the requests in flight       *)
(* interleave freely, because the code holds no lock and opens no          *)
(* transaction across them.  A Proxmox call may take effect and still be   *)
(* reported as failed (its answer is lost).  A handler may stop at any     *)
(* await: the server is restarted, the client goes away and the future is  *)
(* dropped, or a query fails and `?` returns.                              *)
(***************************************************************************)
EXTENDS Integers, Sequences, FiniteSets

CONSTANTS
    Users,          \* callers
    Admins,         \* callers whose effective_role is Admin
    Containers,     \* container records (the code never deletes one)
    NetPerm,        \* <<user, container>> pairs holding PERM_NETWORKS
    Cidrs,          \* CIDRs that pass validate_cidr
    Clash,          \* <<cidr, cidr>> pairs whose address ranges meet
    Names,          \* network labels
    Hosts,          \* host numbers allocate_ip may hand out (.2, .3, ...)
    MaxSlot,        \* NIC slots of a container, 1..MaxSlot (15 in the code)
    MaxPerNode,     \* MAX_NETWORKS_PER_NODE
    MaxPerUser,     \* MAX_NETWORKS_PER_USER
    Requests,       \* handlers that may be in flight at the same time
    Ops,            \* operations the callers use
    Established,    \* networks that are active at the start, in bridge order
    MaxBridge,      \* bound on the bridge ids drawn from the sequence
    MaxMember,      \* bound on the membership UUIDs in use at one time
    None            \* not a value of any other set

BridgeIds == 1..MaxBridge
MemberIds == 1..MaxMember
Slots == 1..MaxSlot
AllOps == {"create", "rename", "delete", "add", "remove"}

ASSUME PNAssumption ==
    /\ Admins \subseteq Users
    /\ NetPerm \subseteq Users \X Containers
    /\ Clash \subseteq Cidrs \X Cidrs
    /\ \A c \in Cidrs : <<c, c>> \in Clash
    /\ \A p \in Clash : <<p[2], p[1]>> \in Clash
    /\ Hosts \subseteq Nat
    /\ MaxSlot \in Nat /\ MaxPerNode \in Nat /\ MaxPerUser \in Nat
    /\ Ops \subseteq AllOps
    /\ MaxBridge \in Nat /\ MaxMember \in Nat
    /\ Established \in Seq([owner : Users, cidr : Cidrs, name : Names])
    /\ Len(Established) <= MaxBridge
    /\ \A S \in {Users, Containers, Cidrs, Names, Hosts, Slots, BridgeIds, MemberIds} :
          None \notin S

\* The networks there are at the start came out of earlier requests: their
\* owner's ranges do not meet, and they do not exceed the limits.
ASSUME EstablishedAssumption ==
    /\ \A i, j \in DOMAIN Established :
          (i # j /\ Established[i].owner = Established[j].owner)
              => <<Established[i].cidr, Established[j].cidr>> \notin Clash
    /\ \A u \in Users :
          Cardinality({i \in DOMAIN Established : Established[i].owner = u}) <= MaxPerUser
    /\ Len(Established) <= MaxPerNode

ASSUME RequestsAssumption == Requests # {} /\ IsFiniteSet(Requests)

VARIABLES
    networks,   \* table private_networks, keyed by bridge id
    members,    \* table network_memberships: a set of rows
    seq,        \* last value drawn from bridge_id_seq (from 0, not 99)
    conf,       \* bridges in the node's network configuration
    live,       \* bridges brought up by the last applied configuration
    nics,       \* nics[<<c, s>>]: netS of container c in its Proxmox config
    req         \* the handlers in flight: where each stands, and its locals

tables == <<networks, members, seq>>
node == <<conf, live, nics>>
vars == <<networks, members, seq, conf, live, nics, req>>

-----------------------------------------------------------------------------
(***************************************************************************)
(* Rows and locals.                                                        *)
(***************************************************************************)

NetworkStates == {"creating", "active", "deleting"}
NetworkRow == [owner : Users, cidr : Cidrs, name : Names, state : NetworkStates]
NoNetwork == [state |-> "absent"]

MembershipStates == {"attaching", "active", "detaching", "failed"}
MemberRow == [id : MemberIds, net : BridgeIds, ct : Containers, ip : Hosts,
              slot : Slots, state : MembershipStates]

Nic == [bridge : BridgeIds, ip : Hosts]
NoNic == [bridge |-> None, ip |-> None]

Steps == {"idle",
    "create_user_limit", "create_overlap", "create_draw", "create_insert",
    "create_post", "create_apply", "create_activate",
    "rename_update",
    "delete_members", "delete_mark", "delete_bridge", "delete_apply", "delete_row",
    "add_members", "add_ip", "add_slot", "add_insert", "add_attach",
    "add_fail", "add_activate",
    "remove_find", "remove_mark", "remove_detach", "remove_fail", "remove_row"}

Handler == [pc : Steps,
            user : Users \cup {None}, net : BridgeIds \cup {None},
            cidr : Cidrs \cup {None}, name : Names \cup {None},
            ct : Containers \cup {None}, mem : MemberIds \cup {None},
            ip : Hosts \cup {None}, slot : Slots \cup {None}]

Idle == [pc |-> "idle", user |-> None, net |-> None, cidr |-> None,
         name |-> None, ct |-> None, mem |-> None, ip |-> None, slot |-> None]

-----------------------------------------------------------------------------
(***************************************************************************)
(* Queries.                                                                *)
(***************************************************************************)

Exists(n) == networks[n] # NoNetwork

\* Networks that count against the limits: state IN ('creating', 'active').
Counted(n) == networks[n].state \in {"creating", "active"}
CountedOf(u) == {n \in BridgeIds : Counted(n) /\ networks[n].owner = u}

\* Mutation: only networks that finished their creation are counted.
UserHasRoom_ActiveOnly(u) ==
    Cardinality({n \in CountedOf(u) : networks[n].state = "active"}) < MaxPerUser


NodeHasRoom == Cardinality({n \in BridgeIds : Counted(n)}) < MaxPerNode
UserHasRoom(u) == Cardinality(CountedOf(u)) < MaxPerUser

\* Mutation: only counted networks are compared, not those being deleted.
OverlapFree_Counted(u, c) ==
    \A n \in CountedOf(u) : <<c, networks[n].cidr>> \notin Clash

\* check_no_overlap over list_for_user, which filters by owner only.
OverlapFree(u, c) ==
    \A n \in BridgeIds : (Exists(n) /\ networks[n].owner = u)
                            => <<c, networks[n].cidr>> \notin Clash

CanManage(u, n) == u \in Admins \/ networks[n].owner = u
HoldsNetworks(u, c) == u \in Admins \/ <<u, c>> \in NetPerm

MembersOf(n) == {m \in members : m.net = n}

FreeHosts(n) == Hosts \ {m.ip : m \in MembersOf(n)}
FreeSlots(c) == Slots \ {m.slot : m \in {x \in members : x.ct = c}}
Lowest(S) == {x \in S : \A y \in S : x <= y}  \* one number, unless S is empty

\* Uuid::new_v4 differs from every id in the table or in a handler's hands.
\* Ids are only compared for equality, so any such id stands for all of them.
FreshIds == {id \in MemberIds : /\ \A m \in members : m.id # id
                               /\ \A r \in Requests : req[r].mem # id}

\* Mutations: one of the table's constraints is missing.
Unique_NoSlot(row) == \A m \in members : m.net = row.net => m.ct # row.ct /\ m.ip # row.ip
Unique_NoIp(row) == \A m \in members : m.ct = row.ct => m.net # row.net /\ m.slot # row.slot

\* The UNIQUE constraints of network_memberships.
Unique(row) == \A m \in members :
                  /\ ~(m.net = row.net /\ m.ct = row.ct)
                  /\ ~(m.net = row.net /\ m.ip = row.ip)
                  /\ ~(m.ct = row.ct /\ m.slot = row.slot)

-----------------------------------------------------------------------------
(***************************************************************************)
(* Updates.  An UPDATE or DELETE whose row is gone matches nothing and     *)
(* succeeds.                                                               *)
(***************************************************************************)

SetNetworkState(n, s) ==
    networks' = IF Exists(n) THEN [networks EXCEPT ![n].state = s] ELSE networks

SetMemberState(id, s) ==
    members' = {IF m.id = id THEN [m EXCEPT !.state = s] ELSE m : m \in members}

At(r, step) == req[r].pc = step
Goto(r, step) == req' = [req EXCEPT ![r].pc = step]
Return(r) == req' = [req EXCEPT ![r] = Idle]

Begin(r, op, locals) ==
    /\ op \in Ops
    /\ At(r, "idle")
    /\ req' = [req EXCEPT ![r] = locals]

\* Mutation: a failed apply is ignored.
ApplyConfig_Ignored(r, next) ==
    /\ live' \in {live, conf}
    /\ Goto(r, next)
    /\ UNCHANGED <<tables, conf, nics>>

\* apply_network_config: the whole pending configuration becomes live.
ApplyConfig(r, next) ==
    /\ \/ live' = conf /\ (Goto(r, next) \/ Return(r))
       \/ UNCHANGED live /\ Return(r)
    /\ UNCHANGED <<tables, conf, nics>>

-----------------------------------------------------------------------------
(***************************************************************************)
(* create_network.                                                         *)
(***************************************************************************)

CreateBegin(r) ==
    /\ \E u \in Users, c \in Cidrs, nm \in Names :
          Begin(r, "create", [Idle EXCEPT !.pc = "create_user_limit",
                                          !.user = u, !.cidr = c, !.name = nm])
    /\ NodeHasRoom
    /\ UNCHANGED <<tables, node>>

CreateUserLimit(r) ==
    /\ At(r, "create_user_limit")
    /\ IF UserHasRoom(req[r].user) THEN Goto(r, "create_overlap") ELSE Return(r)
    /\ UNCHANGED <<tables, node>>

CreateOverlap(r) ==
    /\ At(r, "create_overlap")
    /\ IF OverlapFree(req[r].user, req[r].cidr)
       THEN Goto(r, "create_draw") ELSE Return(r)
    /\ UNCHANGED <<tables, node>>

\* Mutation: MAX(bridge_id) + 1 over the rows there are.
NextBridge_MaxRow == CHOOSE n \in 1..(MaxBridge + 1) :
    /\ n = 1 \/ (n - 1 \in BridgeIds /\ Exists(n - 1))
    /\ \A k \in BridgeIds : Exists(k) => k < n

\* nextval('bridge_id_seq'): never hands out a value twice.
NextBridge == seq + 1

CreateDraw(r) ==
    /\ At(r, "create_draw")
    /\ seq < MaxBridge
    /\ seq' = NextBridge
    /\ req' = [req EXCEPT ![r].pc = "create_insert", ![r].net = NextBridge]
    /\ UNCHANGED <<networks, members, node>>

CreateInsert(r) ==
    /\ At(r, "create_insert")
    /\ IF Exists(req[r].net)
       THEN Return(r) /\ UNCHANGED networks
       ELSE /\ Goto(r, "create_post")
            /\ networks' = [networks EXCEPT ![req[r].net] =
                   [owner |-> req[r].user, cidr |-> req[r].cidr,
                    name |-> req[r].name, state |-> "creating"]]
    /\ UNCHANGED <<members, seq, node>>

CreatePost(r) ==
    /\ At(r, "create_post")
    /\ \/ conf' = conf \cup {req[r].net} /\ (Goto(r, "create_apply") \/ Return(r))
       \/ UNCHANGED conf /\ Return(r)
    /\ UNCHANGED <<tables, live, nics>>

CreateApply(r) ==
    /\ At(r, "create_apply")
    /\ ApplyConfig(r, "create_activate")

CreateActivate(r) ==
    /\ At(r, "create_activate")
    /\ SetNetworkState(req[r].net, "active")
    /\ Return(r)
    /\ UNCHANGED <<members, seq, node>>

-----------------------------------------------------------------------------
(***************************************************************************)
(* rename_network.                                                         *)
(***************************************************************************)

RenameBegin(r) ==
    /\ \E u \in Users, n \in BridgeIds, nm \in Names :
          /\ Exists(n) /\ CanManage(u, n)
          /\ Begin(r, "rename", [Idle EXCEPT !.pc = "rename_update",
                                             !.user = u, !.net = n, !.name = nm])
    /\ UNCHANGED <<tables, node>>

RenameUpdate(r) ==
    /\ At(r, "rename_update")
    /\ networks' = IF Exists(req[r].net)
                   THEN [networks EXCEPT ![req[r].net].name = req[r].name]
                   ELSE networks
    /\ Return(r)
    /\ UNCHANGED <<members, seq, node>>

-----------------------------------------------------------------------------
(***************************************************************************)
(* delete_network.  The network's own state is never looked at: a network  *)
(* left in 'creating' or 'deleting' can be deleted too.                    *)
(***************************************************************************)

DeleteBegin(r) ==
    /\ \E u \in Users, n \in BridgeIds :
          /\ Exists(n) /\ CanManage(u, n)
          /\ Begin(r, "delete", [Idle EXCEPT !.pc = "delete_members",
                                             !.user = u, !.net = n])
    /\ UNCHANGED <<tables, node>>

\* Mutation: only active memberships keep a network from being deleted.
DeleteMembers_ActiveOnly(r) ==
    /\ At(r, "delete_members")
    /\ IF \A m \in MembersOf(req[r].net) : m.state # "active"
       THEN Goto(r, "delete_mark") ELSE Return(r)
    /\ UNCHANGED <<tables, node>>

DeleteMembers(r) ==
    /\ At(r, "delete_members")
    /\ IF MembersOf(req[r].net) = {} THEN Goto(r, "delete_mark") ELSE Return(r)
    /\ UNCHANGED <<tables, node>>

DeleteMark(r) ==
    /\ At(r, "delete_mark")
    /\ SetNetworkState(req[r].net, "deleting")
    /\ Goto(r, "delete_bridge")
    /\ UNCHANGED <<members, seq, node>>

\* Mutation: when Proxmox fails the network is put back to 'active'.
DeleteBridge_RollBack(r) ==
    /\ At(r, "delete_bridge")
    /\ \/ conf' = conf \ {req[r].net} /\ Goto(r, "delete_apply") /\ UNCHANGED networks
       \/ UNCHANGED conf /\ SetNetworkState(req[r].net, "active") /\ Return(r)
    /\ UNCHANGED <<members, seq, live, nics>>

DeleteBridge(r) ==
    /\ At(r, "delete_bridge")
    /\ \/ conf' = conf \ {req[r].net} /\ (Goto(r, "delete_apply") \/ Return(r))
       \/ UNCHANGED conf /\ Return(r)
    /\ UNCHANGED <<tables, live, nics>>

DeleteApply(r) ==
    /\ At(r, "delete_apply")
    /\ ApplyConfig(r, "delete_row")

\* ON DELETE RESTRICT: the row stays while a membership refers to it.
DeleteRow(r) ==
    /\ At(r, "delete_row")
    /\ networks' = IF MembersOf(req[r].net) = {}
                   THEN [networks EXCEPT ![req[r].net] = NoNetwork]
                   ELSE networks
    /\ Return(r)
    /\ UNCHANGED <<members, seq, node>>

-----------------------------------------------------------------------------
(***************************************************************************)
(* add_member.  container_status and the SSH hot-configuration are best    *)
(* effort and touch nothing kept here.                                     *)
(***************************************************************************)

\* Mutation: PERM_NETWORKS on the container is not required.
AddBegin_AnyContainer(r) ==
    /\ \E u \in Users, n \in BridgeIds, c \in Containers :
          /\ Exists(n) /\ CanManage(u, n)
          /\ networks[n].state = "active"
          /\ Begin(r, "add", [Idle EXCEPT !.pc = "add_members",
                                          !.user = u, !.net = n, !.ct = c])
    /\ UNCHANGED <<tables, node>>

AddBegin(r) ==
    /\ \E u \in Users, n \in BridgeIds, c \in Containers :
          /\ Exists(n) /\ CanManage(u, n)
          /\ networks[n].state = "active"
          /\ HoldsNetworks(u, c)
          /\ Begin(r, "add", [Idle EXCEPT !.pc = "add_members",
                                          !.user = u, !.net = n, !.ct = c])
    /\ UNCHANGED <<tables, node>>

AddMembers(r) ==
    /\ At(r, "add_members")
    /\ IF \E m \in MembersOf(req[r].net) : m.ct = req[r].ct
       THEN Return(r) ELSE Goto(r, "add_ip")
    /\ UNCHANGED <<tables, node>>

AddIp(r) ==
    /\ At(r, "add_ip")
    /\ \/ FreeHosts(req[r].net) = {} /\ Return(r)
       \/ \E ip \in Lowest(FreeHosts(req[r].net)) :
             req' = [req EXCEPT ![r].pc = "add_slot", ![r].ip = ip]
    /\ UNCHANGED <<tables, node>>

AddSlot(r) ==
    /\ At(r, "add_slot")
    /\ \/ FreeSlots(req[r].ct) = {} /\ Return(r)
       \/ \E slot \in Lowest(FreeSlots(req[r].ct)) :
             req' = [req EXCEPT ![r].pc = "add_insert", ![r].slot = slot]
    /\ UNCHANGED <<tables, node>>

NewMember(h, id) == [id |-> id, net |-> h.net, ct |-> h.ct, ip |-> h.ip,
                     slot |-> h.slot, state |-> "attaching"]

\* The INSERT reserves ip and slot; the constraints may refuse it.
AddInsert(r) ==
    /\ At(r, "add_insert")
    /\ \E id \in Lowest(FreshIds) :
          LET row == NewMember(req[r], id)
          IN  IF Exists(req[r].net) /\ Unique(row)
              THEN /\ members' = members \cup {row}
                   /\ req' = [req EXCEPT ![r].pc = "add_attach", ![r].mem = id]
              ELSE UNCHANGED members /\ Return(r)
    /\ UNCHANGED <<networks, seq, node>>

AttachNic(c, s, n, ip) == nics' = [nics EXCEPT ![<<c, s>>] = [bridge |-> n, ip |-> ip]]
DetachNic(c, s) == nics' = [nics EXCEPT ![<<c, s>>] = NoNic]

AddAttach(r) ==
    /\ At(r, "add_attach")
    /\ \/ /\ AttachNic(req[r].ct, req[r].slot, req[r].net, req[r].ip)
          /\ Goto(r, "add_activate") \/ Goto(r, "add_fail")
       \/ UNCHANGED nics /\ Goto(r, "add_fail")
    /\ UNCHANGED <<tables, conf, live>>

AddFail(r) ==
    /\ At(r, "add_fail")
    /\ SetMemberState(req[r].mem, "failed")
    /\ Return(r)
    /\ UNCHANGED <<networks, seq, node>>

AddActivate(r) ==
    /\ At(r, "add_activate")
    /\ SetMemberState(req[r].mem, "active")
    /\ Return(r)
    /\ UNCHANGED <<networks, seq, node>>

-----------------------------------------------------------------------------
(***************************************************************************)
(* remove_member.  The handler works on a copy of the row it found.        *)
(***************************************************************************)

RemoveBegin(r) ==
    /\ \E u \in Users, n \in BridgeIds, c \in Containers :
          /\ Exists(n) /\ CanManage(u, n)
          /\ HoldsNetworks(u, c)
          /\ Begin(r, "remove", [Idle EXCEPT !.pc = "remove_find",
                                             !.user = u, !.net = n, !.ct = c])
    /\ UNCHANGED <<tables, node>>

RemoveFind(r) ==
    /\ At(r, "remove_find")
    /\ LET found == {m \in MembersOf(req[r].net) : m.ct = req[r].ct}
       IN  \/ found = {} /\ Return(r)
           \/ \E m \in found :
                 req' = [req EXCEPT ![r].pc = "remove_mark",
                                    ![r].mem = m.id, ![r].slot = m.slot]
    /\ UNCHANGED <<tables, node>>

RemoveMark(r) ==
    /\ At(r, "remove_mark")
    /\ SetMemberState(req[r].mem, "detaching")
    /\ Goto(r, "remove_detach")
    /\ UNCHANGED <<networks, seq, node>>

\* Mutation: the outcome of the detach call is ignored.
RemoveDetach_Ignored(r) ==
    /\ At(r, "remove_detach")
    /\ DetachNic(req[r].ct, req[r].slot) \/ UNCHANGED nics
    /\ Goto(r, "remove_row")
    /\ UNCHANGED <<tables, conf, live>>

RemoveDetach(r) ==
    /\ At(r, "remove_detach")
    /\ \/ /\ DetachNic(req[r].ct, req[r].slot)
          /\ Goto(r, "remove_row") \/ Goto(r, "remove_fail")
       \/ UNCHANGED nics /\ Goto(r, "remove_fail")
    /\ UNCHANGED <<tables, conf, live>>

RemoveFail(r) ==
    /\ At(r, "remove_fail")
    /\ SetMemberState(req[r].mem, "failed")
    /\ Return(r)
    /\ UNCHANGED <<networks, seq, node>>

\* DELETE ... WHERE network_id = $1 AND container_id = $2: not by row id.
RemoveRow(r) ==
    /\ At(r, "remove_row")
    /\ members' = {m \in members : ~(m.net = req[r].net /\ m.ct = req[r].ct)}
    /\ Return(r)
    /\ UNCHANGED <<networks, seq, node>>

-----------------------------------------------------------------------------

\* The handler stops at an await: restart, dropped connection, failed query.
Abort(r) ==
    /\ ~At(r, "idle")
    /\ Return(r)
    /\ UNCHANGED <<tables, node>>

Init ==
    /\ networks = [n \in BridgeIds |->
          IF n \in DOMAIN Established
          THEN [owner |-> Established[n].owner, cidr |-> Established[n].cidr,
                name |-> Established[n].name, state |-> "active"]
          ELSE NoNetwork]
    /\ members = {}
    /\ seq = Len(Established)
    /\ conf = DOMAIN Established
    /\ live = DOMAIN Established
    /\ nics = [p \in Containers \X Slots |-> NoNic]
    /\ req = [r \in Requests |-> Idle]

Create(r) == \/ CreateBegin(r) \/ CreateUserLimit(r) \/ CreateOverlap(r)
             \/ CreateDraw(r) \/ CreateInsert(r) \/ CreatePost(r)
             \/ CreateApply(r) \/ CreateActivate(r)
Rename(r) == RenameBegin(r) \/ RenameUpdate(r)
Delete(r) == \/ DeleteBegin(r) \/ DeleteMembers(r) \/ DeleteMark(r)
             \/ DeleteBridge(r) \/ DeleteApply(r) \/ DeleteRow(r)
Add(r) == \/ AddBegin(r) \/ AddMembers(r) \/ AddIp(r) \/ AddSlot(r)
          \/ AddInsert(r) \/ AddAttach(r) \/ AddFail(r) \/ AddActivate(r)
Remove(r) == \/ RemoveBegin(r) \/ RemoveFind(r) \/ RemoveMark(r)
             \/ RemoveDetach(r) \/ RemoveFail(r) \/ RemoveRow(r)

Next == \E r \in Requests :
           Create(r) \/ Rename(r) \/ Delete(r) \/ Add(r) \/ Remove(r) \/ Abort(r)

Spec == Init /\ [][Next]_vars

-----------------------------------------------------------------------------
(***************************************************************************)
(* Properties that hold however the requests interleave.                   *)
(***************************************************************************)

\* Every variable has its type; membership rows and handlers are well formed.
TypeOK ==
    /\ networks \in [BridgeIds -> NetworkRow \cup {NoNetwork}]
    /\ members \subseteq MemberRow
    /\ seq \in 0..MaxBridge
    /\ conf \subseteq BridgeIds
    /\ live \subseteq BridgeIds
    /\ nics \in [Containers \X Slots -> Nic \cup {NoNic}]
    /\ req \in [Requests -> Handler]

\* "IDs are never reused, even after a bridge is deleted" (migration
\* 20240104000000): when a network row appears, nothing is left of an earlier
\* bridge of that name, neither a device nor a NIC some race has leaked.
FreshBridge ==
    [][\A n \in BridgeIds : (~Exists(n) /\ Exists(n)')
          => /\ n \notin conf \cup live
             /\ \A p \in Containers \X Slots : nics[p].bridge # n]_vars

\* Whatever rows and NICs the races leave behind, a container sits on the
\* bridge of an existing network only if somebody who may manage that network
\* holds PERM_NETWORKS on that container: the check made before the row was
\* inserted still covers the NIC that is attached several awaits later.
TenantIsolation ==
    \A p \in Containers \X Slots :
        LET n == nics[p].bridge
        IN  (n # None /\ Exists(n)) =>
               \E u \in Users : CanManage(u, n) /\ HoldsNetworks(u, p[1])

\* MAX_NETWORKS_PER_USER and MAX_NETWORKS_PER_NODE are read before the row is
\* inserted, so concurrent creations can pass them together; yet, however
\* often they do, the excess never grows beyond the other requests in flight,
\* and one request at a time never exceeds them.
OvershootBounded ==
    /\ \A u \in Users :
          Cardinality(CountedOf(u)) < MaxPerUser + Cardinality(Requests)
    /\ Cardinality({n \in BridgeIds : Counted(n)})
          < MaxPerNode + Cardinality(Requests)

-----------------------------------------------------------------------------
(***************************************************************************)
(* The inductive invariant behind FreshBridge and TenantIsolation.         *)
(***************************************************************************)

CreateSteps == {"create_user_limit", "create_overlap", "create_draw",
                "create_insert", "create_post", "create_apply", "create_activate"}
AddSteps == {"add_members", "add_ip", "add_slot", "add_insert", "add_attach",
             "add_fail", "add_activate"}
RemoveSteps == {"remove_find", "remove_mark", "remove_detach", "remove_fail",
                "remove_row"}
DrawSteps == {"create_user_limit", "create_overlap", "create_draw"}

\* The locals a handler has set by the time it stands at a step.
LocalsOk(h) ==
    /\ h.pc \in CreateSteps => h.user \in Users /\ h.cidr \in Cidrs /\ h.name \in Names
    /\ h.pc \in Steps \ (DrawSteps \cup {"idle"}) => h.net \in BridgeIds
    /\ h.pc = "rename_update" => h.name \in Names
    /\ h.pc \in AddSteps \cup RemoveSteps => h.ct \in Containers
    /\ h.pc \in {"add_slot", "add_insert", "add_attach"} => h.ip \in Hosts
    /\ h.pc \in {"add_insert", "add_attach", "remove_mark", "remove_detach"}
          => h.slot \in Slots

LocalsSet == \A r \in Requests : LocalsOk(req[r])

OnNode(n) == n \in conf \cup live \/ \E p \in Containers \X Slots : nics[p].bridge = n

\* Every bridge id in use anywhere has been drawn from the sequence.
DrawnBefore ==
    /\ \A n \in BridgeIds : Exists(n) \/ OnNode(n) => n <= seq
    /\ \A r \in Requests : req[r].net \in BridgeIds => req[r].net <= seq

\* Between nextval and the INSERT the drawn id is known to its handler only.
DrawnIsPrivate ==
    \A r \in Requests : req[r].pc = "create_insert" =>
        /\ ~Exists(req[r].net) /\ ~OnNode(req[r].net)
        /\ \A q \in Requests \ {r} : req[q].net # req[r].net

\* While its network exists, an add_member in flight is still authorised.
Authorised(n, c) == \E u \in Users : CanManage(u, n) /\ HoldsNetworks(u, c)
AddAuthorised ==
    \A r \in Requests :
        (req[r].pc \in AddSteps /\ Exists(req[r].net)) => Authorised(req[r].net, req[r].ct)

IInv ==
    /\ TypeOK
    /\ LocalsSet
    /\ DrawnBefore
    /\ DrawnIsPrivate
    /\ AddAuthorised
    /\ TenantIsolation

-----------------------------------------------------------------------------
(***************************************************************************)
(* Properties that hold when requests that work on the same object stay    *)
(* apart in time (in particular when requests are served one at a time),   *)
(* whatever fails and wherever a handler stops.  The code does nothing to  *)
(* keep them apart.                                                        *)
(***************************************************************************)

\* A network that accepts members has its bridge configured and brought up.
ActiveNetworkHasBridge ==
    \A n \in BridgeIds : networks[n].state = "active" => n \in conf \cap live

\* The NIC a membership row describes, and the one in its slot.
NicOf(m) == [bridge |-> m.net, ip |-> m.ip]
WiredAt(m) == nics[<<m.ct, m.slot>>]

\* Every NIC on a private bridge is covered by a membership row that records
\* its slot and its address, so neither can be handed out again.
NicAccounted ==
    \A c \in Containers, s \in Slots :
        nics[<<c, s>>] # NoNic =>
            \E m \in members : m.ct = c /\ m.slot = s /\ nics[<<c, s>>] = NicOf(m)

\* A membership shown as active has its NIC in the container's configuration.
ActiveMemberHasNic ==
    \A m \in members : m.state = "active" => WiredAt(m) = NicOf(m)

\* The address ranges of one user's networks never meet.
RangesDisjoint ==
    \A n1, n2 \in BridgeIds :
        (n1 # n2 /\ Exists(n1) /\ Exists(n2) /\ networks[n1].owner = networks[n2].owner)
            => <<networks[n1].cidr, networks[n2].cidr>> \notin Clash

\* "Each IP within a network is unique" (migration 20240104000000), on the
\* wire and not only in the table: no two NICs of a bridge share an address.
IpUniqueOnBridge ==
    \A p, q \in Containers \X Slots :
        (p # q /\ nics[p] # NoNic) => nics[p] # nics[q]

\* "Deletion path: active -> deleting -> row removed" (migration
\* 20240104000000): a network marked 'deleting' never accepts members again,
\* and when its row goes, its bridge is gone and nobody is wired to it.
DeletionPath ==
    [][\A n \in BridgeIds :
          /\ networks[n].state = "deleting" => networks'[n].state \in {"deleting", "absent"}
          /\ (Exists(n) /\ ~Exists(n)') =>
                /\ n \notin conf \cup live
                /\ \A p \in Containers \X Slots : nics[p].bridge # n]_vars

\* All that Proxmox is asked to do respects the node's contract.
Node == INSTANCE NodeContract
NodeContractKept == Node!Spec

-----------------------------------------------------------------------------
(***************************************************************************)
(* Which requests have to stay apart for these properties, and the         *)
(* inductive invariants behind them.                                       *)
(***************************************************************************)
DeleteSteps == {"delete_members", "delete_mark", "delete_bridge", "delete_apply",
                "delete_row"}

\* No container is removed from a network while another request adds it there
\* or removes it from there.
RemovalsApart ==
    \A r, s \in Requests :
        (/\ req[r].pc \in RemoveSteps /\ req[s].pc \in AddSteps \cup RemoveSteps
         /\ req[r].net = req[s].net /\ req[r].ct = req[s].ct) => r = s

\* No network is deleted while another request creates it or adds to it.
DeletionsApart ==
    \A r, s \in Requests :
        (req[r].pc \in DeleteSteps /\ req[s].pc \in CreateSteps \cup AddSteps)
            => req[r].net # req[s].net

\* No user has two creations with clashing ranges that are yet to be inserted.
CreationsApart ==
    \A r, s \in Requests :
        (/\ req[r].pc \in DrawSteps \cup {"create_insert"}
         /\ req[s].pc \in DrawSteps \cup {"create_insert"}
         /\ req[r].user = req[s].user /\ <<req[r].cidr, req[s].cidr>> \in Clash) => r = s

RequestsApart == RemovalsApart /\ DeletionsApart /\ CreationsApart

\* The behaviours in which they do stay apart.
ApartSpec == Init /\ [][Next /\ RequestsApart']_vars

\* The UNIQUE constraints and the primary key, as facts about the table.
RowsKeyed ==
    \A m, k \in members :
        (\/ m.id = k.id
         \/ m.net = k.net /\ (m.ct = k.ct \/ m.ip = k.ip)
         \/ m.ct = k.ct /\ m.slot = k.slot) => m = k

\* The row an add_member handler has inserted is still as it inserted it, its
\* slot is free before the attach call and holds its NIC after a success; no
\* other add_member works on that row.
InsertedSteps == {"add_attach", "add_activate", "add_fail"}
AdderWired(h) ==
    LET row == NewMember(h, h.mem)
    IN  /\ h.pc \in InsertedSteps => row \in members
        /\ h.pc = "add_attach" => WiredAt(row) = NoNic
        /\ h.pc = "add_activate" => WiredAt(row) = NicOf(row)
AddersWired ==
    /\ \A r \in Requests : AdderWired(req[r])
    /\ \A r, s \in Requests :
          (/\ req[r].pc \in InsertedSteps /\ req[s].pc \in InsertedSteps
           /\ req[r].mem = req[s].mem) => r = s

\* The row a remove_member handler has found is still there; it is no longer
\* shown as active when the NIC goes, and has no NIC when it goes itself.
FoundRow(h, m) == m.id = h.mem /\ m.net = h.net /\ m.ct = h.ct /\ m.slot = h.slot
RemoverWired(h) ==
    /\ h.pc \in {"remove_mark", "remove_detach", "remove_fail"} =>
          \E m \in members : FoundRow(h, m) /\ (h.pc = "remove_detach" => m.state # "active")
    /\ h.pc = "remove_row" =>
          \A m \in members : (m.net = h.net /\ m.ct = h.ct) => WiredAt(m) = NoNic
RemoversWired == \A r \in Requests : RemoverWired(req[r])

WiringInv ==
    /\ RowsKeyed
    /\ NicAccounted
    /\ ActiveMemberHasNic
    /\ AddersWired
    /\ RemoversWired

\* Rows are only on active networks, and so are the handlers adding some.
MembersOnActive ==
    /\ \A m \in members : networks[m.net].state = "active"
    /\ \A r \in Requests : req[r].pc \in AddSteps => networks[req[r].net].state = "active"

\* How far a creation has brought its own network, which no other one creates.
BuildSteps == {"create_post", "create_apply", "create_activate"}
BuilderAt(h) ==
    /\ h.pc \in BuildSteps => networks[h.net].state = "creating"
    /\ h.pc \in {"create_apply", "create_activate"} => h.net \in conf
    /\ h.pc = "create_activate" => h.net \in live
BuildersAt ==
    /\ \A r \in Requests : BuilderAt(req[r])
    /\ \A r, s \in Requests :
          (/\ req[r].pc \in BuildSteps /\ req[s].pc \in BuildSteps
           /\ req[r].net = req[s].net) => r = s

\* How far a deletion has taken down a network that has no members.
DeleterAt(h) ==
    /\ h.pc \in DeleteSteps \ {"delete_members"} => MembersOf(h.net) = {}
    /\ h.pc \in {"delete_bridge", "delete_apply", "delete_row"} =>
          networks[h.net].state \in {"deleting", "absent"}
    /\ h.pc \in {"delete_apply", "delete_row"} => h.net \notin conf
    /\ h.pc = "delete_row" => h.net \notin live
DeletersAt == \A r \in Requests : DeleterAt(req[r])

BridgesInv ==
    /\ ActiveNetworkHasBridge
    /\ MembersOnActive
    /\ BuildersAt
    /\ DeletersAt

\* A range that passed the overlap check stays free until it is inserted.
RangesInv ==
    /\ RangesDisjoint
    /\ \A r \in Requests :
          req[r].pc \in {"create_draw", "create_insert"} =>
              OverlapFree(req[r].user, req[r].cidr)

-----------------------------------------------------------------------------
(***************************************************************************)
(* The inductive invariant behind OvershootBounded.                        *)
(***************************************************************************)

\* Every network is created by one handler at most, for its owner.
BuildersOwn ==
    /\ \A r \in Requests :
          (req[r].pc \in BuildSteps /\ Exists(req[r].net))
              => networks[req[r].net].owner = req[r].user
    /\ \A r, s \in Requests :
          (/\ req[r].pc \in BuildSteps /\ req[s].pc \in BuildSteps
           /\ req[r].net = req[s].net) => r = s

\* The networks of the users in U that are counted, and their creations that
\* may still add one to them: those at a step of S, between a limit check and
\* the INSERT, and those whose network a deletion has uncounted meanwhile.
CountedIn(U) == {n \in BridgeIds : Counted(n) /\ networks[n].owner \in U}
UserChecked == {"create_overlap", "create_draw", "create_insert"}
NodeChecked == {"create_user_limit"} \cup UserChecked
MayCount(U, S) ==
    {r \in Requests : /\ req[r].user \in U
                      /\ \/ req[r].pc \in S
                         \/ req[r].pc \in BuildSteps /\ ~Counted(req[r].net)}

Within(U, S, limit) ==
    Cardinality(CountedIn(U)) + Cardinality(MayCount(U, S)) < limit + Cardinality(Requests)

RoomInv ==
    /\ BuildersOwn
    /\ \A u \in Users : Within({u}, UserChecked, MaxPerUser)
    /\ Within(Users, NodeChecked, MaxPerNode)

=============================================================================
