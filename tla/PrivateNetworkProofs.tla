------------------------ MODULE PrivateNetworkProofs ------------------------
(***************************************************************************)
(* Proofs about PrivateNetwork, for any number of concurrent requests,     *)
(* users, containers and networks: the type invariant, that a bridge id is *)
(* never handed out twice, and that tenants stay apart, all from one       *)
(* inductive invariant, IInv; and that the limits are passed by less than  *)
(* the number of requests, from RoomInv.                                   *)
(***************************************************************************)
EXTENDS PrivateNetwork, FiniteSetTheorems, TLAPS

\* The absent values differ from every row, NIC and bridge.
LEMMA Absent ==
    /\ NoNetwork \notin NetworkRow
    /\ NoNic \notin Nic
    /\ None \notin BridgeIds
  BY PNAssumption DEF NoNetwork, NetworkRow, NoNic, Nic, NetworkStates

-----------------------------------------------------------------------------
(***************************************************************************)
(* All actions but CreateDraw and CreateInsert have the same shape: they   *)
(* move one handler, create no row, keep every owner, and touch the node   *)
(* at most on behalf of that handler's own network.                        *)
(***************************************************************************)

\* No network row appears, and none changes its owner.
KeepsOwners ==
    \A n \in BridgeIds : Exists(n)' => Exists(n) /\ networks'[n].owner = networks[n].owner

\* A bridge is configured, or a NIC attached, only for handler h's network.
TouchesOnly(h) ==
    /\ \A n \in BridgeIds : n \in conf' => n \in conf \/ (n = h.net /\ h.pc = "create_post")
    /\ \A n \in BridgeIds : n \in live' => n \in live \/ n \in conf
    /\ \A p \in Containers \X Slots :
          \/ nics'[p] = nics[p]
          \/ nics'[p].bridge = None
          \/ h.pc \in AddSteps /\ nics'[p].bridge = h.net /\ p[1] = h.ct

\* Handler h may become k: k knows no network h did not know, unless it has
\* just found it in the table, and it adds members only where authorised.
MayBecome(h, k) ==
    /\ k \in Handler
    /\ LocalsOk(k)
    /\ k.pc # "create_insert"
    /\ k.net \in BridgeIds => k.net = h.net \/ Exists(k.net)
    /\ k.pc \in AddSteps =>
          \/ h.pc \in AddSteps /\ k.net = h.net /\ k.ct = h.ct
          \/ Exists(k.net) /\ Authorised(k.net, k.ct)

TablesTyped ==
    /\ networks' \in [BridgeIds -> NetworkRow \cup {NoNetwork}]
    /\ members' \subseteq MemberRow
    /\ seq' = seq
    /\ conf' \subseteq BridgeIds
    /\ live' \subseteq BridgeIds
    /\ nics' \in [Containers \X Slots -> Nic \cup {NoNic}]

\* Authorisation depends on the owner only.
LEMMA AuthorisedKept ==
    ASSUME KeepsOwners, NEW n \in BridgeIds, NEW c, Exists(n)', Authorised(n, c)
    PROVE  Authorised(n, c)'
  BY DEF KeepsOwners, Authorised, CanManage, HoldsNetworks

\* A step of that shape preserves the inductive invariant.
LEMMA ShapePreserves ==
    ASSUME IInv, NEW r \in Requests, NEW k,
           req' = [req EXCEPT ![r] = k],
           TablesTyped, KeepsOwners, TouchesOnly(req[r]), MayBecome(req[r], k)
    PROVE  IInv'
  <1>1. /\ req \in [Requests -> Handler]
        /\ \A q \in Requests : req'[q] = IF q = r THEN k ELSE req[q]
    BY DEF IInv, TypeOK
  <1>2. TypeOK'
    BY <1>1 DEF IInv, TypeOK, TablesTyped, MayBecome
  <1>3. LocalsSet'
    <2>1. LocalsOk(k)' <=> LocalsOk(k)
      BY DEF LocalsOk
    <2>2. \A q \in Requests : LocalsOk(req'[q])
      BY <1>1 DEF IInv, LocalsSet, MayBecome
    <2>3. QED
      BY <2>2 DEF LocalsSet, LocalsOk
  <1>4. \A n \in BridgeIds : OnNode(n)' => OnNode(n)
               \/ (n = req[r].net /\ req[r].pc \in AddSteps \cup {"create_post"})
    BY Absent DEF OnNode, TouchesOnly
  <1>5. DrawnBefore'
    BY <1>1, <1>4 DEF IInv, DrawnBefore, KeepsOwners, MayBecome, TablesTyped
  <1>6. DrawnIsPrivate'
    <2> SUFFICES ASSUME NEW q \in Requests, req'[q].pc = "create_insert",
                        NEW n, n = req'[q].net
                 PROVE  /\ ~Exists(n)' /\ ~OnNode(n)'
                        /\ \A s \in Requests \ {q} : req'[s].net # n
      BY DEF DrawnIsPrivate, Exists, OnNode
    <2>1. q # r /\ req'[q] = req[q]
      BY <1>1 DEF MayBecome
    <2>2. /\ ~Exists(n) /\ ~OnNode(n)
          /\ \A s \in Requests \ {q} : req[s].net # n
      BY <2>1 DEF IInv, DrawnIsPrivate
    <2>3. n \in BridgeIds
      BY <2>1 DEF IInv, LocalsSet, LocalsOk, Steps, DrawSteps
    <2>4. ~Exists(n)' /\ ~OnNode(n)'
      BY <2>1, <2>2, <2>3, <1>4 DEF KeepsOwners
    <2>5. \A s \in Requests \ {q} : req'[s].net # n
      BY <1>1, <2>1, <2>2, <2>3 DEF MayBecome
    <2>6. QED
      BY <2>4, <2>5
  <1>7. AddAuthorised'
    <2> SUFFICES ASSUME NEW q \in Requests, req'[q].pc \in AddSteps,
                        NEW n, n = req'[q].net, NEW c, c = req'[q].ct, Exists(n)'
                 PROVE  Authorised(n, c)'
      BY DEF AddAuthorised, Exists, Authorised, CanManage, HoldsNetworks
    <2>1. n \in BridgeIds
      BY <1>3 DEF LocalsSet, LocalsOk, AddSteps, Steps, DrawSteps
    <2>2. Exists(n)
      BY <2>1 DEF KeepsOwners
    <2>3. Authorised(n, c)
      BY <1>1, <2>2 DEF IInv, AddAuthorised, MayBecome
    <2>4. QED
      BY <2>1, <2>3, AuthorisedKept
  <1>8. TenantIsolation'
    <2> SUFFICES ASSUME NEW p \in Containers \X Slots,
                        NEW n, n = nics'[p].bridge, n # None, Exists(n)'
                 PROVE  Authorised(n, p[1])'
      BY DEF TenantIsolation, Exists, Authorised, CanManage, HoldsNetworks
    <2>1. n \in BridgeIds
      BY <1>2 DEF TypeOK, Nic, NoNic
    <2>2. Exists(n)
      BY <2>1 DEF KeepsOwners
    <2>3. Authorised(n, p[1])
      BY <2>2 DEF IInv, AddAuthorised, TenantIsolation, Authorised, TouchesOnly
    <2>4. QED
      BY <2>1, <2>3, AuthorisedKept
  <1>9. QED
    BY <1>2, <1>3, <1>5, <1>6, <1>7, <1>8 DEF IInv

\* The handler of request r moves as above.
Moves(r) == \E k : req' = [req EXCEPT ![r] = k] /\ MayBecome(req[r], k)

LEMMA MovePreserves ==
    ASSUME IInv, NEW r \in Requests,
           TablesTyped, KeepsOwners, TouchesOnly(req[r]), Moves(r)
    PROVE  IInv'
  BY ShapePreserves DEF Moves

LEMMA ReturnMoves ==
    ASSUME IInv, NEW r \in Requests, Return(r)
    PROVE  Moves(r)
  <1>1. Idle \in Handler
    BY DEF Idle, Handler, Steps
  <1>2. LocalsOk(Idle)
    BY DEF Idle, LocalsOk, Steps, CreateSteps, AddSteps, RemoveSteps
  <1>3. MayBecome(req[r], Idle)
    BY <1>1, <1>2, Absent DEF MayBecome, Idle, AddSteps
  <1>4. QED
    BY <1>3 DEF Moves, Return

\* Going on to step s is such a move when the locals s needs are set.
LEMMA GotoMoves ==
    ASSUME IInv, NEW r \in Requests, NEW s \in Steps, Goto(r, s),
           s # "create_insert", s \in AddSteps => req[r].pc \in AddSteps,
           LocalsOk([req[r] EXCEPT !.pc = s])
    PROVE  Moves(r)
  <1> DEFINE k == [req[r] EXCEPT !.pc = s]
  <1>1. req[r] \in Handler
    BY DEF IInv, TypeOK
  <1>2. /\ k \in Handler
        /\ k.pc = s /\ k.net = req[r].net /\ k.ct = req[r].ct
    BY <1>1 DEF Handler
  <1>3. MayBecome(req[r], k)
    BY <1>2 DEF MayBecome
  <1>4. req' = [req EXCEPT ![r] = k]
    BY DEF IInv, TypeOK, Goto
  <1>5. QED
    BY <1>3, <1>4 DEF Moves

\* The locals step s needs are those the handler has set before it.
LEMMA LocalsCarryOver ==
    ASSUME IInv, NEW r \in Requests, NEW s \in Steps,
           \/ req[r].pc \in CreateSteps /\ s \in CreateSteps
                 /\ (s \in DrawSteps \/ req[r].pc \notin DrawSteps)
           \/ s \in {"delete_mark", "delete_bridge", "delete_apply", "delete_row"}
                 /\ req[r].pc \notin DrawSteps \cup {"idle"}
           \/ req[r].pc = "add_members" /\ s = "add_ip"
           \/ req[r].pc \in AddSteps /\ s \in {"add_fail", "add_activate"}
           \/ req[r].pc \in {"remove_mark", "remove_detach"}
                 /\ s \in {"remove_detach", "remove_fail", "remove_row"}
    PROVE  LocalsOk([req[r] EXCEPT !.pc = s])
  <1> DEFINE k == [req[r] EXCEPT !.pc = s]
  <1>1. req[r] \in Handler
    BY DEF IInv, TypeOK
  <1>2. /\ req[r].pc \in Steps
        /\ k.pc = s /\ k.user = req[r].user /\ k.cidr = req[r].cidr /\ k.name = req[r].name
        /\ k.net = req[r].net /\ k.ct = req[r].ct /\ k.ip = req[r].ip /\ k.slot = req[r].slot
    BY <1>1 DEF Handler
  <1>3. LocalsOk(req[r])
    BY DEF IInv, LocalsSet
  <1> HIDE DEF k
  <1>4. LocalsOk(k)
    BY <1>2, <1>3 DEF LocalsOk, Steps, CreateSteps, DrawSteps, AddSteps, RemoveSteps
  <1>5. QED
    BY <1>4 DEF k

LEMMA UntouchedTables ==
    ASSUME IInv, NEW h, UNCHANGED <<tables, node>>
    PROVE  TablesTyped /\ KeepsOwners /\ TouchesOnly(h)
  BY DEF IInv, TypeOK, tables, node, TablesTyped, KeepsOwners, TouchesOnly, Exists

\* Changing the state, or the name, of a row keeps the table typed and owned.
LEMMA NetworkUpdate ==
    ASSUME TypeOK, NEW n,
           \/ \E st \in NetworkStates : SetNetworkState(n, st)
           \/ \E nm \in Names : networks' = IF Exists(n) THEN [networks EXCEPT ![n].name = nm]
                                                         ELSE networks
    PROVE  networks' \in [BridgeIds -> NetworkRow \cup {NoNetwork}] /\ KeepsOwners
  <1>1. CASE ~Exists(n)
    BY <1>1 DEF TypeOK, SetNetworkState, KeepsOwners, Exists
  <1>2. CASE n \notin BridgeIds
    BY <1>2 DEF TypeOK, SetNetworkState, KeepsOwners, Exists
  <1>3. CASE Exists(n) /\ n \in BridgeIds
    <2>1. networks[n] \in NetworkRow
      BY <1>3 DEF TypeOK, Exists
    <2>2. PICK row \in NetworkRow : /\ row.owner = networks[n].owner
                                    /\ networks' = [networks EXCEPT ![n] = row]
      <3>1. ASSUME NEW st \in NetworkStates, SetNetworkState(n, st)
            PROVE  /\ [networks[n] EXCEPT !.state = st] \in NetworkRow
                   /\ [networks[n] EXCEPT !.state = st].owner = networks[n].owner
                   /\ networks' = [networks EXCEPT ![n] = [networks[n] EXCEPT !.state = st]]
        BY <1>3, <2>1, <3>1 DEF SetNetworkState, NetworkRow, TypeOK
      <3>2. ASSUME NEW nm \in Names, networks' = [networks EXCEPT ![n].name = nm]
            PROVE  /\ [networks[n] EXCEPT !.name = nm] \in NetworkRow
                   /\ [networks[n] EXCEPT !.name = nm].owner = networks[n].owner
                   /\ networks' = [networks EXCEPT ![n] = [networks[n] EXCEPT !.name = nm]]
        BY <1>3, <2>1, <3>2 DEF NetworkRow, TypeOK
      <3>3. QED
        BY <1>3, <3>1, <3>2
    <2>3. QED
      BY <1>3, <2>2 DEF TypeOK, KeepsOwners, Exists
  <1>4. QED
    BY <1>1, <1>2, <1>3

\* Changing the state of membership rows keeps the table typed.
LEMMA MemberUpdate ==
    ASSUME TypeOK, NEW id, NEW st \in MembershipStates, SetMemberState(id, st)
    PROVE  members' \subseteq MemberRow
  <1>1. ASSUME NEW m \in members
        PROVE  [m EXCEPT !.state = st] \in MemberRow
    <2>1. m \in MemberRow
      BY DEF TypeOK
    <2>2. QED
      BY <2>1 DEF MemberRow
  <1>2. QED
    BY <1>1 DEF TypeOK, SetMemberState

LEMMA ApplyPreserves ==
    ASSUME IInv, NEW r \in Requests, NEW s \in Steps, ApplyConfig(r, s),
           s # "create_insert", s \notin AddSteps, LocalsOk([req[r] EXCEPT !.pc = s])
    PROVE  IInv'
  <1>1. Moves(r)
    <2>1. CASE Goto(r, s)
      BY <2>1, GotoMoves
    <2>2. CASE Return(r)
      BY <2>2, ReturnMoves
    <2>3. QED
      BY <2>1, <2>2 DEF ApplyConfig
  <1>2. TablesTyped /\ KeepsOwners /\ TouchesOnly(req[r])
    BY DEF IInv, TypeOK, ApplyConfig, tables, TablesTyped, KeepsOwners, TouchesOnly, Exists
  <1>3. QED
    BY <1>1, <1>2, MovePreserves

-----------------------------------------------------------------------------

\* create_network, up to and including the draw of the bridge id.
LEMMA CreateChecksPreserve ==
    ASSUME IInv, NEW r \in Requests,
           CreateBegin(r) \/ CreateUserLimit(r) \/ CreateOverlap(r)
    PROVE  IInv'
  <1>1. TablesTyped /\ KeepsOwners /\ TouchesOnly(req[r])
    BY UntouchedTables DEF CreateBegin, CreateUserLimit, CreateOverlap
  <1>2. CASE CreateBegin(r)
    <2>1. PICK u \in Users, c \in Cidrs, nm \in Names :
             req' = [req EXCEPT ![r] = [Idle EXCEPT !.pc = "create_user_limit",
                                         !.user = u, !.cidr = c, !.name = nm]]
      BY <1>2 DEF CreateBegin, Begin
    <2> DEFINE k == [Idle EXCEPT !.pc = "create_user_limit",
                                 !.user = u, !.cidr = c, !.name = nm]
    <2>2. MayBecome(req[r], k)
      BY Absent DEF MayBecome, Handler, Idle, LocalsOk, Steps, CreateSteps, DrawSteps,
             AddSteps, RemoveSteps
    <2>3. QED
      BY <1>1, <2>1, <2>2, MovePreserves DEF Moves
  <1>3. CASE CreateUserLimit(r)
    <2>1. Goto(r, "create_overlap") => LocalsOk([req[r] EXCEPT !.pc = "create_overlap"])
      BY <1>3, LocalsCarryOver DEF CreateUserLimit, At, Steps, CreateSteps, DrawSteps
    <2>2. Moves(r)
      BY <1>3, <2>1, GotoMoves, ReturnMoves DEF CreateUserLimit, Steps, AddSteps
    <2>3. QED
      BY <1>1, <2>2, MovePreserves
  <1>4. CASE CreateOverlap(r)
    <2>1. Goto(r, "create_draw") => LocalsOk([req[r] EXCEPT !.pc = "create_draw"])
      BY <1>4, LocalsCarryOver DEF CreateOverlap, At, Steps, CreateSteps, DrawSteps
    <2>2. Moves(r)
      BY <1>4, <2>1, GotoMoves, ReturnMoves DEF CreateOverlap, Steps, AddSteps
    <2>3. QED
      BY <1>1, <2>2, MovePreserves
  <1>5. QED
    BY <1>2, <1>3, <1>4

\* nextval: the id drawn exceeds every id in use.
LEMMA CreateDrawPreserves ==
    ASSUME IInv, NEW r \in Requests, CreateDraw(r)
    PROVE  IInv'
  <1> DEFINE k == [req[r] EXCEPT !.pc = "create_insert", !.net = seq + 1]
  <1>1. seq \in Nat /\ seq + 1 \in BridgeIds /\ seq' = seq + 1
    BY PNAssumption DEF IInv, TypeOK, CreateDraw, NextBridge, BridgeIds
  <1>2. req[r] \in Handler /\ LocalsOk(req[r]) /\ req[r].pc = "create_draw"
    BY DEF IInv, TypeOK, LocalsSet, CreateDraw, At
  <1>3. /\ k \in Handler
        /\ k.pc = "create_insert" /\ k.net = seq + 1
        /\ k.user = req[r].user /\ k.cidr = req[r].cidr /\ k.name = req[r].name
    <2>1. k \in Handler
      BY <1>1, <1>2 DEF Handler, Steps
    <2>2. /\ k.pc = "create_insert" /\ k.net = seq + 1
          /\ k.user = req[r].user /\ k.cidr = req[r].cidr /\ k.name = req[r].name
      BY <1>2 DEF Handler
    <2>3. QED
      BY <2>1, <2>2
  <1>4. LocalsOk(k)
    <2> HIDE DEF k
    <2>1. QED
      BY <1>1, <1>2, <1>3 DEF LocalsOk, CreateSteps, AddSteps, RemoveSteps, DrawSteps
  <1>5. /\ req \in [Requests -> Handler]
        /\ req' = [req EXCEPT ![r] = k]
    BY DEF IInv, TypeOK, CreateDraw, NextBridge
  <1> HIDE DEF k
  <1>6. \A q \in Requests : req'[q] = IF q = r THEN k ELSE req[q]
    BY <1>5
  <1>7. UNCHANGED <<networks, members, conf, live, nics>>
    BY DEF CreateDraw, node
  <1>8. TypeOK'
    BY <1>1, <1>3, <1>5, <1>7, PNAssumption DEF IInv, TypeOK, BridgeIds
  <1>9. LocalsSet'
    <2>1. \A q \in Requests : LocalsOk(req'[q])
      BY <1>4, <1>6 DEF IInv, LocalsSet
    <2>2. QED
      BY <2>1 DEF LocalsSet, LocalsOk
  <1>10. /\ \A n \in BridgeIds : Exists(n)' <=> Exists(n)
         /\ \A n \in BridgeIds : OnNode(n)' <=> OnNode(n)
    BY <1>7 DEF Exists, OnNode
  <1>11. DrawnBefore'
    BY <1>1, <1>3, <1>6, <1>10 DEF IInv, DrawnBefore, BridgeIds
  <1>12. DrawnIsPrivate'
    <2> SUFFICES ASSUME NEW q \in Requests, req'[q].pc = "create_insert",
                        NEW n, n = req'[q].net
                 PROVE  /\ ~Exists(n)' /\ ~OnNode(n)'
                        /\ \A s \in Requests \ {q} : req'[s].net # n
      BY DEF DrawnIsPrivate, Exists, OnNode
    <2>1. CASE q = r
      <3>1. n = seq + 1
        BY <1>3, <1>6, <2>1
      <3>2. ~Exists(n) /\ ~OnNode(n)
        BY <1>1, <3>1 DEF IInv, DrawnBefore
      <3>3. \A s \in Requests \ {r} : req[s].net # n
        BY <1>1, <3>1 DEF IInv, DrawnBefore
      <3>4. QED
        BY <1>1, <1>6, <1>10, <2>1, <3>1, <3>2, <3>3
    <2>2. CASE q # r
      <3>1. /\ req[q].pc = "create_insert" /\ n = req[q].net
            /\ ~Exists(n) /\ ~OnNode(n)
            /\ \A s \in Requests \ {q} : req[s].net # n
        BY <1>6, <2>2 DEF IInv, DrawnIsPrivate
      <3>2. n \in BridgeIds
        BY <3>1 DEF IInv, LocalsSet, LocalsOk, Steps, DrawSteps
      <3>3. n # seq + 1
        BY <1>1, <3>1, <3>2 DEF IInv, DrawnBefore, BridgeIds
      <3>4. QED
        BY <1>3, <1>6, <1>10, <3>1, <3>2, <3>3
    <2>3. QED
      BY <2>1, <2>2
  <1>13. AddAuthorised'
    BY <1>3, <1>6, <1>7
       DEF IInv, AddAuthorised, Authorised, CanManage, Exists, AddSteps
  <1>14. TenantIsolation'
    BY <1>7 DEF IInv, TenantIsolation, CanManage, Exists
  <1>15. QED
    BY <1>8, <1>9, <1>11, <1>12, <1>13, <1>14 DEF IInv

\* The INSERT: nothing was known of the new row's id, on the node or elsewhere.
LEMMA CreateInsertPreserves ==
    ASSUME IInv, NEW r \in Requests, CreateInsert(r)
    PROVE  IInv'
  <1> DEFINE b == req[r].net
             row == [owner |-> req[r].user, cidr |-> req[r].cidr,
                     name |-> req[r].name, state |-> "creating"]
             k == [req[r] EXCEPT !.pc = "create_post"]
  <1>1. req[r] \in Handler /\ LocalsOk(req[r]) /\ req[r].pc = "create_insert"
    BY DEF IInv, TypeOK, LocalsSet, CreateInsert, At
  <1>2. b \in BridgeIds /\ row \in NetworkRow
    BY <1>1 DEF LocalsOk, CreateSteps, Steps, DrawSteps, NetworkRow, NetworkStates
  <1>3. /\ ~Exists(b) /\ ~OnNode(b)
        /\ \A q \in Requests \ {r} : req[q].net # b
    BY <1>1 DEF IInv, DrawnIsPrivate
  <1>4. /\ networks' = [networks EXCEPT ![b] = row]
        /\ req' = [req EXCEPT ![r] = k]
        /\ UNCHANGED <<members, seq, conf, live, nics>>
    BY <1>3 DEF CreateInsert, Goto, node, IInv, TypeOK
  <1>5. k \in Handler /\ k.pc = "create_post" /\ k.net = b
    BY <1>1 DEF Handler, Steps
  <1>6. LocalsOk(k)
    BY <1>1, LocalsCarryOver DEF Steps, CreateSteps, DrawSteps
  <1> HIDE DEF k, row
  <1>7. \A q \in Requests : req'[q] = IF q = r THEN k ELSE req[q]
    BY <1>4 DEF IInv, TypeOK
  <1>8. TypeOK'
    BY <1>2, <1>4, <1>5 DEF IInv, TypeOK
  <1>9. LocalsSet'
    <2>1. \A q \in Requests : LocalsOk(req'[q])
      BY <1>6, <1>7 DEF IInv, LocalsSet
    <2>2. QED
      BY <2>1 DEF LocalsSet, LocalsOk
  <1>10. /\ \A n \in BridgeIds : n # b => networks'[n] = networks[n]
         /\ \A n \in BridgeIds : OnNode(n)' <=> OnNode(n)
    BY <1>4 DEF IInv, TypeOK, OnNode
  <1>11. DrawnBefore'
    BY <1>2, <1>4, <1>5, <1>7, <1>10 DEF IInv, DrawnBefore, Exists
  <1>12. DrawnIsPrivate'
    <2> SUFFICES ASSUME NEW q \in Requests, req'[q].pc = "create_insert",
                        NEW n, n = req'[q].net
                 PROVE  /\ ~Exists(n)' /\ ~OnNode(n)'
                        /\ \A s \in Requests \ {q} : req'[s].net # n
      BY DEF DrawnIsPrivate, Exists, OnNode
    <2>1. q # r /\ req'[q] = req[q]
      BY <1>5, <1>7
    <2>2. /\ ~Exists(n) /\ ~OnNode(n)
          /\ \A s \in Requests \ {q} : req[s].net # n
      BY <2>1 DEF IInv, DrawnIsPrivate
    <2>3. n \in BridgeIds
      BY <2>1 DEF IInv, LocalsSet, LocalsOk, Steps, DrawSteps
    <2>4. QED
      BY <1>3, <1>5, <1>7, <1>10, <2>1, <2>2, <2>3 DEF Exists
  <1>13. AddAuthorised'
    <2> SUFFICES ASSUME NEW q \in Requests, req'[q].pc \in AddSteps,
                        NEW n, n = req'[q].net, NEW c, c = req'[q].ct, Exists(n)'
                 PROVE  Authorised(n, c)'
      BY DEF AddAuthorised, Exists, Authorised, CanManage, HoldsNetworks
    <2>1. q # r /\ req'[q] = req[q] /\ n # b
      BY <1>3, <1>5, <1>7 DEF AddSteps
    <2>2. n \in BridgeIds
      BY <2>1 DEF IInv, LocalsSet, LocalsOk, AddSteps, Steps, DrawSteps
    <2>3. networks'[n] = networks[n]
      BY <1>10, <2>1, <2>2
    <2>4. Authorised(n, c)
      BY <2>1, <2>3 DEF IInv, AddAuthorised, Exists
    <2>5. QED
      BY <2>3, <2>4 DEF Authorised, CanManage, HoldsNetworks
  <1>14. TenantIsolation'
    <2> SUFFICES ASSUME NEW p \in Containers \X Slots,
                        NEW n, n = nics[p].bridge, n # None, Exists(n)'
                 PROVE  Authorised(n, p[1])'
      BY <1>4 DEF TenantIsolation, Exists, Authorised, CanManage, HoldsNetworks
    <2>1. n \in BridgeIds /\ n # b
      BY <1>3 DEF IInv, TypeOK, Nic, NoNic, OnNode
    <2>2. networks'[n] = networks[n]
      BY <1>10, <2>1
    <2>3. Authorised(n, p[1])
      BY <2>2 DEF IInv, TenantIsolation, Exists, Authorised
    <2>4. QED
      BY <2>2, <2>3 DEF Authorised, CanManage, HoldsNetworks
  <1>15. QED
    BY <1>8, <1>9, <1>11, <1>12, <1>13, <1>14 DEF IInv

\* create_network, from the creation of the bridge on.
LEMMA CreateBridgePreserves ==
    ASSUME IInv, NEW r \in Requests,
           CreatePost(r) \/ CreateApply(r) \/ CreateActivate(r)
    PROVE  IInv'
  <1>1. CASE CreatePost(r)
    <2>1. Goto(r, "create_apply") => LocalsOk([req[r] EXCEPT !.pc = "create_apply"])
      BY <1>1, LocalsCarryOver DEF CreatePost, At, Steps, CreateSteps, DrawSteps
    <2>2. Moves(r)
      BY <1>1, <2>1, GotoMoves, ReturnMoves DEF CreatePost, Steps, AddSteps
    <2>3. req[r].net \in BridgeIds
      BY <1>1 DEF CreatePost, At, IInv, LocalsSet, LocalsOk, Steps, DrawSteps
    <2>4. TablesTyped /\ KeepsOwners /\ TouchesOnly(req[r])
      BY <1>1, <2>3 DEF CreatePost, At, tables, IInv, TypeOK, TablesTyped, KeepsOwners,
             TouchesOnly, Exists
    <2>5. QED
      BY <2>2, <2>4, MovePreserves
  <1>2. CASE CreateApply(r)
    <2>1. LocalsOk([req[r] EXCEPT !.pc = "create_activate"])
      BY <1>2, LocalsCarryOver DEF CreateApply, At, Steps, CreateSteps, DrawSteps
    <2>2. QED
      BY <1>2, <2>1, ApplyPreserves DEF CreateApply, Steps, AddSteps
  <1>3. CASE CreateActivate(r)
    <2>1. TablesTyped /\ KeepsOwners
      BY <1>3, NetworkUpdate DEF CreateActivate, NetworkStates, node, IInv, TypeOK, TablesTyped
    <2>2. TouchesOnly(req[r]) /\ Moves(r)
      BY <1>3, ReturnMoves DEF CreateActivate, node, TouchesOnly
    <2>3. QED
      BY <2>1, <2>2, MovePreserves
  <1>4. QED
    BY <1>1, <1>2, <1>3

LEMMA RenamePreserves ==
    ASSUME IInv, NEW r \in Requests, Rename(r)
    PROVE  IInv'
  <1>1. CASE RenameBegin(r)
    <2>1. PICK u \in Users, n \in BridgeIds, nm \in Names :
             /\ Exists(n)
             /\ req' = [req EXCEPT ![r] = [Idle EXCEPT !.pc = "rename_update",
                                           !.user = u, !.net = n, !.name = nm]]
      BY <1>1 DEF RenameBegin, Begin
    <2> DEFINE k == [Idle EXCEPT !.pc = "rename_update", !.user = u, !.net = n, !.name = nm]
    <2>2. MayBecome(req[r], k)
      BY <2>1 DEF MayBecome, Handler, Idle, LocalsOk, Steps, CreateSteps, DrawSteps,
             AddSteps, RemoveSteps
    <2>3. TablesTyped /\ KeepsOwners /\ TouchesOnly(req[r])
      BY <1>1, UntouchedTables DEF RenameBegin
    <2>4. QED
      BY <2>1, <2>2, <2>3, MovePreserves DEF Moves
  <1>2. CASE RenameUpdate(r)
    <2>1. req[r].name \in Names
      BY <1>2 DEF RenameUpdate, At, IInv, LocalsSet, LocalsOk
    <2>2. TablesTyped /\ KeepsOwners
      BY <1>2, <2>1, NetworkUpdate DEF RenameUpdate, node, IInv, TypeOK, TablesTyped
    <2>3. TouchesOnly(req[r]) /\ Moves(r)
      BY <1>2, ReturnMoves DEF RenameUpdate, node, TouchesOnly
    <2>4. QED
      BY <2>2, <2>3, MovePreserves
  <1>3. QED
    BY <1>1, <1>2 DEF Rename

LEMMA DeletePreserves ==
    ASSUME IInv, NEW r \in Requests, Delete(r)
    PROVE  IInv'
  <1>1. CASE DeleteBegin(r)
    <2>1. PICK u \in Users, n \in BridgeIds :
             /\ Exists(n)
             /\ req' = [req EXCEPT ![r] = [Idle EXCEPT !.pc = "delete_members",
                                           !.user = u, !.net = n]]
      BY <1>1 DEF DeleteBegin, Begin
    <2> DEFINE k == [Idle EXCEPT !.pc = "delete_members", !.user = u, !.net = n]
    <2>2. MayBecome(req[r], k)
      BY <2>1 DEF MayBecome, Handler, Idle, LocalsOk, Steps, CreateSteps, DrawSteps,
             AddSteps, RemoveSteps
    <2>3. TablesTyped /\ KeepsOwners /\ TouchesOnly(req[r])
      BY <1>1, UntouchedTables DEF DeleteBegin
    <2>4. QED
      BY <2>1, <2>2, <2>3, MovePreserves DEF Moves
  <1>2. CASE DeleteMembers(r)
    <2>1. LocalsOk([req[r] EXCEPT !.pc = "delete_mark"])
      BY <1>2, LocalsCarryOver DEF DeleteMembers, At, Steps, DrawSteps
    <2>2. Moves(r)
      BY <1>2, <2>1, GotoMoves, ReturnMoves DEF DeleteMembers, Steps, AddSteps
    <2>3. TablesTyped /\ KeepsOwners /\ TouchesOnly(req[r])
      BY <1>2, UntouchedTables DEF DeleteMembers
    <2>4. QED
      BY <2>2, <2>3, MovePreserves
  <1>3. CASE DeleteMark(r)
    <2>1. LocalsOk([req[r] EXCEPT !.pc = "delete_bridge"])
      BY <1>3, LocalsCarryOver DEF DeleteMark, At, Steps, DrawSteps
    <2>2. Moves(r)
      BY <1>3, <2>1, GotoMoves DEF DeleteMark, Steps, AddSteps
    <2>3. TablesTyped /\ KeepsOwners
      BY <1>3, NetworkUpdate DEF DeleteMark, NetworkStates, node, IInv, TypeOK, TablesTyped
    <2>4. TouchesOnly(req[r])
      BY <1>3 DEF DeleteMark, node, TouchesOnly
    <2>5. QED
      BY <2>2, <2>3, <2>4, MovePreserves
  <1>4. CASE DeleteBridge(r)
    <2>1. LocalsOk([req[r] EXCEPT !.pc = "delete_apply"])
      BY <1>4, LocalsCarryOver DEF DeleteBridge, At, Steps, DrawSteps
    <2>2. Moves(r)
      BY <1>4, <2>1, GotoMoves, ReturnMoves DEF DeleteBridge, Steps, AddSteps
    <2>3. TablesTyped /\ KeepsOwners /\ TouchesOnly(req[r])
      BY <1>4 DEF DeleteBridge, tables, IInv, TypeOK, TablesTyped, KeepsOwners,
             TouchesOnly, Exists
    <2>4. QED
      BY <2>2, <2>3, MovePreserves
  <1>5. CASE DeleteApply(r)
    <2>1. LocalsOk([req[r] EXCEPT !.pc = "delete_row"])
      BY <1>5, LocalsCarryOver DEF DeleteApply, At, Steps, DrawSteps
    <2>2. QED
      BY <1>5, <2>1, ApplyPreserves DEF DeleteApply, Steps, AddSteps
  <1>6. CASE DeleteRow(r)
    <2>1. TablesTyped /\ KeepsOwners /\ TouchesOnly(req[r])
      BY <1>6 DEF DeleteRow, node, IInv, TypeOK, TablesTyped, KeepsOwners,
             TouchesOnly, Exists
    <2>2. Moves(r)
      BY <1>6, ReturnMoves DEF DeleteRow
    <2>3. QED
      BY <2>1, <2>2, MovePreserves
  <1>7. QED
    BY <1>1, <1>2, <1>3, <1>4, <1>5, <1>6 DEF Delete

\* add_member, up to the choice of the NIC slot.
LEMMA AddChecksPreserve ==
    ASSUME IInv, NEW r \in Requests,
           AddBegin(r) \/ AddMembers(r) \/ AddIp(r) \/ AddSlot(r)
    PROVE  IInv'
  <1>1. TablesTyped /\ KeepsOwners /\ TouchesOnly(req[r])
    BY UntouchedTables DEF AddBegin, AddMembers, AddIp, AddSlot
  <1>2. req[r] \in Handler /\ LocalsOk(req[r])
    BY DEF IInv, TypeOK, LocalsSet
  <1>3. CASE AddBegin(r)
    <2>1. PICK u \in Users, n \in BridgeIds, c \in Containers :
             /\ Exists(n) /\ CanManage(u, n) /\ HoldsNetworks(u, c)
             /\ req' = [req EXCEPT ![r] = [Idle EXCEPT !.pc = "add_members",
                                           !.user = u, !.net = n, !.ct = c]]
      BY <1>3 DEF AddBegin, Begin
    <2> DEFINE k == [Idle EXCEPT !.pc = "add_members", !.user = u, !.net = n, !.ct = c]
    <2>2. Authorised(n, c)
      BY <2>1 DEF Authorised
    <2>3. MayBecome(req[r], k)
      BY <2>1, <2>2 DEF MayBecome, Handler, Idle, LocalsOk, Steps, CreateSteps, DrawSteps,
             AddSteps, RemoveSteps
    <2>4. QED
      BY <1>1, <2>1, <2>3, MovePreserves DEF Moves
  <1>4. CASE AddMembers(r)
    <2>1. LocalsOk([req[r] EXCEPT !.pc = "add_ip"])
      BY <1>4, LocalsCarryOver DEF AddMembers, At, Steps
    <2>2. Moves(r)
      BY <1>4, <2>1, GotoMoves, ReturnMoves DEF AddMembers, At, Steps, AddSteps
    <2>3. QED
      BY <1>1, <2>2, MovePreserves
  <1>5. CASE AddIp(r)
    <2>1. CASE Return(r)
      BY <1>1, <2>1, ReturnMoves, MovePreserves
    <2>2. CASE ~Return(r)
      <3>1. PICK ip \in Hosts : req' = [req EXCEPT ![r].pc = "add_slot", ![r].ip = ip]
        BY <1>5, <2>2 DEF AddIp, Lowest, FreeHosts
      <3> DEFINE k == [req[r] EXCEPT !.pc = "add_slot", !.ip = ip]
      <3>2. req[r].pc = "add_members" \/ req[r].pc = "add_ip"
        BY <1>5 DEF AddIp, At
      <3>3. /\ k \in Handler /\ req' = [req EXCEPT ![r] = k]
            /\ k.pc = "add_slot" /\ k.ip = ip /\ k.net = req[r].net /\ k.ct = req[r].ct
        <4>1. req' = [req EXCEPT ![r] = k]
          BY <3>1 DEF IInv, TypeOK
        <4>2. k \in Handler
          BY <1>2 DEF Handler, Steps
        <4>3. k.pc = "add_slot" /\ k.ip = ip /\ k.net = req[r].net /\ k.ct = req[r].ct
          BY <1>2 DEF Handler
        <4>4. QED
          BY <4>1, <4>2, <4>3
      <3> HIDE DEF k
      <3>4. LocalsOk(k)
        BY <1>2, <3>2, <3>3 DEF LocalsOk, Steps, CreateSteps, DrawSteps, AddSteps, RemoveSteps
      <3>5. MayBecome(req[r], k)
        BY <3>2, <3>3, <3>4 DEF MayBecome, AddSteps
      <3>6. QED
        BY <1>1, <3>3, <3>5, MovePreserves DEF Moves
    <2>3. QED
      BY <2>1, <2>2
  <1>6. CASE AddSlot(r)
    <2>1. CASE Return(r)
      BY <1>1, <2>1, ReturnMoves, MovePreserves
    <2>2. CASE ~Return(r)
      <3>1. PICK slot \in Slots : req' = [req EXCEPT ![r].pc = "add_insert", ![r].slot = slot]
        BY <1>6, <2>2 DEF AddSlot, Lowest, FreeSlots
      <3> DEFINE k == [req[r] EXCEPT !.pc = "add_insert", !.slot = slot]
      <3>2. req[r].pc = "add_slot"
        BY <1>6 DEF AddSlot, At
      <3>3. /\ k \in Handler /\ req' = [req EXCEPT ![r] = k]
            /\ k.pc = "add_insert" /\ k.ip = req[r].ip /\ k.slot = slot
            /\ k.net = req[r].net /\ k.ct = req[r].ct
        <4>1. req' = [req EXCEPT ![r] = k]
          BY <3>1 DEF IInv, TypeOK
        <4>2. k \in Handler
          BY <1>2 DEF Handler, Steps
        <4>3. /\ k.pc = "add_insert" /\ k.ip = req[r].ip /\ k.slot = slot
              /\ k.net = req[r].net /\ k.ct = req[r].ct
          BY <1>2 DEF Handler
        <4>4. QED
          BY <4>1, <4>2, <4>3
      <3> HIDE DEF k
      <3>4. LocalsOk(k)
        BY <1>2, <3>2, <3>3 DEF LocalsOk, Steps, CreateSteps, DrawSteps, AddSteps, RemoveSteps
      <3>5. MayBecome(req[r], k)
        BY <3>2, <3>3, <3>4 DEF MayBecome, AddSteps
      <3>6. QED
        BY <1>1, <3>3, <3>5, MovePreserves DEF Moves
    <2>3. QED
      BY <2>1, <2>2
  <1>7. QED
    BY <1>3, <1>4, <1>5, <1>6

\* add_member: the INSERT, the call to Proxmox and the final UPDATE.
LEMMA AddEffectsPreserve ==
    ASSUME IInv, NEW r \in Requests,
           AddInsert(r) \/ AddAttach(r) \/ AddFail(r) \/ AddActivate(r)
    PROVE  IInv'
  <1>1. req[r] \in Handler /\ LocalsOk(req[r])
    BY DEF IInv, TypeOK, LocalsSet
  <1>2. CASE AddInsert(r)
    <2>1. /\ req[r].pc = "add_insert" /\ req[r].net \in BridgeIds
          /\ req[r].ct \in Containers /\ req[r].ip \in Hosts /\ req[r].slot \in Slots
      BY <1>1, <1>2 DEF AddInsert, At, LocalsOk, Steps, AddSteps, DrawSteps
    <2>2. members' \subseteq MemberRow
      BY <1>2, <2>1 DEF AddInsert, NewMember, Lowest, FreshIds, MemberRow,
             MembershipStates, IInv, TypeOK
    <2>3. TablesTyped /\ KeepsOwners /\ TouchesOnly(req[r])
      BY <1>2, <2>2 DEF AddInsert, node, IInv, TypeOK, TablesTyped, KeepsOwners,
             TouchesOnly, Exists
    <2>4. CASE Return(r)
      BY <2>3, <2>4, ReturnMoves, MovePreserves
    <2>5. CASE ~Return(r)
      <3>1. PICK id \in MemberIds : req' = [req EXCEPT ![r].pc = "add_attach", ![r].mem = id]
        BY <1>2, <2>5 DEF AddInsert, Lowest, FreshIds
      <3> DEFINE k == [req[r] EXCEPT !.pc = "add_attach", !.mem = id]
      <3>2. /\ k \in Handler /\ req' = [req EXCEPT ![r] = k]
            /\ k.pc = "add_attach" /\ k.ip = req[r].ip /\ k.slot = req[r].slot
            /\ k.net = req[r].net /\ k.ct = req[r].ct
        <4>1. req' = [req EXCEPT ![r] = k]
          BY <3>1 DEF IInv, TypeOK
        <4>2. k \in Handler
          BY <1>1 DEF Handler, Steps
        <4>3. /\ k.pc = "add_attach" /\ k.ip = req[r].ip /\ k.slot = req[r].slot
              /\ k.net = req[r].net /\ k.ct = req[r].ct
          BY <1>1 DEF Handler
        <4>4. QED
          BY <4>1, <4>2, <4>3
      <3> HIDE DEF k
      <3>3. LocalsOk(k)
        BY <2>1, <3>2 DEF LocalsOk, CreateSteps
      <3>4. MayBecome(req[r], k)
        BY <2>1, <3>2, <3>3 DEF MayBecome, AddSteps
      <3>5. QED
        BY <2>3, <3>2, <3>4, MovePreserves DEF Moves
    <2>6. QED
      BY <2>4, <2>5
  <1>3. CASE AddAttach(r)
    <2>1. /\ req[r].pc = "add_attach" /\ req[r].net \in BridgeIds
          /\ req[r].ct \in Containers /\ req[r].ip \in Hosts /\ req[r].slot \in Slots
      BY <1>1, <1>3 DEF AddAttach, At, LocalsOk, Steps, AddSteps, DrawSteps
    <2>2. /\ LocalsOk([req[r] EXCEPT !.pc = "add_activate"])
          /\ LocalsOk([req[r] EXCEPT !.pc = "add_fail"])
      BY <2>1, LocalsCarryOver DEF Steps, AddSteps
    <2>3. Moves(r)
      BY <1>3, <2>1, <2>2, GotoMoves DEF AddAttach, Steps, AddSteps
    <2>4. nics' \in [Containers \X Slots -> Nic \cup {NoNic}] /\ TouchesOnly(req[r])
      <3>1. CASE UNCHANGED nics
        BY <1>3, <3>1 DEF AddAttach, IInv, TypeOK, TouchesOnly
      <3>2. CASE AttachNic(req[r].ct, req[r].slot, req[r].net, req[r].ip)
        <4> DEFINE nic == [bridge |-> req[r].net, ip |-> req[r].ip]
                   at == <<req[r].ct, req[r].slot>>
        <4>1. nic \in Nic /\ at \in Containers \X Slots /\ at[1] = req[r].ct
          BY <2>1 DEF Nic
        <4>2. nics' = [nics EXCEPT ![at] = nic] /\ nic.bridge = req[r].net
          BY <3>2 DEF AttachNic
        <4> HIDE DEF nic, at
        <4>3. \A p \in Containers \X Slots : nics'[p] = IF p = at THEN nic ELSE nics[p]
          BY <4>1, <4>2 DEF IInv, TypeOK
        <4>4. QED
          BY <1>3, <2>1, <4>1, <4>2, <4>3 DEF AddAttach, IInv, TypeOK, TouchesOnly, AddSteps
      <3>3. QED
        BY <1>3, <3>1, <3>2 DEF AddAttach
    <2>5. TablesTyped /\ KeepsOwners
      BY <1>3, <2>4 DEF AddAttach, tables, IInv, TypeOK, TablesTyped, KeepsOwners, Exists
    <2>6. QED
      BY <2>3, <2>4, <2>5, MovePreserves
  <1>4. CASE AddFail(r) \/ AddActivate(r)
    <2>1. members' \subseteq MemberRow
      BY <1>4, MemberUpdate DEF AddFail, AddActivate, MembershipStates, IInv
    <2>2. TablesTyped /\ KeepsOwners /\ TouchesOnly(req[r])
      BY <1>4, <2>1 DEF AddFail, AddActivate, node, IInv, TypeOK, TablesTyped,
             KeepsOwners, TouchesOnly, Exists
    <2>3. Moves(r)
      BY <1>4, ReturnMoves DEF AddFail, AddActivate
    <2>4. QED
      BY <2>2, <2>3, MovePreserves
  <1>5. QED
    BY <1>2, <1>3, <1>4

LEMMA RemovePreserves ==
    ASSUME IInv, NEW r \in Requests, Remove(r)
    PROVE  IInv'
  <1>1. req[r] \in Handler /\ LocalsOk(req[r])
    BY DEF IInv, TypeOK, LocalsSet
  <1>2. CASE RemoveBegin(r)
    <2>1. PICK u \in Users, n \in BridgeIds, c \in Containers :
             /\ Exists(n)
             /\ req' = [req EXCEPT ![r] = [Idle EXCEPT !.pc = "remove_find",
                                           !.user = u, !.net = n, !.ct = c]]
      BY <1>2 DEF RemoveBegin, Begin
    <2> DEFINE k == [Idle EXCEPT !.pc = "remove_find", !.user = u, !.net = n, !.ct = c]
    <2>2. MayBecome(req[r], k)
      BY <2>1 DEF MayBecome, Handler, Idle, LocalsOk, Steps, CreateSteps, DrawSteps,
             AddSteps, RemoveSteps
    <2>3. TablesTyped /\ KeepsOwners /\ TouchesOnly(req[r])
      BY <1>2, UntouchedTables DEF RemoveBegin
    <2>4. QED
      BY <2>1, <2>2, <2>3, MovePreserves DEF Moves
  <1>3. CASE RemoveFind(r)
    <2>1. TablesTyped /\ KeepsOwners /\ TouchesOnly(req[r])
      BY <1>3, UntouchedTables DEF RemoveFind
    <2>2. CASE Return(r)
      BY <2>1, <2>2, ReturnMoves, MovePreserves
    <2>3. CASE ~Return(r)
      <3>1. PICK m \in members : req' = [req EXCEPT ![r].pc = "remove_mark",
                                         ![r].mem = m.id, ![r].slot = m.slot]
        BY <1>3, <2>3 DEF RemoveFind, MembersOf
      <3>2. m.id \in MemberIds /\ m.slot \in Slots /\ req[r].pc = "remove_find"
        BY <1>3 DEF IInv, TypeOK, MemberRow, RemoveFind, At
      <3> DEFINE k == [req[r] EXCEPT !.pc = "remove_mark", !.mem = m.id, !.slot = m.slot]
      <3>3. /\ k \in Handler /\ req' = [req EXCEPT ![r] = k]
            /\ k.pc = "remove_mark" /\ k.slot = m.slot
            /\ k.net = req[r].net /\ k.ct = req[r].ct
        <4>1. req' = [req EXCEPT ![r] = k]
          BY <3>1 DEF IInv, TypeOK
        <4>2. k \in Handler
          BY <1>1, <3>2 DEF Handler, Steps
        <4>3. /\ k.pc = "remove_mark" /\ k.slot = m.slot
              /\ k.net = req[r].net /\ k.ct = req[r].ct
          BY <1>1 DEF Handler
        <4>4. QED
          BY <4>1, <4>2, <4>3
      <3> HIDE DEF k
      <3>4. LocalsOk(k)
        BY <1>1, <3>2, <3>3 DEF LocalsOk, Steps, CreateSteps, DrawSteps, AddSteps, RemoveSteps
      <3>5. MayBecome(req[r], k)
        BY <3>3, <3>4 DEF MayBecome, AddSteps
      <3>6. QED
        BY <2>1, <3>3, <3>5, MovePreserves DEF Moves
    <2>4. QED
      BY <2>2, <2>3
  <1>4. CASE RemoveMark(r)
    <2>1. LocalsOk([req[r] EXCEPT !.pc = "remove_detach"])
      BY <1>4, LocalsCarryOver DEF RemoveMark, At, Steps
    <2>2. Moves(r)
      BY <1>4, <2>1, GotoMoves DEF RemoveMark, Steps, AddSteps
    <2>3. members' \subseteq MemberRow
      BY <1>4, MemberUpdate DEF RemoveMark, MembershipStates, IInv
    <2>4. TablesTyped /\ KeepsOwners /\ TouchesOnly(req[r])
      BY <1>4, <2>3 DEF RemoveMark, node, IInv, TypeOK, TablesTyped, KeepsOwners,
             TouchesOnly, Exists
    <2>5. QED
      BY <2>2, <2>4, MovePreserves
  <1>5. CASE RemoveDetach(r)
    <2>1. /\ LocalsOk([req[r] EXCEPT !.pc = "remove_row"])
          /\ LocalsOk([req[r] EXCEPT !.pc = "remove_fail"])
      BY <1>5, LocalsCarryOver DEF RemoveDetach, At, Steps
    <2>2. Moves(r)
      BY <1>5, <2>1, GotoMoves DEF RemoveDetach, Steps, AddSteps
    <2>3. /\ nics' \in [Containers \X Slots -> Nic \cup {NoNic}]
          /\ \A p \in Containers \X Slots : nics'[p] = nics[p] \/ nics'[p] = NoNic
      BY <1>5 DEF RemoveDetach, DetachNic, IInv, TypeOK
    <2>4. TablesTyped /\ KeepsOwners /\ TouchesOnly(req[r])
      BY <1>5, <2>3 DEF RemoveDetach, tables, IInv, TypeOK, TablesTyped, KeepsOwners,
             TouchesOnly, Exists, NoNic
    <2>5. QED
      BY <2>2, <2>4, MovePreserves
  <1>6. CASE RemoveFail(r) \/ RemoveRow(r)
    <2>1. members' \subseteq MemberRow
      BY <1>6, MemberUpdate DEF RemoveFail, RemoveRow, MembershipStates, IInv, TypeOK
    <2>2. TablesTyped /\ KeepsOwners /\ TouchesOnly(req[r])
      BY <1>6, <2>1 DEF RemoveFail, RemoveRow, node, IInv, TypeOK, TablesTyped,
             KeepsOwners, TouchesOnly, Exists
    <2>3. Moves(r)
      BY <1>6, ReturnMoves DEF RemoveFail, RemoveRow
    <2>4. QED
      BY <2>2, <2>3, MovePreserves
  <1>7. QED
    BY <1>2, <1>3, <1>4, <1>5, <1>6 DEF Remove

-----------------------------------------------------------------------------
LEMMA AbortPreserves ==
    ASSUME IInv, NEW r \in Requests, Abort(r)
    PROVE  IInv'
  <1>1. Moves(r)
    BY ReturnMoves DEF Abort
  <1>2. TablesTyped /\ KeepsOwners /\ TouchesOnly(req[r])
    BY UntouchedTables DEF Abort
  <1>3. QED
    BY <1>1, <1>2, MovePreserves

LEMMA StepPreserves ==
    ASSUME IInv, Next
    PROVE  IInv'
  <1>1. PICK r \in Requests :
           Create(r) \/ Rename(r) \/ Delete(r) \/ Add(r) \/ Remove(r) \/ Abort(r)
    BY DEF Next
  <1>2. CASE Create(r)
    BY <1>2, CreateChecksPreserve, CreateDrawPreserves, CreateInsertPreserves,
       CreateBridgePreserves DEF Create
  <1>3. CASE Rename(r)
    BY <1>3, RenamePreserves
  <1>4. CASE Delete(r)
    BY <1>4, DeletePreserves
  <1>5. CASE Add(r)
    BY <1>5, AddChecksPreserve, AddEffectsPreserve DEF Add
  <1>6. CASE Remove(r)
    BY <1>6, RemovePreserves
  <1>7. CASE Abort(r)
    BY <1>7, AbortPreserves
  <1>8. QED
    BY <1>1, <1>2, <1>3, <1>4, <1>5, <1>6, <1>7

LEMMA StutterPreserves ==
    ASSUME IInv, UNCHANGED vars
    PROVE  IInv'
  <1>1. TypeOK'
    BY DEF IInv, vars, TypeOK
  <1>2. LocalsSet' /\ DrawnBefore' /\ DrawnIsPrivate'
    BY DEF IInv, vars, LocalsSet, LocalsOk, DrawnBefore, DrawnIsPrivate, OnNode, Exists
  <1>3. AddAuthorised' /\ TenantIsolation'
    BY DEF IInv, vars, AddAuthorised, TenantIsolation, Authorised, Exists, CanManage,
           HoldsNetworks
  <1>4. QED
    BY <1>1, <1>2, <1>3 DEF IInv

\* The established networks occupy the first bridge ids, and nothing else exists.
LEMMA InitEstablishes == Init => IInv
  <1> SUFFICES ASSUME Init PROVE IInv
    OBVIOUS
  <1>1. /\ Len(Established) \in Nat /\ Len(Established) <= MaxBridge /\ MaxBridge \in Nat
        /\ DOMAIN Established = 1..Len(Established)
        /\ \A n \in DOMAIN Established :
              Established[n] \in [owner : Users, cidr : Cidrs, name : Names]
    <2> DEFINE E == [owner : Users, cidr : Cidrs, name : Names]
    <2>1. Established \in Seq(E) /\ Len(Established) <= MaxBridge /\ MaxBridge \in Nat
      BY PNAssumption
    <2> HIDE DEF E
    <2>2. /\ Len(Established) \in Nat /\ DOMAIN Established = 1..Len(Established)
          /\ \A n \in DOMAIN Established : Established[n] \in E
      BY <2>1
    <2>3. QED
      BY <2>1, <2>2 DEF E
  <1>2. DOMAIN Established \subseteq BridgeIds
    BY <1>1 DEF BridgeIds
  <1>3. networks \in [BridgeIds -> NetworkRow \cup {NoNetwork}]
    <2>1. ASSUME NEW n \in BridgeIds
          PROVE  networks[n] \in NetworkRow \cup {NoNetwork}
      <3>1. CASE n \in DOMAIN Established
        <4>1. /\ Established[n].owner \in Users /\ Established[n].cidr \in Cidrs
              /\ Established[n].name \in Names
          BY <1>1, <3>1
        <4>2. networks[n] = [owner |-> Established[n].owner, cidr |-> Established[n].cidr,
                             name |-> Established[n].name, state |-> "active"]
          BY <3>1 DEF Init
        <4>3. QED
          BY <4>1, <4>2 DEF NetworkRow, NetworkStates
      <3>2. CASE n \notin DOMAIN Established
        BY <3>2 DEF Init
      <3>3. QED
        BY <3>1, <3>2
    <2>2. QED
      BY <2>1 DEF Init
  <1>4. TypeOK
    <2>1. Idle \in Handler
      BY DEF Idle, Handler, Steps
    <2>2. QED
      BY <1>1, <1>2, <1>3, <2>1 DEF Init, TypeOK
  <1>5. LocalsSet
    BY DEF Init, LocalsSet, LocalsOk, Idle, Steps, CreateSteps, AddSteps, RemoveSteps
  <1>6. /\ \A n \in BridgeIds : Exists(n) \/ OnNode(n) => n \in DOMAIN Established
        /\ \A p \in Containers \X Slots : nics[p].bridge = None
    BY Absent DEF Init, Exists, OnNode, NoNic
  <1>7. DrawnBefore
    BY <1>1, <1>6, Absent DEF Init, DrawnBefore, Idle
  <1>8. DrawnIsPrivate /\ AddAuthorised
    BY DEF Init, DrawnIsPrivate, AddAuthorised, Idle, AddSteps
  <1>9. TenantIsolation
    BY <1>6 DEF TenantIsolation
  <1>10. QED
    BY <1>4, <1>5, <1>7, <1>8, <1>9 DEF IInv

-----------------------------------------------------------------------------
\* However many requests interleave, fail or stop half-way, the bookkeeping
\* behind the theorems below holds: drawn ids are private to the request that
\* drew them until its row is inserted, and whoever is adding a member to an
\* existing network is allowed to.
THEOREM InductiveInvariant == Spec => []IInv
  <1>1. Init => IInv
    BY InitEstablishes
  <1>2. IInv /\ [Next]_vars => IInv'
    BY StepPreserves, StutterPreserves
  <1>3. QED
    BY <1>1, <1>2, PTL DEF Spec

\* Rows, NICs and handlers' locals are always well formed.
THEOREM TypeCorrect == Spec => []TypeOK
  <1>1. IInv => TypeOK
    BY DEF IInv
  <1>2. QED
    BY <1>1, InductiveInvariant, PTL

\* NetworkService never wires a container to an existing network unless some
\* caller may manage that network and holds PERM_NETWORKS on that container,
\* for any number of tenants, networks and concurrent requests.
THEOREM TenantsApart == Spec => []TenantIsolation
  <1>1. IInv => TenantIsolation
    BY DEF IInv
  <1>2. QED
    BY <1>1, InductiveInvariant, PTL

\* bridge_id_seq never yields the name of a bridge that some earlier network
\* has left behind: a row appears under an id with no bridge and no NIC.
THEOREM BridgeIdsFresh == Spec => FreshBridge
  <1> DEFINE Appears(n) == ~Exists(n) /\ Exists(n)'
             Clean(n) == /\ n \notin conf \cup live
                         /\ \A p \in Containers \X Slots : nics[p].bridge # n
  <1>1. ASSUME IInv, Next, NEW n \in BridgeIds, Appears(n)
        PROVE  Clean(n)
    <2>1. PICK r \in Requests :
             Create(r) \/ Rename(r) \/ Delete(r) \/ Add(r) \/ Remove(r) \/ Abort(r)
      BY <1>1 DEF Next
    <2>2. networks' # networks
      BY <1>1 DEF Exists
    <2>3. ~KeepsOwners
      BY <1>1 DEF KeepsOwners
    <2>4. ~\E m, s : SetNetworkState(m, s)
      BY <1>1 DEF IInv, TypeOK, SetNetworkState, Exists
    <2>5. ~Rename(r) /\ ~Add(r) /\ ~Remove(r) /\ ~Abort(r)
      BY <1>1, <2>2 DEF Rename, RenameBegin, RenameUpdate, Add, AddBegin, AddMembers,
         AddIp, AddSlot, AddInsert, AddAttach, AddFail, AddActivate, Remove, RemoveBegin,
         RemoveFind, RemoveMark, RemoveDetach, RemoveFail, RemoveRow, Abort, tables,
         Exists, IInv, TypeOK
    <2>6. ~Delete(r)
      BY <1>1, <2>2, <2>4 DEF Delete, DeleteBegin, DeleteMembers, DeleteMark, DeleteBridge,
         DeleteApply, DeleteRow, ApplyConfig, tables, Exists, IInv, TypeOK
    <2>7. CreateInsert(r)
      BY <2>1, <2>2, <2>4, <2>5, <2>6 DEF Create, CreateBegin, CreateUserLimit,
         CreateOverlap, CreateDraw, CreatePost, CreateApply, CreateActivate, ApplyConfig,
         tables
    <2>8. n = req[r].net /\ req[r].pc = "create_insert"
      BY <1>1, <2>7 DEF CreateInsert, At, Exists, IInv, TypeOK
    <2>9. ~OnNode(n)
      BY <1>1, <2>8 DEF IInv, DrawnIsPrivate
    <2>10. QED
      BY <2>9 DEF OnNode
  <1>2. IInv /\ [Next]_vars => [\A n \in BridgeIds : Appears(n) => Clean(n)]_vars
    BY <1>1
  <1>3. QED
    BY <1>2, InductiveInvariant, PTL DEF Spec, FreshBridge

-----------------------------------------------------------------------------
(***************************************************************************)
(* Which handler a step moves, and where to.                               *)
(***************************************************************************)
Moved(r) == Create(r) \/ Rename(r) \/ Delete(r) \/ Add(r) \/ Remove(r) \/ Abort(r)
MovesOnly(r) == \A q \in Requests \ {r} : req'[q] = req[q]

\* The handler stands where its action has taken it.
LEMMA Stands ==
    ASSUME IInv, NEW r \in Requests
    PROVE  /\ Return(r) => MovesOnly(r) /\ req'[r] = Idle
           /\ \A s : Goto(r, s) => MovesOnly(r) /\ req'[r].pc = s /\ req'[r].net = req[r].net
  <1>1. req[r] \in Handler /\ req \in [Requests -> Handler]
    BY DEF IInv, TypeOK
  <1>2. \A s : Goto(r, s) => MovesOnly(r) /\ req'[r].pc = s /\ req'[r].net = req[r].net
    BY <1>1 DEF Goto, MovesOnly, Handler
  <1> QED BY <1>1, <1>2 DEF Return, MovesOnly

LEMMA NetKnown ==
    ASSUME IInv, NEW r \in Requests,
           req[r].pc \in BuildSteps \cup AddSteps \cup RemoveSteps \cup DeleteSteps
                            \cup {"create_insert", "rename_update"}
    PROVE  req[r].net \in BridgeIds
  BY DEF IInv, LocalsSet, LocalsOk, BuildSteps, AddSteps, RemoveSteps, DeleteSteps, DrawSteps, Steps

LEMMA OtherMoves ==
    ASSUME IInv, NEW r \in Requests, Rename(r) \/ Delete(r) \/ Add(r) \/ Remove(r) \/ Abort(r)
    PROVE  MovesOnly(r) /\ req'[r].pc \notin CreateSteps
  <1>1. req \in [Requests -> Handler]
    BY DEF IInv, TypeOK
  <1>2. Return(r) => MovesOnly(r) /\ req'[r].pc \notin CreateSteps
    BY Stands DEF Idle, CreateSteps
  <1>3. \A s : Goto(r, s) /\ s \notin CreateSteps => MovesOnly(r) /\ req'[r].pc \notin CreateSteps
    BY Stands
  <1>4. CASE Rename(r) \/ Abort(r)
    <2>1. CASE RenameBegin(r)
      BY <1>1, <2>1 DEF RenameBegin, Begin, MovesOnly, Idle, CreateSteps
    <2> QED BY <1>2, <1>4, <2>1 DEF Rename, RenameUpdate, Abort
  <1>5. CASE Delete(r)
    <2>1. CASE DeleteBegin(r)
      BY <1>1, <2>1 DEF DeleteBegin, Begin, MovesOnly, Idle, CreateSteps
    <2>2. CASE ~DeleteBegin(r)
      <3>1. \/ Return(r)
            \/ \E s \in {"delete_mark", "delete_bridge", "delete_apply", "delete_row"} : Goto(r, s)
        BY <1>5, <2>2 DEF Delete, DeleteMembers, DeleteMark, DeleteBridge, DeleteApply,
           DeleteRow, ApplyConfig
      <3> QED BY <1>2, <1>3, <3>1 DEF CreateSteps
    <2> QED BY <2>1, <2>2
  <1>6. CASE Add(r)
    <2>1. CASE AddBegin(r)
      BY <1>1, <2>1 DEF AddBegin, Begin, MovesOnly, Idle, CreateSteps
    <2>2. CASE AddIp(r)
      BY <1>1, <1>2, <2>2 DEF AddIp, MovesOnly, Handler, CreateSteps
    <2>3. CASE AddSlot(r)
      BY <1>1, <1>2, <2>3 DEF AddSlot, MovesOnly, Handler, CreateSteps
    <2>4. CASE AddInsert(r)
      <3>1. PICK id : \/ Return(r)
                      \/ req' = [req EXCEPT ![r].pc = "add_attach", ![r].mem = id]
        BY <2>4 DEF AddInsert
      <3> QED BY <1>1, <1>2, <3>1 DEF MovesOnly, Handler, CreateSteps
    <2>5. CASE AddMembers(r) \/ AddAttach(r) \/ AddFail(r) \/ AddActivate(r)
      <3>1. Return(r) \/ \E s \in {"add_ip", "add_fail", "add_activate"} : Goto(r, s)
        BY <2>5 DEF AddMembers, AddAttach, AddFail, AddActivate
      <3> QED BY <1>2, <1>3, <3>1 DEF CreateSteps
    <2> QED BY <1>6, <2>1, <2>2, <2>3, <2>4, <2>5 DEF Add
  <1>7. CASE Remove(r)
    <2>1. CASE RemoveBegin(r)
      BY <1>1, <2>1 DEF RemoveBegin, Begin, MovesOnly, Idle, CreateSteps
    <2>2. CASE RemoveFind(r)
      <3>1. PICK id, slot :
               \/ Return(r)
               \/ req' = [req EXCEPT ![r].pc = "remove_mark", ![r].mem = id, ![r].slot = slot]
        BY <2>2 DEF RemoveFind
      <3> QED BY <1>1, <1>2, <3>1 DEF MovesOnly, Handler, CreateSteps
    <2>3. CASE RemoveMark(r) \/ RemoveDetach(r) \/ RemoveFail(r) \/ RemoveRow(r)
      <3>1. Return(r) \/ \E s \in {"remove_detach", "remove_row", "remove_fail"} : Goto(r, s)
        BY <2>3 DEF RemoveMark, RemoveDetach, RemoveFail, RemoveRow
      <3> QED BY <1>2, <1>3, <3>1 DEF CreateSteps
    <2> QED BY <1>7, <2>1, <2>2, <2>3 DEF Remove
  <1> QED BY <1>4, <1>5, <1>6, <1>7

\* The awaits of create_network, in order.
CreatePath == {<<"create_user_limit", "create_overlap">>, <<"create_overlap", "create_draw">>,
               <<"create_draw", "create_insert">>, <<"create_insert", "create_post">>,
               <<"create_post", "create_apply">>, <<"create_apply", "create_activate">>}

LEMMA CreateMoves ==
    ASSUME IInv, NEW r \in Requests, Create(r)
    PROVE  /\ MovesOnly(r)
           /\ \/ req'[r].pc = "idle"
              \/ CreateBegin(r) /\ req[r].pc = "idle" /\ req'[r].pc = "create_user_limit"
              \/ /\ <<req[r].pc, req'[r].pc>> \in CreatePath
                 /\ req'[r].user = req[r].user /\ req'[r].cidr = req[r].cidr
                 /\ req[r].pc \notin DrawSteps => req'[r].net = req[r].net
  <1>1. req \in [Requests -> Handler]
    BY DEF IInv, TypeOK
  <1>2. Return(r) => MovesOnly(r) /\ req'[r].pc = "idle"
    BY Stands DEF Idle
  <1>3. ASSUME NEW s, Goto(r, s)
        PROVE  /\ MovesOnly(r) /\ req'[r].pc = s /\ req'[r].user = req[r].user
               /\ req'[r].cidr = req[r].cidr /\ req'[r].net = req[r].net
    BY <1>1, <1>3 DEF Goto, MovesOnly, Handler
  <1>4. CASE CreateBegin(r)
    BY <1>1, <1>4 DEF CreateBegin, Begin, At, MovesOnly, Idle
  <1>5. CASE CreateDraw(r)
    <2>1. /\ req[r].pc = "create_draw" /\ req'[r].pc = "create_insert" /\ MovesOnly(r)
          /\ req'[r].user = req[r].user /\ req'[r].cidr = req[r].cidr
      BY <1>1, <1>5 DEF CreateDraw, At, MovesOnly, Handler
    <2> QED BY <2>1 DEF CreatePath, DrawSteps
  <1>6. CASE ~CreateBegin(r) /\ ~CreateDraw(r)
    <2>1. Return(r) \/ \E s : Goto(r, s) /\ <<req[r].pc, s>> \in CreatePath
      BY <1>6 DEF Create, CreateUserLimit, CreateOverlap, CreateInsert, CreatePost,
         CreateApply, CreateActivate, ApplyConfig, At, CreatePath
    <2> QED BY <1>2, <1>3, <2>1
  <1> QED BY <1>4, <1>5, <1>6

\* The steps that change the table of networks, and those that change the node.
LEMMA NetworkWriters ==
    ASSUME NEW r \in Requests, Moved(r), networks' # networks
    PROVE  \/ CreateInsert(r) \/ CreateActivate(r) \/ RenameUpdate(r)
           \/ DeleteMark(r) \/ DeleteRow(r)
  <1>1. ~Add(r) /\ ~Remove(r) /\ ~Abort(r)
    BY DEF Add, AddBegin, AddMembers, AddIp, AddSlot, AddInsert, AddAttach, AddFail,
       AddActivate, Remove, RemoveBegin, RemoveFind, RemoveMark, RemoveDetach, RemoveFail,
       RemoveRow, Abort, tables
  <1>2. ~CreateBegin(r) /\ ~CreateUserLimit(r) /\ ~CreateOverlap(r) /\ ~CreateDraw(r)
        /\ ~CreatePost(r) /\ ~CreateApply(r) /\ ~RenameBegin(r)
    BY DEF CreateBegin, CreateUserLimit, CreateOverlap, CreateDraw, CreatePost,
       CreateApply, ApplyConfig, RenameBegin, tables
  <1>3. ~DeleteBegin(r) /\ ~DeleteMembers(r) /\ ~DeleteBridge(r) /\ ~DeleteApply(r)
    BY DEF DeleteBegin, DeleteMembers, DeleteBridge, DeleteApply, ApplyConfig, tables
  <1> QED BY <1>1, <1>2, <1>3 DEF Moved, Create, Rename, Delete

LEMMA NodeWriters ==
    ASSUME NEW r \in Requests, Moved(r)
    PROVE  \/ UNCHANGED node
           \/ CreatePost(r) \/ CreateApply(r) \/ DeleteBridge(r) \/ DeleteApply(r)
           \/ AddAttach(r) \/ RemoveDetach(r)
  <1>1. CASE Create(r)
    BY <1>1 DEF Create, CreateBegin, CreateUserLimit, CreateOverlap, CreateDraw,
       CreateInsert, CreateActivate, node
  <1>2. CASE Rename(r)
    BY <1>2 DEF Rename, RenameBegin, RenameUpdate, node
  <1>3. CASE Delete(r)
    BY <1>3 DEF Delete, DeleteBegin, DeleteMembers, DeleteMark, DeleteRow, node
  <1>4. CASE Add(r)
    BY <1>4 DEF Add, AddBegin, AddMembers, AddIp, AddSlot, AddInsert, AddFail,
       AddActivate, node
  <1>5. CASE Remove(r)
    BY <1>5 DEF Remove, RemoveBegin, RemoveFind, RemoveMark, RemoveFail, RemoveRow, node
  <1>6. CASE Abort(r)
    BY <1>6 DEF Abort, node
  <1> QED BY <1>1, <1>2, <1>3, <1>4, <1>5, <1>6 DEF Moved

\* No network appears, and none changes its owner or its range.
KeepsRanges ==
    \A n \in BridgeIds : Exists(n)' => /\ Exists(n)
                                       /\ networks'[n].owner = networks[n].owner
                                       /\ networks'[n].cidr = networks[n].cidr

LEMMA RangesKept ==
    ASSUME IInv, NEW r \in Requests, Moved(r), ~CreateInsert(r)
    PROVE  KeepsRanges
  <1>1. networks \in [BridgeIds -> NetworkRow \cup {NoNetwork}]
    BY DEF IInv, TypeOK
  <1>2. CASE networks' = networks
    BY <1>2 DEF KeepsRanges, Exists
  <1>3. ASSUME req[r].net \in BridgeIds, NEW st, SetNetworkState(req[r].net, st)
        PROVE  KeepsRanges
    <2>1. CASE Exists(req[r].net)
      <3>1. networks[req[r].net] \in NetworkRow
        BY <1>1, <1>3, <2>1 DEF Exists
      <3> QED BY <1>1, <1>3, <2>1, <3>1 DEF SetNetworkState, KeepsRanges, Exists, NetworkRow
    <2>2. CASE ~Exists(req[r].net)
      BY <1>3, <2>2 DEF SetNetworkState, KeepsRanges, Exists
    <2> QED BY <2>1, <2>2
  <1>4. CASE CreateActivate(r) \/ DeleteMark(r)
    BY <1>3, <1>4, NetKnown DEF CreateActivate, DeleteMark, At, BuildSteps, DeleteSteps
  <1>5. CASE RenameUpdate(r)
    <2>1. CASE networks' = networks
      BY <2>1 DEF KeepsRanges, Exists
    <2>2. CASE /\ Exists(req[r].net)
               /\ networks' = [networks EXCEPT ![req[r].net].name = req[r].name]
      <3>1. req[r].net \in BridgeIds
        BY <1>5, NetKnown DEF RenameUpdate, At
      <3>2. networks[req[r].net] \in NetworkRow
        BY <1>1, <2>2, <3>1 DEF Exists
      <3> QED BY <1>1, <2>2, <3>2 DEF KeepsRanges, Exists, NetworkRow
    <2> QED BY <1>5, <2>1, <2>2 DEF RenameUpdate
  <1>6. CASE DeleteRow(r)
    <2>1. \A n \in BridgeIds : networks'[n] \in {networks[n], NoNetwork}
      BY <1>1, <1>6 DEF DeleteRow
    <2> QED BY <2>1 DEF KeepsRanges, Exists
  <1> QED BY <1>2, <1>4, <1>5, <1>6, NetworkWriters

-----------------------------------------------------------------------------
(***************************************************************************)
(* The limits.  A creation that has passed a limit check weighs as much as *)
(* the network it may still add, and neither a creation nor a deletion     *)
(* makes the networks counted and these creations more together.           *)
(***************************************************************************)
LEMMA SetsFinite ==
    /\ IsFiniteSet(BridgeIds) /\ IsFiniteSet(Requests)
    /\ Cardinality(Requests) \in Nat /\ Cardinality(Requests) > 0
    /\ MaxPerUser \in Nat /\ MaxPerNode \in Nat
  <1>1. IsFiniteSet(BridgeIds)
    BY PNAssumption, FS_Interval DEF BridgeIds
  <1>2. Cardinality(Requests) \in Nat /\ Cardinality(Requests) # 0
    BY RequestsAssumption, FS_CardinalityType, FS_EmptySet
  <1> QED BY <1>1, <1>2, RequestsAssumption, PNAssumption

\* A and P weigh together what A2 and P2 weigh, or more.
LEMMA Weigh ==
    ASSUME NEW A, NEW A2, NEW P, NEW P2, NEW n, NEW r,
           IsFiniteSet(A), IsFiniteSet(P),
           \/ A2 \subseteq A /\ P2 \subseteq P
           \/ A2 \subseteq A \cup {n} /\ r \in P /\ P2 \subseteq P \ {r}
           \/ A2 \subseteq A \ {n} /\ n \in A /\ P2 \subseteq P \cup {r}
    PROVE  /\ Cardinality(A) \in Nat /\ Cardinality(P) \in Nat
           /\ Cardinality(A2) \in Nat /\ Cardinality(P2) \in Nat
           /\ Cardinality(A2) + Cardinality(P2) <= Cardinality(A) + Cardinality(P)
  <1>1. Cardinality(A) \in Nat /\ Cardinality(P) \in Nat
    BY FS_CardinalityType
  <1>2. ASSUME NEW B, NEW Q, IsFiniteSet(B), IsFiniteSet(Q), A2 \subseteq B, P2 \subseteq Q,
               Cardinality(B) + Cardinality(Q) <= Cardinality(A) + Cardinality(P)
        PROVE  /\ Cardinality(A2) \in Nat /\ Cardinality(P2) \in Nat
               /\ Cardinality(A2) + Cardinality(P2) <= Cardinality(A) + Cardinality(P)
    <2>1. /\ Cardinality(A2) <= Cardinality(B) /\ IsFiniteSet(A2)
          /\ Cardinality(P2) <= Cardinality(Q) /\ IsFiniteSet(P2)
      BY <1>2, FS_Subset
    <2>2. /\ Cardinality(A2) \in Nat /\ Cardinality(P2) \in Nat
          /\ Cardinality(B) \in Nat /\ Cardinality(Q) \in Nat
      BY <1>2, <2>1, FS_CardinalityType
    <2> QED BY <1>1, <1>2, <2>1, <2>2
  <1>3. CASE A2 \subseteq A /\ P2 \subseteq P
    BY <1>1, <1>2, <1>3
  <1>4. CASE A2 \subseteq A \cup {n} /\ r \in P /\ P2 \subseteq P \ {r}
    <2>1. /\ IsFiniteSet(A \cup {n}) /\ Cardinality(A \cup {n}) <= Cardinality(A) + 1
          /\ Cardinality(A \cup {n}) \in Nat
      BY <1>1, FS_AddElement
    <2>2. IsFiniteSet(P \ {r}) /\ Cardinality(P \ {r}) = Cardinality(P) - 1
      BY <1>4, FS_RemoveElement
    <2>3. Cardinality(A \cup {n}) + Cardinality(P \ {r}) <= Cardinality(A) + Cardinality(P)
      BY <1>1, <2>1, <2>2
    <2> QED BY <1>1, <1>2, <1>4, <2>1, <2>2, <2>3
  <1>5. CASE A2 \subseteq A \ {n} /\ n \in A /\ P2 \subseteq P \cup {r}
    <2>1. /\ IsFiniteSet(P \cup {r}) /\ Cardinality(P \cup {r}) <= Cardinality(P) + 1
          /\ Cardinality(P \cup {r}) \in Nat
      BY <1>1, FS_AddElement
    <2>2. IsFiniteSet(A \ {n}) /\ Cardinality(A \ {n}) = Cardinality(A) - 1
      BY <1>5, FS_RemoveElement
    <2>3. Cardinality(A \ {n}) + Cardinality(P \cup {r}) <= Cardinality(A) + Cardinality(P)
      BY <1>1, <2>1, <2>2
    <2> QED BY <1>1, <1>2, <1>5, <2>1, <2>2, <2>3
  <1> QED BY <1>3, <1>4, <1>5

\* Creations keep to their networks: only the INSERT names one for a user.
LEMMA BuildersStep ==
    ASSUME IInv, BuildersOwn, NEW r \in Requests, Moved(r)
    PROVE  BuildersOwn'
  <1>1. MovesOnly(r)
    BY OtherMoves, CreateMoves DEF Moved
  <1>2. ASSUME req'[r].pc \in BuildSteps
        PROVE  /\ req'[r].net = req[r].net /\ req'[r].user = req[r].user
               /\ req[r].pc \in {"create_insert"} \cup BuildSteps
    <2>1. <<req[r].pc, req'[r].pc>> \in CreatePath
      BY <1>2, OtherMoves, CreateMoves DEF Moved, BuildSteps, CreateSteps
    <2>2. req[r].pc \in {"create_insert"} \cup BuildSteps
      BY <1>2, <2>1 DEF CreatePath, BuildSteps
    <2> QED BY <1>2, <2>2, OtherMoves, CreateMoves DEF Moved, BuildSteps, CreateSteps, DrawSteps
  <1>3. \A q \in Requests \ {r} : req[r].pc = "create_insert" => req[q].net # req[r].net
    BY DEF IInv, DrawnIsPrivate
  <1>4. \A p, q \in Requests :
            (/\ req'[p].pc \in BuildSteps /\ req'[q].pc \in BuildSteps
             /\ req'[p].net = req'[q].net) => p = q
    BY <1>1, <1>2, <1>3 DEF BuildersOwn, MovesOnly
  <1>5. ASSUME NEW q \in Requests, req'[q].pc \in BuildSteps, Exists(req[q].net)'
        PROVE  networks'[req'[q].net].owner = req'[q].user
    <2>1. req'[q].net = req[q].net /\ req'[q].user = req[q].user
      BY <1>1, <1>2, <1>5 DEF MovesOnly
    <2>2. PICK n \in BridgeIds : n = req[q].net
      <3>1. req[q].pc \in {"create_insert"} \cup BuildSteps
        BY <1>1, <1>2, <1>5 DEF MovesOnly
      <3> QED BY <3>1, NetKnown
    <2>3. CASE req[q].pc \in BuildSteps /\ ~CreateInsert(r)
      BY <1>5, <2>1, <2>2, <2>3, RangesKept DEF KeepsRanges, BuildersOwn, Exists
    <2>4. CASE req[q].pc \in BuildSteps /\ CreateInsert(r)
      <3>1. n # req[r].net
        <4>1. req[r].pc = "create_insert"
          BY <2>4 DEF CreateInsert, At
        <4> QED BY <1>3, <2>2, <2>4, <4>1 DEF BuildSteps
      <3>2. networks'[n] = networks[n]
        BY <2>2, <2>4, <3>1 DEF CreateInsert, IInv, TypeOK
      <3> QED BY <1>5, <2>1, <2>2, <2>4, <3>2 DEF BuildersOwn, Exists
    <2>5. CASE q = r /\ req[r].pc = "create_insert"
      <3>1. CreateInsert(r)
        BY <1>5, <2>5, OtherMoves DEF Moved, BuildSteps, CreateSteps, Create, CreateBegin, Begin,
           CreateUserLimit, CreateOverlap, CreateDraw, CreatePost, CreateApply, CreateActivate, At
      <3>2. ~Return(r)
        BY <1>5, <2>5, Stands DEF Idle, BuildSteps
      <3> QED BY <2>1, <2>2, <2>5, <3>1, <3>2 DEF CreateInsert, IInv, TypeOK
    <2> QED BY <1>1, <1>2, <1>5, <2>3, <2>4, <2>5 DEF MovesOnly
  <1>6. \A q \in Requests : req'[q].pc \in BuildSteps /\ Exists(req[q].net)'
                               => networks'[req'[q].net].owner = req'[q].user
    BY <1>5
  <1> QED BY <1>4, <1>6 DEF BuildersOwn

\* Network n becomes counted, by the creation that has named it.
LEMMA CountGrows ==
    ASSUME IInv, NEW r \in Requests, MovesOnly(r), NEW n \in BridgeIds,
           NEW U, NEW S \in {UserChecked, NodeChecked},
           \A j \in BridgeIds \ {n} : networks'[j] = networks[j],
           Counted(n)', networks'[n].owner = req[r].user,
           Counted(n) => networks'[n].owner = networks[n].owner,
           \/ req[r].pc = "create_insert"
           \/ req[r].pc \in BuildSteps /\ req[r].net = n,
           req'[r].pc \notin S,
           req'[r].pc \in BuildSteps => req'[r].net = n
    PROVE  \/ CountedIn(U)' \subseteq CountedIn(U) /\ MayCount(U, S)' \subseteq MayCount(U, S)
           \/ /\ CountedIn(U)' \subseteq CountedIn(U) \cup {n}
              /\ r \in MayCount(U, S) /\ MayCount(U, S)' \subseteq MayCount(U, S) \ {r}
  <1>1. MayCount(U, S)' \subseteq MayCount(U, S) \ {r}
    <2> SUFFICES ASSUME NEW q \in MayCount(U, S)' PROVE q \in MayCount(U, S) \ {r}
      OBVIOUS
    <2>1. q \in Requests /\ q # r
      BY DEF MayCount
    <2>2. req'[q] = req[q]
      BY <2>1 DEF MovesOnly
    <2>3. CASE req[q].pc \in S
      BY <2>1, <2>2, <2>3 DEF MayCount
    <2>4. CASE req[q].pc \in BuildSteps /\ ~Counted(req[q].net)'
      <3>1. req[q].net \in BridgeIds
        BY <2>1, <2>4, NetKnown
      <3>2. req[q].net # n
        BY <2>2, <2>4 DEF Counted
      <3>3. ~Counted(req[q].net)
        BY <2>2, <2>4, <3>1, <3>2 DEF Counted
      <3> QED BY <2>1, <2>2, <2>4, <3>3 DEF MayCount
    <2> QED BY <2>2, <2>3, <2>4 DEF MayCount
  <1>2. CountedIn(U)' \subseteq CountedIn(U) \cup {n}
    BY DEF CountedIn, Counted
  <1>3. CASE Counted(n) \/ req[r].user \notin U
    <2>1. CountedIn(U)' \subseteq CountedIn(U)
      BY <1>2, <1>3 DEF CountedIn
    <2> QED BY <1>1, <2>1
  <1>4. CASE ~Counted(n) /\ req[r].user \in U
    <2>1. r \in MayCount(U, S)
      BY <1>4 DEF MayCount, UserChecked, NodeChecked
    <2> QED BY <1>1, <1>2, <2>1
  <1> QED BY <1>3, <1>4

\* Network n is no longer counted; its creation, if any, may count it again.
LEMMA CountShrinks ==
    ASSUME IInv, BuildersOwn, NEW r \in Requests, MovesOnly(r), NEW n \in BridgeIds,
           NEW U, NEW S \in {UserChecked, NodeChecked},
           \A j \in BridgeIds \ {n} : networks'[j] = networks[j],
           ~Counted(n)', Counted(n), req'[r].pc \notin CreateSteps
    PROVE  \E q : \/ CountedIn(U)' \subseteq CountedIn(U) /\ MayCount(U, S)' \subseteq MayCount(U, S)
                  \/ /\ CountedIn(U)' \subseteq CountedIn(U) \ {n} /\ n \in CountedIn(U)
                     /\ MayCount(U, S)' \subseteq MayCount(U, S) \cup {q}
  <1>1. CountedIn(U)' \subseteq CountedIn(U) \ {n}
    BY DEF CountedIn, Counted
  <1>2. ASSUME NEW q \in MayCount(U, S)', q \notin MayCount(U, S)
        PROVE  /\ q \in Requests /\ req[q].pc \in BuildSteps /\ req[q].net = n
               /\ req[q].user \in U
    <2>1. q \in Requests /\ q # r
      BY DEF MayCount, UserChecked, NodeChecked, BuildSteps, CreateSteps
    <2>2. req'[q] = req[q]
      BY <2>1 DEF MovesOnly
    <2>3. req[q].user \in U /\ req[q].pc \in BuildSteps /\ ~Counted(req[q].net)' /\ Counted(req[q].net)
      BY <1>2, <2>1, <2>2 DEF MayCount
    <2>4. req[q].net \in BridgeIds
      BY <2>1, <2>3, NetKnown
    <2>5. req[q].net = n
      BY <2>2, <2>3, <2>4 DEF Counted
    <2> QED BY <2>1, <2>3, <2>5
  <1>3. CASE MayCount(U, S)' \subseteq MayCount(U, S)
    BY <1>1, <1>3
  <1>4. CASE ~(MayCount(U, S)' \subseteq MayCount(U, S))
    <2>1. PICK q \in MayCount(U, S)' : q \notin MayCount(U, S)
      BY <1>4
    <2>2. MayCount(U, S)' \subseteq MayCount(U, S) \cup {q}
      BY <1>2, <2>1 DEF BuildersOwn
    <2>3. Exists(n)
      BY DEF Counted, Exists, NoNetwork
    <2>4. n \in CountedIn(U)
      BY <1>2, <2>1, <2>3 DEF BuildersOwn, CountedIn
    <2> QED BY <1>1, <2>2, <2>4
  <1> QED BY <1>3, <1>4

\* No network starts or ceases to be counted.
LEMMA CountSame ==
    ASSUME IInv, NEW r \in Requests, MovesOnly(r), NEW U, NEW S,
           \A j \in BridgeIds : /\ Counted(j)' <=> Counted(j)
                                /\ Counted(j) => networks'[j].owner = networks[j].owner,
           r \in MayCount(U, S)' => r \in MayCount(U, S)
    PROVE  CountedIn(U)' \subseteq CountedIn(U) /\ MayCount(U, S)' \subseteq MayCount(U, S)
  <1>1. CountedIn(U)' \subseteq CountedIn(U)
    BY DEF CountedIn
  <1>2. ASSUME NEW q \in MayCount(U, S)', q # r PROVE q \in MayCount(U, S)
    <2>1. q \in Requests /\ req'[q] = req[q]
      BY <1>2 DEF MayCount, MovesOnly
    <2>2. CASE req[q].pc \in BuildSteps /\ ~Counted(req[q].net)'
      <3>1. PICK j \in BridgeIds : j = req[q].net
        BY <2>1, <2>2, NetKnown
      <3>2. ~Counted(req[q].net)
        BY <2>1, <2>2, <3>1 DEF Counted
      <3> QED BY <1>2, <2>1, <2>2, <3>2 DEF MayCount
    <2>3. CASE req[q].pc \in S
      BY <1>2, <2>1, <2>3 DEF MayCount
    <2> QED BY <1>2, <2>1, <2>2, <2>3 DEF MayCount
  <1> QED BY <1>1, <1>2

\* What the handler that moves adds to the creations that may still count.
LEMMA MayCountMove ==
    ASSUME IInv, NEW r \in Requests, Moved(r), NEW U, NEW S \in {UserChecked, NodeChecked},
           \/ networks' = networks
           \/ req'[r].pc \notin CreateSteps,
           req'[r].pc \in S /\ req'[r].user \in U => req[r].pc \in S,
           r \in MayCount(U, S)'
    PROVE  r \in MayCount(U, S)
  <1>1. req'[r].user \in U
        /\ (req'[r].pc \in S \/ (req'[r].pc \in BuildSteps /\ ~Counted(req[r].net)'))
    BY DEF MayCount
  <1>2. req'[r].pc \in CreateSteps /\ req'[r].pc # "idle" /\ networks' = networks
    BY <1>1 DEF UserChecked, NodeChecked, BuildSteps, CreateSteps
  <1>3. ~CreateBegin(r) \/ req[r].pc # "idle"
    <2> SUFFICES ASSUME CreateBegin(r), req[r].pc = "idle" PROVE FALSE
      OBVIOUS
    <2>1. req'[r].pc = "create_user_limit"
      BY DEF CreateBegin, Begin, Idle, IInv, TypeOK
    <2>2. req[r].pc \notin S
      BY DEF UserChecked, NodeChecked
    <2> QED BY <1>1, <2>1, <2>2 DEF BuildSteps
  <1>4. /\ <<req[r].pc, req'[r].pc>> \in CreatePath /\ req'[r].user = req[r].user
        /\ req[r].pc \notin DrawSteps => req'[r].net = req[r].net
    BY <1>2, <1>3, OtherMoves, CreateMoves DEF Moved
  <1>5. CASE req'[r].pc \in S
    BY <1>1, <1>4, <1>5 DEF MayCount
  <1>6. CASE req'[r].pc \in BuildSteps /\ ~Counted(req[r].net)'
    <2>1. req[r].pc = "create_insert" \/ (req[r].pc \in BuildSteps /\ req'[r].net = req[r].net)
      BY <1>4, <1>6 DEF CreatePath, BuildSteps, DrawSteps
    <2>2. req[r].pc \in BuildSteps => ~Counted(req[r].net)
      BY <1>2, <1>6, <2>1 DEF Counted, BuildSteps
    <2> QED BY <1>1, <1>4, <2>1, <2>2 DEF MayCount, UserChecked, NodeChecked
  <1> QED BY <1>1, <1>5, <1>6

\* A step that takes no creation past the limit check adds no weight.
LEMMA CountStep ==
    ASSUME IInv, BuildersOwn, NEW r \in Requests, Moved(r),
           NEW U, NEW S \in {UserChecked, NodeChecked},
           req'[r].pc \in S /\ req'[r].user \in U => req[r].pc \in S
    PROVE  \E n, q :
              \/ CountedIn(U)' \subseteq CountedIn(U) /\ MayCount(U, S)' \subseteq MayCount(U, S)
              \/ /\ CountedIn(U)' \subseteq CountedIn(U) \cup {n}
                 /\ q \in MayCount(U, S) /\ MayCount(U, S)' \subseteq MayCount(U, S) \ {q}
              \/ /\ CountedIn(U)' \subseteq CountedIn(U) \ {n} /\ n \in CountedIn(U)
                 /\ MayCount(U, S)' \subseteq MayCount(U, S) \cup {q}
  <1>1. MovesOnly(r) /\ networks \in [BridgeIds -> NetworkRow \cup {NoNetwork}]
    BY OtherMoves, CreateMoves DEF Moved, IInv, TypeOK
  <1>2. CASE networks' = networks
    <2>1. \A j \in BridgeIds : /\ Counted(j)' <=> Counted(j)
                               /\ Counted(j) => networks'[j].owner = networks[j].owner
      BY <1>2 DEF Counted
    <2>2. r \in MayCount(U, S)' => r \in MayCount(U, S)
      BY <1>2, MayCountMove
    <2> QED BY <1>1, <2>1, <2>2, CountSame
  <1>3. CASE CreateInsert(r) /\ networks' # networks
    <2>1. PICK n \in BridgeIds : n = req[r].net
      BY <1>3, NetKnown DEF CreateInsert, At
    <2>2. ~Exists(n) /\ req[r].pc = "create_insert" /\ Goto(r, "create_post")
          /\ networks' = [networks EXCEPT ![n] = [owner |-> req[r].user, cidr |-> req[r].cidr,
                                                  name |-> req[r].name, state |-> "creating"]]
      BY <1>3, <2>1 DEF CreateInsert, At
    <2>3. /\ Counted(n)' /\ networks'[n].owner = req[r].user /\ ~Counted(n)
          /\ \A j \in BridgeIds \ {n} : networks'[j] = networks[j]
      BY <1>1, <2>2 DEF Counted, Exists, NoNetwork
    <2>4. req'[r].pc \notin S /\ req'[r].net = n
      BY <2>1, <2>2, Stands DEF UserChecked, NodeChecked
    <2> QED BY <1>1, <2>2, <2>3, <2>4, CountGrows
  <1>4. CASE CreateActivate(r) /\ networks' # networks
    <2>1. PICK n \in BridgeIds : n = req[r].net
      BY <1>4, NetKnown DEF CreateActivate, At, BuildSteps
    <2>2. Exists(n) /\ req[r].pc = "create_activate" /\ Return(r)
          /\ networks' = [networks EXCEPT ![n].state = "active"]
      BY <1>4, <2>1 DEF CreateActivate, SetNetworkState, At
    <2>3. networks[n] \in NetworkRow
      BY <1>1, <2>2 DEF Exists
    <2>4. /\ Counted(n)' /\ networks'[n].owner = networks[n].owner
          /\ \A j \in BridgeIds \ {n} : networks'[j] = networks[j]
      BY <1>1, <2>2, <2>3 DEF Counted, NetworkRow
    <2>5. networks[n].owner = req[r].user
      BY <2>1, <2>2 DEF BuildersOwn, BuildSteps
    <2>6. req'[r].pc \notin S /\ req'[r].pc \notin BuildSteps
      BY <2>2, Stands DEF UserChecked, NodeChecked, BuildSteps, Idle
    <2> QED BY <1>1, <2>1, <2>2, <2>4, <2>5, <2>6, CountGrows DEF BuildSteps
  <1>5. CASE RenameUpdate(r) /\ networks' # networks
    <2>1. PICK n \in BridgeIds : n = req[r].net
      BY <1>5, NetKnown DEF RenameUpdate, At
    <2>2. Exists(n) /\ networks' = [networks EXCEPT ![n].name = req[r].name]
      BY <1>5, <2>1 DEF RenameUpdate
    <2>3. networks[n] \in NetworkRow
      BY <1>1, <2>2 DEF Exists
    <2>4. networks'[n].owner = networks[n].owner /\ networks'[n].state = networks[n].state
          /\ \A j \in BridgeIds \ {n} : networks'[j] = networks[j]
      BY <1>1, <2>2, <2>3 DEF NetworkRow
    <2>5. req'[r].pc \notin CreateSteps
      BY <1>5, OtherMoves DEF Rename
    <2>6. r \in MayCount(U, S)' => r \in MayCount(U, S)
      BY <2>5, MayCountMove
    <2> QED BY <1>1, <2>4, <2>6, CountSame DEF Counted
  <1>6. CASE DeleteMark(r) \/ DeleteRow(r)
    <2>1. PICK n \in BridgeIds : n = req[r].net
      BY <1>6, NetKnown DEF DeleteMark, DeleteRow, At, DeleteSteps
    <2>2. \A j \in BridgeIds \ {n} : networks'[j] = networks[j]
      BY <1>1, <1>6, <2>1 DEF DeleteMark, DeleteRow, SetNetworkState
    <2>3. networks'[n] = networks[n] \/ ~Counted(n)'
      <3>1. CASE networks'[n] = [networks[n] EXCEPT !.state = "deleting"] /\ networks[n] \in NetworkRow
        <4>1. networks'[n].state = "deleting"
          BY <3>1 DEF NetworkRow
        <4> QED BY <4>1 DEF Counted
      <3>2. CASE networks'[n] = NoNetwork
        BY <3>2 DEF Counted, NoNetwork
      <3>3. DeleteMark(r) =>
               \/ networks'[n] = networks[n]
               \/ networks'[n] = [networks[n] EXCEPT !.state = "deleting"] /\ networks[n] \in NetworkRow
        BY <1>1, <2>1 DEF DeleteMark, SetNetworkState, Exists
      <3>4. DeleteRow(r) => networks'[n] \in {networks[n], NoNetwork}
        BY <1>1, <2>1 DEF DeleteRow
      <3> QED BY <1>6, <3>1, <3>2, <3>3, <3>4
    <2>4. req'[r].pc \notin CreateSteps
      BY <1>6, OtherMoves DEF Delete
    <2>5. CASE Counted(n) /\ ~Counted(n)'
      BY <1>1, <2>2, <2>4, <2>5, CountShrinks
    <2>6. CASE Counted(n)' <=> Counted(n)
      <3>1. \A j \in BridgeIds : /\ Counted(j)' <=> Counted(j)
                                 /\ Counted(j) => networks'[j].owner = networks[j].owner
        BY <2>2, <2>3, <2>6 DEF Counted
      <3>2. r \in MayCount(U, S)' => r \in MayCount(U, S)
        BY <2>4, MayCountMove
      <3> QED BY <1>1, <3>1, <3>2, CountSame
    <2> QED BY <2>3, <2>5, <2>6 DEF Counted
  <1> QED BY <1>2, <1>3, <1>4, <1>5, <1>6, NetworkWriters

LEMMA WithinKept ==
    ASSUME IInv, BuildersOwn, NEW r \in Requests, Moved(r),
           NEW U, NEW S \in {UserChecked, NodeChecked}, NEW limit \in Nat, Within(U, S, limit),
           req'[r].pc \in S /\ req'[r].user \in U => req[r].pc \in S
    PROVE  Within(U, S, limit)'
  <1>1. IsFiniteSet(CountedIn(U)) /\ IsFiniteSet(MayCount(U, S))
    BY SetsFinite, FS_Subset DEF CountedIn, MayCount
  <1>2. PICK A, P : A = CountedIn(U) /\ P = MayCount(U, S)
    OBVIOUS
  <1>3. PICK A2, P2 : A2 = CountedIn(U)' /\ P2 = MayCount(U, S)'
    OBVIOUS
  <1>4. PICK n, q : \/ A2 \subseteq A /\ P2 \subseteq P
                    \/ A2 \subseteq A \cup {n} /\ q \in P /\ P2 \subseteq P \ {q}
                    \/ A2 \subseteq A \ {n} /\ n \in A /\ P2 \subseteq P \cup {q}
    BY <1>2, <1>3, CountStep
  <1>5. /\ Cardinality(A) \in Nat /\ Cardinality(P) \in Nat
        /\ Cardinality(A2) \in Nat /\ Cardinality(P2) \in Nat
        /\ Cardinality(A2) + Cardinality(P2) <= Cardinality(A) + Cardinality(P)
    <2>1. IsFiniteSet(A) /\ IsFiniteSet(P)
      BY <1>1, <1>2
    <2> QED BY <1>4, <2>1, Weigh
  <1>6. Cardinality(A) + Cardinality(P) < limit + Cardinality(Requests)
    BY <1>2 DEF Within
  <1>7. Cardinality(A2) + Cardinality(P2) < limit + Cardinality(Requests)
    BY <1>5, <1>6, SetsFinite
  <1> QED BY <1>3, <1>7 DEF Within

\* Where there is room, even all requests in flight do not pass the bound.
LEMMA WithinRoom ==
    ASSUME NEW U, NEW S, NEW limit \in Nat, networks' = networks,
           Cardinality(CountedIn(U)) < limit
    PROVE  Within(U, S, limit)'
  <1>1. CountedIn(U)' = CountedIn(U)
    BY DEF CountedIn, Counted
  <1>2. PICK A, P : A = CountedIn(U) /\ P = MayCount(U, S)'
    OBVIOUS
  <1>3. A \subseteq BridgeIds /\ P \subseteq Requests
    BY <1>2 DEF CountedIn, MayCount
  <1>4. /\ Cardinality(A) \in Nat /\ Cardinality(P) \in Nat
        /\ Cardinality(P) <= Cardinality(Requests)
    <2>1. /\ IsFiniteSet(A) /\ IsFiniteSet(P)
          /\ Cardinality(P) <= Cardinality(Requests)
      BY <1>3, SetsFinite, FS_Subset
    <2> QED BY <2>1, FS_CardinalityType
  <1>5. Cardinality(A) + Cardinality(P) < limit + Cardinality(Requests)
    BY <1>2, <1>4, SetsFinite
  <1> QED BY <1>1, <1>2, <1>5 DEF Within

LEMMA CountedSets ==
    /\ \A u : CountedOf(u) = CountedIn({u})
    /\ IInv => {n \in BridgeIds : Counted(n)} = CountedIn(Users)
  <1>1. \A u : CountedOf(u) = CountedIn({u})
    BY DEF CountedOf, CountedIn
  <1>2. ASSUME IInv, NEW n \in BridgeIds, Counted(n) PROVE networks[n].owner \in Users
    BY <1>2 DEF IInv, TypeOK, Counted, NoNetwork, NetworkRow
  <1>3. IInv => {n \in BridgeIds : Counted(n)} = CountedIn(Users)
    BY <1>2 DEF CountedIn
  <1> QED BY <1>1, <1>3

LEMMA StepRoom ==
    ASSUME IInv, RoomInv, NEW r \in Requests, Moved(r)
    PROVE  RoomInv'
  <1>1. BuildersOwn'
    BY BuildersStep DEF RoomInv
  <1>2. ASSUME NEW u \in Users PROVE Within({u}, UserChecked, MaxPerUser)'
    <2>1. CASE req'[r].pc \in UserChecked /\ req'[r].user \in {u} => req[r].pc \in UserChecked
      BY <2>1, SetsFinite, WithinKept DEF RoomInv
    <2>2. CASE req'[r].pc \in UserChecked /\ req'[r].user \in {u} /\ req[r].pc \notin UserChecked
      <3>1. /\ req[r].pc = "create_user_limit" /\ req[r].user = u
            /\ req'[r].pc = "create_overlap"
        <4>1. <<req[r].pc, req'[r].pc>> \in CreatePath /\ req'[r].user = req[r].user
          BY <2>2, OtherMoves, CreateMoves DEF Moved, UserChecked, CreateSteps
        <4> QED BY <2>2, <4>1 DEF CreatePath, UserChecked
      <3>2. CreateUserLimit(r)
        BY <3>1, OtherMoves DEF Moved, CreateSteps, Create, CreateBegin, Begin,
           CreateOverlap, CreateDraw, CreateInsert, CreatePost, CreateApply, CreateActivate, At
      <3>3. UserHasRoom(u) /\ networks' = networks
        BY <3>1, <3>2, Stands DEF CreateUserLimit, Idle, tables
      <3> QED BY <3>3, SetsFinite, CountedSets, WithinRoom DEF UserHasRoom
    <2> QED BY <2>1, <2>2
  <1>3. Within(Users, NodeChecked, MaxPerNode)'
    <2>1. CASE req'[r].pc \in NodeChecked => req[r].pc \in NodeChecked
      BY <2>1, SetsFinite, WithinKept DEF RoomInv
    <2>2. CASE req'[r].pc \in NodeChecked /\ req[r].pc \notin NodeChecked
      <3>1. CreateBegin(r)
        <4>1. \/ CreateBegin(r)
              \/ <<req[r].pc, req'[r].pc>> \in CreatePath
          BY <2>2, OtherMoves, CreateMoves DEF Moved, NodeChecked, UserChecked, CreateSteps
        <4> QED BY <2>2, <4>1 DEF CreatePath, NodeChecked, UserChecked
      <3>2. NodeHasRoom /\ networks' = networks
        BY <3>1 DEF CreateBegin, tables
      <3> QED BY <3>2, SetsFinite, CountedSets, WithinRoom DEF NodeHasRoom
    <2> QED BY <2>1, <2>2
  <1> QED BY <1>1, <1>2, <1>3 DEF RoomInv

LEMMA InitRoom == Init => RoomInv
  <1> SUFFICES ASSUME Init PROVE RoomInv
    OBVIOUS
  <1>1. \A r \in Requests : req[r].pc = "idle"
    BY DEF Init, Idle
  <1>2. BuildersOwn
    BY <1>1 DEF BuildersOwn, BuildSteps
  <1>3. \A U : MayCount(U, UserChecked) = {} /\ MayCount(U, NodeChecked) = {}
    BY <1>1 DEF MayCount, UserChecked, NodeChecked, BuildSteps
  <1>4. /\ Len(Established) \in Nat /\ Len(Established) <= MaxBridge
        /\ DOMAIN Established = 1..Len(Established)
        /\ Cardinality(DOMAIN Established) = Len(Established)
        /\ IsFiniteSet(DOMAIN Established) /\ DOMAIN Established \subseteq BridgeIds
    <2>1. PICK E : Established \in Seq(E)
      BY PNAssumption
    <2>2. Len(Established) \in Nat /\ DOMAIN Established = 1..Len(Established)
      BY <2>1
    <2>3. Cardinality(1..Len(Established)) = Len(Established) /\ IsFiniteSet(1..Len(Established))
      <3>1. PICK k \in Nat : k = Len(Established)
        BY <2>2
      <3>2. /\ IsFiniteSet(1..k)
            /\ Cardinality(1..k) = IF 1 > k THEN 0 ELSE k - 1 + 1
        BY FS_Interval
      <3>3. Cardinality(1..k) = k
        BY <3>2
      <3> QED BY <3>1, <3>2, <3>3
    <2> QED BY <2>2, <2>3, PNAssumption DEF BridgeIds
  <1>5. \A U : CountedIn(U) = {n \in DOMAIN Established : Established[n].owner \in U}
    BY <1>4 DEF Init, CountedIn, Counted, NoNetwork
  <1>6. ASSUME NEW u \in Users PROVE Within({u}, UserChecked, MaxPerUser)
    <2>1. CountedIn({u}) = {n \in DOMAIN Established : Established[n].owner = u}
      BY <1>5
    <2>2. Cardinality(CountedIn({u})) <= MaxPerUser
      BY <2>1, EstablishedAssumption
    <2>3. IsFiniteSet(CountedIn({u}))
      BY <1>4, <2>1, FS_Subset
    <2>4. Cardinality(CountedIn({u})) \in Nat /\ Cardinality(MayCount({u}, UserChecked)) = 0
      BY <1>3, <2>3, FS_CardinalityType, FS_EmptySet
    <2> QED BY <2>2, <2>4, SetsFinite DEF Within
  <1>7. Within(Users, NodeChecked, MaxPerNode)
    <2>1. CountedIn(Users) \subseteq DOMAIN Established
      BY <1>5
    <2>2. Cardinality(CountedIn(Users)) <= Len(Established) /\ IsFiniteSet(CountedIn(Users))
      BY <1>4, <2>1, FS_Subset
    <2>3. Cardinality(CountedIn(Users)) \in Nat /\ Cardinality(MayCount(Users, NodeChecked)) = 0
      BY <1>3, <2>2, FS_CardinalityType, FS_EmptySet
    <2>4. Len(Established) <= MaxPerNode
      BY EstablishedAssumption
    <2> QED BY <1>4, <2>2, <2>3, <2>4, SetsFinite DEF Within
  <1> QED BY <1>2, <1>6, <1>7 DEF RoomInv

LEMMA RoomBounds ==
    ASSUME IInv, RoomInv
    PROVE  OvershootBounded
  <1>1. ASSUME NEW U, NEW S, NEW limit \in Nat, Within(U, S, limit)
        PROVE  Cardinality(CountedIn(U)) < limit + Cardinality(Requests)
    <2>1. CountedIn(U) \subseteq BridgeIds /\ MayCount(U, S) \subseteq Requests
      BY DEF CountedIn, MayCount
    <2>2. IsFiniteSet(CountedIn(U)) /\ IsFiniteSet(MayCount(U, S))
      BY <2>1, SetsFinite, FS_Subset
    <2>3. Cardinality(CountedIn(U)) \in Nat /\ Cardinality(MayCount(U, S)) \in Nat
      BY <2>2, FS_CardinalityType
    <2> QED BY <1>1, <2>3, SetsFinite DEF Within
  <1>2. ASSUME NEW u \in Users
        PROVE  Cardinality(CountedIn({u})) < MaxPerUser + Cardinality(Requests)
    BY <1>1, SetsFinite DEF RoomInv
  <1>3. Cardinality(CountedIn(Users)) < MaxPerNode + Cardinality(Requests)
    BY <1>1, SetsFinite DEF RoomInv
  <1> QED BY <1>2, <1>3, CountedSets DEF OvershootBounded

\* However many creations pass the limit checks together, and whatever the
\* deletions among them do, a user or the node never has more networks in
\* excess of the limit than there are other requests in flight.
THEOREM LimitsNearlyKept == Spec => []OvershootBounded
  <1>1. RoomInv /\ UNCHANGED vars => RoomInv'
    BY DEF vars, RoomInv, BuildersOwn, Within, CountedIn, MayCount, Counted, Exists
  <1>2. IInv /\ RoomInv /\ [Next]_vars => RoomInv'
    BY <1>1, StepRoom DEF Next, Moved
  <1>3. IInv /\ RoomInv => OvershootBounded
    BY RoomBounds
  <1> QED BY <1>2, <1>3, InitRoom, InductiveInvariant, PTL DEF Spec

=============================================================================
