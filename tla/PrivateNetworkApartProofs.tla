--------------------- MODULE PrivateNetworkApartProofs ----------------------
(***************************************************************************)
(* Proofs about PrivateNetwork when requests that work on the same object  *)
(* stay apart in time, for any number of requests, whatever fails and      *)
(* wherever a handler stops: which overlaps of requests the network tables *)
(* and the wiring of the containers may not survive is thereby known.      *)
(* Each property is proved from those of the conditions RemovalsApart,     *)
(* DeletionsApart and CreationsApart that it needs.                        *)
(***************************************************************************)
EXTENDS PrivateNetworkProofs

\* The handler of request r becomes k, and no other one moves.
Becomes(r, k) ==
    /\ req[r] \in Handler
    /\ \A q \in Requests : req'[q] = IF q = r THEN k ELSE req[q]

LEMMA OneMoves ==
    ASSUME IInv, NEW r \in Requests, NEW k, req' = [req EXCEPT ![r] = k]
    PROVE  Becomes(r, k)
  BY DEF IInv, TypeOK, Becomes

LEMMA GotoBecomes ==
    ASSUME IInv, NEW r \in Requests, NEW s \in Steps, Goto(r, s)
    PROVE  \E k \in Handler : /\ Becomes(r, k)
                              /\ k = [req[r] EXCEPT !.pc = s]
                              /\ k.pc = s /\ k.user = req[r].user /\ k.net = req[r].net
                              /\ k.cidr = req[r].cidr /\ k.ct = req[r].ct
                              /\ k.mem = req[r].mem /\ k.ip = req[r].ip /\ k.slot = req[r].slot
  <1> DEFINE k == [req[r] EXCEPT !.pc = s]
  <1>1. req[r] \in Handler /\ req' = [req EXCEPT ![r] = k]
    BY DEF IInv, TypeOK, Goto
  <1>2. k \in Handler
    BY <1>1 DEF Handler
  <1>3. /\ k.pc = s /\ k.user = req[r].user /\ k.net = req[r].net
        /\ k.cidr = req[r].cidr /\ k.ct = req[r].ct
        /\ k.mem = req[r].mem /\ k.ip = req[r].ip /\ k.slot = req[r].slot
    BY <1>1 DEF Handler
  <1>4. Becomes(r, k)
    BY <1>1, OneMoves
  <1> QED BY <1>2, <1>3, <1>4

LEMMA ReturnBecomes ==
    ASSUME IInv, NEW r \in Requests, Return(r)
    PROVE  Becomes(r, Idle) /\ Idle.pc = "idle" /\ Idle.net = None /\ Idle.mem = None
  BY OneMoves DEF Return, Idle

-----------------------------------------------------------------------------
(***************************************************************************)
(* The wiring: rows, NICs and the handlers that add and remove members.    *)
(***************************************************************************)

\* A member row has its place among the NICs.
LEMMA RowTyped ==
    ASSUME IInv, NEW m \in members
    PROVE  /\ m.id \in MemberIds /\ m.net \in BridgeIds /\ m.ct \in Containers
           /\ m.ip \in Hosts /\ m.slot \in Slots /\ m.state \in MembershipStates
           /\ <<m.ct, m.slot>> \in Containers \X Slots
           /\ NicOf(m) # NoNic
  BY Absent DEF IInv, TypeOK, MemberRow, NicOf, NoNic

\* Distinct rows are wired at distinct places.
LEMMA PlacesDistinct ==
    ASSUME RowsKeyed, NEW m \in members, NEW k \in members,
           <<m.ct, m.slot>> = <<k.ct, k.slot>>
    PROVE  m = k
  BY DEF RowsKeyed

\* Handlers that neither add nor remove have no part in the wiring.
WiringSteps == InsertedSteps \cup RemoveSteps
LEMMA NoWiring ==
    ASSUME NEW h, h.pc \notin WiringSteps
    PROVE  AdderWired(h) /\ AdderWired(h)' /\ RemoverWired(h) /\ RemoverWired(h)'
  BY DEF WiringSteps, AdderWired, RemoverWired, InsertedSteps, RemoveSteps

LEMMA NicsKept ==
    ASSUME NicAccounted, UNCHANGED <<members, nics>>
    PROVE  NicAccounted'
  <1> SUFFICES ASSUME NEW c \in Containers, NEW s \in Slots, nics'[<<c, s>>] # NoNic
               PROVE  \E m \in members' : m.ct = c /\ m.slot = s /\ nics'[<<c, s>>] = NicOf(m)
    BY DEF NicAccounted, NicOf
  <1>1. nics'[<<c, s>>] = nics[<<c, s>>]
    OBVIOUS
  <1>2. \E m \in members : m.ct = c /\ m.slot = s /\ nics[<<c, s>>] = NicOf(m)
    BY <1>1 DEF NicAccounted
  <1> QED BY <1>1, <1>2

\* A step that changes neither rows nor NICs.
LEMMA QuietWiring ==
    ASSUME IInv, WiringInv, NEW r \in Requests, NEW k, Becomes(r, k),
           UNCHANGED <<members, nics>>, AdderWired(k), RemoverWired(k),
           k.pc \in InsertedSteps => req[r].pc \in InsertedSteps /\ k.mem = req[r].mem
    PROVE  WiringInv'
  <1>1. RowsKeyed' /\ NicAccounted' /\ ActiveMemberHasNic'
    <2>1. RowsKeyed'
      BY DEF WiringInv, RowsKeyed
    <2>2. NicAccounted'
      BY NicsKept DEF WiringInv
    <2>3. ActiveMemberHasNic'
      BY DEF WiringInv, ActiveMemberHasNic, WiredAt
    <2> QED BY <2>1, <2>2, <2>3
  <1>2. ASSUME NEW h
        PROVE  (AdderWired(h)' <=> AdderWired(h)) /\ (RemoverWired(h)' <=> RemoverWired(h))
    BY DEF AdderWired, RemoverWired, FoundRow, WiredAt
  <1>3. \A q \in Requests : AdderWired(req'[q]) /\ RemoverWired(req'[q])
    BY DEF WiringInv, AddersWired, RemoversWired, Becomes
  <1>4. \A q \in Requests : AdderWired(req[q])' /\ RemoverWired(req[q])'
    <2> SUFFICES ASSUME NEW q \in Requests PROVE AdderWired(req[q])' /\ RemoverWired(req[q])'
      OBVIOUS
    <2>1. PICK h : h = req'[q]
      OBVIOUS
    <2>2. AdderWired(h)' /\ RemoverWired(h)'
      BY <1>2, <1>3, <2>1
    <2> QED BY <2>1, <2>2 DEF AdderWired, RemoverWired, FoundRow, WiredAt
  <1>5. RemoversWired'
    BY <1>4 DEF RemoversWired
  <1>6. AddersWired'
    BY <1>4 DEF WiringInv, AddersWired, Becomes
  <1> QED BY <1>1, <1>5, <1>6 DEF WiringInv

\* The row of an add_member in flight.
LEMMA AdderRow ==
    ASSUME IInv, WiringInv, NEW q \in Requests, req[q].pc \in InsertedSteps
    PROVE  \E m \in members : /\ m = NewMember(req[q], req[q].mem)
                              /\ FoundRow(req[q], m) /\ m.state = "attaching"
                              /\ NicOf(m) = [bridge |-> req[q].net, ip |-> req[q].ip]
                              /\ req[q].pc = "add_attach" => WiredAt(m) = NoNic
                              /\ req[q].pc = "add_activate" => WiredAt(m) = NicOf(m)
  <1> DEFINE m == NewMember(req[q], req[q].mem)
  <1>1. m \in members
    BY DEF WiringInv, AddersWired, AdderWired
  <1>2. /\ req[q].pc = "add_attach" => WiredAt(m) = NoNic
        /\ req[q].pc = "add_activate" => WiredAt(m) = NicOf(m)
    BY DEF WiringInv, AddersWired, AdderWired
  <1>3. FoundRow(req[q], m) /\ m.state = "attaching"
        /\ NicOf(m) = [bridge |-> req[q].net, ip |-> req[q].ip]
    BY DEF FoundRow, NewMember, NicOf
  <1>4. m = NewMember(req[q], req[q].mem)
    OBVIOUS
  <1> HIDE DEF m
  <1> QED BY <1>1, <1>2, <1>3, <1>4

\* A handler that adds or removes elsewhere works on another row.
LEMMA RowsApart ==
    ASSUME IInv, WiringInv, RemovalsApart,
           NEW r \in Requests, NEW m \in members, FoundRow(req[r], m),
           NEW q \in Requests \ {r}, NEW k \in members, FoundRow(req[q], k),
           \/ req[r].pc \in RemoveSteps /\ req[q].pc \in AddSteps \cup RemoveSteps
           \/ req[q].pc \in RemoveSteps /\ req[r].pc \in AddSteps \cup RemoveSteps
           \/ req[r].pc \in InsertedSteps /\ req[q].pc \in InsertedSteps
    PROVE  m.id # k.id /\ <<m.ct, m.slot>> # <<k.ct, k.slot>>
  <1>1. m # k
    <2>1. CASE req[r].pc \in InsertedSteps /\ req[q].pc \in InsertedSteps
      BY <2>1 DEF WiringInv, AddersWired, FoundRow
    <2>2. CASE \/ req[r].pc \in RemoveSteps /\ req[q].pc \in AddSteps \cup RemoveSteps
               \/ req[q].pc \in RemoveSteps /\ req[r].pc \in AddSteps \cup RemoveSteps
      BY <2>2 DEF RemovalsApart, FoundRow
    <2> QED BY <2>1, <2>2
  <1> QED BY <1>1 DEF WiringInv, RowsKeyed

\* A step that changes the state of the row its handler works on, and that row
\* only: an active row has its NIC, and no NIC is about to leave it.
Restated(m, id, st) == IF m.id = id THEN [m EXCEPT !.state = st] ELSE m

LEMMA RestatedIs ==
    ASSUME IInv, NEW m \in members, NEW id, NEW st
    PROVE  LET k == Restated(m, id, st)
           IN  /\ k.id = m.id /\ k.net = m.net /\ k.ct = m.ct /\ k.ip = m.ip
               /\ k.slot = m.slot /\ k.state = (IF m.id = id THEN st ELSE m.state)
               /\ NicOf(k) = NicOf(m) /\ WiredAt(k) = WiredAt(m)
               /\ m.id # id => k = m
  <1>1. m \in MemberRow
    BY DEF IInv, TypeOK
  <1>2. LET k == Restated(m, id, st)
        IN  /\ k.id = m.id /\ k.net = m.net /\ k.ct = m.ct /\ k.ip = m.ip
            /\ k.slot = m.slot /\ k.state = (IF m.id = id THEN st ELSE m.state)
            /\ m.id # id => k = m
    BY <1>1 DEF Restated, MemberRow
  <1> QED BY <1>2 DEF NicOf, WiredAt

LEMMA RestateWiring ==
    ASSUME IInv, WiringInv, RemovalsApart, NEW r \in Requests, NEW k, Becomes(r, k),
           NEW st \in MembershipStates, NEW own \in members, FoundRow(req[r], own),
           SetMemberState(own.id, st), UNCHANGED nics,
           req[r].pc \in InsertedSteps \cup RemoveSteps,
           st = "active" => WiredAt(own) = NicOf(own),
           \/ k.pc = "idle"
           \/ k.pc = "remove_detach" /\ st # "active" /\ FoundRow(k, own)
    PROVE  WiringInv'
  <1> DEFINE f(m) == Restated(m, own.id, st)
  <1>1. members' = {f(m) : m \in members}
    BY DEF SetMemberState, Restated
  <1>2. \A m \in members : /\ f(m).id = m.id /\ f(m).net = m.net /\ f(m).ct = m.ct
                           /\ f(m).ip = m.ip /\ f(m).slot = m.slot
                           /\ f(m).state = (IF m = own THEN st ELSE m.state)
                           /\ NicOf(f(m)) = NicOf(m) /\ WiredAt(f(m)) = WiredAt(m)
                           /\ m.id # own.id => f(m) = m
    <2>1. \A m \in members : m.id = own.id <=> m = own
      BY DEF WiringInv, RowsKeyed
    <2> QED BY <2>1, RestatedIs
  <1>3. \A m : WiredAt(m)' = WiredAt(m)
    BY DEF WiredAt
  <1> HIDE DEF f
  <1>4. RowsKeyed'
    BY <1>1, <1>2 DEF WiringInv, RowsKeyed
  <1>5. NicAccounted'
    <2> SUFFICES ASSUME NEW c \in Containers, NEW s \in Slots, nics'[<<c, s>>] # NoNic
                 PROVE  \E m \in members' : m.ct = c /\ m.slot = s /\ nics'[<<c, s>>] = NicOf(m)
      BY DEF NicAccounted
    <2>1. PICK m \in members : m.ct = c /\ m.slot = s /\ nics[<<c, s>>] = NicOf(m)
      BY DEF WiringInv, NicAccounted
    <2>2. f(m) \in members' /\ f(m).ct = c /\ f(m).slot = s /\ nics'[<<c, s>>] = NicOf(f(m))
      BY <1>1, <1>2, <2>1
    <2> QED BY <2>2
  <1>6. ActiveMemberHasNic'
    <2> SUFFICES ASSUME NEW m \in members, f(m).state = "active"
                 PROVE  WiredAt(f(m)) = NicOf(f(m))
      BY <1>1, <1>3 DEF ActiveMemberHasNic
    <2> QED BY <1>2 DEF WiringInv, ActiveMemberHasNic
  <1>7. AddersWired'
    <2>1. ASSUME NEW q \in Requests, req'[q].pc \in InsertedSteps
          PROVE  q # r /\ req'[q] = req[q] /\ AdderWired(req[q])'
      <3>1. q # r /\ req'[q] = req[q]
        BY <2>1 DEF Becomes, InsertedSteps
      <3>2. PICK m \in members : /\ m = NewMember(req[q], req[q].mem) /\ FoundRow(req[q], m)
                                 /\ NicOf(m) = [bridge |-> req[q].net, ip |-> req[q].ip]
                                 /\ req[q].pc = "add_attach" => WiredAt(m) = NoNic
                                 /\ req[q].pc = "add_activate" => WiredAt(m) = NicOf(m)
        BY <2>1, <3>1, AdderRow
      <3>3. m.id # own.id
        BY <2>1, <3>1, <3>2, RowsApart DEF InsertedSteps, AddSteps
      <3>4. m \in members'
        BY <1>1, <1>2, <3>3
      <3> QED BY <1>3, <3>1, <3>2, <3>4 DEF AdderWired
    <2>2. \A q \in Requests : AdderWired(req[q])'
      BY <2>1 DEF AdderWired, InsertedSteps
    <2> QED BY <2>1, <2>2 DEF WiringInv, AddersWired
  <1>8. RemoversWired'
    <2> SUFFICES ASSUME NEW q \in Requests PROVE RemoverWired(req[q])'
      BY DEF RemoversWired
    <2>1. CASE q = r
      <3>1. req'[q] = k
        BY <2>1 DEF Becomes
      <3>2. k.pc = "remove_detach" =>
                f(own) \in members' /\ FoundRow(k, f(own)) /\ f(own).state # "active"
        BY <1>1, <1>2 DEF FoundRow
      <3> QED BY <3>1, <3>2 DEF RemoverWired
    <2>2. CASE q # r
      <3>1. req'[q] = req[q] /\ RemoverWired(req[q])
        BY <2>2 DEF Becomes, WiringInv, RemoversWired
      <3>2. ASSUME req[q].pc \in {"remove_mark", "remove_detach", "remove_fail"}
            PROVE  \E m \in members' :
                      FoundRow(req[q], m) /\ (req[q].pc = "remove_detach" => m.state # "active")
        <4>1. PICK m \in members :
                  FoundRow(req[q], m) /\ (req[q].pc = "remove_detach" => m.state # "active")
          BY <3>1, <3>2 DEF RemoverWired
        <4>2. m.id # own.id
          BY <2>2, <3>2, <4>1, RowsApart DEF RemoveSteps, InsertedSteps, AddSteps
        <4> QED BY <1>1, <1>2, <4>1, <4>2
      <3>3. ASSUME req[q].pc = "remove_row",
                   NEW m \in members, f(m).net = req[q].net, f(m).ct = req[q].ct
            PROVE  WiredAt(f(m)) = NoNic
        BY <1>2, <3>1, <3>3 DEF RemoverWired
      <3> QED BY <1>1, <1>3, <3>1, <3>2, <3>3 DEF RemoverWired, FoundRow
    <2> QED BY <2>1, <2>2
  <1> QED BY <1>4, <1>5, <1>6, <1>7, <1>8 DEF WiringInv

\* A step that wires one slot, that of the row its handler works on.
LEMMA RewireWiring ==
    ASSUME IInv, WiringInv, RemovalsApart, NEW r \in Requests, NEW k, Becomes(r, k),
           NEW own \in members, FoundRow(req[r], own), UNCHANGED members, NEW nic,
           nics' = [nics EXCEPT ![<<own.ct, own.slot>>] = nic],
           nic \in {NicOf(own), NoNic}, own.state # "active",
           req[r].pc \in InsertedSteps \cup RemoveSteps,
           nic # NoNic => req[r].pc \in InsertedSteps,
           k.pc \in InsertedSteps => req[r].pc \in InsertedSteps /\ k.mem = req[r].mem,
           AdderWired(k)', RemoverWired(k)'
    PROVE  WiringInv'
  <1> DEFINE place(m) == <<m.ct, m.slot>>
  <1>1. \A m \in members : WiredAt(m)' = IF m = own THEN nic ELSE WiredAt(m)
    <2>1. \A m \in members : place(m) \in Containers \X Slots
      BY RowTyped
    <2>2. \A m \in members : place(m) = place(own) => m = own
      BY PlacesDistinct DEF WiringInv
    <2>3. nics \in [Containers \X Slots -> Nic \cup {NoNic}]
      BY DEF IInv, TypeOK
    <2> QED BY <2>1, <2>2, <2>3 DEF WiredAt
  <1>2. RowsKeyed'
    BY DEF WiringInv, RowsKeyed
  <1>3. NicAccounted'
    <2> SUFFICES ASSUME NEW c \in Containers, NEW s \in Slots, nics'[<<c, s>>] # NoNic
                 PROVE  \E m \in members : m.ct = c /\ m.slot = s /\ nics'[<<c, s>>] = NicOf(m)
      BY DEF NicAccounted
    <2>1. nics'[<<c, s>>] = IF <<c, s>> = place(own) THEN nic ELSE nics[<<c, s>>]
      BY DEF IInv, TypeOK
    <2>2. CASE <<c, s>> = place(own)
      BY <2>1, <2>2
    <2>3. CASE <<c, s>> # place(own)
      <3>1. nics[<<c, s>>] # NoNic /\ nics'[<<c, s>>] = nics[<<c, s>>]
        BY <2>1, <2>3
      <3>2. PICK m \in members : m.ct = c /\ m.slot = s /\ nics[<<c, s>>] = NicOf(m)
        BY <3>1 DEF WiringInv, NicAccounted
      <3> QED BY <3>1, <3>2
    <2> QED BY <2>2, <2>3
  <1>4. ActiveMemberHasNic'
    <2> SUFFICES ASSUME NEW m \in members, m.state = "active"
                 PROVE  WiredAt(m)' = NicOf(m)
      BY DEF ActiveMemberHasNic
    <2> QED BY <1>1 DEF WiringInv, ActiveMemberHasNic
  <1>5. AddersWired'
    <2>1. ASSUME NEW q \in Requests, q # r, req[q].pc \in InsertedSteps
          PROVE  AdderWired(req[q])'
      <3>1. req'[q] = req[q]
        BY <2>1 DEF Becomes
      <3>2. PICK m \in members : /\ m = NewMember(req[q], req[q].mem) /\ FoundRow(req[q], m)
                                 /\ NicOf(m) = [bridge |-> req[q].net, ip |-> req[q].ip]
                                 /\ req[q].pc = "add_attach" => WiredAt(m) = NoNic
                                 /\ req[q].pc = "add_activate" => WiredAt(m) = NicOf(m)
        BY <2>1, AdderRow
      <3>3. m # own
        BY <2>1, <3>2, RowsApart DEF InsertedSteps, AddSteps
      <3>4. WiredAt(m)' = WiredAt(m)
        BY <1>1, <3>3
      <3>5. NicOf(NewMember(req'[q], req'[q].mem)) = NicOf(m)
            /\ NewMember(req'[q], req'[q].mem) = m
        BY <3>1, <3>2
      <3> QED BY <3>1, <3>2, <3>4, <3>5 DEF AdderWired, WiredAt
    <2>2. \A q \in Requests : AdderWired(req[q])'
      <3> SUFFICES ASSUME NEW q \in Requests PROVE AdderWired(req[q])'
        OBVIOUS
      <3>1. CASE q = r
        BY <3>1 DEF Becomes, AdderWired, WiredAt
      <3>2. CASE q # r /\ req[q].pc \in InsertedSteps
        BY <2>1, <3>2
      <3>3. CASE q # r /\ req[q].pc \notin InsertedSteps
        BY <3>3 DEF Becomes, AdderWired, InsertedSteps
      <3> QED BY <3>1, <3>2, <3>3
    <2>3. \A q, s \in Requests :
              (/\ req'[q].pc \in InsertedSteps /\ req'[s].pc \in InsertedSteps
               /\ req'[q].mem = req'[s].mem) => q = s
      BY DEF Becomes, WiringInv, AddersWired
    <2> QED BY <2>2, <2>3 DEF AddersWired
  <1>6. RemoversWired'
    <2> SUFFICES ASSUME NEW q \in Requests PROVE RemoverWired(req[q])'
      BY DEF RemoversWired
    <2>1. CASE q = r
      BY <2>1 DEF Becomes, RemoverWired, FoundRow, WiredAt
    <2>2. CASE q # r
      <3>1. req'[q] = req[q] /\ RemoverWired(req[q])
        BY <2>2 DEF Becomes, WiringInv, RemoversWired
      <3>2. ASSUME req[q].pc = "remove_row",
                   NEW m \in members, m.net = req[q].net, m.ct = req[q].ct
            PROVE  WiredAt(m)' = NoNic
        <4>1. WiredAt(m) = NoNic
          BY <3>1, <3>2 DEF RemoverWired
        <4>2. CASE m # own
          BY <1>1, <4>1, <4>2
        <4>3. CASE m = own /\ nic = NoNic
          BY <1>1, <4>3
        <4>4. CASE m = own /\ nic # NoNic
          <5>1. req[q].net = req[r].net /\ req[q].ct = req[r].ct
            BY <3>2, <4>4 DEF FoundRow
          <5> QED BY <2>2, <3>2, <4>4, <5>1
                  DEF RemovalsApart, RemoveSteps, InsertedSteps, AddSteps
        <4> QED BY <4>2, <4>3, <4>4
      <3> QED BY <3>1, <3>2 DEF RemoverWired, FoundRow
    <2> QED BY <2>1, <2>2
  <1> QED BY <1>2, <1>3, <1>4, <1>5, <1>6 DEF WiringInv

\* The steps of add_member.  The INSERT: the constraints keep the rows apart,
\* so the slot the new row takes has no NIC.
LEMMA InsertWiring ==
    ASSUME IInv, WiringInv, RemovalsApart, NEW r \in Requests, AddInsert(r)
    PROVE  WiringInv'
  <1>1. PICK id \in FreshIds :
            LET row == NewMember(req[r], id)
            IN  \/ /\ Unique(row)
                   /\ members' = members \cup {row}
                   /\ req' = [req EXCEPT ![r].pc = "add_attach", ![r].mem = id]
                \/ UNCHANGED members /\ Return(r)
    BY DEF AddInsert, Lowest
  <1>2. UNCHANGED nics /\ req[r].pc = "add_insert"
    BY DEF AddInsert, node, At
  <1>3. CASE UNCHANGED members /\ Return(r)
    <2>1. Becomes(r, Idle) /\ Idle.pc = "idle"
      BY <1>3, ReturnBecomes
    <2> QED BY <1>2, <1>3, <2>1, QuietWiring, NoWiring
            DEF WiringSteps, InsertedSteps, RemoveSteps
  <1>4. PICK k, row : /\ k = [req[r] EXCEPT !.pc = "add_attach", !.mem = id]
                      /\ row = NewMember(req[r], id)
    OBVIOUS
  <1>5. CASE /\ Unique(row)
             /\ members' = members \cup {row}
             /\ req' = [req EXCEPT ![r] = k]
    <2>1. Becomes(r, k)
      BY <1>5, OneMoves
    <2>2. /\ k.pc = "add_attach" /\ k.mem = id /\ k.net = req[r].net /\ k.ct = req[r].ct
          /\ k.ip = req[r].ip /\ k.slot = req[r].slot
      BY <1>4, <2>1 DEF Becomes, Handler
    <2>3. /\ row.id = id /\ row.net = req[r].net /\ row.ct = req[r].ct /\ row.ip = req[r].ip
          /\ row.slot = req[r].slot /\ row.state = "attaching"
      BY <1>4 DEF NewMember
    <2>4. NewMember(k, k.mem) = row
      BY <1>4, <2>2 DEF NewMember
    <2>5. \A m \in members :
              /\ m.id # row.id /\ ~(m.ct = row.ct /\ m.slot = row.slot)
              /\ ~(m.net = row.net /\ (m.ct = row.ct \/ m.ip = row.ip))
      BY <1>5, <2>3 DEF Unique, FreshIds
    <2>6. \A q \in Requests : req[q].mem # id
      BY DEF FreshIds
    <2>7. nics[<<row.ct, row.slot>>] = NoNic
      <3>1. row.ct \in Containers /\ row.slot \in Slots
        BY <1>2, <2>3 DEF IInv, LocalsSet, LocalsOk, AddSteps
      <3> QED BY <2>5, <3>1 DEF WiringInv, NicAccounted
    <2>8. RowsKeyed'
      BY <1>5, <2>5 DEF WiringInv, RowsKeyed
    <2>9. NicAccounted'
      <3> SUFFICES ASSUME NEW c \in Containers, NEW s \in Slots, nics[<<c, s>>] # NoNic
                   PROVE  \E m \in members' : m.ct = c /\ m.slot = s /\ nics[<<c, s>>] = NicOf(m)
        BY <1>2 DEF NicAccounted
      <3> QED BY <1>5 DEF WiringInv, NicAccounted
    <2>10. ActiveMemberHasNic'
      BY <1>2, <1>5, <2>3 DEF WiringInv, ActiveMemberHasNic, WiredAt
    <2>11. AddersWired'
      <3>1. AdderWired(k)'
        <4>1. row \in members' /\ WiredAt(row)' = NoNic
          BY <1>2, <1>5, <2>7 DEF WiredAt
        <4> QED BY <2>2, <2>4, <4>1 DEF AdderWired, WiredAt
      <3>2. \A q \in Requests : AdderWired(req[q])'
        <4> SUFFICES ASSUME NEW q \in Requests PROVE AdderWired(req[q])'
          OBVIOUS
        <4>1. CASE q = r
          BY <2>1, <3>1, <4>1 DEF Becomes, AdderWired, WiredAt
        <4>2. CASE q # r
          <5>1. req'[q] = req[q] /\ AdderWired(req[q])
            BY <2>1, <4>2 DEF Becomes, WiringInv, AddersWired
          <5>2. members \subseteq members'
            BY <1>5
          <5> QED BY <1>2, <5>1, <5>2 DEF AdderWired, WiredAt
        <4> QED BY <4>1, <4>2
      <3>3. \A q \in Requests : req'[q].mem = id => q = r
        BY <2>1, <2>6 DEF Becomes
      <3> QED BY <2>1, <2>2, <3>2, <3>3 DEF Becomes, WiringInv, AddersWired
    <2>12. RemoversWired'
      <3> SUFFICES ASSUME NEW q \in Requests PROVE RemoverWired(req[q])'
        BY DEF RemoversWired
      <3>1. CASE q = r
        BY <2>1, <2>2, <3>1 DEF Becomes, RemoverWired
      <3>2. CASE q # r
        <4>1. req'[q] = req[q] /\ RemoverWired(req[q])
          BY <2>1, <3>2 DEF Becomes, WiringInv, RemoversWired
        <4>2. ASSUME req[q].pc = "remove_row" PROVE ~(row.net = req[q].net /\ row.ct = req[q].ct)
          BY <1>2, <2>3, <3>2, <4>2 DEF RemovalsApart, RemoveSteps, AddSteps
        <4> QED BY <1>2, <1>5, <4>1, <4>2 DEF RemoverWired, FoundRow, WiredAt
      <3> QED BY <3>1, <3>2
    <2> QED BY <2>8, <2>9, <2>10, <2>11, <2>12 DEF WiringInv
  <1>6. Unique(row) /\ members' = members \cup {row}
          /\ req' = [req EXCEPT ![r].pc = "add_attach", ![r].mem = id]
        => req' = [req EXCEPT ![r] = k]
    BY <1>4 DEF IInv, TypeOK
  <1> QED BY <1>1, <1>3, <1>4, <1>5, <1>6

\* The attach call puts the NIC into the slot of the handler's own row.
LEMMA AttachWiring ==
    ASSUME IInv, WiringInv, RemovalsApart, NEW r \in Requests, AddAttach(r)
    PROVE  WiringInv'
  <1>1. req[r].pc = "add_attach" /\ UNCHANGED members
    BY DEF AddAttach, At, tables
  <1>2. PICK own \in members : /\ own = NewMember(req[r], req[r].mem) /\ FoundRow(req[r], own)
                               /\ own.state = "attaching"
                               /\ NicOf(own) = [bridge |-> req[r].net, ip |-> req[r].ip]
                               /\ WiredAt(own) = NoNic
    BY <1>1, AdderRow DEF InsertedSteps
  <1>3. ASSUME NEW s \in {"add_activate", "add_fail"}, Goto(r, s),
               \/ nics' = [nics EXCEPT ![<<own.ct, own.slot>>] = NicOf(own)]
               \/ UNCHANGED nics /\ s = "add_fail"
        PROVE  WiringInv'
    <2>1. PICK k \in Handler :
              /\ Becomes(r, k) /\ k.pc = s /\ k.net = req[r].net /\ k.ct = req[r].ct
              /\ k.mem = req[r].mem /\ k.ip = req[r].ip /\ k.slot = req[r].slot
      BY <1>3, GotoBecomes DEF Steps
    <2>2. NewMember(k, k.mem) = own
      BY <1>2, <2>1 DEF NewMember
    <2>3. RemoverWired(k) /\ RemoverWired(k)'
      BY <1>3, <2>1 DEF RemoverWired
    <2>4. CASE nics' = [nics EXCEPT ![<<own.ct, own.slot>>] = NicOf(own)]
      <3>1. WiredAt(own)' = NicOf(own)
        BY <2>4, RowTyped DEF WiredAt, IInv, TypeOK
      <3>2. AdderWired(k)'
        BY <1>1, <1>3, <2>1, <2>2, <3>1 DEF AdderWired, WiredAt, NewMember
      <3> QED BY <1>1, <1>2, <1>3, <2>1, <2>3, <2>4, <3>2, RewireWiring DEF InsertedSteps
    <2>5. CASE UNCHANGED nics /\ s = "add_fail"
      <3>1. AdderWired(k)
        BY <1>3, <2>1, <2>2, <2>5 DEF AdderWired
      <3> QED BY <1>1, <1>3, <2>1, <2>3, <2>5, <3>1, QuietWiring DEF InsertedSteps
    <2> QED BY <1>3, <2>4, <2>5
  <1>4. [bridge |-> req[r].net, ip |-> req[r].ip] = NicOf(own)
        /\ req[r].ct = own.ct /\ req[r].slot = own.slot
    BY <1>2 DEF FoundRow
  <1>5. \/ /\ nics' = [nics EXCEPT ![<<own.ct, own.slot>>] = NicOf(own)]
           /\ Goto(r, "add_activate") \/ Goto(r, "add_fail")
        \/ UNCHANGED nics /\ Goto(r, "add_fail")
    BY <1>4 DEF AddAttach, AttachNic
  <1> QED BY <1>3, <1>5

\* The handler's last step marks the row 'active' or 'failed'.
LEMMA AddEndWiring ==
    ASSUME IInv, WiringInv, RemovalsApart, NEW r \in Requests, AddFail(r) \/ AddActivate(r)
    PROVE  WiringInv'
  <1>1. PICK st \in {"failed", "active"} :
            /\ SetMemberState(req[r].mem, st) /\ Return(r) /\ UNCHANGED nics
            /\ req[r].pc \in {"add_fail", "add_activate"}
            /\ st = "active" => req[r].pc = "add_activate"
    BY DEF AddFail, AddActivate, At, node
  <1>2. PICK own \in members : /\ FoundRow(req[r], own)
                               /\ st = "active" => WiredAt(own) = NicOf(own)
    BY <1>1, AdderRow DEF InsertedSteps
  <1>3. SetMemberState(own.id, st)
    BY <1>1, <1>2 DEF FoundRow
  <1>4. Becomes(r, Idle) /\ Idle.pc = "idle"
    BY <1>1, ReturnBecomes
  <1> QED BY <1>1, <1>2, <1>3, <1>4, RestateWiring DEF InsertedSteps, MembershipStates

-----------------------------------------------------------------------------

\* remove_member finds the row it works on.
LEMMA FindWiring ==
    ASSUME IInv, WiringInv, NEW r \in Requests, RemoveFind(r)
    PROVE  WiringInv'
  <1>1. UNCHANGED <<members, nics>> /\ req[r].pc = "remove_find"
    BY DEF RemoveFind, tables, node, At
  <1>2. CASE Return(r)
    <2>1. Becomes(r, Idle) /\ Idle.pc = "idle"
      BY <1>2, ReturnBecomes
    <2> QED BY <1>1, <2>1, QuietWiring, NoWiring
            DEF WiringSteps, InsertedSteps, RemoveSteps
  <1>3. ASSUME NEW m \in members, m.net = req[r].net, m.ct = req[r].ct,
               req' = [req EXCEPT ![r].pc = "remove_mark",
                                  ![r].mem = m.id, ![r].slot = m.slot]
        PROVE  WiringInv'
    <2>1. PICK k : k = [req[r] EXCEPT !.pc = "remove_mark", !.mem = m.id, !.slot = m.slot]
      OBVIOUS
    <2>2. Becomes(r, k)
      BY <1>3, <2>1, OneMoves DEF IInv, TypeOK
    <2>3. k.pc = "remove_mark" /\ FoundRow(k, m)
      BY <1>3, <2>1, <2>2 DEF Becomes, Handler, FoundRow
    <2>4. AdderWired(k) /\ RemoverWired(k)
      BY <2>3 DEF AdderWired, RemoverWired, InsertedSteps
    <2> QED BY <1>1, <2>2, <2>3, <2>4, QuietWiring DEF InsertedSteps
  <1> QED BY <1>2, <1>3 DEF RemoveFind, MembersOf

\* It marks the row 'detaching' before, and 'failed' after, a failed detach.
LEMMA RemoveMarkWiring ==
    ASSUME IInv, WiringInv, RemovalsApart, NEW r \in Requests, RemoveMark(r) \/ RemoveFail(r)
    PROVE  WiringInv'
  <1>1. PICK own \in members : FoundRow(req[r], own)
    <2>1. RemoverWired(req[r]) /\ req[r].pc \in {"remove_mark", "remove_fail"}
      BY DEF WiringInv, RemoversWired, RemoveMark, RemoveFail, At
    <2> QED BY <2>1 DEF RemoverWired
  <1>2. CASE RemoveMark(r)
    <2>1. PICK k \in Handler :
              /\ Becomes(r, k) /\ k.pc = "remove_detach" /\ k.net = req[r].net
              /\ k.ct = req[r].ct /\ k.mem = req[r].mem /\ k.slot = req[r].slot
      BY <1>2, GotoBecomes DEF RemoveMark, Steps
    <2>2. SetMemberState(own.id, "detaching") /\ UNCHANGED nics /\ FoundRow(k, own)
      BY <1>1, <1>2, <2>1 DEF RemoveMark, node, FoundRow
    <2> QED BY <1>1, <1>2, <2>1, <2>2, RestateWiring
            DEF RemoveMark, At, RemoveSteps, MembershipStates
  <1>3. CASE RemoveFail(r)
    <2>1. Becomes(r, Idle) /\ Idle.pc = "idle"
      BY <1>3, ReturnBecomes DEF RemoveFail
    <2>2. SetMemberState(own.id, "failed") /\ UNCHANGED nics
      BY <1>1, <1>3 DEF RemoveFail, node, FoundRow
    <2> QED BY <1>1, <1>3, <2>1, <2>2, RestateWiring
            DEF RemoveFail, At, RemoveSteps, MembershipStates
  <1> QED BY <1>2, <1>3

\* The detach call empties the slot of the row that was found.
LEMMA DetachWiring ==
    ASSUME IInv, WiringInv, RemovalsApart, NEW r \in Requests, RemoveDetach(r)
    PROVE  WiringInv'
  <1>1. req[r].pc = "remove_detach" /\ UNCHANGED members
    BY DEF RemoveDetach, At, tables
  <1>2. PICK own \in members : FoundRow(req[r], own) /\ own.state # "active"
    BY <1>1 DEF WiringInv, RemoversWired, RemoverWired
  <1>3. \A m \in members : m.net = req[r].net /\ m.ct = req[r].ct => m = own
    BY <1>2 DEF WiringInv, RowsKeyed, FoundRow
  <1>4. ASSUME NEW s \in {"remove_row", "remove_fail"}, Goto(r, s),
               \/ nics' = [nics EXCEPT ![<<own.ct, own.slot>>] = NoNic]
               \/ UNCHANGED nics /\ s = "remove_fail"
        PROVE  WiringInv'
    <2>1. PICK k \in Handler :
              /\ Becomes(r, k) /\ k.pc = s /\ k.net = req[r].net
              /\ k.ct = req[r].ct /\ k.mem = req[r].mem /\ k.slot = req[r].slot
      BY <1>4, GotoBecomes DEF Steps
    <2>2. AdderWired(k) /\ AdderWired(k)' /\ k.pc \notin InsertedSteps
      BY <1>4, <2>1 DEF AdderWired, InsertedSteps
    <2>3. FoundRow(k, own)
      BY <1>2, <2>1 DEF FoundRow
    <2>4. CASE nics' = [nics EXCEPT ![<<own.ct, own.slot>>] = NoNic]
      <3>1. WiredAt(own)' = NoNic
        BY <2>4, RowTyped DEF WiredAt, IInv, TypeOK
      <3>2. RemoverWired(k)'
        BY <1>1, <1>3, <1>4, <2>1, <2>3, <3>1 DEF RemoverWired, FoundRow, WiredAt
      <3> QED BY <1>1, <1>2, <2>1, <2>2, <2>4, <3>2, RewireWiring DEF RemoveSteps
    <2>5. CASE UNCHANGED nics /\ s = "remove_fail"
      <3>1. RemoverWired(k)
        BY <1>4, <2>1, <2>3, <2>5 DEF RemoverWired
      <3> QED BY <1>1, <2>1, <2>2, <2>5, <3>1, QuietWiring
    <2> QED BY <1>4, <2>4, <2>5
  <1>5. \/ /\ nics' = [nics EXCEPT ![<<own.ct, own.slot>>] = NoNic]
           /\ Goto(r, "remove_row") \/ Goto(r, "remove_fail")
        \/ UNCHANGED nics /\ Goto(r, "remove_fail")
    BY <1>2 DEF RemoveDetach, DetachNic, FoundRow
  <1> QED BY <1>4, <1>5

\* The row goes, and no NIC with it.
LEMMA RemoveRowWiring ==
    ASSUME IInv, WiringInv, RemovalsApart, NEW r \in Requests, RemoveRow(r)
    PROVE  WiringInv'
  <1> DEFINE gone(m) == m.net = req[r].net /\ m.ct = req[r].ct
  <1>1. /\ members' = {m \in members : ~gone(m)}
        /\ UNCHANGED nics
        /\ req[r].pc = "remove_row"
        /\ Becomes(r, Idle) /\ Idle.pc = "idle"
    BY ReturnBecomes DEF RemoveRow, At, node
  <1>2. \A m \in members : gone(m) => WiredAt(m) = NoNic
    BY <1>1 DEF WiringInv, RemoversWired, RemoverWired
  <1>3. \A q \in Requests, m \in members :
            (q # r /\ FoundRow(req[q], m) /\ req[q].pc \in AddSteps \cup RemoveSteps) => ~gone(m)
    BY <1>1 DEF RemovalsApart, FoundRow, RemoveSteps
  <1> HIDE DEF gone
  <1>4. RowsKeyed'
    BY <1>1 DEF WiringInv, RowsKeyed
  <1>5. NicAccounted'
    <2> SUFFICES ASSUME NEW c \in Containers, NEW s \in Slots, nics'[<<c, s>>] # NoNic
                 PROVE  \E m \in members' : m.ct = c /\ m.slot = s /\ nics'[<<c, s>>] = NicOf(m)
      BY DEF NicAccounted, NicOf
    <2>0. nics'[<<c, s>>] = nics[<<c, s>>]
      BY <1>1
    <2>1. PICK m \in members : m.ct = c /\ m.slot = s /\ nics[<<c, s>>] = NicOf(m)
      <3>1. NicAccounted
        BY DEF WiringInv
      <3> QED BY ONLY <2>0, <3>1, nics'[<<c, s>>] # NoNic, c \in Containers, s \in Slots
              DEF NicAccounted
    <2>2. ~gone(m)
      BY <1>2, <2>0, <2>1 DEF WiredAt
    <2> QED BY <1>1, <2>0, <2>1, <2>2
  <1>6. ActiveMemberHasNic'
    BY <1>1 DEF WiringInv, ActiveMemberHasNic, WiredAt
  <1>7. AddersWired'
    <2>1. ASSUME NEW q \in Requests, req'[q].pc \in InsertedSteps
          PROVE  AdderWired(req[q])'
      <3>1. q # r /\ req'[q] = req[q]
        BY <1>1, <2>1 DEF Becomes, InsertedSteps
      <3>2. PICK m \in members : /\ m = NewMember(req[q], req[q].mem) /\ FoundRow(req[q], m)
                                 /\ NicOf(m) = [bridge |-> req[q].net, ip |-> req[q].ip]
                                 /\ req[q].pc = "add_attach" => WiredAt(m) = NoNic
                                 /\ req[q].pc = "add_activate" => WiredAt(m) = NicOf(m)
        BY <2>1, <3>1, AdderRow
      <3>3. m \in members'
        BY <1>1, <1>3, <2>1, <3>1, <3>2 DEF InsertedSteps, AddSteps
      <3> QED BY <1>1, <3>1, <3>2, <3>3 DEF AdderWired, WiredAt
    <2>2. \A q \in Requests : AdderWired(req[q])'
      BY <2>1 DEF AdderWired, InsertedSteps
    <2> QED BY <1>1, <2>2 DEF WiringInv, AddersWired, Becomes, InsertedSteps
  <1>8. RemoversWired'
    <2> SUFFICES ASSUME NEW q \in Requests PROVE RemoverWired(req[q])'
      BY DEF RemoversWired
    <2>1. CASE q = r
      BY <1>1, <2>1 DEF Becomes, RemoverWired
    <2>2. CASE q # r
      <3>1. req'[q] = req[q] /\ RemoverWired(req[q])
        BY <1>1, <2>2 DEF Becomes, WiringInv, RemoversWired
      <3>2. ASSUME req[q].pc \in {"remove_mark", "remove_detach", "remove_fail"}
            PROVE  \E m \in members' :
                      FoundRow(req[q], m) /\ (req[q].pc = "remove_detach" => m.state # "active")
        <4>1. PICK m \in members :
                  FoundRow(req[q], m) /\ (req[q].pc = "remove_detach" => m.state # "active")
          BY <3>1, <3>2 DEF RemoverWired
        <4> QED BY <1>1, <1>3, <2>2, <3>2, <4>1 DEF RemoveSteps
      <3> QED BY <1>1, <3>1, <3>2 DEF RemoverWired, FoundRow, WiredAt
    <2> QED BY <2>1, <2>2
  <1> QED BY <1>4, <1>5, <1>6, <1>7, <1>8 DEF WiringInv

-----------------------------------------------------------------------------

\* All other steps leave rows and NICs alone, and their handler has no part in
\* the wiring when they are done.
LEMMA ElsewhereWiring ==
    ASSUME IInv, WiringInv, NEW r \in Requests, UNCHANGED <<members, nics>>, MovesOnly(r),
           req'[r].pc \notin WiringSteps \ {"remove_find"}
    PROVE  WiringInv'
  <1>1. PICK k : k = req'[r]
    OBVIOUS
  <1>2. Becomes(r, k)
    BY <1>1 DEF IInv, TypeOK, Becomes, MovesOnly
  <1>3. AdderWired(k) /\ RemoverWired(k) /\ k.pc \notin InsertedSteps
    BY <1>1 DEF AdderWired, RemoverWired, WiringSteps, InsertedSteps, RemoveSteps
  <1> QED BY <1>2, <1>3, QuietWiring

LEMMA StepWiring ==
    ASSUME IInv, WiringInv, RemovalsApart, NEW r \in Requests,
           Moved(r)
    PROVE  WiringInv'
  <1> DEFINE Elsewhere == /\ UNCHANGED <<members, nics>> /\ MovesOnly(r)
                          /\ req'[r].pc \notin WiringSteps \ {"remove_find"}
  <1>0. req \in [Requests -> Handler]
    BY DEF IInv, TypeOK
  <1>1. Return(r) => MovesOnly(r) /\ req'[r].pc = "idle"
    BY Stands DEF Idle
  <1>2. Elsewhere => WiringInv'
    BY ElsewhereWiring
  <1>3. CASE Create(r)
    <2>1. CASE CreateBegin(r)
      <3>1. MovesOnly(r) /\ req'[r].pc = "create_user_limit"
        BY <1>0, <2>1 DEF CreateBegin, Begin, MovesOnly, Idle
      <3> QED BY <1>2, <2>1, <3>1
              DEF CreateBegin, tables, node, WiringSteps, InsertedSteps, RemoveSteps
    <2>2. CASE CreateDraw(r)
      <3>1. MovesOnly(r) /\ req'[r].pc = "create_insert"
        BY <2>2 DEF CreateDraw, MovesOnly, IInv, TypeOK, Handler
      <3> QED BY <1>2, <2>2, <3>1
              DEF CreateDraw, node, WiringSteps, InsertedSteps, RemoveSteps
    <2>3. CASE CreateInsert(r)
      BY <1>1, <1>2, <2>3, Stands
         DEF CreateInsert, node, WiringSteps, InsertedSteps, RemoveSteps
    <2>4. CASE CreateApply(r)
      BY <1>1, <1>2, <2>4, Stands
         DEF CreateApply, ApplyConfig, tables, WiringSteps, InsertedSteps, RemoveSteps
    <2>5. CASE CreateUserLimit(r) \/ CreateOverlap(r) \/ CreatePost(r) \/ CreateActivate(r)
      BY <1>1, <1>2, <2>5, Stands
         DEF CreateUserLimit, CreateOverlap, CreatePost, CreateActivate, tables, node,
             WiringSteps, InsertedSteps, RemoveSteps
    <2> QED BY <1>3, <2>1, <2>2, <2>3, <2>4, <2>5 DEF Create
  <1>4. CASE Rename(r)
    <2>1. CASE RenameBegin(r)
      <3>1. MovesOnly(r) /\ req'[r].pc = "rename_update"
        BY <1>0, <2>1 DEF RenameBegin, Begin, MovesOnly, Idle
      <3> QED BY <1>2, <2>1, <3>1
              DEF RenameBegin, tables, node, WiringSteps, InsertedSteps, RemoveSteps
    <2>2. CASE RenameUpdate(r)
      BY <1>1, <1>2, <2>2 DEF RenameUpdate, node, WiringSteps, InsertedSteps, RemoveSteps
    <2> QED BY <1>4, <2>1, <2>2 DEF Rename
  <1>5. CASE Delete(r)
    <2>1. CASE DeleteBegin(r)
      <3>1. MovesOnly(r) /\ req'[r].pc = "delete_members"
        BY <1>0, <2>1 DEF DeleteBegin, Begin, MovesOnly, Idle
      <3> QED BY <1>2, <2>1, <3>1
              DEF DeleteBegin, tables, node, WiringSteps, InsertedSteps, RemoveSteps
    <2>2. CASE DeleteApply(r)
      BY <1>1, <1>2, <2>2, Stands
         DEF DeleteApply, ApplyConfig, tables, WiringSteps, InsertedSteps, RemoveSteps
    <2>3. CASE DeleteMembers(r) \/ DeleteMark(r) \/ DeleteBridge(r) \/ DeleteRow(r)
      BY <1>1, <1>2, <2>3, Stands
         DEF DeleteMembers, DeleteMark, DeleteBridge, DeleteRow, tables, node,
             WiringSteps, InsertedSteps, RemoveSteps
    <2> QED BY <1>5, <2>1, <2>2, <2>3 DEF Delete
  <1>6. CASE Add(r)
    <2>1. CASE AddBegin(r)
      <3>1. MovesOnly(r) /\ req'[r].pc = "add_members"
        BY <1>0, <2>1 DEF AddBegin, Begin, MovesOnly, Idle
      <3> QED BY <1>2, <2>1, <3>1
              DEF AddBegin, tables, node, WiringSteps, InsertedSteps, RemoveSteps
    <2>2. CASE AddMembers(r)
      BY <1>1, <1>2, <2>2, Stands
         DEF AddMembers, tables, node, WiringSteps, InsertedSteps, RemoveSteps
    <2>3. CASE AddIp(r) \/ AddSlot(r)
      <3>1. MovesOnly(r) /\ req'[r].pc \in {"idle", "add_slot", "add_insert"}
        BY <1>1, <2>3 DEF AddIp, AddSlot, MovesOnly, IInv, TypeOK, Handler
      <3> QED BY <1>2, <2>3, <3>1
              DEF AddIp, AddSlot, tables, node, WiringSteps, InsertedSteps, RemoveSteps
    <2> QED BY <1>6, <2>1, <2>2, <2>3, InsertWiring, AttachWiring, AddEndWiring DEF Add
  <1>7. CASE Remove(r)
    <2>1. CASE RemoveBegin(r)
      <3>1. MovesOnly(r) /\ req'[r].pc = "remove_find"
        BY <1>0, <2>1 DEF RemoveBegin, Begin, MovesOnly, Idle
      <3> QED BY <1>2, <2>1, <3>1 DEF RemoveBegin, tables, node
    <2> QED BY <1>7, <2>1, FindWiring, RemoveMarkWiring, DetachWiring, RemoveRowWiring
            DEF Remove
  <1>8. CASE Abort(r)
    BY <1>1, <1>2, <1>8 DEF Abort, tables, node, WiringSteps, InsertedSteps, RemoveSteps
  <1> QED BY <1>3, <1>4, <1>5, <1>6, <1>7, <1>8 DEF Moved

LEMMA StutterWiring ==
    ASSUME WiringInv, UNCHANGED vars
    PROVE  WiringInv'
  <1>0. UNCHANGED <<networks, members, nics, req>>
    BY DEF vars, tables, node
  <1>1. RowsKeyed'
    BY <1>0 DEF WiringInv, RowsKeyed
  <1>2. NicAccounted'
    BY <1>0, NicsKept DEF WiringInv
  <1>3. ActiveMemberHasNic'
    BY <1>0 DEF WiringInv, ActiveMemberHasNic, WiredAt
  <1>4. AddersWired'
    BY <1>0 DEF WiringInv, AddersWired, AdderWired, WiredAt
  <1>5. RemoversWired'
    BY <1>0 DEF WiringInv, RemoversWired, RemoverWired, FoundRow, WiredAt
  <1> QED BY <1>1, <1>2, <1>3, <1>4, <1>5 DEF WiringInv

LEMMA InitWiring == Init => WiringInv
  <1> SUFFICES ASSUME Init PROVE WiringInv
    OBVIOUS
  <1>1. members = {} /\ \A r \in Requests : req[r].pc = "idle"
    BY DEF Init, Idle
  <1>2. NicAccounted
    BY DEF Init, NicAccounted
  <1> QED BY <1>1, <1>2 DEF WiringInv, RowsKeyed, ActiveMemberHasNic, AddersWired, AdderWired,
          RemoversWired, RemoverWired, InsertedSteps

\* While no container is removed from a network by one request and added to it
\* or removed from it by another, every NIC has the row that reserves its slot
\* and address, every active membership has its NIC, and every handler in
\* flight finds the row and the NIC as it left them.
THEOREM WiringSound == Spec /\ []RemovalsApart => []WiringInv
  <1>1. Init => WiringInv
    BY InitWiring
  <1>2. IInv /\ RemovalsApart /\ WiringInv /\ [Next]_vars => WiringInv'
    BY StepWiring, StutterWiring DEF Next, Moved
  <1> QED BY <1>1, <1>2, InductiveInvariant, PTL DEF Spec

\* A NIC's slot and address cannot be handed out again while it is there.
THEOREM NicsAccounted == Spec /\ []RemovalsApart => []NicAccounted
  <1>1. WiringInv => NicAccounted
    BY DEF WiringInv
  <1> QED BY <1>1, WiringSound, PTL

\* A membership shown as active is wired as its row says.
THEOREM ActiveMembersWired == Spec /\ []RemovalsApart => []ActiveMemberHasNic
  <1>1. WiringInv => ActiveMemberHasNic
    BY DEF WiringInv
  <1> QED BY <1>1, WiringSound, PTL

\* No two NICs of a bridge share an address.
THEOREM AddressesUnique == Spec /\ []RemovalsApart => []IpUniqueOnBridge
  <1>1. ASSUME IInv, WiringInv PROVE IpUniqueOnBridge
    <2> SUFFICES ASSUME NEW p \in Containers \X Slots, NEW q \in Containers \X Slots,
                        nics[p] # NoNic, nics[p] = nics[q]
                 PROVE  p = q
      BY DEF IpUniqueOnBridge
    <2>0. PICK c, d \in Containers, s, t \in Slots : p = <<c, s>> /\ q = <<d, t>>
      OBVIOUS
    <2>1. PICK m \in members : m.ct = c /\ m.slot = s /\ nics[<<c, s>>] = NicOf(m)
      BY <1>1, <2>0 DEF WiringInv, NicAccounted
    <2>2. PICK k \in members : k.ct = d /\ k.slot = t /\ nics[<<d, t>>] = NicOf(k)
      BY <1>1, <2>0 DEF WiringInv, NicAccounted
    <2>3. m.net = k.net /\ m.ip = k.ip
      BY <2>0, <2>1, <2>2 DEF NicOf
    <2>4. m = k
      BY <1>1, <2>3 DEF WiringInv, RowsKeyed
    <2> QED BY <2>0, <2>1, <2>2, <2>4
  <1> QED BY <1>1, WiringSound, InductiveInvariant, PTL DEF Spec

-----------------------------------------------------------------------------
(***************************************************************************)
(* The networks and their bridges.                                         *)
(***************************************************************************)
State(n) == networks[n].state
HasMembers(n) == \E m \in members : m.net = n

\* What it takes to stand at a step.
Placed(h) ==
    /\ h.pc \in AddSteps => State(h.net) = "active"
    /\ h.pc \in BuildSteps => State(h.net) = "creating"
    /\ h.pc \in {"create_apply", "create_activate"} => h.net \in conf
    /\ h.pc = "create_activate" => h.net \in live
    /\ h.pc \in DeleteSteps \ {"delete_members"} => ~HasMembers(h.net)
    /\ h.pc \in {"delete_bridge", "delete_apply", "delete_row"} =>
          State(h.net) \in {"deleting", "absent"}
    /\ h.pc \in {"delete_apply", "delete_row"} => h.net \notin conf
    /\ h.pc = "delete_row" => h.net \notin live

\* BridgesInv with its parts about handlers joined.
PlacedInv ==
    /\ \A n \in BridgeIds : State(n) = "active" => n \in conf /\ n \in live
    /\ \A m \in members : State(m.net) = "active"
    /\ \A q \in Requests : Placed(req[q])
    /\ \A q, s \in Requests :
          (/\ req[q].pc \in BuildSteps /\ req[s].pc \in BuildSteps
           /\ req[q].net = req[s].net) => q = s

LEMMA PlacedAll == (BridgesInv <=> PlacedInv) /\ (BridgesInv <=> PlacedInv)'
  <1>1. BridgesInv <=> PlacedInv
    <2>1. \A n : MembersOf(n) = {} <=> ~HasMembers(n)
      BY DEF MembersOf, HasMembers
    <2>2. (\A q \in Requests : Placed(req[q])) <=>
              /\ \A q \in Requests : req[q].pc \in AddSteps => State(req[q].net) = "active"
              /\ \A q \in Requests : BuilderAt(req[q]) /\ DeleterAt(req[q])
      BY <2>1 DEF Placed, BuilderAt, DeleterAt, State
    <2> QED BY <2>2 DEF PlacedInv, BridgesInv, ActiveNetworkHasBridge, MembersOnActive,
                        BuildersAt, DeletersAt, State
  <1> QED BY <1>1, PTL

\* A step that changes no network's state and configures no bridge.
LEMMA QuietBridges ==
    ASSUME IInv, PlacedInv, NEW r \in Requests, NEW k, Becomes(r, k),
           \A n \in BridgeIds : State(n)' = State(n),
           \A n \in BridgeIds : HasMembers(n)' => HasMembers(n),
           \A m \in members' : m.net \in BridgeIds,
           conf' = conf, live' \in {live, conf},
           k.pc \in BuildSteps => req[r].pc \in BuildSteps /\ k.net = req[r].net,
           Placed(k)'
    PROVE  PlacedInv'
  <1>1. \A n \in BridgeIds : (State(n) = "active" => n \in conf /\ n \in live)'
    BY DEF PlacedInv
  <1>2. \A m \in members' : State(m.net)' = "active"
    <2>1. \A n \in BridgeIds : HasMembers(n) => State(n) = "active"
      BY DEF PlacedInv, HasMembers
    <2> QED BY <2>1 DEF HasMembers
  <1>3. \A q \in Requests : Placed(req[q])'
    <2> SUFFICES ASSUME NEW q \in Requests PROVE Placed(req[q])'
      OBVIOUS
    <2>1. CASE q = r
      BY <2>1 DEF Becomes, Placed, State, HasMembers
    <2>2. CASE q # r
      <3>1. req'[q] = req[q] /\ Placed(req[q])
        BY <2>2 DEF Becomes, PlacedInv
      <3>2. CASE req[q].pc \in BuildSteps \cup AddSteps \cup DeleteSteps
        <4>1. req[q].net \in BridgeIds
          BY <3>2, NetKnown
        <4>2. PICK n \in BridgeIds : n = req[q].net
          BY <4>1
        <4>3. State(n)' = State(n) /\ (HasMembers(n)' => HasMembers(n))
          OBVIOUS
        <4>4. State(req[q].net)' = State(n)' /\ (HasMembers(req[q].net)' <=> HasMembers(n)')
          BY <3>1, <4>2 DEF State, HasMembers
        <4> QED BY <3>1, <4>2, <4>3, <4>4 DEF Placed, BuildSteps
      <3>3. CASE req[q].pc \notin BuildSteps \cup AddSteps \cup DeleteSteps
        BY <3>1, <3>3 DEF Placed, BuildSteps, DeleteSteps
      <3> QED BY <3>2, <3>3
    <2> QED BY <2>1, <2>2
  <1>4. \A q, s \in Requests :
            (/\ req'[q].pc \in BuildSteps /\ req'[s].pc \in BuildSteps
             /\ req'[q].net = req'[s].net) => q = s
    BY DEF Becomes, PlacedInv
  <1> QED BY <1>1, <1>2, <1>3, <1>4 DEF PlacedInv

\* A step on network n and its bridge only, which leaves the facts of all
\* handlers of n true and n's own.
LEMMA OwnBridges ==
    ASSUME IInv, PlacedInv, NEW r \in Requests, NEW k, Becomes(r, k), NEW n \in BridgeIds,
           \A j \in BridgeIds \ {n} : /\ State(j)' = State(j)
                                      /\ j \in conf' <=> j \in conf
                                      /\ HasMembers(j)' => HasMembers(j),
           live' = live,
           \A m \in members' : m.net \in BridgeIds,
           (State(n) = "active" => n \in conf /\ n \in live)',
           (HasMembers(n) => State(n) = "active")',
           \A q \in Requests \ {r} : req[q].net = n => Placed(req[q])',
           k.pc \in BuildSteps => \A q \in Requests \ {r} :
                                     req[q].pc \in BuildSteps => req[q].net # k.net,
           Placed(k)'
    PROVE  PlacedInv'
  <1>1. \A j \in BridgeIds : (State(j) = "active" => j \in conf /\ j \in live)'
    BY DEF PlacedInv
  <1>2. \A m \in members' : State(m.net)' = "active"
    <2>1. \A j \in BridgeIds : HasMembers(j) => State(j) = "active"
      BY DEF PlacedInv, HasMembers
    <2>2. \A j \in BridgeIds : HasMembers(j)' => State(j)' = "active"
      BY <2>1
    <2> QED BY <2>2 DEF HasMembers
  <1>3. \A q \in Requests : Placed(req[q])'
    <2> SUFFICES ASSUME NEW q \in Requests PROVE Placed(req[q])'
      OBVIOUS
    <2>1. CASE q = r
      BY <2>1 DEF Becomes, Placed, State, HasMembers
    <2>2. CASE q # r /\ req[q].net = n
      BY <2>2
    <2>3. CASE q # r /\ req[q].net # n
      <3>1. req'[q] = req[q] /\ Placed(req[q])
        BY <2>3 DEF Becomes, PlacedInv
      <3>2. CASE req[q].pc \in BuildSteps \cup AddSteps \cup DeleteSteps
        <4>1. PICK j \in BridgeIds \ {n} : j = req[q].net
          BY <2>3, <3>2, NetKnown
        <4>2. State(j)' = State(j) /\ (HasMembers(j)' => HasMembers(j)) /\ (j \in conf' <=> j \in conf)
          OBVIOUS
        <4>3. State(req[q].net)' = State(j)' /\ (HasMembers(req[q].net)' <=> HasMembers(j)')
          BY <3>1, <4>1 DEF State, HasMembers
        <4> QED BY <3>1, <4>1, <4>2, <4>3 DEF Placed, BuildSteps
      <3>3. CASE req[q].pc \notin BuildSteps \cup AddSteps \cup DeleteSteps
        BY <3>1, <3>3 DEF Placed, BuildSteps, DeleteSteps
      <3> QED BY <3>2, <3>3
    <2> QED BY <2>1, <2>2, <2>3
  <1>4. \A q, s \in Requests :
            (/\ req'[q].pc \in BuildSteps /\ req'[s].pc \in BuildSteps
             /\ req'[q].net = req'[s].net) => q = s
    BY DEF Becomes, PlacedInv
  <1> QED BY <1>1, <1>2, <1>3, <1>4 DEF PlacedInv

MembersTyped == \A m \in members' : m.net \in BridgeIds

\* A quiet step after which the handler stands where nothing is asked of the
\* network, or still adds to the same one, or has seen that it has no members.
LEMMA PlainBridges ==
    ASSUME IInv, PlacedInv, MembersTyped, NEW r \in Requests, MovesOnly(r),
           \A n \in BridgeIds : State(n)' = State(n),
           \A n \in BridgeIds : HasMembers(n)' => HasMembers(n),
           conf' = conf, live' \in {live, conf},
           \/ req'[r].pc \notin BuildSteps \cup AddSteps \cup (DeleteSteps \ {"delete_members"})
           \/ /\ req'[r].pc \in AddSteps /\ req'[r].net \in BridgeIds
              /\ State(req'[r].net) = "active"
           \/ /\ req'[r].pc = "delete_mark" /\ req'[r].net \in BridgeIds
              /\ ~HasMembers(req'[r].net)
    PROVE  PlacedInv'
  <1>1. PICK k : k = req'[r]
    OBVIOUS
  <1>2. Becomes(r, k)
    BY <1>1 DEF IInv, TypeOK, Becomes, MovesOnly
  <1>3. Placed(k)' /\ k.pc \notin BuildSteps
    <2>1. CASE k.pc \notin BuildSteps \cup AddSteps \cup (DeleteSteps \ {"delete_members"})
      BY <2>1 DEF Placed, BuildSteps, DeleteSteps
    <2>2. CASE k.pc \in AddSteps /\ k.net \in BridgeIds /\ State(k.net) = "active"
      BY <2>2 DEF Placed, AddSteps, BuildSteps, DeleteSteps
    <2>3. CASE k.pc = "delete_mark" /\ k.net \in BridgeIds /\ ~HasMembers(k.net)
      BY <2>3 DEF Placed, AddSteps, BuildSteps, DeleteSteps
    <2> QED BY <1>1, <2>1, <2>2, <2>3
  <1> QED BY <1>2, <1>3, QuietBridges DEF MembersTyped

\* The steps of create_network that touch the network and its bridge.
LEMMA InsertBridges ==
    ASSUME IInv, PlacedInv, MembersTyped, NEW r \in Requests,
           CreateInsert(r), ~Exists(req[r].net)
    PROVE  PlacedInv'
  <1>1. req[r].pc = "create_insert" /\ UNCHANGED <<members, conf, live>>
    BY DEF CreateInsert, At, node
  <1>2. PICK n \in BridgeIds : n = req[r].net
    BY <1>1, NetKnown
  <1>3. PICK k \in Handler : Becomes(r, k) /\ k.pc = "create_post" /\ k.net = n
    BY <1>2, GotoBecomes DEF CreateInsert, Steps
  <1>4. /\ State(n)' = "creating"
        /\ \A j \in BridgeIds \ {n} : State(j)' = State(j)
    BY <1>2 DEF CreateInsert, State, IInv, TypeOK
  <1>5. \A j : HasMembers(j)' <=> HasMembers(j)
    BY <1>1 DEF HasMembers
  <1>6. State(n) = "absent" /\ \A q \in Requests \ {r} : req[q].net # n
    BY <1>1, <1>2 DEF IInv, DrawnIsPrivate, State, Exists, NoNetwork
  <1>7. ~HasMembers(n)
    BY <1>6 DEF PlacedInv, HasMembers
  <1>8. Placed(k)'
    BY <1>3, <1>4 DEF Placed, AddSteps, BuildSteps, DeleteSteps
  <1> QED BY <1>1, <1>3, <1>4, <1>5, <1>6, <1>7, <1>8, OwnBridges DEF MembersTyped

LEMMA PostBridges ==
    ASSUME IInv, PlacedInv, MembersTyped, DeletionsApart, NEW r \in Requests, CreatePost(r)
    PROVE  PlacedInv'
  <1>1. req[r].pc = "create_post" /\ UNCHANGED <<networks, members, live>>
    BY DEF CreatePost, At, tables
  <1>2. PICK n \in BridgeIds : n = req[r].net
    BY <1>1, NetKnown DEF BuildSteps
  <1>3. /\ \A j : State(j)' = State(j)
        /\ \A j : HasMembers(j)' <=> HasMembers(j)
    BY <1>1 DEF HasMembers, State
  <1>4. State(n) = "creating"
    BY <1>1, <1>2 DEF PlacedInv, Placed, BuildSteps
  <1>5. CASE conf' = conf \cup {n}
    <2>1. PICK k : Becomes(r, k) /\ (k.pc = "idle" \/ (k.pc = "create_apply" /\ k.net = n))
      BY <1>2, GotoBecomes, ReturnBecomes DEF CreatePost, Steps
    <2>2. Placed(k)'
      <3>1. CASE k.pc = "idle"
        BY <3>1 DEF Placed, AddSteps, BuildSteps, DeleteSteps
      <3>2. CASE k.pc = "create_apply" /\ k.net = n
        <4>1. State(k.net)' = "creating" /\ k.net \in conf'
          BY <1>3, <1>4, <1>5, <3>2
        <4> QED BY <3>2, <4>1 DEF Placed, AddSteps, BuildSteps, DeleteSteps
      <3> QED BY <2>1, <3>1, <3>2
    <2>3. ASSUME NEW q \in Requests \ {r}, req[q].net = n
          PROVE  Placed(req[q])' /\ req[q].pc \notin BuildSteps
      <3>1. req'[q] = req[q] /\ Placed(req[q])
        BY <2>1 DEF Becomes, PlacedInv
      <3>2. req[q].pc \notin BuildSteps
        BY <1>1, <1>2, <2>3 DEF PlacedInv, BuildSteps
      <3>3. req[q].pc \notin DeleteSteps
        BY <1>1, <1>2, <2>3 DEF DeletionsApart, CreateSteps
      <3> QED BY <1>3, <3>1, <3>2, <3>3 DEF Placed, BuildSteps, DeleteSteps
    <2>4. \A j \in BridgeIds \ {n} : j \in conf' <=> j \in conf
      BY <1>5
    <2>5. /\ (State(n) = "active" => n \in conf /\ n \in live)'
          /\ (HasMembers(n) => State(n) = "active")'
      BY <1>3, <1>4 DEF PlacedInv, HasMembers
    <2>6. k.pc \in BuildSteps => \A q \in Requests \ {r} :
                                     req[q].pc \in BuildSteps => req[q].net # k.net
      BY <2>1, <2>3 DEF BuildSteps
    <2> QED BY <1>1, <1>3, <2>1, <2>2, <2>3, <2>4, <2>5, <2>6, OwnBridges
            DEF MembersTyped
  <1>6. CASE UNCHANGED conf /\ Return(r)
    <2>1. MovesOnly(r) /\ req'[r].pc = "idle"
      BY <1>6, Stands DEF Idle
    <2> QED BY <1>1, <1>3, <1>6, <2>1, PlainBridges DEF BuildSteps, AddSteps, DeleteSteps
  <1> QED BY <1>2, <1>5, <1>6 DEF CreatePost

\* Applying the configuration brings up the bridge of the network under
\* creation and takes down that of the one under deletion.
LEMMA ApplyBridges ==
    ASSUME IInv, PlacedInv, MembersTyped, NEW r \in Requests, CreateApply(r) \/ DeleteApply(r)
    PROVE  PlacedInv'
  <1>1. PICK s \in {"create_activate", "delete_row"} :
            /\ ApplyConfig(r, s)
            /\ IF s = "create_activate" THEN req[r].pc = "create_apply"
                                        ELSE req[r].pc = "delete_apply"
    BY DEF CreateApply, DeleteApply, At
  <1>2. UNCHANGED <<networks, members, conf>> /\ live' \in {live, conf}
    BY <1>1 DEF ApplyConfig, tables
  <1>3. /\ \A j : State(j)' = State(j)
        /\ \A j : HasMembers(j)' <=> HasMembers(j)
    BY <1>2 DEF HasMembers, State
  <1>4. CASE live' = conf /\ Goto(r, s)
    <2>1. PICK k : Becomes(r, k) /\ k.pc = s /\ k.net = req[r].net
      BY <1>4, GotoBecomes DEF Steps
    <2>2. Placed(req[r])
      BY DEF PlacedInv
    <2>3. Placed(k)'
      <3>1. CASE s = "create_activate"
        <4>1. State(k.net) = "creating" /\ k.net \in conf
          BY <1>1, <2>1, <2>2, <3>1 DEF Placed, BuildSteps
        <4> QED BY <1>2, <1>3, <1>4, <2>1, <3>1, <4>1
                DEF Placed, AddSteps, BuildSteps, DeleteSteps
      <3>2. CASE s = "delete_row"
        <4>1. ~HasMembers(k.net) /\ State(k.net) \in {"deleting", "absent"} /\ k.net \notin conf
          BY <1>1, <2>1, <2>2, <3>2 DEF Placed, DeleteSteps
        <4> QED BY <1>2, <1>3, <1>4, <2>1, <3>2, <4>1
                DEF Placed, AddSteps, BuildSteps, DeleteSteps
      <3> QED BY <3>1, <3>2
    <2>4. k.pc \in BuildSteps => req[r].pc \in BuildSteps
      BY <1>1, <2>1 DEF BuildSteps
    <2> QED BY <1>2, <1>3, <2>1, <2>3, <2>4, QuietBridges DEF MembersTyped
  <1>5. CASE Return(r)
    <2>1. MovesOnly(r) /\ req'[r].pc = "idle"
      BY <1>5, Stands DEF Idle
    <2> QED BY <1>2, <1>3, <2>1, PlainBridges DEF BuildSteps, AddSteps, DeleteSteps
  <1> QED BY <1>1, <1>4, <1>5 DEF ApplyConfig

\* An update of a row's state changes that state only.
LEMMA StateSet ==
    ASSUME IInv, NEW n \in BridgeIds, NEW st \in NetworkStates, SetNetworkState(n, st)
    PROVE  /\ State(n)' = IF State(n) = "absent" THEN "absent" ELSE st
           /\ \A j \in BridgeIds \ {n} : State(j)' = State(j)
  <1>1. networks[n] \in NetworkRow \cup {NoNetwork} /\ networks \in [BridgeIds -> NetworkRow \cup {NoNetwork}]
    BY DEF IInv, TypeOK
  <1>2. CASE networks[n] = NoNetwork
    BY <1>2 DEF SetNetworkState, Exists, State, NoNetwork
  <1>3. CASE networks[n] \in NetworkRow
    <2>1. networks[n] # NoNetwork /\ State(n) # "absent"
      BY <1>3, Absent DEF State, NetworkRow, NetworkStates
    <2>2. networks' = [networks EXCEPT ![n] = [networks[n] EXCEPT !.state = st]]
      BY <1>1, <2>1 DEF SetNetworkState, Exists
    <2>3. [networks[n] EXCEPT !.state = st].state = st
      BY <1>3 DEF NetworkRow
    <2> QED BY <1>1, <2>1, <2>2, <2>3 DEF State
  <1> QED BY <1>1, <1>2, <1>3

\* The creation ends: the network opens for members.
LEMMA ActivateBridges ==
    ASSUME IInv, PlacedInv, MembersTyped, DeletionsApart, NEW r \in Requests, CreateActivate(r)
    PROVE  PlacedInv'
  <1>1. req[r].pc = "create_activate" /\ UNCHANGED <<members, conf, live>>
    BY DEF CreateActivate, At, node
  <1>2. PICK n \in BridgeIds : n = req[r].net
    BY <1>1, NetKnown DEF BuildSteps
  <1>3. PICK k : Becomes(r, k) /\ k.pc = "idle"
    BY ReturnBecomes DEF CreateActivate
  <1>4. State(n) = "creating" /\ n \in conf /\ n \in live
    BY <1>1, <1>2 DEF PlacedInv, Placed, BuildSteps
  <1>5. State(n)' = "active" /\ \A j \in BridgeIds \ {n} : State(j)' = State(j)
    BY <1>2, <1>4, StateSet DEF CreateActivate, NetworkStates
  <1>6. \A j : HasMembers(j)' <=> HasMembers(j)
    BY <1>1 DEF HasMembers
  <1>7. Placed(k)'
    BY <1>3 DEF Placed, AddSteps, BuildSteps, DeleteSteps
  <1>8. ASSUME NEW q \in Requests \ {r}, req[q].net = n
        PROVE  Placed(req[q])'
    <2>1. req'[q] = req[q] /\ Placed(req[q])
      BY <1>3 DEF Becomes, PlacedInv
    <2>2. req[q].pc \notin BuildSteps
      BY <1>1, <1>2, <1>8 DEF PlacedInv, BuildSteps
    <2>3. req[q].pc \notin DeleteSteps
      BY <1>1, <1>2, <1>8 DEF DeletionsApart, CreateSteps
    <2>4. State(req[q].net)' = "active"
      BY <1>5, <1>8, <2>1 DEF State
    <2> QED BY <2>1, <2>2, <2>3, <2>4 DEF Placed, BuildSteps, DeleteSteps
  <1>9. /\ (State(n) = "active" => n \in conf /\ n \in live)'
        /\ (HasMembers(n) => State(n) = "active")'
    BY <1>1, <1>4, <1>5
  <1> QED BY <1>1, <1>3, <1>5, <1>6, <1>7, <1>8, <1>9, OwnBridges DEF MembersTyped, BuildSteps

\* The deletion of a network without members: nobody creates it or adds to it.
LEMMA NobodyElse ==
    ASSUME IInv, PlacedInv, DeletionsApart, NEW r \in Requests, req[r].pc \in DeleteSteps,
           NEW q \in Requests, req[q].net = req[r].net
    PROVE  req[q].pc \notin BuildSteps /\ req[q].pc \notin AddSteps
  BY DEF DeletionsApart, CreateSteps, BuildSteps

LEMMA MarkBridges ==
    ASSUME IInv, PlacedInv, MembersTyped, DeletionsApart, NEW r \in Requests, DeleteMark(r)
    PROVE  PlacedInv'
  <1>1. req[r].pc = "delete_mark" /\ UNCHANGED <<members, conf, live>>
    BY DEF DeleteMark, At, node
  <1>2. PICK n \in BridgeIds : n = req[r].net
    BY <1>1, NetKnown DEF DeleteSteps
  <1>3. PICK k : Becomes(r, k) /\ k.pc = "delete_bridge" /\ k.net = n
    BY <1>2, GotoBecomes DEF DeleteMark, Steps
  <1>4. ~HasMembers(n)
    BY <1>1, <1>2 DEF PlacedInv, Placed, DeleteSteps
  <1>5. State(n)' \in {"deleting", "absent"} /\ \A j \in BridgeIds \ {n} : State(j)' = State(j)
    BY <1>2, StateSet DEF DeleteMark, NetworkStates
  <1>6. \A j : HasMembers(j)' <=> HasMembers(j)
    BY <1>1 DEF HasMembers
  <1>7. Placed(k)'
    BY <1>3, <1>4, <1>5, <1>6 DEF Placed, AddSteps, BuildSteps, DeleteSteps
  <1>8. ASSUME NEW q \in Requests \ {r}, req[q].net = n
        PROVE  Placed(req[q])'
    <2>1. req'[q] = req[q] /\ Placed(req[q])
      BY <1>3 DEF Becomes, PlacedInv
    <2>2. req[q].pc \notin BuildSteps /\ req[q].pc \notin AddSteps
      BY <1>1, <1>2, <1>8, NobodyElse DEF DeleteSteps
    <2>3. State(req[q].net)' \in {"deleting", "absent"}
      BY <1>5, <1>8, <2>1 DEF State
    <2> QED BY <1>1, <1>6, <2>1, <2>2, <2>3 DEF Placed, BuildSteps
  <1>9. /\ (State(n) = "active" => n \in conf /\ n \in live)'
        /\ (HasMembers(n) => State(n) = "active")'
    BY <1>4, <1>5, <1>6
  <1> QED BY <1>1, <1>3, <1>5, <1>6, <1>7, <1>8, <1>9, OwnBridges DEF MembersTyped, BuildSteps

LEMMA UnbridgeBridges ==
    ASSUME IInv, PlacedInv, MembersTyped, DeletionsApart, NEW r \in Requests, DeleteBridge(r)
    PROVE  PlacedInv'
  <1>1. req[r].pc = "delete_bridge" /\ UNCHANGED <<networks, members, live>>
    BY DEF DeleteBridge, At, tables
  <1>2. PICK n \in BridgeIds : n = req[r].net
    BY <1>1, NetKnown DEF DeleteSteps
  <1>3. /\ \A j : State(j)' = State(j)
        /\ \A j : HasMembers(j)' <=> HasMembers(j)
    BY <1>1 DEF HasMembers, State
  <1>4. ~HasMembers(n) /\ State(n) \in {"deleting", "absent"}
    BY <1>1, <1>2 DEF PlacedInv, Placed, DeleteSteps
  <1>5. CASE conf' = conf \ {n}
    <2>1. PICK k : Becomes(r, k) /\ (k.pc = "idle" \/ (k.pc = "delete_apply" /\ k.net = n))
      BY <1>2, GotoBecomes, ReturnBecomes DEF DeleteBridge, Steps
    <2>2. Placed(k)'
      <3>1. CASE k.pc = "idle"
        BY <3>1 DEF Placed, AddSteps, BuildSteps, DeleteSteps
      <3>2. CASE k.pc = "delete_apply" /\ k.net = n
        <4>1. State(k.net)' \in {"deleting", "absent"} /\ ~HasMembers(k.net)' /\ k.net \notin conf'
          BY <1>3, <1>4, <1>5, <3>2
        <4> QED BY <3>2, <4>1 DEF Placed, AddSteps, BuildSteps, DeleteSteps
      <3> QED BY <2>1, <3>1, <3>2
    <2>3. ASSUME NEW q \in Requests \ {r}, req[q].net = n
          PROVE  Placed(req[q])'
      <3>1. req'[q] = req[q] /\ Placed(req[q])
        BY <2>1 DEF Becomes, PlacedInv
      <3>2. req[q].pc \notin BuildSteps /\ req[q].pc \notin AddSteps
        BY <1>1, <1>2, <2>3, NobodyElse DEF DeleteSteps
      <3>3. State(req[q].net)' = State(req[q].net) /\ (HasMembers(req[q].net)' <=> HasMembers(req[q].net))
        BY <1>1, <3>1 DEF State, HasMembers
      <3> QED BY <1>1, <1>5, <3>1, <3>2, <3>3 DEF Placed, BuildSteps
    <2>4. \A j \in BridgeIds \ {n} : j \in conf' <=> j \in conf
      BY <1>5
    <2>5. /\ (State(n) = "active" => n \in conf /\ n \in live)'
          /\ (HasMembers(n) => State(n) = "active")'
      BY <1>3, <1>4
    <2>6. k.pc \notin BuildSteps
      BY <2>1 DEF BuildSteps
    <2> QED BY <1>1, <1>3, <2>1, <2>2, <2>3, <2>4, <2>5, <2>6, OwnBridges
            DEF MembersTyped
  <1>6. CASE UNCHANGED conf /\ Return(r)
    <2>1. MovesOnly(r) /\ req'[r].pc = "idle"
      BY <1>6, Stands DEF Idle
    <2> QED BY <1>1, <1>3, <1>6, <2>1, PlainBridges DEF BuildSteps, AddSteps, DeleteSteps
  <1> QED BY <1>2, <1>5, <1>6 DEF DeleteBridge

LEMMA RowGoneBridges ==
    ASSUME IInv, PlacedInv, MembersTyped, DeletionsApart, NEW r \in Requests, DeleteRow(r)
    PROVE  PlacedInv'
  <1>1. req[r].pc = "delete_row" /\ UNCHANGED <<members, conf, live>>
    BY DEF DeleteRow, At, node
  <1>2. PICK n \in BridgeIds : n = req[r].net
    BY <1>1, NetKnown DEF DeleteSteps
  <1>3. PICK k : Becomes(r, k) /\ k.pc = "idle"
    BY ReturnBecomes DEF DeleteRow
  <1>4. ~HasMembers(n)
    BY <1>1, <1>2 DEF PlacedInv, Placed, DeleteSteps
  <1>5. State(n)' = "absent" /\ \A j \in BridgeIds \ {n} : State(j)' = State(j)
    BY <1>2, <1>4 DEF DeleteRow, State, NoNetwork, MembersOf, HasMembers, IInv, TypeOK
  <1>6. \A j : HasMembers(j)' <=> HasMembers(j)
    BY <1>1 DEF HasMembers
  <1>7. Placed(k)'
    BY <1>3 DEF Placed, AddSteps, BuildSteps, DeleteSteps
  <1>8. ASSUME NEW q \in Requests \ {r}, req[q].net = n
        PROVE  Placed(req[q])'
    <2>1. req'[q] = req[q] /\ Placed(req[q])
      BY <1>3 DEF Becomes, PlacedInv
    <2>2. req[q].pc \notin BuildSteps /\ req[q].pc \notin AddSteps
      BY <1>1, <1>2, <1>8, NobodyElse DEF DeleteSteps
    <2>3. State(req[q].net)' \in {"deleting", "absent"}
      BY <1>5, <1>8, <2>1 DEF State
    <2> QED BY <1>1, <1>6, <2>1, <2>2, <2>3 DEF Placed, BuildSteps
  <1>9. /\ (State(n) = "active" => n \in conf /\ n \in live)'
        /\ (HasMembers(n) => State(n) = "active")'
    BY <1>4, <1>5, <1>6
  <1> QED BY <1>1, <1>3, <1>5, <1>6, <1>7, <1>8, <1>9, OwnBridges DEF MembersTyped, BuildSteps

\* A member is added only while the network is active, so nobody deletes it.
LEMMA MemberBridges ==
    ASSUME IInv, PlacedInv, MembersTyped, DeletionsApart, NEW r \in Requests, AddInsert(r)
    PROVE  PlacedInv'
  <1>1. req[r].pc = "add_insert" /\ UNCHANGED <<networks, conf, live>>
    BY DEF AddInsert, At, node
  <1>2. PICK n \in BridgeIds : n = req[r].net
    BY <1>1, NetKnown DEF AddSteps
  <1>3. State(n) = "active" /\ \A j : State(j)' = State(j)
    BY <1>1, <1>2 DEF PlacedInv, Placed, AddSteps, State
  <1>4. PICK k : Becomes(r, k) /\ (k.pc = "idle" \/ (k.pc = "add_attach" /\ k.net = n))
    <2>1. CASE Return(r)
      BY <2>1, ReturnBecomes
    <2>2. ASSUME NEW id, req' = [req EXCEPT ![r].pc = "add_attach", ![r].mem = id]
          PROVE  \E k : Becomes(r, k) /\ k.pc = "add_attach" /\ k.net = n
      <3>1. PICK k : k = [req[r] EXCEPT !.pc = "add_attach", !.mem = id]
        OBVIOUS
      <3>2. Becomes(r, k)
        BY <2>2, <3>1, OneMoves DEF IInv, TypeOK
      <3> QED BY <1>2, <3>1, <3>2 DEF Becomes, Handler
    <2> QED BY <2>1, <2>2 DEF AddInsert
  <1>5. \A j \in BridgeIds \ {n} : HasMembers(j)' => HasMembers(j)
    <2>1. \A m \in members' : m \in members \/ m.net = n
      BY <1>2 DEF AddInsert, NewMember
    <2> QED BY <2>1 DEF HasMembers
  <1>6. Placed(k)'
    <2>1. CASE k.pc = "idle"
      BY <2>1 DEF Placed, AddSteps, BuildSteps, DeleteSteps
    <2>2. CASE k.pc = "add_attach" /\ k.net = n
      BY <1>3, <2>2 DEF Placed, BuildSteps, DeleteSteps
    <2> QED BY <1>4, <2>1, <2>2
  <1>7. ASSUME NEW q \in Requests \ {r}, req[q].net = n
        PROVE  Placed(req[q])'
    <2>1. req'[q] = req[q] /\ Placed(req[q])
      BY <1>4 DEF Becomes, PlacedInv
    <2>2. req[q].pc \notin DeleteSteps
      BY <1>1, <1>2, <1>7 DEF DeletionsApart, AddSteps
    <2>3. State(req[q].net)' = State(req[q].net)
      BY <1>1, <2>1 DEF State
    <2> QED BY <1>1, <2>1, <2>2, <2>3 DEF Placed, DeleteSteps
  <1>8. /\ (State(n) = "active" => n \in conf /\ n \in live)'
        /\ (HasMembers(n) => State(n) = "active")'
    BY <1>1, <1>3 DEF PlacedInv
  <1>9. k.pc \notin BuildSteps
    BY <1>4 DEF BuildSteps
  <1> QED BY <1>1, <1>3, <1>4, <1>5, <1>6, <1>7, <1>8, <1>9, OwnBridges DEF MembersTyped

LEMMA StepBridges ==
    ASSUME IInv, PlacedInv, MembersTyped, DeletionsApart, NEW r \in Requests,
           Moved(r)
    PROVE  PlacedInv'
  <1> DEFINE Quiet == /\ \A n \in BridgeIds : State(n)' = State(n)
                      /\ \A n \in BridgeIds : HasMembers(n)' => HasMembers(n)
                      /\ conf' = conf /\ live' = live /\ MovesOnly(r)
             Outside == BuildSteps \cup AddSteps \cup (DeleteSteps \ {"delete_members"})
  <1>1. Return(r) => MovesOnly(r) /\ req'[r].pc = "idle"
    BY Stands DEF Idle
  <1>2. Quiet /\ req'[r].pc \notin Outside => PlacedInv'
    BY PlainBridges
  <1>3. \A s \in {"idle", "create_user_limit", "create_overlap", "create_draw",
                  "create_insert", "rename_update", "delete_members"} \cup RemoveSteps : s \notin Outside
    BY DEF BuildSteps, AddSteps, DeleteSteps, RemoveSteps
  <1>4. UNCHANGED <<networks, members, conf, live>> /\ MovesOnly(r) => Quiet
    BY DEF State, HasMembers
  <1>5. req \in [Requests -> Handler]
    BY DEF IInv, TypeOK
  <1>6. ASSUME NEW id, NEW st, SetMemberState(id, st), UNCHANGED <<networks, conf, live>>, MovesOnly(r)
        PROVE  Quiet
    <2>1. \A m \in members' : \E k \in members : k.net = m.net
      <3> SUFFICES ASSUME NEW m \in members' PROVE \E k \in members : k.net = m.net
        OBVIOUS
      <3>1. PICK k \in members : m = Restated(k, id, st)
        BY <1>6 DEF SetMemberState, Restated
      <3>2. Restated(k, id, st).net = k.net
        BY RestatedIs
      <3> QED BY <3>1, <3>2
    <2> QED BY <1>6, <2>1 DEF State, HasMembers
  <1> HIDE DEF Quiet, Outside
  <1>7. CASE Create(r)
    <2>1. CASE CreateBegin(r)
      <3>1. MovesOnly(r) /\ req'[r].pc = "create_user_limit"
        BY <1>5, <2>1 DEF CreateBegin, Begin, MovesOnly, Idle
      <3> QED BY <1>2, <1>3, <1>4, <2>1, <3>1 DEF CreateBegin, tables, node
    <2>2. CASE CreateUserLimit(r) \/ CreateOverlap(r)
      BY <1>1, <1>2, <1>3, <1>4, <2>2, Stands DEF CreateUserLimit, CreateOverlap, tables, node
    <2>3. CASE CreateDraw(r)
      <3>1. MovesOnly(r) /\ req'[r].pc = "create_insert"
        BY <1>5, <2>3 DEF CreateDraw, MovesOnly, Handler
      <3> QED BY <1>2, <1>3, <1>4, <2>3, <3>1 DEF CreateDraw, node
    <2>4. CASE CreateInsert(r)
      <3>1. CASE Exists(req[r].net)
        BY <1>1, <1>2, <1>3, <1>4, <2>4, <3>1 DEF CreateInsert, node
      <3> QED BY <2>4, <3>1, InsertBridges
    <2> QED BY <1>7, <2>1, <2>2, <2>3, <2>4, PostBridges, ApplyBridges, ActivateBridges DEF Create
  <1>8. CASE Rename(r)
    <2>1. CASE RenameBegin(r)
      <3>1. MovesOnly(r) /\ req'[r].pc = "rename_update"
        BY <1>5, <2>1 DEF RenameBegin, Begin, MovesOnly, Idle
      <3> QED BY <1>2, <1>3, <1>4, <2>1, <3>1 DEF RenameBegin, tables, node
    <2>2. CASE RenameUpdate(r)
      <3>1. MovesOnly(r) /\ req'[r].pc = "idle" /\ UNCHANGED <<members, conf, live>>
        BY <1>1, <2>2 DEF RenameUpdate, node
      <3>2. PICK n \in BridgeIds : n = req[r].net
        BY <2>2, NetKnown DEF RenameUpdate, At
      <3>3. \A j \in BridgeIds : State(j)' = State(j)
        <4>1. networks \in [BridgeIds -> NetworkRow \cup {NoNetwork}]
          BY DEF IInv, TypeOK
        <4>2. CASE networks' = networks
          BY <4>2 DEF State
        <4>3. CASE Exists(n) /\ networks' = [networks EXCEPT ![n].name = req[r].name]
          <5>1. networks[n] \in NetworkRow
            BY <4>1, <4>3 DEF Exists
          <5>2. [networks[n] EXCEPT !.name = req[r].name].state = networks[n].state
            BY <5>1 DEF NetworkRow
          <5> QED BY <4>1, <4>3, <5>2 DEF State
        <4> QED BY <2>2, <3>2, <4>2, <4>3 DEF RenameUpdate
      <3>4. Quiet
        BY <3>1, <3>3 DEF Quiet, HasMembers
      <3> QED BY <1>2, <1>3, <3>1, <3>4
    <2> QED BY <1>8, <2>1, <2>2 DEF Rename
  <1>9. CASE Delete(r)
    <2>1. CASE DeleteBegin(r)
      <3>1. MovesOnly(r) /\ req'[r].pc = "delete_members"
        BY <1>5, <2>1 DEF DeleteBegin, Begin, MovesOnly, Idle
      <3> QED BY <1>2, <1>3, <1>4, <2>1, <3>1 DEF DeleteBegin, tables, node
    <2>2. CASE DeleteMembers(r) /\ Return(r)
      BY <1>1, <1>2, <1>3, <1>4, <2>2 DEF DeleteMembers, tables, node
    <2>3. CASE DeleteMembers(r) /\ ~Return(r)
      <3>1. /\ MembersOf(req[r].net) = {} /\ UNCHANGED <<networks, members, conf, live>>
            /\ MovesOnly(r) /\ req'[r].pc = "delete_mark" /\ req'[r].net = req[r].net
            /\ req[r].pc = "delete_members"
        BY <2>3, Stands DEF DeleteMembers, tables, node, At
      <3>2. req[r].net \in BridgeIds /\ ~HasMembers(req[r].net)
        BY <3>1, NetKnown DEF DeleteSteps, MembersOf, HasMembers
      <3>3. Quiet
        BY <1>4, <3>1
      <3> QED BY <3>1, <3>2, <3>3, PlainBridges DEF Quiet
    <2> QED BY <1>9, <2>1, <2>2, <2>3, MarkBridges, UnbridgeBridges, ApplyBridges,
               RowGoneBridges DEF Delete
  <1>10. CASE Add(r)
    <2>1. ASSUME UNCHANGED <<networks, members, conf, live>>, MovesOnly(r),
                 \/ req'[r].pc = "idle"
                 \/ /\ req'[r].pc \in AddSteps /\ req'[r].net \in BridgeIds
                    /\ State(req'[r].net) = "active"
          PROVE  PlacedInv'
      <3>1. Quiet
        BY <1>4, <2>1
      <3> QED BY <1>2, <1>3, <2>1, <3>1, PlainBridges DEF Quiet
    <2>2. req[r].pc \in AddSteps => State(req[r].net) = "active" /\ req[r].net \in BridgeIds
      BY NetKnown DEF PlacedInv, Placed
    <2>3. CASE AddBegin(r)
      <3>1. PICK n \in BridgeIds : /\ networks[n].state = "active" /\ MovesOnly(r)
                                   /\ req'[r].pc = "add_members" /\ req'[r].net = n
        BY <1>5, <2>3 DEF AddBegin, Begin, MovesOnly, Idle
      <3> QED BY <2>1, <2>3, <3>1 DEF AddBegin, tables, node, State, AddSteps
    <2>4. CASE AddMembers(r)
      BY <1>1, <2>1, <2>2, <2>4, Stands DEF AddMembers, At, tables, node, AddSteps
    <2>5. CASE AddIp(r) \/ AddSlot(r)
      <3>1. /\ MovesOnly(r) /\ req'[r].pc \in {"idle", "add_slot", "add_insert"}
            /\ req'[r].pc # "idle" => req'[r].net = req[r].net
        BY <1>1, <1>5, <2>5 DEF AddIp, AddSlot, MovesOnly, Handler
      <3>2. req[r].pc \in AddSteps /\ UNCHANGED <<networks, members, conf, live>>
        BY <2>5 DEF AddIp, AddSlot, At, AddSteps, tables, node
      <3> QED BY <2>1, <2>2, <3>1, <3>2 DEF AddSteps
    <2>6. CASE AddAttach(r)
      BY <1>1, <2>1, <2>2, <2>6, Stands DEF AddAttach, At, tables, AddSteps
    <2>7. CASE AddFail(r) \/ AddActivate(r)
      BY <1>1, <1>2, <1>3, <1>6, <2>7 DEF AddFail, AddActivate, node
    <2> QED BY <1>10, <2>3, <2>4, <2>5, <2>6, <2>7, MemberBridges DEF Add
  <1>11. CASE Remove(r)
    <2>1. CASE RemoveBegin(r)
      <3>1. MovesOnly(r) /\ req'[r].pc = "remove_find"
        BY <1>5, <2>1 DEF RemoveBegin, Begin, MovesOnly, Idle
      <3> QED BY <1>2, <1>3, <1>4, <2>1, <3>1 DEF RemoveBegin, tables, node, RemoveSteps
    <2>2. CASE RemoveFind(r)
      <3>1. MovesOnly(r) /\ req'[r].pc \in {"idle", "remove_mark"}
        <4>1. ASSUME NEW id, NEW slot,
                     req' = [req EXCEPT ![r].pc = "remove_mark", ![r].mem = id, ![r].slot = slot]
              PROVE  MovesOnly(r) /\ req'[r].pc = "remove_mark"
          <5>1. req[r] \in Handler
            BY <1>5
          <5> QED BY <1>5, <4>1, <5>1 DEF MovesOnly, Handler
        <4> QED BY <1>1, <2>2, <4>1 DEF RemoveFind
      <3> QED BY <1>2, <1>3, <1>4, <2>2, <3>1 DEF RemoveFind, tables, node, RemoveSteps
    <2>3. CASE RemoveMark(r) \/ RemoveFail(r)
      <3>1. MovesOnly(r) /\ req'[r].pc \in {"idle", "remove_detach"}
        BY <1>1, <2>3, Stands DEF RemoveMark, RemoveFail
      <3>2. Quiet
        BY <1>6, <2>3, <3>1 DEF RemoveMark, RemoveFail, node
      <3> QED BY <1>2, <1>3, <3>1, <3>2 DEF RemoveSteps
    <2>4. CASE RemoveDetach(r)
      <3>1. MovesOnly(r) /\ req'[r].pc \in {"remove_row", "remove_fail"}
        BY <2>4, Stands DEF RemoveDetach
      <3> QED BY <1>2, <1>3, <1>4, <2>4, <3>1 DEF RemoveDetach, tables, RemoveSteps
    <2>5. CASE RemoveRow(r)
      <3>1. MovesOnly(r) /\ req'[r].pc = "idle" /\ UNCHANGED <<networks, conf, live>>
        BY <1>1, <2>5 DEF RemoveRow, node
      <3>2. Quiet
        BY <2>5, <3>1 DEF RemoveRow, Quiet, State, HasMembers
      <3> QED BY <1>2, <1>3, <3>1, <3>2
    <2> QED BY <1>11, <2>1, <2>2, <2>3, <2>4, <2>5 DEF Remove
  <1>12. CASE Abort(r)
    BY <1>1, <1>2, <1>3, <1>4, <1>12 DEF Abort, tables, node
  <1> QED BY <1>7, <1>8, <1>9, <1>10, <1>11, <1>12 DEF Moved

LEMMA StutterBridges ==
    ASSUME PlacedInv, UNCHANGED vars
    PROVE  PlacedInv'
  BY DEF vars, PlacedInv, Placed, State, HasMembers

LEMMA InitBridges == Init => PlacedInv
  <1> SUFFICES ASSUME Init PROVE PlacedInv
    OBVIOUS
  <1>1. \A n \in BridgeIds : State(n) = "active" => n \in conf /\ n \in live
    BY DEF Init, State, NoNetwork
  <1>2. members = {} /\ \A q \in Requests : req[q].pc = "idle"
    BY DEF Init, Idle
  <1> QED BY <1>1, <1>2 DEF PlacedInv, Placed, BuildSteps, AddSteps, DeleteSteps

\* While no network is deleted by one request and created or joined by another,
\* networks, their members, their bridges and the handlers at work on them
\* agree: members are on active networks only, an active network has its
\* bridge, and a network that is being deleted stays empty.
THEOREM BridgesSound == Spec /\ []DeletionsApart => []BridgesInv
  <1>1. Init => BridgesInv
    BY InitBridges, PlacedAll
  <1>2. IInv' => MembersTyped
    BY DEF IInv, TypeOK, MembersTyped, MemberRow
  <1>3. IInv /\ IInv' /\ DeletionsApart /\ BridgesInv /\ [Next]_vars => BridgesInv'
    BY <1>2, PlacedAll, StepBridges, StutterBridges DEF Next, Moved
  <1> QED BY <1>1, <1>3, InductiveInvariant, PTL DEF Spec

\* A network that accepts members has its bridge configured and brought up.
THEOREM ActiveNetworksUp == Spec /\ []DeletionsApart => []ActiveNetworkHasBridge
  <1>1. BridgesInv => ActiveNetworkHasBridge
    BY DEF BridgesInv
  <1> QED BY <1>1, BridgesSound, PTL

-----------------------------------------------------------------------------
(***************************************************************************)
(* The deletion path.                                                      *)
(***************************************************************************)
\* Where all NICs have their rows, a bridge of a network without members is bare.
LEMMA BareBridge ==
    ASSUME IInv, NicAccounted, NEW n \in BridgeIds, ~HasMembers(n),
           NEW p \in Containers \X Slots
    PROVE  nics[p].bridge # n
  <1> SUFFICES ASSUME nics[p].bridge = n PROVE FALSE
    OBVIOUS
  <1>1. PICK c \in Containers, s \in Slots : p = <<c, s>>
    OBVIOUS
  <1>2. nics[<<c, s>>] # NoNic
    BY <1>1, Absent DEF NoNic
  <1>3. PICK m \in members : nics[<<c, s>>] = NicOf(m)
    BY <1>2 DEF NicAccounted
  <1> QED BY <1>1, <1>3 DEF NicOf, HasMembers

LEMMA StepDeletion ==
    ASSUME IInv, PlacedInv, NicAccounted, NEW r \in Requests, Moved(r), NEW n \in BridgeIds
    PROVE  /\ networks[n].state = "deleting" => networks'[n].state \in {"deleting", "absent"}
           /\ (Exists(n) /\ ~Exists(n)') =>
                /\ n \notin conf \cup live
                /\ \A p \in Containers \X Slots : nics[p].bridge # n
  <1>1. networks \in [BridgeIds -> NetworkRow \cup {NoNetwork}]
    BY DEF IInv, TypeOK
  <1>2. CASE networks' = networks
    BY <1>2 DEF Exists
  <1>3. CASE CreateInsert(r)
    <2>1. networks[n].state = "deleting" => Exists(n)
      BY DEF Exists, NoNetwork
    <2>2. Exists(n) => networks'[n] = networks[n]
      BY <1>1, <1>3 DEF CreateInsert, Exists
    <2> QED BY <2>1, <2>2 DEF Exists
  <1>4. CASE CreateActivate(r)
    <2>1. req[r].net \in BridgeIds /\ networks[req[r].net].state = "creating"
      BY <1>4, NetKnown DEF CreateActivate, At, PlacedInv, Placed, BuildSteps, State
    <2>2. n # req[r].net => networks'[n] = networks[n]
      BY <1>1, <1>4 DEF CreateActivate, SetNetworkState
    <2>3. n = req[r].net => Exists(n)'
      BY <1>1, <1>4, <2>1 DEF CreateActivate, SetNetworkState, Exists, NetworkRow, NoNetwork
    <2> QED BY <2>1, <2>2, <2>3 DEF Exists
  <1>5. CASE RenameUpdate(r)
    <2>1. networks'[n].state = networks[n].state
      <3>1. CASE networks' = networks
        BY <3>1
      <3>2. CASE Exists(req[r].net) /\ networks' = [networks EXCEPT ![req[r].net].name = req[r].name]
        <4>1. CASE n = req[r].net
          BY <1>1, <3>2, <4>1 DEF Exists, NetworkRow
        <4> QED BY <1>1, <3>2, <4>1
      <3> QED BY <1>5, <3>1, <3>2 DEF RenameUpdate
    <2>2. Exists(n) => Exists(n)'
      <3>1. Exists(n) => networks[n].state \in NetworkStates
        BY <1>1 DEF Exists, NetworkRow
      <3> QED BY <2>1, <3>1 DEF Exists, NoNetwork, NetworkStates
    <2> QED BY <2>1, <2>2
  <1>6. CASE DeleteMark(r)
    <2>1. networks[n] \in NetworkRow \cup {NoNetwork}
      BY <1>1
    <2>2. networks'[n] \in {networks[n], [networks[n] EXCEPT !.state = "deleting"]}
          /\ (networks'[n] = networks[n] \/ networks[n] # NoNetwork)
      BY <1>1, <1>6 DEF DeleteMark, SetNetworkState, Exists
    <2>3. networks[n] \in NetworkRow => [networks[n] EXCEPT !.state = "deleting"].state = "deleting"
      BY DEF NetworkRow
    <2>4. networks'[n] = networks[n] \/ networks'[n].state = "deleting"
      BY <2>1, <2>2, <2>3
    <2>5. Exists(n) => Exists(n)'
      BY <2>4 DEF Exists, NoNetwork
    <2> QED BY <2>4, <2>5
  <1>7. CASE DeleteRow(r)
    <2>1. /\ req[r].net \in BridgeIds /\ ~HasMembers(req[r].net)
          /\ req[r].net \notin conf /\ req[r].net \notin live
      BY <1>7, NetKnown DEF DeleteRow, At, PlacedInv, Placed, DeleteSteps
    <2>2. n # req[r].net => networks'[n] = networks[n]
      BY <1>1, <1>7 DEF DeleteRow
    <2>3. networks'[n] \in {networks[n], NoNetwork}
      BY <1>1, <1>7 DEF DeleteRow
    <2>4. n = req[r].net => \A p \in Containers \X Slots : nics[p].bridge # n
      BY <2>1, BareBridge
    <2> QED BY <2>1, <2>2, <2>3, <2>4 DEF Exists, NoNetwork
  <1> QED BY <1>2, <1>3, <1>4, <1>5, <1>6, <1>7, NetworkWriters

\* A network marked 'deleting' never accepts members again, and its row goes
\* only when its bridge is gone and nobody is wired to it.
THEOREM DeletionFollowsPath == Spec /\ []RemovalsApart /\ []DeletionsApart => DeletionPath
  <1> DEFINE Path(n) == /\ networks[n].state = "deleting" => networks'[n].state \in {"deleting", "absent"}
                        /\ (Exists(n) /\ ~Exists(n)') =>
                             /\ n \notin conf \cup live
                             /\ \A p \in Containers \X Slots : nics[p].bridge # n
  <1>1. ASSUME IInv, WiringInv, BridgesInv, Next, NEW n \in BridgeIds
        PROVE  Path(n)
    BY <1>1, PlacedAll, StepDeletion DEF Next, Moved, WiringInv
  <1>2. IInv /\ WiringInv /\ BridgesInv /\ [Next]_vars => [\A n \in BridgeIds : Path(n)]_vars
    BY <1>1
  <1> QED BY <1>2, InductiveInvariant, WiringSound, BridgesSound, PTL DEF Spec, DeletionPath

-----------------------------------------------------------------------------
(***************************************************************************)
(* The address ranges.                                                     *)
(***************************************************************************)

\* A handler between the overlap check and the INSERT.
CheckedSteps == {"create_draw", "create_insert"}

LEMMA QuietRanges ==
    ASSUME RangesInv, KeepsRanges, NEW r \in Requests, MovesOnly(r),
           req'[r].pc \in CheckedSteps => OverlapFree(req'[r].user, req'[r].cidr)
    PROVE  RangesInv'
  <1>1. RangesDisjoint'
    BY DEF RangesInv, RangesDisjoint, KeepsRanges
  <1>2. ASSUME NEW q \in Requests, req'[q].pc \in CheckedSteps
        PROVE  OverlapFree(req[q].user, req[q].cidr)'
    <2>1. OverlapFree(req'[q].user, req'[q].cidr)
      BY <1>2 DEF RangesInv, MovesOnly, CheckedSteps
    <2> QED BY <2>1 DEF OverlapFree, KeepsRanges
  <1> QED BY <1>1, <1>2 DEF RangesInv, CheckedSteps

\* The INSERT of a range that has stayed free.
LEMMA InsertRanges ==
    ASSUME IInv, RangesInv, CreationsApart, NEW r \in Requests, CreateInsert(r),
           ~Exists(req[r].net)
    PROVE  RangesInv'
  <1>1. /\ req[r].pc = "create_insert" /\ MovesOnly(r) /\ req'[r].pc = "create_post"
        /\ networks \in [BridgeIds -> NetworkRow \cup {NoNetwork}]
    BY Stands DEF CreateInsert, At, IInv, TypeOK
  <1>2. PICK n \in BridgeIds : n = req[r].net
    BY <1>1, NetKnown
  <1>3. PICK u, c : u = req[r].user /\ c = req[r].cidr
    OBVIOUS
  <1>4. /\ networks'[n].owner = u /\ networks'[n].cidr = c
        /\ \A j \in BridgeIds \ {n} : networks'[j] = networks[j]
    BY <1>1, <1>2, <1>3 DEF CreateInsert
  <1>5. OverlapFree(u, c)
    BY <1>1, <1>3 DEF RangesInv
  <1>6. \A a, b : <<a, b>> \in Clash => <<b, a>> \in Clash
    BY PNAssumption
  <1>7. RangesDisjoint'
    <2> SUFFICES ASSUME NEW i \in BridgeIds, NEW j \in BridgeIds, i # j, Exists(i)', Exists(j)',
                        networks'[i].owner = networks'[j].owner
                 PROVE  <<networks'[i].cidr, networks'[j].cidr>> \notin Clash
      BY DEF RangesDisjoint
    <2>1. CASE i = n
      BY <1>4, <1>5, <2>1 DEF OverlapFree, Exists
    <2>2. CASE j = n
      BY <1>4, <1>5, <1>6, <2>2 DEF OverlapFree, Exists
    <2>3. CASE i # n /\ j # n
      BY <1>4, <2>3 DEF RangesInv, RangesDisjoint, Exists
    <2> QED BY <2>1, <2>2, <2>3
  <1>8. ASSUME NEW q \in Requests, req'[q].pc \in CheckedSteps
        PROVE  OverlapFree(req[q].user, req[q].cidr)'
    <2>1. q # r /\ req'[q] = req[q]
      BY <1>1, <1>8 DEF MovesOnly, CheckedSteps
    <2>2. OverlapFree(req[q].user, req[q].cidr)
      BY <1>8, <2>1 DEF RangesInv, CheckedSteps
    <2>3. req[q].user = u => <<req[q].cidr, c>> \notin Clash
      BY <1>1, <1>3, <1>8, <2>1 DEF CreationsApart, CheckedSteps, DrawSteps
    <2> QED BY <1>4, <2>1, <2>2, <2>3 DEF OverlapFree, Exists
  <1> QED BY <1>7, <1>8 DEF RangesInv, CheckedSteps

LEMMA StepRanges ==
    ASSUME IInv, RangesInv, CreationsApart, NEW r \in Requests, Moved(r)
    PROVE  RangesInv'
  <1>1. CASE CreateInsert(r) /\ ~Exists(req[r].net)
    BY <1>1, InsertRanges
  <1>2. CASE CreateInsert(r) /\ Exists(req[r].net)
    <2>1. MovesOnly(r) /\ req'[r].pc \notin CheckedSteps
      BY <1>2, Stands DEF CreateInsert, Idle, CheckedSteps
    <2> QED BY <1>2, <2>1, QuietRanges DEF CreateInsert, KeepsRanges, Exists
  <1>3. CASE ~CreateInsert(r)
    <2>1. MovesOnly(r)
      BY OtherMoves, CreateMoves DEF Moved
    <2>2. ASSUME req'[r].pc \in CheckedSteps
          PROVE  OverlapFree(req'[r].user, req'[r].cidr)
      <3>1. /\ <<req[r].pc, req'[r].pc>> \in CreatePath
            /\ req'[r].user = req[r].user /\ req'[r].cidr = req[r].cidr
        BY <2>2, OtherMoves, CreateMoves DEF Moved, CheckedSteps, CreateSteps
      <3>2. CASE req[r].pc = "create_overlap"
        <4>1. CreateOverlap(r)
          BY <3>2, <2>2, OtherMoves DEF Moved, CheckedSteps, CreateSteps, Create, CreateBegin,
             Begin, CreateUserLimit, CreateDraw, CreateInsert, CreatePost, CreateApply, CreateActivate, At
        <4>2. Return(r) => req'[r].pc = "idle"
          BY Stands DEF Idle
        <4> QED BY <2>2, <3>1, <4>1, <4>2 DEF CreateOverlap, CheckedSteps
      <3>3. CASE req[r].pc = "create_draw"
        BY <3>1, <3>3 DEF RangesInv
      <3> QED BY <2>2, <3>1, <3>2, <3>3 DEF CreatePath, CheckedSteps
    <2> QED BY <1>3, <2>1, <2>2, RangesKept, QuietRanges
  <1> QED BY <1>1, <1>2, <1>3

LEMMA InitRanges == Init => RangesInv
  <1> SUFFICES ASSUME Init PROVE RangesInv
    OBVIOUS
  <1>1. \A n \in BridgeIds : Exists(n) =>
           /\ n \in DOMAIN Established
           /\ networks[n].owner = Established[n].owner /\ networks[n].cidr = Established[n].cidr
    BY DEF Init, Exists
  <1>2. RangesDisjoint
    BY <1>1, EstablishedAssumption DEF RangesDisjoint
  <1> QED BY <1>2 DEF Init, RangesInv, Idle

\* While no user has two creations with clashing ranges in flight, one user's
\* ranges never meet, whatever the other requests do.
THEOREM RangesApart == Spec /\ []CreationsApart => []RangesDisjoint
  <1>1. RangesInv /\ UNCHANGED vars => RangesInv'
    BY DEF vars, RangesInv, RangesDisjoint, OverlapFree, Exists
  <1>2. IInv /\ CreationsApart /\ RangesInv /\ [Next]_vars => RangesInv'
    BY <1>1, StepRanges DEF Next, Moved
  <1>3. RangesInv => RangesDisjoint
    BY DEF RangesInv
  <1> QED BY <1>2, <1>3, InitRanges, InductiveInvariant, PTL DEF Spec

-----------------------------------------------------------------------------
(***************************************************************************)
(* The contract of the node.                                               *)
(***************************************************************************)
LEMMA AttachContract ==
    ASSUME IInv, WiringInv, PlacedInv, NEW r \in Requests, AddAttach(r)
    PROVE  Node!Next \/ UNCHANGED node
  <1>1. /\ req[r].pc = "add_attach" /\ req[r].net \in BridgeIds /\ req[r].ct \in Containers
        /\ req[r].slot \in Slots /\ req[r].ip \in Hosts
    BY NetKnown DEF AddAttach, At, AddSteps, IInv, LocalsSet, LocalsOk
  <1>2. PICK n \in BridgeIds, c \in Containers, s \in Slots, ip \in Hosts :
           n = req[r].net /\ c = req[r].ct /\ s = req[r].slot /\ ip = req[r].ip
    BY <1>1
  <1>3. n \in conf \cap live
    BY <1>1, <1>2 DEF PlacedInv, Placed, AddSteps, State
  <1>4. PICK row \in members : row.net = n /\ row.ct = c /\ row.slot = s /\ row.ip = ip
                                /\ nics[<<c, s>>] = NoNic
    BY <1>1, <1>2 DEF WiringInv, AddersWired, AdderWired, InsertedSteps, NewMember, WiredAt
  <1>5. ASSUME NEW q \in Node!On(n)
        PROVE  nics[q].ip # ip
    <2> SUFFICES ASSUME nics[q].ip = ip PROVE FALSE
      OBVIOUS
    <2>1. PICK d \in Containers, t \in Slots : q = <<d, t>> /\ nics[<<d, t>>].bridge = n
      BY <1>5 DEF Node!On
    <2>2. nics[<<d, t>>] # NoNic
      BY <2>1, Absent DEF NoNic
    <2>3. PICK m \in members : m.ct = d /\ m.slot = t /\ nics[<<d, t>>] = NicOf(m)
      BY <2>2 DEF WiringInv, NicAccounted
    <2>4. m.net = n /\ m.ip = ip
      BY <2>1, <2>3 DEF NicOf
    <2>5. m = row
      BY <1>4, <2>4 DEF WiringInv, RowsKeyed
    <2> QED BY <1>4, <2>2, <2>3, <2>5
  <1>6. CASE AttachNic(c, s, n, ip)
    <2>1. PICK p \in Containers \X Slots : p = <<c, s>>
      OBVIOUS
    <2>2. Node!Attach(p, n, ip)
      BY <1>3, <1>4, <1>5, <1>6, <2>1 DEF AddAttach, AttachNic, Node!Attach, Node!NoNic, NoNic
    <2> QED BY <2>2 DEF Node!Next
  <1>7. CASE UNCHANGED nics
    BY <1>7 DEF AddAttach, node
  <1> QED BY <1>2, <1>6, <1>7 DEF AddAttach

LEMMA StepContract ==
    ASSUME IInv, WiringInv, PlacedInv, NEW r \in Requests, Moved(r)
    PROVE  Node!Next \/ UNCHANGED node
  <1>1. \A n \in BridgeIds : ~HasMembers(n) => Node!On(n) = {}
    BY BareBridge DEF WiringInv, Node!On
  <1>2. CASE CreatePost(r)
    <2>1. PICK n \in BridgeIds : n = req[r].net /\ State(n) = "creating"
      BY <1>2, NetKnown DEF CreatePost, At, PlacedInv, Placed, BuildSteps
    <2>2. Node!On(n) = {}
      BY <1>1, <2>1 DEF PlacedInv, HasMembers
    <2>3. Node!AddBridge(n) \/ UNCHANGED node
      BY <1>2, <2>1, <2>2 DEF CreatePost, Node!AddBridge, node
    <2> QED BY <2>3 DEF Node!Next
  <1>3. CASE DeleteBridge(r)
    <2>1. PICK n \in BridgeIds : n = req[r].net /\ ~HasMembers(n)
      BY <1>3, NetKnown DEF DeleteBridge, At, PlacedInv, Placed, DeleteSteps
    <2>2. Node!RemoveBridge(n) \/ UNCHANGED node
      BY <1>1, <1>3, <2>1 DEF DeleteBridge, Node!RemoveBridge, node
    <2> QED BY <2>2 DEF Node!Next
  <1>4. CASE CreateApply(r) \/ DeleteApply(r)
    <2>1. Node!Apply \/ UNCHANGED node
      BY <1>4 DEF CreateApply, DeleteApply, ApplyConfig, Node!Apply, node
    <2> QED BY <2>1 DEF Node!Next
  <1>5. CASE RemoveDetach(r)
    <2>1. req[r].ct \in Containers /\ req[r].slot \in Slots
      BY <1>5 DEF RemoveDetach, At, IInv, LocalsSet, LocalsOk, RemoveSteps
    <2>2. PICK p \in Containers \X Slots : p = <<req[r].ct, req[r].slot>>
      BY <2>1
    <2>3. Node!Detach(p) \/ UNCHANGED node
      BY <1>5, <2>2 DEF RemoveDetach, DetachNic, Node!Detach, Node!NoNic, NoNic, node
    <2> QED BY <2>3 DEF Node!Next
  <1> QED BY <1>2, <1>3, <1>4, <1>5, AttachContract, NodeWriters

\* NetworkService, its tables and its handlers hidden, implements the contract:
\* a NIC is attached only to a bridge that is up, in an empty slot and under an
\* address nobody has on that bridge, and no bridge is taken from under a NIC.
THEOREM ImplementsContract == Spec /\ []RemovalsApart /\ []DeletionsApart => NodeContractKept
  <1>1. Init => Node!Init
    BY DEF Init, Node!Init, NoNic, Node!NoNic
  <1>2. IInv /\ WiringInv /\ BridgesInv /\ [Next]_vars => [Node!Next]_(Node!vars)
    BY PlacedAll, StepContract DEF Next, Moved, vars, node, Node!vars
  <1> QED BY <1>1, <1>2, InductiveInvariant, WiringSound, BridgesSound, PTL
          DEF Spec, NodeContractKept, Node!Spec

-----------------------------------------------------------------------------
(***************************************************************************)
(* All of it together, for the behaviours the model checker explores and   *)
(* for a server that answers one request at a time.                        *)
(***************************************************************************)
AllKept ==
    /\ []ActiveNetworkHasBridge /\ []NicAccounted /\ []ActiveMemberHasNic
    /\ []IpUniqueOnBridge /\ []RangesDisjoint
    /\ DeletionPath /\ NodeContractKept

LEMMA ApartKeepsAll == Spec /\ []RequestsApart => AllKept
  <1>1. RequestsApart => RemovalsApart /\ DeletionsApart /\ CreationsApart
    BY DEF RequestsApart
  <1>2. []RequestsApart => []RemovalsApart /\ []DeletionsApart /\ []CreationsApart
    BY <1>1, PTL
  <1> QED BY <1>2, NicsAccounted, ActiveMembersWired, AddressesUnique, ActiveNetworksUp,
             DeletionFollowsPath, RangesApart, ImplementsContract, PTL DEF AllKept

\* When every step keeps apart the requests that work on the same object, all
\* the properties of this section hold.
THEOREM ApartSound == ApartSpec => AllKept
  <1>1. Init => RequestsApart
    BY DEF Init, Idle, RequestsApart, RemovalsApart, DeletionsApart, CreationsApart,
       RemoveSteps, DeleteSteps, DrawSteps
  <1>2. RequestsApart /\ [Next /\ RequestsApart']_vars => RequestsApart'
    BY DEF RequestsApart, RemovalsApart, DeletionsApart, CreationsApart, vars
  <1>3. [Next /\ RequestsApart']_vars => [Next]_vars
    OBVIOUS
  <1>4. ApartSpec => Spec /\ []RequestsApart
    BY <1>1, <1>2, <1>3, PTL DEF ApartSpec, Spec
  <1> QED BY <1>4, ApartKeepsAll

\* At most one request is in flight.
OneAtATime ==
    \A r, s \in Requests : (req[r].pc # "idle" /\ req[s].pc # "idle") => r = s

\* Served one at a time, requests keep all the properties of this section,
\* whichever Proxmox calls fail and wherever a handler stops.
THEOREM OneAtATimeSound == Spec /\ []OneAtATime => AllKept
  <1>1. OneAtATime => RequestsApart
    BY DEF OneAtATime, RequestsApart, RemovalsApart, DeletionsApart, CreationsApart,
       CreateSteps, AddSteps, RemoveSteps, DeleteSteps, DrawSteps
  <1>2. []OneAtATime => []RequestsApart
    BY <1>1, PTL
  <1> QED BY <1>2, ApartKeepsAll

-----------------------------------------------------------------------------
(***************************************************************************)
(* While members are added and networks created and deleted, but nobody is *)
(* removed, nothing has to be kept apart for the wiring: the UNIQUE        *)
(* constraints suffice.                                                    *)
(***************************************************************************)
NobodyRemoved == \A r \in Requests : req[r].pc \notin RemoveSteps

LEMMA NobodyRemovedStep ==
    ASSUME IInv, NobodyRemoved, "remove" \notin Ops, NEW r \in Requests, Moved(r)
    PROVE  NobodyRemoved'
  <1>0. Idle.pc = "idle" /\ req \in [Requests -> Handler]
    BY DEF IInv, TypeOK, Idle
  <1> SUFFICES MovesOnly(r) /\ req'[r].pc \notin RemoveSteps
    BY DEF MovesOnly, NobodyRemoved
  <1>1. Return(r) => MovesOnly(r) /\ req'[r].pc \notin RemoveSteps
    BY <1>0, Stands DEF RemoveSteps
  <1>2. \A s : Goto(r, s) /\ s \notin RemoveSteps => MovesOnly(r) /\ req'[r].pc \notin RemoveSteps
    BY Stands
  <1>3. CASE Create(r)
    BY <1>3, CreateMoves DEF CreatePath, RemoveSteps
  <1>4. CASE Rename(r) \/ Abort(r)
    <2>1. CASE RenameBegin(r)
      BY <1>0, <2>1 DEF RenameBegin, Begin, MovesOnly, Idle, RemoveSteps
    <2> QED BY <1>1, <1>4, <2>1 DEF Rename, RenameUpdate, Abort
  <1>5. CASE Delete(r)
    <2>1. CASE DeleteBegin(r)
      BY <1>0, <2>1 DEF DeleteBegin, Begin, MovesOnly, Idle, RemoveSteps
    <2>2. CASE ~DeleteBegin(r)
      <3>1. \/ Return(r)
            \/ \E s \in {"delete_mark", "delete_bridge", "delete_apply", "delete_row"} : Goto(r, s)
        BY <1>5, <2>2 DEF Delete, DeleteMembers, DeleteMark, DeleteBridge, DeleteApply,
           DeleteRow, ApplyConfig
      <3> QED BY <1>1, <1>2, <3>1 DEF RemoveSteps
    <2> QED BY <2>1, <2>2
  <1>6. CASE Add(r)
    <2>1. CASE AddBegin(r)
      BY <1>0, <2>1 DEF AddBegin, Begin, MovesOnly, Idle, RemoveSteps
    <2>2. CASE AddIp(r)
      BY <1>0, <1>1, <2>2 DEF AddIp, MovesOnly, Handler, RemoveSteps
    <2>3. CASE AddSlot(r)
      BY <1>0, <1>1, <2>3 DEF AddSlot, MovesOnly, Handler, RemoveSteps
    <2>4. CASE AddInsert(r)
      <3>1. PICK id : \/ Return(r)
                      \/ req' = [req EXCEPT ![r].pc = "add_attach", ![r].mem = id]
        BY <2>4 DEF AddInsert
      <3> QED BY <1>0, <1>1, <3>1 DEF MovesOnly, Handler, RemoveSteps
    <2>5. CASE AddMembers(r) \/ AddAttach(r) \/ AddFail(r) \/ AddActivate(r)
      <3>1. Return(r) \/ \E s \in {"add_ip", "add_fail", "add_activate"} : Goto(r, s)
        BY <2>5 DEF AddMembers, AddAttach, AddFail, AddActivate
      <3> QED BY <1>1, <1>2, <3>1 DEF RemoveSteps
    <2> QED BY <1>6, <2>1, <2>2, <2>3, <2>4, <2>5 DEF Add
  <1>7. ~Remove(r)
    BY DEF Remove, RemoveBegin, Begin, RemoveFind, RemoveMark, RemoveDetach, RemoveFail,
           RemoveRow, At, NobodyRemoved, RemoveSteps
  <1> QED BY <1>3, <1>4, <1>5, <1>6, <1>7 DEF Moved

\* Without removals the wiring is sound under every interleaving: every NIC is
\* accounted for, active members are wired, addresses are unique on the wire.
THEOREM GrowthSound ==
    ASSUME "remove" \notin Ops
    PROVE  Spec => [](NicAccounted /\ ActiveMemberHasNic /\ IpUniqueOnBridge)
  <1>1. Init => NobodyRemoved
    BY DEF Init, Idle, NobodyRemoved, RemoveSteps
  <1>2. IInv /\ NobodyRemoved /\ [Next]_vars => NobodyRemoved'
    <2> SUFFICES ASSUME IInv, NobodyRemoved, [Next]_vars PROVE NobodyRemoved'
      OBVIOUS
    <2>1. CASE UNCHANGED vars
      BY <2>1 DEF vars, NobodyRemoved
    <2>2. CASE Next
      BY <2>2, NobodyRemovedStep DEF Next, Moved
    <2> QED BY <2>1, <2>2
  <1>3. NobodyRemoved => RemovalsApart
    BY DEF NobodyRemoved, RemovalsApart
  <1>4. Spec => []RemovalsApart
    BY <1>1, <1>2, <1>3, InductiveInvariant, PTL DEF Spec
  <1> QED BY <1>4, NicsAccounted, ActiveMembersWired, AddressesUnique, PTL

=============================================================================
