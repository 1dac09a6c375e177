---------------------------- MODULE NodeContract ----------------------------
(***************************************************************************)
(* What a well-used Proxmox node is asked to do, with no account of who    *)
(* asks or why: the abstract specification of the bridges and NICs that    *)
(* NetworkService drives.  A NIC is attached only to a bridge that is up,  *)
(* in an empty slot, under an address nobody else has on that bridge, and  *)
(* a bridge is taken away only when no NIC is on it.                       *)
(***************************************************************************)
CONSTANTS
    Containers, \* containers of the node
    Slots,      \* NIC slots of a container
    BridgeIds,  \* possible bridges
    Hosts,      \* possible host numbers
    None,       \* an empty slot's bridge and host
    Established \* bridges that are up at the start: its domain

VARIABLES
    conf,       \* bridges in the node's network configuration
    live,       \* bridges that are up
    nics        \* nics[<<c, s>>]: the NIC in slot s of container c

vars == <<conf, live, nics>>

NoNic == [bridge |-> None, ip |-> None]
On(n) == {p \in Containers \X Slots : nics[p].bridge = n}

Init ==
    /\ conf = DOMAIN Established
    /\ live = DOMAIN Established
    /\ nics = [p \in Containers \X Slots |-> NoNic]

AddBridge(n) ==
    /\ On(n) = {}
    /\ conf' = conf \cup {n}
    /\ UNCHANGED <<live, nics>>

RemoveBridge(n) ==
    /\ On(n) = {}
    /\ conf' = conf \ {n}
    /\ UNCHANGED <<live, nics>>

Apply ==
    /\ live' = conf
    /\ UNCHANGED <<conf, nics>>

Attach(p, n, ip) ==
    /\ n \in conf \cap live
    /\ nics[p] = NoNic
    /\ \A q \in On(n) : nics[q].ip # ip
    /\ nics' = [nics EXCEPT ![p] = [bridge |-> n, ip |-> ip]]
    /\ UNCHANGED <<conf, live>>

Detach(p) ==
    /\ nics' = [nics EXCEPT ![p] = NoNic]
    /\ UNCHANGED <<conf, live>>

Next ==
    \/ \E n \in BridgeIds : AddBridge(n) \/ RemoveBridge(n)
    \/ Apply
    \/ \E p \in Containers \X Slots :
          Detach(p) \/ \E n \in BridgeIds, ip \in Hosts : Attach(p, n, ip)

Spec == Init /\ [][Next]_vars

=============================================================================
