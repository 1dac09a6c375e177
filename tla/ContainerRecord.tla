-------------------------- MODULE ContainerRecord ---------------------------
(***************************************************************************)
(* What the table containers promises of each container: a record appears  *)
(* for a container that is completely built, in state provisioning; it is  *)
(* then only ever given a settled state, and never goes away or back.      *)
(***************************************************************************)
CONSTANT Cts

VARIABLES rows, built

Settled == {"running", "stopped", "failed"}

Init == /\ rows \in [Cts -> Settled \cup {"absent"}]
        /\ built = {c \in Cts : rows[c] # "absent"}

Build(c) == /\ c \notin built
            /\ built' = built \cup {c}
            /\ UNCHANGED rows

Insert(c) == /\ c \in built
             /\ rows[c] = "absent"
             /\ rows' = [rows EXCEPT ![c] = "provisioning"]
             /\ UNCHANGED built

Settle(c) == /\ rows[c] # "absent"
             /\ \E s \in Settled : rows' = [rows EXCEPT ![c] = s]
             /\ UNCHANGED built

Next == \E c \in Cts : Build(c) \/ Insert(c) \/ Settle(c)
Spec == Init /\ [][Next]_<<rows, built>>
=============================================================================
