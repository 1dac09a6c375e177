---------------------------- MODULE DeliveryLog ----------------------------
(***************************************************************************)
(* What table webhook_deliveries promises its readers, whoever writes it   *)
(* and whatever fails: a delivery moves along                              *)
(*     pending -> running -> succeeded | failed,   pending -> skipped,     *)
(* reports its end once, and goes only together with its configuration     *)
(* (migrations/20240103000000_webhooks.sql).                               *)
(***************************************************************************)
CONSTANT Rows       \* ids that deliveries may get

VARIABLE status     \* "none" before the delivery, "gone" after its deletion

FinalStates == {"succeeded", "failed", "skipped"}
DeliveryStatus == {"pending", "running"} \cup FinalStates
RowStates == DeliveryStatus \cup {"none", "gone"}

Move(d, from, to) == status[d] = from /\ status' = [status EXCEPT ![d] = to]

Receive(d) == Move(d, "none", "pending")
Start(d) == Move(d, "pending", "running")
Skip(d) == Move(d, "pending", "skipped")
Finish(d) == \E end \in {"succeeded", "failed"} : Move(d, "running", end)

Purge(D) ==
    status' = [d \in Rows |-> IF d \in D /\ status[d] # "none" THEN "gone" ELSE status[d]]

Init == status = [d \in Rows |-> "none"]

Next ==
    \/ \E d \in Rows : Receive(d) \/ Start(d) \/ Skip(d) \/ Finish(d)
    \/ \E D \in SUBSET Rows : Purge(D)

Spec == Init /\ [][Next]_status
=============================================================================
