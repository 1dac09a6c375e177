------------------------ MODULE ContainerLifecycle -------------------------
(***************************************************************************)
(* The life of a container: create, start, stop and restart of             *)
(* ContainerService (services/container_service.rs) over the table         *)
(* containers, the tasks they start on the Proxmox node                    *)
(* (proxmox/http_client.rs), and the background state synchronisation      *)
(* (jobs/state_sync.rs).                                                   *)
(*                                                                         *)
(* The node answers a POST at once and does the work later, in a task that *)
(* may fail.  Handlers, tasks and the synchronisation interleave; a POST   *)
(* may be accepted and its answer lost; a handler gives up waiting after   *)
(* two minutes while its task goes on.                                     *)
(***************************************************************************)
EXTENDS Naturals, FiniteSets

CONSTANTS
    Requests,       \* handlers that may be in flight at the same time
    MaxCt,          \* the node hands out container ids 1..MaxCt
    Existing,       \* containers that are up and recorded at the start
    Ops,            \* operations the callers use
    Faults,         \* what may go wrong besides the node: see AllFaults
    MaxMishaps,     \* bound on restarts of the backend and on changes that
                    \* are made to containers behind its back
    None            \* not a request

Cts == 1..MaxCt
AllOps == {"create", "start", "stop", "restart"}
AllFaults == {"abort", "crash", "drift"}

ASSUME CLAssumption ==
    /\ MaxCt \in Nat
    /\ Existing \subseteq Cts
    /\ Ops \subseteq AllOps
    /\ Faults \subseteq AllFaults
    /\ MaxMishaps \in Nat
    /\ None \notin Requests

VARIABLES
    rows,       \* rows[c]: column state of the row with proxmox_ctid c
    made,       \* made[c]: how far container c is built on the node
    run,        \* run[c]: what the node reports as the status of c
    tasks,      \* tasks the node has accepted and not finished
    req,        \* the handlers in flight: where each stands, and its locals
    sync,       \* the pass of the state synchronisation
    mishaps     \* restarts and outside changes so far

node == <<made, run>>
vars == <<rows, made, run, tasks, req, sync, mishaps>>

-----------------------------------------------------------------------------
RowStates == {"absent", "provisioning", "running", "stopped", "failed"}
Stages == {"none", "cloning", "cloned", "configured", "ready"}
RunStates == {"running", "stopped"}

\* A task knows the request that waits for it, if that is still in flight.
Task == [kind : {"clone", "resize", "start", "stop", "reboot", "boot"},
         ct : Cts, by : Requests \cup {None}]

Building == {"create_config", "create_resize", "create_resize_wait", "create_insert"}
Steps == {"idle", "create_unlock", "create_clone", "create_clone_wait"} \cup Building
             \cup {"create_start", "post", "poll", "write"}

\* task: what the task API says of the handler's last task.
\* verdict: the state the handler is about to write.
Handler == [pc : Steps, op : AllOps \cup {None}, ct : Cts \cup {0},
            task : {"none", "running", "ok", "failed"},
            verdict : {"none", "running", "stopped", "failed"}]
Idle == [pc |-> "idle", op |-> None, ct |-> 0, task |-> "none", verdict |-> "none"]

\* seen: the snapshot, less the rows that have been looked at;
\* ct, new: the update about to be made.
Pass == [pc : {"idle", "check", "write"}, seen : [Cts -> RowStates],
         ct : Cts \cup {0}, new : RunStates \cup {"none"}]
SyncIdle == [pc |-> "idle", seen |-> [c \in Cts |-> "absent"], ct |-> 0, new |-> "none"]

Recorded == {c \in Cts : rows[c] # "absent"}
TemplateLocked == \E t \in tasks : t.kind = "clone"
Target(op) == IF op = "stop" THEN "stopped" ELSE "running"
TaskOf(op) == CASE op = "stop" -> "stop" [] op = "restart" -> "reboot"
                [] OTHER -> "start"

At(r, step) == req[r].pc = step

Disowned(R) == {IF t.by \in R THEN [t EXCEPT !.by = None] ELSE t : t \in tasks}

Goto(r, step) == req' = [req EXCEPT ![r].pc = step] /\ UNCHANGED tasks
Return(r) == req' = [req EXCEPT ![r] = Idle] /\ tasks' = Disowned({r})

NewTask(r, kind, by) == {[kind |-> kind, ct |-> req[r].ct, by |-> by]}

\* The node accepts a POST and starts a task; the answer arrives, or is lost
\* and the handler fails.
Accepted(r, kind, step) ==
    \/ /\ tasks' = tasks \cup NewTask(r, kind, r)
       /\ req' = [req EXCEPT ![r].pc = step, ![r].task = "running"]
    \/ /\ req' = [req EXCEPT ![r] = Idle]
       /\ tasks' = Disowned({r}) \cup NewTask(r, kind, None)

\* wait_for_task: the task ended well, or it failed or two minutes passed.
Awaited(r, step) ==
    \/ req[r].task = "ok" /\ Goto(r, step)
    \/ Return(r)

-----------------------------------------------------------------------------
(***************************************************************************)
(* create: HttpProxmoxClient::create_container, INSERT, start, poll.       *)
(***************************************************************************)

\* /cluster/nextid: the lowest free id.  It reserves nothing.
CreateBegin(r) ==
    /\ "create" \in Ops
    /\ At(r, "idle")
    /\ \E c \in Cts :
          /\ made[c] = "none"
          /\ \A d \in Cts : made[d] = "none" => c <= d
          /\ req' = [req EXCEPT ![r] = [Idle EXCEPT !.pc = "create_unlock",
                                                    !.op = "create", !.ct = c]]
    /\ UNCHANGED <<rows, node, tasks, sync, mishaps>>

CreateUnlock(r) ==
    /\ At(r, "create_unlock")
    /\ \/ ~TemplateLocked /\ Goto(r, "create_clone")
       \/ Return(r)
    /\ UNCHANGED <<rows, node, sync, mishaps>>

\* Mutation: an error answer is not looked at, as if the id could not be taken.
CreateClone_NoStatus(r) ==
    /\ At(r, "create_clone")
    /\ Accepted(r, "clone", "create_clone_wait")
    /\ made' = [made EXCEPT ![req[r].ct] = "cloning"]
    /\ UNCHANGED <<rows, run, sync, mishaps>>

\* The node refuses an id that is taken by now and a template that is locked.
CreateClone(r) ==
    /\ At(r, "create_clone")
    /\ \/ /\ made[req[r].ct] = "none" /\ ~TemplateLocked
          /\ Accepted(r, "clone", "create_clone_wait")
          /\ made' = [made EXCEPT ![req[r].ct] = "cloning"]
       \/ Return(r) /\ UNCHANGED made
    /\ UNCHANGED <<rows, run, sync, mishaps>>

CreateCloneWait(r) ==
    /\ At(r, "create_clone_wait")
    /\ Awaited(r, "create_config")
    /\ UNCHANGED <<rows, node, sync, mishaps>>

CreateConfig(r) ==
    /\ At(r, "create_config")
    /\ \/ /\ made' = [made EXCEPT ![req[r].ct] = "configured"]
          /\ Goto(r, "create_resize") \/ Return(r)
       \/ Return(r) /\ UNCHANGED made
    /\ UNCHANGED <<rows, run, sync, mishaps>>

\* wait_for_unlock, which may time out, and the resize: the answer holds the
\* id of a task, or none when the node has resized the disk at once.
CreateResize(r) ==
    /\ At(r, "create_resize")
    /\ \/ Accepted(r, "resize", "create_resize_wait") /\ UNCHANGED made
       \/ /\ made' = [made EXCEPT ![req[r].ct] = "ready"]
          /\ Goto(r, "create_insert")
       \/ Return(r) /\ UNCHANGED made
    /\ UNCHANGED <<rows, run, sync, mishaps>>

CreateResizeWait(r) ==
    /\ At(r, "create_resize_wait")
    /\ Awaited(r, "create_insert")
    /\ UNCHANGED <<rows, node, sync, mishaps>>

\* One transaction inserts the container and its owner; proxmox_ctid is UNIQUE.
CreateInsert(r) ==
    /\ At(r, "create_insert")
    /\ IF rows[req[r].ct] = "absent"
       THEN /\ rows' = [rows EXCEPT ![req[r].ct] = "provisioning"]
            /\ Goto(r, "create_start")
       ELSE Return(r) /\ UNCHANGED rows
    /\ UNCHANGED <<node, sync, mishaps>>

\* A start that the node refuses, or whose answer is lost, makes the row failed.
CreateStart(r) ==
    /\ At(r, "create_start")
    /\ \/ /\ tasks' = tasks \cup NewTask(r, "start", r)
          /\ req' = [req EXCEPT ![r].pc = "poll", ![r].task = "running"]
       \/ /\ tasks' \in {tasks, tasks \cup NewTask(r, "start", None)}
          /\ req' = [req EXCEPT ![r].pc = "write", ![r].verdict = "failed"]
    /\ UNCHANGED <<rows, node, sync, mishaps>>

-----------------------------------------------------------------------------
(***************************************************************************)
(* start, stop, restart, and the poll and the update all four share.       *)
(***************************************************************************)

ActBegin(r) ==
    /\ At(r, "idle")
    /\ \E op \in Ops \ {"create"}, c \in Recorded :
          req' = [req EXCEPT ![r] = [Idle EXCEPT !.pc = "post", !.op = op, !.ct = c]]
    /\ UNCHANGED <<rows, node, tasks, sync, mishaps>>

\* Mutation: the row shows that something is going on.
ActPost_Marks(r) ==
    /\ At(r, "post")
    /\ \/ /\ Accepted(r, TaskOf(req[r].op), "poll")
          /\ rows' = [rows EXCEPT ![req[r].ct] = "provisioning"]
       \/ Return(r) /\ UNCHANGED rows
    /\ UNCHANGED <<node, sync, mishaps>>

ActPost(r) ==
    /\ At(r, "post")
    /\ Accepted(r, TaskOf(req[r].op), "poll") \/ Return(r)
    /\ UNCHANGED <<rows, node, sync, mishaps>>

\* Mutation: polling goes on for as long as it takes.
Poll_Forever(r) ==
    /\ At(r, "poll")
    /\ run[req[r].ct] = Target(req[r].op)
    /\ req' = [req EXCEPT ![r].pc = "write", ![r].verdict = Target(req[r].op)]
    /\ UNCHANGED <<rows, node, tasks, sync, mishaps>>

\* poll_for_state: the status wanted, or an error or two minutes without it.
Poll(r) ==
    /\ At(r, "poll")
    /\ \E v \in {Target(req[r].op), "failed"} :
          /\ v # "failed" => run[req[r].ct] = v
          /\ req' = [req EXCEPT ![r].pc = "write", ![r].verdict = v]
    /\ UNCHANGED <<rows, node, tasks, sync, mishaps>>

Write(r) ==
    /\ At(r, "write")
    /\ rows' = [rows EXCEPT ![req[r].ct] = req[r].verdict]
    /\ Return(r)
    /\ UNCHANGED <<node, sync, mishaps>>

\* A query fails, or the caller goes away and the future is dropped.
Abort(r) ==
    /\ "abort" \in Faults /\ mishaps < MaxMishaps
    /\ mishaps' = mishaps + 1
    /\ ~At(r, "idle")
    /\ Return(r)
    /\ UNCHANGED <<rows, node, sync>>

-----------------------------------------------------------------------------
(***************************************************************************)
(* The node finishes a task, well or not.  A reboot is a shutdown and a    *)
(* start; one of a container that is down fails.                           *)
(***************************************************************************)

End(t, result) ==
    /\ tasks' = tasks \ {t}
    /\ req' = IF t.by = None THEN req ELSE [req EXCEPT ![t.by].task = result]

TaskFails(t) ==
    /\ End(t, "failed")
    /\ made' = IF t.kind = "clone" THEN [made EXCEPT ![t.ct] = "none"] ELSE made
    /\ UNCHANGED run

TaskSucceeds(t) ==
    /\ End(t, "ok")
    /\ t.kind # "reboot"
    /\ made' = CASE t.kind = "clone" -> [made EXCEPT ![t.ct] = "cloned"]
                 [] t.kind = "resize" -> [made EXCEPT ![t.ct] = "ready"]
                 [] OTHER -> made
    /\ run' = CASE t.kind \in {"start", "boot"} -> [run EXCEPT ![t.ct] = "running"]
                [] t.kind = "stop" -> [run EXCEPT ![t.ct] = "stopped"]
                [] OTHER -> run

RebootGoesDown(t) ==
    /\ t.kind = "reboot"
    /\ run[t.ct] = "running"
    /\ run' = [run EXCEPT ![t.ct] = "stopped"]
    /\ tasks' = (tasks \ {t}) \cup {[t EXCEPT !.kind = "boot"]}
    /\ UNCHANGED <<made, req>>

TaskStep ==
    /\ \E t \in tasks : TaskFails(t) \/ TaskSucceeds(t) \/ RebootGoesDown(t)
    /\ UNCHANGED <<rows, sync, mishaps>>

-----------------------------------------------------------------------------
(***************************************************************************)
(* sync_once.  A failed listing changes nothing; a failed status or update *)
(* is logged and the pass goes on with the next container.                 *)
(***************************************************************************)

Rest(c) == LET left == [sync.seen EXCEPT ![c] = "absent"] IN
    [pc |-> IF left = SyncIdle.seen THEN "idle" ELSE "check",
     seen |-> left, ct |-> 0, new |-> "none"]

\* Mutation: a container that is being provisioned is updated too.
Outdated_Provisioning(old, new) == old # new

\* Mutation: a failed container is left to its owner.
Outdated_NotFailed(old, new) == old # new /\ old \notin {"provisioning", "failed"}

Outdated(old, new) == old # new /\ old # "provisioning"

SyncList ==
    /\ sync.pc = "idle"
    /\ Recorded # {}
    /\ sync' = [SyncIdle EXCEPT !.pc = "check", !.seen = rows]
    /\ UNCHANGED <<rows, node, tasks, req, mishaps>>

\* container_status answers, and should_update is computed.
SyncCheck(c) ==
    /\ sync.pc = "check" /\ sync.seen[c] # "absent"
    /\ sync' = IF Outdated(sync.seen[c], run[c])
               THEN [sync EXCEPT !.pc = "write", !.ct = c, !.new = run[c]]
               ELSE Rest(c)
    /\ UNCHANGED <<rows, node, tasks, req, mishaps>>

\* container_status fails, or the node reports a status the code does not know.
SyncSkip(c) ==
    /\ sync.pc = "check" /\ sync.seen[c] # "absent"
    /\ sync' = Rest(c)
    /\ UNCHANGED <<rows, node, tasks, req, mishaps>>

SyncWrite ==
    /\ sync.pc = "write"
    /\ rows' = [rows EXCEPT ![sync.ct] = sync.new]
    /\ sync' = Rest(sync.ct)
    /\ UNCHANGED <<node, tasks, req, mishaps>>

SyncWriteFails ==
    /\ sync.pc = "write"
    /\ sync' = Rest(sync.ct)
    /\ UNCHANGED <<rows, node, tasks, req, mishaps>>

SyncStep == \/ SyncList \/ SyncWrite \/ SyncWriteFails
            \/ \E c \in Cts : SyncCheck(c) \/ SyncSkip(c)

-----------------------------------------------------------------------------
\* The backend is restarted: handlers and the pass under way are gone.
Crash ==
    /\ "crash" \in Faults /\ mishaps < MaxMishaps
    /\ mishaps' = mishaps + 1
    /\ req' = [r \in Requests |-> Idle]
    /\ tasks' = Disowned(Requests)
    /\ sync' = SyncIdle
    /\ UNCHANGED <<rows, node>>

\* A container goes up or down by other means than the backend.
Drift(c) ==
    /\ "drift" \in Faults /\ mishaps < MaxMishaps
    /\ mishaps' = mishaps + 1
    /\ made[c] = "ready"
    /\ \E s \in RunStates \ {run[c]} : run' = [run EXCEPT ![c] = s]
    /\ UNCHANGED <<rows, made, tasks, req, sync>>

Init ==
    /\ rows = [c \in Cts |-> IF c \in Existing THEN "running" ELSE "absent"]
    /\ made = [c \in Cts |-> IF c \in Existing THEN "ready" ELSE "none"]
    /\ run = [c \in Cts |-> IF c \in Existing THEN "running" ELSE "stopped"]
    /\ tasks = {}
    /\ req = [r \in Requests |-> Idle]
    /\ sync = SyncIdle
    /\ mishaps = 0

Create(r) == \/ CreateBegin(r) \/ CreateUnlock(r) \/ CreateClone(r)
             \/ CreateCloneWait(r) \/ CreateConfig(r) \/ CreateResize(r)
             \/ CreateResizeWait(r) \/ CreateInsert(r) \/ CreateStart(r)
Act(r) == ActBegin(r) \/ ActPost(r) \/ Poll(r) \/ Write(r)

Next ==
    \/ \E r \in Requests : Create(r) \/ Act(r) \/ Abort(r)
    \/ TaskStep
    \/ SyncStep
    \/ Crash
    \/ \E c \in Cts : Drift(c)

Spec == Init /\ [][Next]_vars

-----------------------------------------------------------------------------
(***************************************************************************)
(* Fairness.  A handler in flight goes on: every await has a time-out.  The*)
(* node works its tasks off.  The synchronisation is driven by a timer; a  *)
(* status or an update it tries again and again is answered at some time.  *)
(***************************************************************************)

HandlerStep(r) == ~At(r, "idle") /\ (Create(r) \/ Act(r))

Fairness ==
    /\ \A r \in Requests : WF_vars(HandlerStep(r))
    /\ WF_vars(TaskStep)
    /\ WF_vars(SyncStep)
    /\ \A c \in Cts : SF_vars(SyncCheck(c)) /\ SF_vars(SyncWrite /\ sync.ct = c)

FairSpec == Spec /\ Fairness

-----------------------------------------------------------------------------
TypeOK ==
    /\ rows \in [Cts -> RowStates]
    /\ made \in [Cts -> Stages]
    /\ run \in [Cts -> RunStates]
    /\ tasks \subseteq Task
    /\ req \in [Requests -> Handler]
    /\ sync \in Pass
    /\ mishaps \in 0..MaxMishaps

\* A container is recorded only when it is cloned, configured and resized on
\* the node, whichever of the steps failed, timed out or lost its answer
\* (create calls containers.create only after create_container returned Ok).
RowsReady == \A c \in Recorded : made[c] = "ready"

\* nextid reserves nothing, so two creations may set out with the same id; but
\* two never configure, resize or record the same container.
OneCreator ==
    \A r, s \in Requests :
       req[r].pc \in Building /\ req[s].pc \in Building /\ req[r].ct = req[s].ct => r = s

\* Handlers act on a container they know, from the INSERT on a recorded one.
HandlerKnows ==
    \A r \in Requests :
       /\ ~At(r, "idle") => req[r].ct \in Cts
       /\ req[r].pc \in {"create_start", "post", "poll", "write"}
             => rows[req[r].ct] # "absent"
       /\ At(r, "write") => req[r].verdict # "none"

\* A task a handler waits for is the one its last step started, and no other.
TaskKnown ==
    \A t \in tasks : t.by # None =>
       /\ req[t.by].task = "running"
       /\ req[t.by].ct = t.ct
       /\ t.kind = "clone" => At(t.by, "create_clone_wait")
       /\ t.kind = "resize" => At(t.by, "create_resize_wait")
       /\ t.kind \notin {"clone", "resize"} => req[t.by].pc \in {"poll", "write"}
       /\ \A u \in tasks : u.by = t.by => u = t

\* The template is locked by at most one clone, whose target is being cloned.
OneClone ==
    \A t \in tasks :
       /\ t.kind = "clone" => made[t.ct] = "cloning"
       /\ t.kind = "resize" => made[t.ct] \in {"configured", "ready"}
       /\ \A u \in tasks : t.kind = "clone" /\ u.kind = "clone" => t = u

\* How far a creation's container is built, step by step.
StageReached ==
    \A r \in Requests :
       /\ At(r, "create_clone_wait") /\ req[r].task = "running"
             => \E t \in tasks : t.kind = "clone" /\ t.by = r
       /\ At(r, "create_clone_wait") /\ req[r].task = "ok" => made[req[r].ct] = "cloned"
       /\ At(r, "create_config") => made[req[r].ct] = "cloned"
       /\ At(r, "create_resize") => made[req[r].ct] = "configured"
       /\ At(r, "create_resize_wait") => made[req[r].ct] \in {"configured", "ready"}
       /\ At(r, "create_resize_wait") /\ req[r].task = "ok" => made[req[r].ct] = "ready"
       /\ At(r, "create_insert") => made[req[r].ct] = "ready"

\* A creation holds its id from the end of a good clone on.  Nobody else holds
\* it, and nobody else's resize is under way.
Holds(r) == \/ req[r].pc \in Building
            \/ At(r, "create_clone_wait") /\ req[r].task = "ok"
OneHolder ==
    \A r \in Requests : Holds(r) =>
       /\ \A s \in Requests : Holds(s) /\ req[s].ct = req[r].ct => s = r
       /\ \A t \in tasks : t.kind = "resize" /\ t.ct = req[r].ct => t.by = r

\* What a snapshot says of provisioning stays true.
SnapshotSound ==
    /\ \A c \in Cts : sync.seen[c] # "absent" =>
          /\ rows[c] # "absent"
          /\ sync.seen[c] # "provisioning" => rows[c] # "provisioning"
    /\ sync.pc = "write" =>
          /\ sync.ct \in Cts /\ sync.new # "none"
          /\ sync.seen[sync.ct] \notin {"absent", "provisioning"}

\* The invariant of the proofs.
IInv == /\ TypeOK /\ RowsReady /\ HandlerKnows /\ TaskKnown /\ OneClone
        /\ StageReached /\ OneHolder /\ SnapshotSound

\* The synchronisation works from an old snapshot and updates without looking
\* again, and still never takes a container away from the creation that
\* provisions it ("those are handled by the create flow").
SyncLeavesProvisioning ==
    [][SyncWrite => rows[sync.ct] # "provisioning"]_vars

\* The abstract record of a container: it appears once the container is built,
\* provisioning, and leaves that state for good.
Record == INSTANCE ContainerRecord WITH
    built <- {c \in Cts : made[c] = "ready"}
RecordKept == Record!Spec

Quiet == (\A r \in Requests : At(r, "idle")) /\ tasks = {}

\* Once nothing is done to the containers any more, every row that has left
\* provisioning comes to show what the node reports and stays so: whatever time-outs, lost
\* answers, overlapping actions and stale updates have left is repaired.
Reconciled ==
    <>[]Quiet => <>[](\A c \in Cts : rows[c] \in {"absent", "provisioning", run[c]})

\* Unless the backend is restarted or the handler is dropped, a row does not
\* stay in provisioning, whatever the node answers and however late.
ProvisioningEnds ==
    \A c \in Cts : rows[c] = "provisioning" ~> rows[c] # "provisioning" \/ mishaps > 0
=============================================================================
