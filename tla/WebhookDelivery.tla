-------------------------- MODULE WebhookDelivery --------------------------
(***************************************************************************)
(* Webhook deployments (services/webhook_service.rs over webhook_configs   *)
(* and webhook_deliveries): an inbound event is verified against one read  *)
(* of the configuration, logged, and, if it is a push to the configured    *)
(* branch, deployed by a detached task, which runs a command in the        *)
(* container over SSH (terminal_service.rs, exec_command) and records how  *)
(* it ended.  Meanwhile the configuration is changed or deleted.           *)
(*                                                                         *)
(* Container rows are never deleted and permissions never withdrawn        *)
(* (module ContainerSharing): both are constant here.  Each database       *)
(* statement is a step; code between two of them belongs to the first.     *)
(***************************************************************************)
EXTENDS FiniteSets

CONSTANTS
    Actors,         \* callers of the API
    Containers,
    HookPerm,       \* pairs <<actor, container>>: PERM_WEBHOOKS, or an admin
    Hooks,          \* ids that configurations may get
    Rows,           \* ids that deliveries may get
    Requests,       \* handlers that may be in flight at the same time
    Secrets, Branches, Commands,    \* valid values of the columns
    Forms,          \* bodies of create requests, valid or not
    Patches,        \* bodies of update requests, valid or not
    Events,         \* what providers send, any number of times each
    Faults          \* subset of {"database", "crash", "link"}

VARIABLES
    config,         \* config[w]: row of webhook_configs
    row,            \* row[d]: row of webhook_deliveries
    req,            \* the handlers in flight and their locals
    task,           \* task[d]: run_deployment of delivery d
    proc,           \* proc[d]: the command of d in the container
    orphans         \* history: deliveries whose handler or task was cut off

vars == <<config, row, req, task, proc, orphans>>

Log == INSTANCE DeliveryLog WITH status <- [d \in Rows |-> row[d].status]

-----------------------------------------------------------------------------
(***************************************************************************)
(* The records (models/webhook.rs, webhooks/provider.rs).                  *)
(***************************************************************************)
Keep == "keep"              \* a field that a patch leaves alone
NotABranch == "not a branch"  \* tags and pings: equal to no branch name
Providers == {"github", "forgejo"}
PatchFields == {"provider", "webhook_secret", "branch", "command"}
ExitCodes == {"zero", "nonzero"}
Outcomes == {"succeeded", "failed"}

\* working_dir and post_pull_cmd are read and written together.
Config == [container : Containers, provider : Providers, webhook_secret : Secrets,
           branch : Branches, command : Commands]
NoConfig == [provider |-> "none"]
GoneConfig == [provider |-> "gone"]

Event == [delivery_id : STRING, event_type : {"push", "ping"},
          ref : [kind : {"heads", "tags"}, name : Branches], secret : Secrets]

DeliveryStatus == Log!DeliveryStatus
Open == {"pending", "running"}

Delivery == [webhook : Hooks, event : Events, branch : Branches \cup {NotABranch},
             status : DeliveryStatus]
NoRow == [status |-> "none"]
GoneRow == [status |-> "gone"]

Form == [container : Containers, provider : STRING, webhook_secret : STRING,
         branch : STRING, command : STRING]

ASSUME WebhookAssumption ==
    /\ Forms \subseteq Form
    /\ HookPerm \subseteq Actors \X Containers
    /\ Events \subseteq Event
    /\ {Keep, NotABranch} \cap Branches = {}
    /\ Keep \notin Secrets \cup Commands

Receiving == [pc : {"insert"}, webhook : Hooks, config : Config, event : Events]
Logged == [pc : {"skip", "mark"}, row : Rows, config : Config]
Changing == [pc : {"update"}, webhook : Hooks, patch : Patches]
Deleting == [pc : {"delete"}, webhook : Hooks]
Idle == [pc |-> "idle"]

Deployment == [pc : {"connect", "exec"}, config : Config, exit_code : ExitCodes]
Finishing == [pc : {"write"}, config : Config, status : Outcomes]
NoTask == [pc |-> "none"]

TypeOK ==
    /\ config \in [Hooks -> Config \cup {NoConfig, GoneConfig}]
    /\ row \in [Rows -> Delivery \cup {NoRow, GoneRow}]
    /\ req \in [Requests -> Receiving \cup Logged \cup Changing \cup Deleting \cup {Idle}]
    /\ task \in [Rows -> Deployment \cup Finishing \cup {NoTask}]
    /\ proc \in [Rows -> {"idle", "running"} \cup ExitCodes]
    /\ orphans \subseteq Rows

Init ==
    /\ config = [w \in Hooks |-> NoConfig]
    /\ row = [d \in Rows |-> NoRow]
    /\ req = [r \in Requests |-> Idle]
    /\ task = [d \in Rows |-> NoTask]
    /\ proc = [d \in Rows |-> "idle"]
    /\ orphans = {}

At(r, step) == req[r].pc = step
Return(r) == req' = [req EXCEPT ![r] = Idle]
Goto(r, locals) == req' = [req EXCEPT ![r] = locals]
Begin(r, locals) == req[r] = Idle /\ Goto(r, locals)

-----------------------------------------------------------------------------
(***************************************************************************)
(* PgWebhookRepo.  Ids are new UUIDs.                                      *)
(***************************************************************************)
HasConfig(w) == config[w] \notin {NoConfig, GoneConfig}
HasRow(d) == row[d].status \in DeliveryStatus
ListConfigs(c) == {w \in Hooks : HasConfig(w) /\ config[w].container = c}
ListDeliveries(w) == {d \in Rows : HasRow(d) /\ row[d].webhook = w}

\* The table has a CHECK on provider.
InsertConfig(w, form) ==
    /\ config[w] = NoConfig
    /\ form.provider \in Providers
    /\ config' = [config EXCEPT ![w] = form]

Given(new, old) == IF new = Keep THEN old ELSE new
Patched(c, p) ==
    [c EXCEPT !.provider = Given(p.provider, @), !.webhook_secret = Given(p.webhook_secret, @),
              !.branch = Given(p.branch, @), !.command = Given(p.command, @)]

\* One UPDATE of the columns given; it may find no row.
UpdateConfig(w, p) ==
    config' = IF HasConfig(w) /\ p.provider \in Providers \cup {Keep}
              THEN [config EXCEPT ![w] = Patched(@, p)] ELSE config

\* The deliveries go with their configuration.
DeleteConfig(w) ==
    /\ config' = [config EXCEPT ![w] = IF HasConfig(w) THEN GoneConfig ELSE @]
    /\ row' = [d \in Rows |-> IF d \in ListDeliveries(w) THEN GoneRow ELSE row[d]]

InsertDelivery(d, delivery) == row[d] = NoRow /\ row' = [row EXCEPT ![d] = delivery]

\* No WHERE on the old status; the row may be gone.
UpdateStatus(d, status) ==
    row' = IF HasRow(d) THEN [row EXCEPT ![d].status = status] ELSE row

-----------------------------------------------------------------------------
(***************************************************************************)
(* Administration of the configurations.                                   *)
(***************************************************************************)
RequirePermission(a, c) == <<a, c>> \in HookPerm

ValidateCreate(form) ==
    form.branch \in Branches /\ form.webhook_secret \in Secrets /\ form.command \in Commands

\* Mutation: the fields that are given are not validated.
ValidateUpdate_AnyField(p) == \E f \in PatchFields : p[f] # Keep

\* At least one field, and valid ones.
ValidateUpdate(p) ==
    /\ \E f \in PatchFields : p[f] # Keep
    /\ p.branch \in Branches \cup {Keep}
    /\ p.webhook_secret \in Secrets \cup {Keep}
    /\ p.command \in Commands \cup {Keep}

CreateConfig(a, w, form) ==
    /\ RequirePermission(a, form.container)
    /\ ValidateCreate(form)
    /\ InsertConfig(w, form)
    /\ UNCHANGED <<row, req, task, proc, orphans>>

\* update_config and delete_config read the row to find its container.
UpdateCheck(r, a, w, p) ==
    /\ HasConfig(w)
    /\ RequirePermission(a, config[w].container)
    /\ ValidateUpdate(p)
    /\ Begin(r, [pc |-> "update", webhook |-> w, patch |-> p])
    /\ UNCHANGED <<config, row, task, proc, orphans>>

UpdateWrite(r) ==
    /\ At(r, "update")
    /\ UpdateConfig(req[r].webhook, req[r].patch)
    /\ Return(r)
    /\ UNCHANGED <<row, task, proc, orphans>>

DeleteCheck(r, a, w) ==
    /\ HasConfig(w)
    /\ RequirePermission(a, config[w].container)
    /\ Begin(r, [pc |-> "delete", webhook |-> w])
    /\ UNCHANGED <<config, row, task, proc, orphans>>

DeleteWrite(r) ==
    /\ At(r, "delete")
    /\ DeleteConfig(req[r].webhook)
    /\ Return(r)
    /\ UNCHANGED <<task, proc, orphans>>

-----------------------------------------------------------------------------
(***************************************************************************)
(* handle_incoming.                                                        *)
(***************************************************************************)
\* GitHubProvider.  Forgejo's is a stub that panics.
Verify(c, e) == c.provider = "github" /\ e.secret = c.webhook_secret

\* refs/heads/ is stripped; anything else is kept and is no branch name.
ParseBranch(e) ==
    IF e.event_type = "push" /\ e.ref.kind = "heads" THEN e.ref.name ELSE NotABranch

\* One read of the configuration; the rest of the handler works on this copy.
Receive(r, w, e) ==
    /\ HasConfig(w)
    /\ Verify(config[w], e)
    /\ Begin(r, [pc |-> "insert", webhook |-> w, config |-> config[w], event |-> e])
    /\ UNCHANGED <<config, row, task, proc, orphans>>

\* Mutation: the branch is compared with the configuration of now.
Route_Rereads(q) ==
    IF q.event.event_type = "ping" \/ ~HasConfig(q.webhook)
    THEN "skip" ELSE IF ParseBranch(q.event) # config[q.webhook].branch THEN "skip" ELSE "mark"

\* A ping and a push to another branch are skipped.
Route(q) ==
    IF q.event.event_type = "ping" \/ ParseBranch(q.event) # q.config.branch
    THEN "skip" ELSE "mark"

\* webhook_id REFERENCES webhook_configs: the INSERT fails if the
\* configuration has been deleted since it was read.
InsertRow(r, d) ==
    LET q == req[r] IN
    /\ At(r, "insert")
    /\ HasConfig(q.webhook)
    /\ InsertDelivery(d, [webhook |-> q.webhook, event |-> q.event,
                          branch |-> ParseBranch(q.event), status |-> "pending"])
    /\ Goto(r, [pc |-> Route(q), row |-> d, config |-> q.config])
    /\ UNCHANGED <<config, task, proc, orphans>>

InsertRefused(r) ==
    /\ At(r, "insert")
    /\ ~HasConfig(req[r].webhook)
    /\ Return(r)
    /\ UNCHANGED <<config, row, task, proc, orphans>>

\* Mutation: the handler returns without touching the row.
MarkSkipped_Forgets(r) ==
    /\ At(r, "skip")
    /\ Return(r)
    /\ UNCHANGED <<config, row, task, proc, orphans>>

MarkSkipped(r) ==
    /\ At(r, "skip")
    /\ UpdateStatus(req[r].row, "skipped")
    /\ Return(r)
    /\ UNCHANGED <<config, task, proc, orphans>>

Spawn(d, c) ==
    task' = [task EXCEPT ![d] = [pc |-> "connect", config |-> c, exit_code |-> "zero"]]

\* Mutation: the deployment is spawned before its row says so.
MarkRunning_Late(r) ==
    /\ At(r, "mark")
    /\ \/ /\ task[req[r].row] = NoTask /\ row[req[r].row].status = "pending"
          /\ Spawn(req[r].row, req[r].config)
          /\ UNCHANGED <<row, req>>
       \/ /\ task[req[r].row] # NoTask \/ row[req[r].row].status # "pending"
          /\ UpdateStatus(req[r].row, "running")
          /\ Return(r)
          /\ UNCHANGED task
    /\ UNCHANGED <<config, proc, orphans>>

\* The container is read, the row marked (if it is still there), and the
\* deployment spawned with the same copy of the configuration.
MarkRunning(r) ==
    /\ At(r, "mark")
    /\ UpdateStatus(req[r].row, "running")
    /\ Spawn(req[r].row, req[r].config)
    /\ Return(r)
    /\ UNCHANGED <<config, proc, orphans>>

-----------------------------------------------------------------------------
(***************************************************************************)
(* run_deployment and exec_command.                                        *)
(***************************************************************************)
Doing(d, step) == task[d].pc = step

Report(d, status) ==
    task' = [task EXCEPT ![d] = [pc |-> "write", config |-> @.config, status |-> status]]

\* Mutation: run_deployment returns early on a connection error.
ConnectFails_Silent(d) ==
    /\ Doing(d, "connect")
    /\ task' = [task EXCEPT ![d] = NoTask]
    /\ UNCHANGED <<config, row, req, proc, orphans>>

\* No address within the polling, no certificate, no connection, no channel.
ConnectFails(d) ==
    /\ Doing(d, "connect")
    /\ Report(d, "failed")
    /\ UNCHANGED <<config, row, req, proc, orphans>>

Exec(d) ==
    /\ Doing(d, "connect")
    /\ task' = [task EXCEPT ![d].pc = "exec"]
    /\ proc' = [proc EXCEPT ![d] = "running"]
    /\ UNCHANGED <<config, row, req, orphans>>

\* The command ends in the container.
ProcessExits(d) ==
    /\ proc[d] = "running"
    /\ \E code \in ExitCodes : proc' = [proc EXCEPT ![d] = code]
    /\ UNCHANGED <<config, row, req, task, orphans>>

\* The channel reports the exit status.
ExitStatus(d) ==
    /\ Doing(d, "exec")
    /\ proc[d] \in ExitCodes
    /\ task' = [task EXCEPT ![d].exit_code = proc[d]]
    /\ UNCHANGED <<config, row, req, proc, orphans>>

StatusHeard(d) == proc[d] \in ExitCodes /\ task[d].exit_code = proc[d]

Verdict(d) == IF task[d].exit_code = "zero" THEN "succeeded" ELSE "failed"

\* The loop ends with EOF or with the channel, whatever has been heard by
\* then: with "link" among the faults also before the exit status.
ChannelEnds(d) ==
    /\ Doing(d, "exec")
    /\ StatusHeard(d) \/ "link" \in Faults
    /\ Report(d, Verdict(d))
    /\ UNCHANGED <<config, row, req, proc, orphans>>

Record(d) ==
    /\ Doing(d, "write")
    /\ UpdateStatus(d, task[d].status)
    /\ task' = [task EXCEPT ![d] = NoTask]
    /\ UNCHANGED <<config, req, proc, orphans>>

-----------------------------------------------------------------------------
(***************************************************************************)
(* Failures.                                                               *)
(***************************************************************************)
OwnRow(r) == IF req[r].pc \in {"skip", "mark"} THEN {req[r].row} ELSE {}

\* A statement fails, or its handler is dropped with the connection, before
\* or after the statement has taken effect.
HandlerFails(r) ==
    /\ "database" \in Faults
    /\ req[r] # Idle
    /\ \/ UNCHANGED row
       \/ At(r, "mark") /\ UpdateStatus(req[r].row, "running")
    /\ Return(r)
    /\ orphans' = orphans \cup OwnRow(r)
    /\ UNCHANGED <<config, task, proc>>

\* run_deployment only logs that it could not record the end.
RecordFails(d) ==
    /\ "database" \in Faults
    /\ Doing(d, "write")
    /\ task' = [task EXCEPT ![d] = NoTask]
    /\ orphans' = orphans \cup {d}
    /\ UNCHANGED <<config, row, req, proc>>

\* The backend restarts.  Nothing takes up the deliveries it leaves.
Crash ==
    /\ "crash" \in Faults
    /\ orphans' = orphans \cup (UNION {OwnRow(r) : r \in Requests})
                          \cup {d \in Rows : task[d] # NoTask}
    /\ req' = [r \in Requests |-> Idle]
    /\ task' = [d \in Rows |-> NoTask]
    /\ UNCHANGED <<config, row, proc>>

-----------------------------------------------------------------------------
Administer(r) ==
    \/ \E a \in Actors, w \in Hooks, p \in Patches : UpdateCheck(r, a, w, p)
    \/ UpdateWrite(r)
    \/ \E a \in Actors, w \in Hooks : DeleteCheck(r, a, w)
    \/ DeleteWrite(r)

Create == \E a \in Actors, w \in Hooks, form \in Forms : CreateConfig(a, w, form)

\* handle_incoming, once it has read the configuration.
Proceed(r) ==
    \/ \E d \in Rows : InsertRow(r, d)
    \/ InsertRefused(r)
    \/ MarkSkipped(r)
    \/ MarkRunning(r)

Incoming(r) == (\E w \in Hooks, e \in Events : Receive(r, w, e)) \/ Proceed(r)

Deploy(d) ==
    \/ ConnectFails(d)
    \/ Exec(d)
    \/ ExitStatus(d)
    \/ ChannelEnds(d)
    \/ Record(d)

Next ==
    \/ Create
    \/ \E r \in Requests : Administer(r) \/ Incoming(r) \/ HandlerFails(r)
    \/ \E d \in Rows : Deploy(d) \/ ProcessExits(d) \/ RecordFails(d)
    \/ Crash

Spec == Init /\ [][Next]_vars

\* tokio keeps polling every handler and every task; statements, the polling
\* for an address and a silent SSH connection (300 s) have their time-outs.
\* That the command ends is assumed: nothing stops one that prints for ever.
FairSpec ==
    /\ Spec
    /\ \A r \in Requests : WF_vars(Proceed(r))
    /\ \A d \in Rows : WF_vars(ConnectFails(d) \/ Exec(d)) /\ WF_vars(ExitStatus(d) /\ ~StatusHeard(d))
    /\ \A d \in Rows : WF_vars(ChannelEnds(d)) /\ WF_vars(Record(d)) /\ WF_vars(ProcessExits(d))

-----------------------------------------------------------------------------
(***************************************************************************)
(* Properties.                                                             *)
(***************************************************************************)

\* Nobody works on a delivery that is over: a task means that its row is
\* running (or was deleted with its configuration), a handler that it is
\* still pending, and no two of them have the same delivery.
OneWorkerPerDelivery ==
    /\ \A d \in Rows : task[d] # NoTask => row[d].status \in {"running", "gone"}
    /\ \A r \in Requests, d \in Rows : d \in OwnRow(r) =>
          /\ row[d].status \in {"pending", "gone"}
          /\ task[d] = NoTask
          /\ \A s \in Requests \ {r} : d \notin OwnRow(s)

\* Every delivery that is pending or running is somebody's: exactly one
\* handler or its own task will move it on, unless a failed statement or a
\* restart has cut that one off.
OpenDeliveriesOwned ==
    /\ \A d \in Rows : HasRow(d) /\ row[d].status \in Open /\ d \notin orphans =>
          \/ task[d] # NoTask
          \/ \E r \in Requests : d \in OwnRow(r)
    /\ OneWorkerPerDelivery

\* What is deployed is a push to the branch that the configuration named when
\* the event was verified, with the command of that same configuration,
\* although both may be changed in the meantime.
DeploysItsBranch ==
    \A d \in Rows : task[d] # NoTask /\ HasRow(d) =>
        /\ row[d].event.event_type = "push"
        /\ task[d].config.branch = row[d].branch
        /\ task[d].config.webhook_secret = row[d].event.secret

\* terminal_service.rs:147: exec_command returns the exit code of the command.
\* So a delivery that says how its command ended would say the truth: succeeded
\* only if the command ran to its end and returned zero.  Does not hold: the
\* channel may end before the exit status is heard, and then it counts as zero.
OutcomeTrue ==
    \A d \in Rows :
        /\ row[d].status = "succeeded" => proc[d] = "zero"
        /\ row[d].status = "failed" => proc[d] \in {"idle", "nonzero"}

\* The status of a delivery only moves forward and is final once it is
\* reported, by whichever task and after whatever failure.
LogKept == Log!Spec

\* Every delivery comes to an end, if no failure cuts off its handler or task.
DeliveriesSettle ==
    \A d \in Rows : HasRow(d) /\ row[d].status \in Open
                    ~> row[d].status \in Log!FinalStates \cup {"gone"} \/ d \in orphans
=============================================================================
