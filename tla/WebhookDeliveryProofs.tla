----------------------- MODULE WebhookDeliveryProofs -----------------------
(***************************************************************************)
(* WebhookDelivery for any sets of hooks, deliveries, requests and events: *)
(* the three invariants hold and it implements DeliveryLog.                *)
(*                                                                         *)
(* The inductive invariant adds what a handler has established by the time *)
(* it inserts, writes or starts something, and must not lose.              *)
(***************************************************************************)
EXTENDS WebhookDelivery, TLAPS

Handler == Receiving \cup Logged \cup Changing \cup Deleting \cup {Idle}
Task == Deployment \cup Finishing \cup {NoTask}

\* Delivery d is a push to the branch of configuration c.
Fits(d, c) ==
    /\ d.event.event_type = "push"
    /\ d.branch = c.branch
    /\ d.event.secret = c.webhook_secret

CheckedHandler(q) ==
    /\ q.pc = "insert" => q.event.secret = q.config.webhook_secret
    /\ q.pc = "update" => ValidateUpdate(q.patch)

HandlersChecked == \A r \in Requests :
    /\ CheckedHandler(req[r])
    /\ At(r, "mark") /\ HasRow(req[r].row) => Fits(row[req[r].row], req[r].config)

IInv == TypeOK /\ OpenDeliveriesOwned /\ DeploysItsBranch /\ HandlersChecked

-----------------------------------------------------------------------------
(***************************************************************************)
(* Records.                                                                *)
(***************************************************************************)

\* The step of a handler tells its locals.
LEMMA HandlerShape ==
    ASSUME NEW q \in Handler
    PROVE  /\ q.pc = "insert" => q \in Receiving
           /\ q.pc \in {"skip", "mark"} => q \in Logged
           /\ q.pc = "update" => q \in Changing
           /\ q.pc = "delete" => q \in Deleting
           /\ q.pc \notin {"insert", "skip", "mark", "update", "delete"} => q = Idle
  BY DEF Handler, Receiving, Logged, Changing, Deleting, Idle

\* The step of a task tells its locals.
LEMMA TaskShape ==
    ASSUME NEW k \in Task
    PROVE  /\ k.pc \in {"connect", "exec"} => k \in Deployment
           /\ k.pc = "write" => k \in Finishing
           /\ k \in Deployment \cup Finishing => k # NoTask /\ k.config \in Config
  BY DEF Task, Deployment, Finishing, NoTask

LEMMA Statuses == DeliveryStatus = {"pending", "running", "succeeded", "failed", "skipped"}
  BY DEF DeliveryStatus, Log!DeliveryStatus, Log!FinalStates

\* A row that is there is a delivery.
LEMMA RowShape ==
    ASSUME TypeOK, NEW d \in Rows
    PROVE  /\ HasRow(d) <=> row[d] \in Delivery
           /\ ~HasRow(d) => row[d] \in {NoRow, GoneRow} /\ row[d].status \in {"none", "gone"}
           /\ row[d] = NoRow <=> row[d].status = "none"
  BY Statuses DEF TypeOK, HasRow, Delivery, NoRow, GoneRow

\* A configuration that is there is one.
LEMMA ConfigShape ==
    ASSUME TypeOK, NEW w \in Hooks
    PROVE  HasConfig(w) => config[w] \in Config
  BY DEF TypeOK, HasConfig

\* A write of a status changes that field of that row, if it is there.
LEMMA StatusWritten ==
    ASSUME TypeOK, NEW d \in Rows, NEW s \in DeliveryStatus, UpdateStatus(d, s)
    PROVE  /\ row' \in [Rows -> Delivery \cup {NoRow, GoneRow}]
           /\ \A e \in Rows \ {d} : row'[e] = row[e]
           /\ ~HasRow(d) => row'[d] = row[d]
           /\ HasRow(d) => /\ row'[d].status = s /\ row'[d].event = row[d].event
                           /\ row'[d].branch = row[d].branch
  <1>1. CASE HasRow(d)
    <2> DEFINE k == [row[d] EXCEPT !.status = s]
    <2>1. k \in Delivery /\ k.status = s /\ k.event = row[d].event /\ k.branch = row[d].branch
      BY <1>1, RowShape DEF Delivery
    <2>2. row' = [row EXCEPT ![d] = k]
      BY <1>1 DEF UpdateStatus
    <2> HIDE DEF k
    <2> QED BY <1>1, <2>1, <2>2 DEF TypeOK
  <1>2. CASE ~HasRow(d)
    BY <1>2 DEF UpdateStatus, TypeOK
  <1> QED BY <1>1, <1>2

\* Only the handlers at skip or mark own a delivery.
LEMMA Owned ==
    ASSUME TypeOK, NEW r \in Requests
    PROVE  /\ OwnRow(r) \subseteq Rows
           /\ ~At(r, "skip") /\ ~At(r, "mark") => OwnRow(r) = {}
           /\ At(r, "skip") \/ At(r, "mark") =>
                OwnRow(r) = {req[r].row} /\ req[r] \in Logged /\ req[r].row \in Rows
  BY HandlerShape DEF TypeOK, Handler, OwnRow, At, Logged

\* What a step of one handler does to the handlers.
LEMMA OneHandler ==
    ASSUME TypeOK, NEW r \in Requests, NEW k \in Handler, req' = [req EXCEPT ![r] = k]
    PROVE  /\ req' \in [Requests -> Handler]
           /\ req'[r] = k
           /\ \A s \in Requests \ {r} : req'[s] = req[s] /\ OwnRow(s)' = OwnRow(s)
           /\ OwnRow(r)' = IF k.pc \in {"skip", "mark"} THEN {k.row} ELSE {}
  BY DEF TypeOK, Handler, OwnRow

-----------------------------------------------------------------------------
(***************************************************************************)
(* Steps that move no delivery.                                            *)
(***************************************************************************)

\* A handler that works on no delivery, neither before nor after the step.
LEMMA HandlerMoves ==
    ASSUME IInv, NEW r \in Requests, NEW k \in Handler, req' = [req EXCEPT ![r] = k],
           UNCHANGED <<row, task, proc, orphans>>,
           config' \in [Hooks -> Config \cup {NoConfig, GoneConfig}],
           OwnRow(r) = {}, k.pc \notin {"skip", "mark"}, CheckedHandler(k)
    PROVE  IInv'
  <1>1. /\ req' \in [Requests -> Handler] /\ req'[r] = k
        /\ \A s \in Requests \ {r} : req'[s] = req[s]
        /\ \A s \in Requests : OwnRow(s)' = OwnRow(s)
    BY OneHandler DEF IInv
  <1>2. TypeOK'
    BY <1>1 DEF IInv, TypeOK, Handler
  <1>3. OpenDeliveriesOwned'
    BY <1>1 DEF IInv, OpenDeliveriesOwned, OneWorkerPerDelivery, HasRow
  <1>4. DeploysItsBranch'
    BY DEF IInv, DeploysItsBranch, HasRow
  <1>5. HandlersChecked'
    <2> SUFFICES ASSUME NEW s \in Requests
                 PROVE  /\ CheckedHandler(req'[s])
                        /\ req'[s].pc = "mark" /\ HasRow(req'[s].row) =>
                              Fits(row[req'[s].row], req'[s].config)
      BY DEF HandlersChecked, CheckedHandler, HasRow, Fits, At, ValidateUpdate
    <2>1. CASE s = r
      BY <1>1, <2>1
    <2>2. CASE s # r
      BY <1>1, <2>2 DEF IInv, HandlersChecked, At
    <2> QED BY <2>1, <2>2
  <1> QED BY <1>2, <1>3, <1>4, <1>5 DEF IInv

\* A task that goes on with its configuration.
LEMMA TaskMoves ==
    ASSUME IInv, NEW d \in Rows, NEW k \in Deployment \cup Finishing,
           task[d] # NoTask, k.config = task[d].config, task' = [task EXCEPT ![d] = k],
           proc' \in [Rows -> {"idle", "running"} \cup ExitCodes],
           UNCHANGED <<config, row, req, orphans>>
    PROVE  IInv'
  <1>1. /\ task' \in [Rows -> Task]
        /\ \A e \in Rows : task'[e] = IF e = d THEN k ELSE task[e]
        /\ k # NoTask
        /\ \A r \in Requests : OwnRow(r)' = OwnRow(r)
    BY TaskShape DEF IInv, TypeOK, Task, OwnRow
  <1>2. TypeOK'
    BY <1>1 DEF IInv, TypeOK, Task
  <1>3. OpenDeliveriesOwned'
    BY <1>1, Owned DEF IInv, OpenDeliveriesOwned, OneWorkerPerDelivery, HasRow
  <1>4. DeploysItsBranch'
    BY <1>1 DEF IInv, DeploysItsBranch, HasRow
  <1>5. HandlersChecked'
    BY DEF IInv, HandlersChecked, CheckedHandler, HasRow, Fits, At, ValidateUpdate
  <1> QED BY <1>2, <1>3, <1>4, <1>5 DEF IInv

\* Everything but the configurations and the commands stays.
LEMMA OthersMove ==
    ASSUME IInv, UNCHANGED <<row, req, task, orphans>>,
           config' \in [Hooks -> Config \cup {NoConfig, GoneConfig}],
           proc' \in [Rows -> {"idle", "running"} \cup ExitCodes]
    PROVE  IInv'
  <1>1. TypeOK'
    BY DEF IInv, TypeOK
  <1>2. \A r \in Requests : OwnRow(r)' = OwnRow(r)
    BY DEF OwnRow
  <1>3. OpenDeliveriesOwned'
    BY <1>2 DEF IInv, OpenDeliveriesOwned, OneWorkerPerDelivery, HasRow
  <1>4. DeploysItsBranch'
    BY DEF IInv, DeploysItsBranch, HasRow
  <1>5. HandlersChecked'
    BY DEF IInv, HandlersChecked, CheckedHandler, HasRow, Fits, At, ValidateUpdate
  <1> QED BY <1>1, <1>3, <1>4, <1>5 DEF IInv

\* A handler that ends without having touched a delivery.
LEMMA HandlerEnds ==
    ASSUME IInv, NEW r \in Requests, Return(r), OwnRow(r) = {},
           UNCHANGED <<row, task, proc, orphans>>,
           config' \in [Hooks -> Config \cup {NoConfig, GoneConfig}]
    PROVE  IInv'
  <1>1. Idle \in Handler /\ Idle.pc \notin {"skip", "mark"} /\ CheckedHandler(Idle)
    BY DEF Handler, Idle, CheckedHandler
  <1> QED BY <1>1, HandlerMoves DEF Return

LEMMA UpdateCheckStep ==
    ASSUME IInv, NEW r \in Requests, NEW a \in Actors, NEW w \in Hooks, NEW p \in Patches,
           UpdateCheck(r, a, w, p)
    PROVE  IInv'
  <1> DEFINE k == [pc |-> "update", webhook |-> w, patch |-> p]
  <1>1. OwnRow(r) = {} /\ UNCHANGED <<row, task, proc, orphans, config>>
    BY Owned DEF IInv, UpdateCheck, Begin, Idle, At
  <1>2. config' \in [Hooks -> Config \cup {NoConfig, GoneConfig}]
    BY <1>1 DEF IInv, TypeOK
  <1>3. k \in Handler /\ k.pc \notin {"skip", "mark"} /\ CheckedHandler(k)
    BY DEF Handler, Changing, UpdateCheck, CheckedHandler
  <1>4. req' = [req EXCEPT ![r] = k]
    BY DEF UpdateCheck, Begin, Goto
  <1> HIDE DEF k
  <1> QED BY <1>1, <1>2, <1>3, <1>4, HandlerMoves

LEMMA DeleteCheckStep ==
    ASSUME IInv, NEW r \in Requests, NEW a \in Actors, NEW w \in Hooks, DeleteCheck(r, a, w)
    PROVE  IInv'
  <1> DEFINE k == [pc |-> "delete", webhook |-> w]
  <1>1. OwnRow(r) = {} /\ UNCHANGED <<row, task, proc, orphans, config>>
    BY Owned DEF IInv, DeleteCheck, Begin, Idle, At
  <1>2. config' \in [Hooks -> Config \cup {NoConfig, GoneConfig}]
    BY <1>1 DEF IInv, TypeOK
  <1>3. k \in Handler /\ k.pc \notin {"skip", "mark"} /\ CheckedHandler(k)
    BY DEF Handler, Deleting, CheckedHandler
  <1>4. req' = [req EXCEPT ![r] = k]
    BY DEF DeleteCheck, Begin, Goto
  <1> HIDE DEF k
  <1> QED BY <1>1, <1>2, <1>3, <1>4, HandlerMoves

LEMMA ReceiveStep ==
    ASSUME IInv, NEW r \in Requests, NEW w \in Hooks, NEW e \in Events, Receive(r, w, e)
    PROVE  IInv'
  <1> DEFINE k == [pc |-> "insert", webhook |-> w, config |-> config[w], event |-> e]
  <1>1. OwnRow(r) = {} /\ UNCHANGED <<row, task, proc, orphans, config>>
    BY Owned DEF IInv, Receive, Begin, Idle, At
  <1>2. config' \in [Hooks -> Config \cup {NoConfig, GoneConfig}] /\ config[w] \in Config
    BY <1>1, ConfigShape DEF IInv, TypeOK, Receive
  <1>3. k \in Handler /\ k.pc \notin {"skip", "mark"} /\ CheckedHandler(k)
    BY <1>2 DEF Handler, Receiving, Receive, Verify, CheckedHandler
  <1>4. req' = [req EXCEPT ![r] = k]
    BY DEF Receive, Begin, Goto
  <1> HIDE DEF k
  <1> QED BY <1>1, <1>2, <1>3, <1>4, HandlerMoves

\* A validated patch of a configuration is a configuration.
LEMMA PatchedConfig ==
    ASSUME NEW c \in Config, NEW p, ValidateUpdate(p), p.provider \in Providers \cup {Keep}
    PROVE  Patched(c, p) \in Config
  BY DEF Config, Patched, Given, ValidateUpdate

LEMMA UpdateWriteStep ==
    ASSUME IInv, NEW r \in Requests, UpdateWrite(r)
    PROVE  IInv'
  <1>1. /\ req[r] \in Changing /\ ValidateUpdate(req[r].patch) /\ OwnRow(r) = {}
        /\ UNCHANGED <<row, task, proc, orphans>> /\ Return(r)
    BY HandlerShape, Owned
       DEF IInv, TypeOK, Handler, HandlersChecked, CheckedHandler, UpdateWrite, At
  <1> DEFINE w == req[r].webhook
             p == req[r].patch
  <1>2. w \in Hooks
    BY <1>1 DEF Changing
  <1>3. config' \in [Hooks -> Config \cup {NoConfig, GoneConfig}]
    <2>1. CASE HasConfig(w) /\ p.provider \in Providers \cup {Keep}
      <3>1. config[w] \in Config
        BY <1>2, <2>1, ConfigShape DEF IInv
      <3>2. Patched(config[w], p) \in Config
        BY <1>1, <2>1, <3>1, PatchedConfig
      <3>3. config' = [config EXCEPT ![w] = Patched(config[w], p)]
        BY <2>1, <1>2 DEF UpdateWrite, UpdateConfig, IInv, TypeOK
      <3> QED BY <1>2, <3>2, <3>3 DEF IInv, TypeOK
    <2>2. CASE ~(HasConfig(w) /\ p.provider \in Providers \cup {Keep})
      BY <2>2 DEF UpdateWrite, UpdateConfig, IInv, TypeOK
    <2> QED BY <2>1, <2>2
  <1> QED BY <1>1, <1>3, HandlerEnds

LEMMA InsertRefusedStep ==
    ASSUME IInv, NEW r \in Requests, InsertRefused(r)
    PROVE  IInv'
  <1>1. OwnRow(r) = {} /\ config' \in [Hooks -> Config \cup {NoConfig, GoneConfig}]
    BY Owned DEF IInv, TypeOK, InsertRefused, At
  <1> QED BY <1>1, HandlerEnds DEF InsertRefused

LEMMA CreateStep ==
    ASSUME IInv, NEW a \in Actors, NEW w \in Hooks, NEW form \in Forms, CreateConfig(a, w, form)
    PROVE  IInv'
  <1>1. form \in Form /\ form.branch \in Branches /\ form.webhook_secret \in Secrets
        /\ form.command \in Commands /\ form.provider \in Providers
    BY WebhookAssumption DEF CreateConfig, ValidateCreate, InsertConfig
  <1>2. form \in Config
    BY <1>1 DEF Form, Config
  <1>3. config' \in [Hooks -> Config \cup {NoConfig, GoneConfig}]
    BY <1>2 DEF CreateConfig, InsertConfig, IInv, TypeOK
  <1>4. proc' \in [Rows -> {"idle", "running"} \cup ExitCodes]
    BY DEF CreateConfig, IInv, TypeOK
  <1> QED BY <1>3, <1>4, OthersMove DEF CreateConfig

\* The steps of a task before it records its end.
LEMMA DeployStep ==
    ASSUME IInv, NEW d \in Rows,
           ConnectFails(d) \/ Exec(d) \/ ExitStatus(d) \/ ChannelEnds(d)
    PROVE  IInv'
  <1>1. task[d] \in Deployment /\ task[d] # NoTask
    <2>1. task[d] \in Task /\ task[d].pc \in {"connect", "exec"}
      BY DEF IInv, TypeOK, Task, ConnectFails, Exec, ExitStatus, ChannelEnds, Doing
    <2> QED BY <2>1, TaskShape
  <1>2. PICK k \in Deployment \cup Finishing :
            k.config = task[d].config /\ task' = [task EXCEPT ![d] = k]
    <2>1. CASE ConnectFails(d) \/ ChannelEnds(d)
      <3>1. PICK s \in Outcomes :
                task' = [task EXCEPT ![d] = [pc |-> "write", config |-> task[d].config,
                                             status |-> s]]
        BY <2>1 DEF ConnectFails, ChannelEnds, Report, Verdict, Outcomes, IInv, TypeOK
      <3>2. [pc |-> "write", config |-> task[d].config, status |-> s] \in Finishing
        BY <1>1 DEF Deployment, Finishing
      <3> QED BY <3>1, <3>2
    <2>2. CASE Exec(d)
      <3>1. task' = [task EXCEPT ![d] = [task[d] EXCEPT !.pc = "exec"]]
        BY <2>2 DEF Exec, IInv, TypeOK
      <3>2. [task[d] EXCEPT !.pc = "exec"] \in Deployment
            /\ [task[d] EXCEPT !.pc = "exec"].config = task[d].config
        BY <1>1 DEF Deployment
      <3> QED BY <3>1, <3>2
    <2>3. CASE ExitStatus(d)
      <3>1. task' = [task EXCEPT ![d] = [task[d] EXCEPT !.exit_code = proc[d]]]
        BY <2>3 DEF ExitStatus, IInv, TypeOK
      <3>2. [task[d] EXCEPT !.exit_code = proc[d]] \in Deployment
            /\ [task[d] EXCEPT !.exit_code = proc[d]].config = task[d].config
        BY <1>1, <2>3 DEF Deployment, ExitStatus
      <3> QED BY <3>1, <3>2
    <2> QED BY <2>1, <2>2, <2>3
  <1>3. proc' \in [Rows -> {"idle", "running"} \cup ExitCodes]
    BY DEF IInv, TypeOK, ConnectFails, Exec, ExitStatus, ChannelEnds
  <1> QED BY <1>1, <1>2, <1>3, TaskMoves DEF ConnectFails, Exec, ExitStatus, ChannelEnds

LEMMA ProcessExitsStep ==
    ASSUME IInv, NEW d \in Rows, ProcessExits(d)
    PROVE  IInv'
  <1>1. proc' \in [Rows -> {"idle", "running"} \cup ExitCodes]
    BY DEF IInv, TypeOK, ProcessExits
  <1>2. config' \in [Hooks -> Config \cup {NoConfig, GoneConfig}]
    BY DEF IInv, TypeOK, ProcessExits
  <1> QED BY <1>1, <1>2, OthersMove DEF ProcessExits

-----------------------------------------------------------------------------
(***************************************************************************)
(* Steps that move a delivery.                                             *)
(***************************************************************************)

\* The owner of a delivery is its only worker.
LEMMA OwnerAlone ==
    ASSUME IInv, NEW r \in Requests, At(r, "skip") \/ At(r, "mark")
    PROVE  /\ req[r] \in Logged /\ req[r].row \in Rows /\ OwnRow(r) = {req[r].row}
           /\ row[req[r].row].status \in {"pending", "gone"}
           /\ task[req[r].row] = NoTask
           /\ \A s \in Requests \ {r} : req[r].row \notin OwnRow(s)
  BY Owned DEF IInv, OpenDeliveriesOwned, OneWorkerPerDelivery

LEMMA InsertRowStep ==
    ASSUME IInv, NEW r \in Requests, NEW d \in Rows, InsertRow(r, d)
    PROVE  IInv'
  <1> DEFINE q == req[r]
             new == [webhook |-> q.webhook, event |-> q.event,
                     branch |-> ParseBranch(q.event), status |-> "pending"]
             k == [pc |-> Route(q), row |-> d, config |-> q.config]
  <1>1. q \in Receiving /\ q.event \in Event /\ q.config \in Config
        /\ q.event.secret = q.config.webhook_secret
    BY HandlerShape, WebhookAssumption
       DEF IInv, TypeOK, Handler, HandlersChecked, CheckedHandler, InsertRow, At, Receiving
  <1>2. ParseBranch(q.event) \in Branches \cup {NotABranch}
    BY <1>1 DEF ParseBranch, Event
  <1>3. new \in Delivery /\ new.status = "pending"
    BY <1>1, <1>2, Statuses DEF Receiving, Delivery
  <1>4. k \in Handler /\ k.pc \in {"skip", "mark"} /\ k.row = d /\ CheckedHandler(k)
    BY <1>1 DEF Handler, Logged, Route, CheckedHandler
  <1>5. k.pc = "mark" => Fits(new, k.config)
    BY <1>1 DEF Route, Fits, Event
  <1>6. /\ row[d] = NoRow /\ row' = [row EXCEPT ![d] = new] /\ req' = [req EXCEPT ![r] = k]
        /\ UNCHANGED <<config, task, proc, orphans>> /\ OwnRow(r) = {}
    BY Owned DEF IInv, InsertRow, InsertDelivery, Goto, At
  <1> HIDE DEF q, new, k
  <1>7. /\ \A e \in Rows : row'[e] = IF e = d THEN new ELSE row[e]
        /\ row' \in [Rows -> Delivery \cup {NoRow, GoneRow}]
    BY <1>3, <1>6 DEF IInv, TypeOK
  <1>8. /\ req' \in [Requests -> Handler] /\ req'[r] = k
        /\ \A s \in Requests \ {r} : req'[s] = req[s] /\ OwnRow(s)' = OwnRow(s)
        /\ OwnRow(r)' = {d}
    BY <1>4, <1>6, OneHandler DEF IInv
  <1>9. row[d].status = "none"
    BY <1>6 DEF NoRow
  <1>10. task[d] = NoTask /\ \A s \in Requests : d \notin OwnRow(s)
    BY <1>9 DEF IInv, OpenDeliveriesOwned, OneWorkerPerDelivery
  <1>11. TypeOK'
    BY <1>6, <1>7, <1>8 DEF IInv, TypeOK, Handler
  <1>12. OneWorkerPerDelivery'
    BY <1>3, <1>6, <1>7, <1>8, <1>10 DEF IInv, OpenDeliveriesOwned, OneWorkerPerDelivery
  <1>13. OpenDeliveriesOwned'
    BY <1>6, <1>7, <1>8, <1>9, <1>10, <1>12 DEF IInv, OpenDeliveriesOwned, HasRow
  <1>14. DeploysItsBranch'
    BY <1>6, <1>7, <1>10 DEF IInv, DeploysItsBranch, HasRow
  <1>15. HandlersChecked'
    <2> SUFFICES ASSUME NEW s \in Requests
                 PROVE  /\ CheckedHandler(req'[s])
                        /\ req'[s].pc = "mark" /\ row'[req'[s].row].status \in DeliveryStatus =>
                              Fits(row'[req'[s].row], req'[s].config)
      BY DEF HandlersChecked, CheckedHandler, HasRow, Fits, At, ValidateUpdate
    <2>1. CASE s = r
      BY <1>4, <1>5, <1>7, <1>8, <2>1
    <2>2. CASE s # r
      <3>1. req[s].pc = "mark" => req[s].row \in Rows /\ req[s].row # d
        BY <1>10, Owned DEF IInv, At
      <3> QED BY <1>7, <1>8, <2>2, <3>1 DEF IInv, HandlersChecked, At, HasRow
    <2> QED BY <2>1, <2>2
  <1> QED BY <1>11, <1>13, <1>14, <1>15 DEF IInv

\* The owner of a delivery d is done with it: it has written a status (or
\* nothing) and perhaps started the task t.
LEMMA OwnerReturns ==
    ASSUME IInv, NEW r \in Requests, At(r, "skip") \/ At(r, "mark"), Return(r),
           NEW d \in Rows, d = req[r].row,
           UNCHANGED <<config, proc>>, orphans' \in SUBSET Rows, orphans \subseteq orphans',
           row' \in [Rows -> Delivery \cup {NoRow, GoneRow}],
           \A e \in Rows \ {d} : row'[e] = row[e],
           NEW t \in Task, task' = [task EXCEPT ![d] = t],
           t # NoTask => row'[d].status \in {"running", "gone"},
           t # NoTask /\ HasRow(d)' => Fits(row'[d], t.config),
           row'[d].status \in Open => t # NoTask \/ d \in orphans'
    PROVE  IInv'
  <1>1. Idle \in Handler /\ Idle.pc \notin {"insert", "skip", "mark", "update"}
    BY DEF Handler, Idle
  <1>2. /\ req' \in [Requests -> Handler] /\ req'[r] = Idle /\ OwnRow(r)' = {}
        /\ \A s \in Requests \ {r} : req'[s] = req[s] /\ OwnRow(s)' = OwnRow(s)
    BY <1>1, OneHandler DEF IInv, Return
  <1>3. /\ task' \in [Rows -> Task]
        /\ \A e \in Rows : task'[e] = IF e = d THEN t ELSE task[e]
    BY DEF IInv, TypeOK, Task
  <1>4. \A s \in Requests \ {r} : d \notin OwnRow(s)
    BY OwnerAlone
  <1>5. OwnRow(r) = {d}
    BY OwnerAlone
  <1>6. TypeOK'
    BY <1>2, <1>3 DEF IInv, TypeOK, Handler, Task
  <1>7. OneWorkerPerDelivery'
    BY <1>2, <1>3, <1>4 DEF IInv, OpenDeliveriesOwned, OneWorkerPerDelivery
  <1>8. OpenDeliveriesOwned'
    BY <1>2, <1>3, <1>4, <1>5, <1>7 DEF IInv, OpenDeliveriesOwned, HasRow
  <1>9. DeploysItsBranch'
    BY <1>3 DEF IInv, DeploysItsBranch, HasRow, Fits
  <1>10. HandlersChecked'
    <2> SUFFICES ASSUME NEW s \in Requests
                 PROVE  /\ CheckedHandler(req'[s])
                        /\ req'[s].pc = "mark" /\ row'[req'[s].row].status \in DeliveryStatus =>
                              Fits(row'[req'[s].row], req'[s].config)
      BY DEF HandlersChecked, CheckedHandler, HasRow, Fits, At, ValidateUpdate
    <2>1. CASE s = r
      BY <1>1, <1>2, <2>1 DEF CheckedHandler
    <2>2. CASE s # r
      <3>1. req[s].pc = "mark" => req[s].row \in Rows /\ req[s].row # d
        BY <1>4, <2>2, Owned DEF IInv, At
      <3> QED BY <1>2, <2>2, <3>1 DEF IInv, HandlersChecked, At, HasRow
    <2> QED BY <2>1, <2>2
  <1> QED BY <1>6, <1>8, <1>9, <1>10 DEF IInv

LEMMA MarkSkippedStep ==
    ASSUME IInv, NEW r \in Requests, MarkSkipped(r)
    PROVE  IInv'
  <1> DEFINE d == req[r].row
  <1>1. At(r, "skip") /\ d \in Rows /\ row[d].status \in {"pending", "gone"} /\ task[d] = NoTask
    BY OwnerAlone DEF MarkSkipped
  <1>2. /\ row' \in [Rows -> Delivery \cup {NoRow, GoneRow}]
        /\ \A e \in Rows \ {d} : row'[e] = row[e]
        /\ row'[d].status \in {"skipped", "gone"}
    BY <1>1, StatusWritten, Statuses DEF IInv, MarkSkipped, HasRow
  <1>3. task' = [task EXCEPT ![d] = NoTask] /\ NoTask \in Task
    BY <1>1 DEF IInv, TypeOK, MarkSkipped, Task
  <1>4. UNCHANGED <<config, proc, orphans>> /\ Return(r) /\ orphans \in SUBSET Rows
    BY DEF MarkSkipped, IInv, TypeOK
  <1> HIDE DEF d
  <1>5. row'[d].status \notin Open
    BY <1>2 DEF Open
  <1> QED BY <1>1, <1>2, <1>3, <1>4, <1>5, OwnerReturns DEF d

LEMMA MarkRunningStep ==
    ASSUME IInv, NEW r \in Requests, MarkRunning(r)
    PROVE  IInv'
  <1>0. PICK d \in Rows : d = req[r].row
    BY OwnerAlone DEF MarkRunning
  <1> DEFINE t == [pc |-> "connect", config |-> req[r].config, exit_code |-> "zero"]
  <1>1. /\ At(r, "mark") /\ d \in Rows /\ row[d].status \in {"pending", "gone"}
        /\ req[r].config \in Config
    BY <1>0, OwnerAlone DEF MarkRunning, Logged
  <1>2. HasRow(d) => Fits(row[d], req[r].config)
    BY <1>0, <1>1 DEF IInv, HandlersChecked
  <1>3. /\ row' \in [Rows -> Delivery \cup {NoRow, GoneRow}]
        /\ \A e \in Rows \ {d} : row'[e] = row[e]
        /\ row'[d].status \in {"running", "gone"}
        /\ HasRow(d)' => Fits(row'[d], req[r].config)
    BY <1>0, <1>1, <1>2, StatusWritten, Statuses DEF IInv, MarkRunning, HasRow, Fits
  <1>4. t \in Task /\ t # NoTask /\ t.config = req[r].config
    BY <1>1, TaskShape DEF Task, Deployment, ExitCodes
  <1>5. task' = [task EXCEPT ![d] = t]
    BY <1>0 DEF MarkRunning, Spawn
  <1>6. UNCHANGED <<config, proc, orphans>> /\ Return(r) /\ orphans \in SUBSET Rows
    BY DEF MarkRunning, IInv, TypeOK
  <1> HIDE DEF t
  <1> QED BY <1>0, <1>1, <1>3, <1>4, <1>5, <1>6, OwnerReturns

\* The handler is cut off; its delivery, if it had one, is an orphan.
LEMMA HandlerFailsStep ==
    ASSUME IInv, NEW r \in Requests, HandlerFails(r)
    PROVE  IInv'
  <1>1. CASE ~At(r, "skip") /\ ~At(r, "mark")
    <2>1. OwnRow(r) = {} /\ UNCHANGED <<row, task, proc, config>> /\ Return(r) /\ orphans' = orphans
      BY <1>1, Owned DEF IInv, TypeOK, HandlerFails
    <2>2. config' \in [Hooks -> Config \cup {NoConfig, GoneConfig}]
      BY <2>1 DEF IInv, TypeOK
    <2> QED BY <2>1, <2>2, HandlerEnds
  <1>2. CASE At(r, "skip") \/ At(r, "mark")
    <2>1. PICK d \in Rows : d = req[r].row
      BY <1>2, OwnerAlone
    <2>2. OwnRow(r) = {d} /\ task[d] = NoTask
      BY <1>2, <2>1, OwnerAlone
    <2>3. orphans' = orphans \cup {d} /\ orphans' \in SUBSET Rows
      BY <2>2 DEF HandlerFails, IInv, TypeOK
    <2>4. /\ row' \in [Rows -> Delivery \cup {NoRow, GoneRow}]
          /\ \A e \in Rows \ {d} : row'[e] = row[e]
      <3>1. CASE UNCHANGED row
        BY <3>1 DEF IInv, TypeOK
      <3>2. CASE UpdateStatus(d, "running")
        BY <3>2, StatusWritten, Statuses DEF IInv
      <3> QED BY <2>1, <3>1, <3>2 DEF HandlerFails
    <2>5. task' = [task EXCEPT ![d] = NoTask] /\ NoTask \in Task
      BY <2>2 DEF HandlerFails, IInv, TypeOK, Task
    <2>6. UNCHANGED <<config, proc>> /\ Return(r)
      BY DEF HandlerFails
    <2> QED BY <1>2, <2>1, <2>3, <2>4, <2>5, <2>6, OwnerReturns
  <1> QED BY <1>1, <1>2

\* A task ends, with its status recorded or as an orphan.
LEMMA TaskEnds ==
    ASSUME IInv, NEW d \in Rows, Record(d) \/ RecordFails(d)
    PROVE  IInv'
  <1>1. task[d] \in Finishing /\ task[d] # NoTask /\ task[d].status \in Outcomes
    <2>1. task[d] \in Task /\ task[d].pc = "write"
      BY DEF IInv, TypeOK, Task, Record, RecordFails, Doing
    <2> QED BY <2>1, TaskShape DEF Finishing
  <1>2. task[d].status \in DeliveryStatus /\ task[d].status \notin Open
    BY <1>1, Statuses DEF Outcomes, Open
  <1>3. /\ UNCHANGED <<config, req, proc>> /\ task' = [task EXCEPT ![d] = NoTask]
        /\ orphans' \in SUBSET Rows /\ orphans \subseteq orphans'
    BY DEF Record, RecordFails, IInv, TypeOK
  <1>4. /\ row' \in [Rows -> Delivery \cup {NoRow, GoneRow}]
        /\ \A e \in Rows \ {d} : row'[e] = row[e]
        /\ row'[d].status \in Open => d \in orphans'
    <2>1. CASE Record(d)
      BY <1>2, <2>1, StatusWritten, RowShape DEF IInv, Record, Open
    <2>2. CASE RecordFails(d)
      BY <2>2 DEF IInv, TypeOK, RecordFails
    <2> QED BY <2>1, <2>2
  <1>5. /\ task' \in [Rows -> Task]
        /\ \A e \in Rows : task'[e] = IF e = d THEN NoTask ELSE task[e]
        /\ \A r \in Requests : OwnRow(r)' = OwnRow(r) /\ d \notin OwnRow(r)
    BY <1>1, <1>3 DEF IInv, TypeOK, Task, OwnRow, OpenDeliveriesOwned, OneWorkerPerDelivery
  <1>6. TypeOK'
    BY <1>3, <1>4, <1>5 DEF IInv, TypeOK, Task
  <1>7. OneWorkerPerDelivery'
    BY <1>3, <1>4, <1>5, Owned DEF IInv, OpenDeliveriesOwned, OneWorkerPerDelivery
  <1>8. OpenDeliveriesOwned'
    BY <1>3, <1>4, <1>5, <1>7 DEF IInv, OpenDeliveriesOwned, HasRow
  <1>9. DeploysItsBranch'
    BY <1>3, <1>4, <1>5 DEF IInv, DeploysItsBranch, HasRow
  <1>10. HandlersChecked'
    <2>1. \A r \in Requests : At(r, "mark") => req[r].row \in Rows \ {d}
      BY <1>5, Owned DEF IInv
    <2> QED BY <1>3, <1>4, <2>1
            DEF IInv, HandlersChecked, CheckedHandler, HasRow, Fits, At, ValidateUpdate
  <1> QED BY <1>6, <1>8, <1>9, <1>10 DEF IInv

\* A restart makes orphans of all deliveries in work.
LEMMA CrashStep ==
    ASSUME IInv, Crash
    PROVE  IInv'
  <1>1. /\ UNCHANGED <<config, row, proc>>
        /\ req' = [r \in Requests |-> Idle]
        /\ task' = [d \in Rows |-> NoTask]
    BY DEF Crash
  <1>0. orphans' \subseteq Rows
    BY Owned DEF Crash, IInv, TypeOK
  <1>7. \A d \in Rows : \/ task[d] # NoTask \/ d \in orphans
                         \/ \E r \in Requests : d \in OwnRow(r)
                      => d \in orphans'
    BY DEF Crash
  <1>2. \A r \in Requests : OwnRow(r)' = {}
    BY <1>1 DEF OwnRow, Idle
  <1>3. TypeOK'
    BY <1>0, <1>1 DEF IInv, TypeOK
  <1>4. OpenDeliveriesOwned'
    BY <1>1, <1>2, <1>7 DEF IInv, OpenDeliveriesOwned, OneWorkerPerDelivery, HasRow
  <1>5. DeploysItsBranch'
    BY <1>1 DEF DeploysItsBranch
  <1>6. HandlersChecked'
    BY <1>1 DEF HandlersChecked, CheckedHandler, At, Idle
  <1> QED BY <1>3, <1>4, <1>5, <1>6 DEF IInv

\* The deliveries of a deleted configuration need nobody any more.
LEMMA DeleteWriteStep ==
    ASSUME IInv, NEW r \in Requests, DeleteWrite(r)
    PROVE  IInv'
  <1>1. /\ req[r] \in Deleting /\ req[r].webhook \in Hooks /\ OwnRow(r) = {}
        /\ req' = [req EXCEPT ![r] = Idle] /\ UNCHANGED <<task, proc, orphans>>
    BY HandlerShape, Owned DEF IInv, TypeOK, Handler, Deleting, DeleteWrite, Return, At
  <1>2. /\ row' \in [Rows -> Delivery \cup {NoRow, GoneRow}]
        /\ \A d \in Rows : row'[d] \in {row[d], GoneRow}
        /\ GoneRow.status = "gone"
    BY DEF DeleteWrite, DeleteConfig, IInv, TypeOK, GoneRow
  <1>3. config' \in [Hooks -> Config \cup {NoConfig, GoneConfig}]
    BY DEF DeleteWrite, DeleteConfig, IInv, TypeOK
  <1>4. Idle \in Handler /\ Idle.pc \notin {"insert", "skip", "mark", "update"}
    BY DEF Handler, Idle
  <1>5. /\ req' \in [Requests -> Handler] /\ req'[r] = Idle
        /\ \A s \in Requests \ {r} : req'[s] = req[s]
        /\ \A s \in Requests : OwnRow(s)' = OwnRow(s)
    BY <1>1, <1>4, OneHandler DEF IInv
  <1>6. TypeOK'
    BY <1>1, <1>2, <1>3, <1>5 DEF IInv, TypeOK, Handler
  <1>7. OpenDeliveriesOwned'
    BY <1>1, <1>2, <1>5, Owned, Statuses
       DEF IInv, OpenDeliveriesOwned, OneWorkerPerDelivery, HasRow, Open
  <1>8. DeploysItsBranch'
    BY <1>1, <1>2, Statuses DEF IInv, DeploysItsBranch, HasRow
  <1>9. HandlersChecked'
    <2> SUFFICES ASSUME NEW s \in Requests
                 PROVE  /\ CheckedHandler(req'[s])
                        /\ req'[s].pc = "mark" /\ row'[req'[s].row].status \in DeliveryStatus =>
                              Fits(row'[req'[s].row], req'[s].config)
      BY DEF HandlersChecked, CheckedHandler, HasRow, Fits, At, ValidateUpdate
    <2>1. CASE s = r
      BY <1>4, <1>5, <2>1 DEF CheckedHandler
    <2>2. CASE s # r
      <3>1. req[s].pc = "mark" => req[s].row \in Rows
        BY Owned DEF IInv, At
      <3> QED BY <1>2, <1>5, <2>2, <3>1, Statuses DEF IInv, HandlersChecked, At, HasRow
    <2> QED BY <2>1, <2>2
  <1> QED BY <1>6, <1>7, <1>8, <1>9 DEF IInv

-----------------------------------------------------------------------------
(***************************************************************************)
(* The invariant, and the theorems about the specification.                *)
(***************************************************************************)
LEMMA InitIInv == Init => IInv
  <1> SUFFICES ASSUME Init PROVE IInv
    OBVIOUS
  <1>1. TypeOK
    BY DEF Init, TypeOK
  <1>2. OpenDeliveriesOwned
    BY Statuses DEF Init, OpenDeliveriesOwned, OneWorkerPerDelivery, OwnRow, Idle, HasRow, NoRow, Open
  <1>3. DeploysItsBranch
    BY DEF Init, DeploysItsBranch
  <1>4. HandlersChecked
    BY DEF Init, HandlersChecked, CheckedHandler, At, Idle
  <1> QED BY <1>1, <1>2, <1>3, <1>4 DEF IInv

LEMMA StepIInv == IInv /\ [Next]_vars => IInv'
  <1> SUFFICES ASSUME IInv, [Next]_vars PROVE IInv'
    OBVIOUS
  <1>1. CASE Create
    BY <1>1, CreateStep DEF Create
  <1>2. CASE \E r \in Requests : Administer(r) \/ Incoming(r) \/ HandlerFails(r)
    <2>1. PICK r \in Requests : Administer(r) \/ Incoming(r) \/ HandlerFails(r)
      BY <1>2
    <2>2. CASE Administer(r)
      <3>1. CASE \E a \in Actors, w \in Hooks, p \in Patches : UpdateCheck(r, a, w, p)
        BY <3>1, UpdateCheckStep
      <3>2. CASE \E a \in Actors, w \in Hooks : DeleteCheck(r, a, w)
        BY <3>2, DeleteCheckStep
      <3> QED BY <2>2, <3>1, <3>2, UpdateWriteStep, DeleteWriteStep DEF Administer
    <2>3. CASE Incoming(r)
      BY <2>3, ReceiveStep, InsertRowStep, InsertRefusedStep, MarkSkippedStep, MarkRunningStep
         DEF Incoming, Proceed
    <2> QED BY <2>1, <2>2, <2>3, HandlerFailsStep
  <1>3. CASE \E d \in Rows : Deploy(d) \/ ProcessExits(d) \/ RecordFails(d)
    <2>1. PICK d \in Rows : Deploy(d) \/ ProcessExits(d) \/ RecordFails(d)
      BY <1>3
    <2>2. CASE Deploy(d)
      BY <2>2, DeployStep, TaskEnds DEF Deploy
    <2>3. CASE ProcessExits(d) \/ RecordFails(d)
      BY <2>3, ProcessExitsStep, TaskEnds
    <2> QED BY <2>1, <2>2, <2>3
  <1>4. CASE Crash
    BY <1>4, CrashStep
  <1>5. CASE UNCHANGED vars
    <2>1. /\ config' \in [Hooks -> Config \cup {NoConfig, GoneConfig}]
          /\ proc' \in [Rows -> {"idle", "running"} \cup ExitCodes]
      BY <1>5 DEF IInv, TypeOK, vars
    <2> QED BY <1>5, <2>1, OthersMove DEF vars
  <1> QED BY <1>1, <1>2, <1>3, <1>4, <1>5 DEF Next

\* Handlers, tasks, rows and what they know of each other always agree
\* (webhook_service.rs).
THEOREM InductiveInvariant == Spec => []IInv
  BY InitIInv, StepIInv, PTL DEF Spec

\* Configurations, deliveries, handlers' locals and tasks are always well
\* formed, with any request bodies validated by webhook_service.rs.
THEOREM TypeCorrect == Spec => []TypeOK
  BY InductiveInvariant, PTL DEF IInv

\* Every open delivery has exactly one worker, unless a failure cut it off.
THEOREM OpenOwned == Spec => []OpenDeliveriesOwned
  BY InductiveInvariant, PTL DEF IInv

\* Only pushes to the branch configured when they were verified are deployed.
THEOREM RightBranch == Spec => []DeploysItsBranch
  BY InductiveInvariant, PTL DEF IInv

-----------------------------------------------------------------------------
(***************************************************************************)
(* The refinement: the statuses of the rows move as DeliveryLog has them.  *)
(***************************************************************************)
Status == [d \in Rows |-> row[d].status]

\* A write of a status is a move of that delivery, or nothing.
LEMMA WriteMoves ==
    ASSUME TypeOK, NEW d \in Rows, NEW s \in DeliveryStatus, UpdateStatus(d, s),
           NEW from, row[d].status \in {from, "gone"}
    PROVE  Log!Move(d, from, s) \/ Status' = Status
  <1>1. CASE HasRow(d)
    <2>1. row[d].status = from
      BY <1>1, Statuses DEF HasRow
    <2>2. \A e \in Rows : Status'[e] = IF e = d THEN s ELSE Status[e]
      BY <1>1, StatusWritten DEF Status
    <2>3. Status' = [Status EXCEPT ![d] = s]
      BY <2>2 DEF Status
    <2> QED BY <2>1, <2>3 DEF Log!Move, Status
  <1>2. CASE ~HasRow(d)
    <2>1. row' = row
      BY <1>2 DEF UpdateStatus
    <2> QED BY <2>1 DEF Status
  <1> QED BY <1>1, <1>2

LEMMA HandlerRefines ==
    ASSUME IInv, NEW r \in Requests,
           Administer(r) \/ Incoming(r) \/ HandlerFails(r)
    PROVE  Log!Next \/ Status' = Status
  <1>1. CASE UNCHANGED row
    BY <1>1 DEF Status
  <1>2. CASE MarkSkipped(r)
    <2>1. PICK d \in Rows : d = req[r].row
      BY <1>2, OwnerAlone DEF MarkSkipped
    <2>2. UpdateStatus(d, "skipped") /\ row[d].status \in {"pending", "gone"}
      BY <1>2, <2>1, OwnerAlone DEF MarkSkipped
    <2>3. Log!Move(d, "pending", "skipped") \/ Status' = Status
      BY <2>2, WriteMoves, Statuses DEF IInv
    <2> QED BY <2>3 DEF Log!Next, Log!Skip
  <1>3. CASE At(r, "mark") /\ UpdateStatus(req[r].row, "running")
    <2>1. PICK d \in Rows : d = req[r].row
      BY <1>3, OwnerAlone
    <2>2. UpdateStatus(d, "running") /\ row[d].status \in {"pending", "gone"}
      BY <1>3, <2>1, OwnerAlone
    <2>3. Log!Move(d, "pending", "running") \/ Status' = Status
      BY <2>2, WriteMoves, Statuses DEF IInv
    <2> QED BY <2>3 DEF Log!Next, Log!Start
  <1>4. CASE \E d \in Rows : InsertRow(r, d)
    <2>1. PICK d \in Rows :
              row[d] = NoRow /\ Status' = [Status EXCEPT ![d] = "pending"]
      <3>1. PICK d \in Rows : InsertRow(r, d)
        BY <1>4
      <3> DEFINE n == [webhook |-> req[r].webhook, event |-> req[r].event,
                       branch |-> ParseBranch(req[r].event), status |-> "pending"]
      <3>2. row[d] = NoRow /\ row' = [row EXCEPT ![d] = n] /\ n.status = "pending"
        BY <3>1 DEF InsertRow, InsertDelivery
      <3> HIDE DEF n
      <3>3. \A e \in Rows : Status'[e] = IF e = d THEN "pending" ELSE Status[e]
        BY <3>2 DEF Status, IInv, TypeOK
      <3>4. Status' = [Status EXCEPT ![d] = "pending"]
        BY <3>3 DEF Status
      <3> QED BY <3>2, <3>4
    <2>2. Log!Receive(d)
      BY <2>1 DEF Log!Receive, Log!Move, Status, NoRow
    <2> QED BY <2>2 DEF Log!Next
  <1>5. CASE DeleteWrite(r)
    <2>0. PICK D \in SUBSET Rows : D = ListDeliveries(req[r].webhook)
      BY DEF ListDeliveries
    <2>1. \A d \in D : row[d].status # "none"
      BY <2>0, Statuses DEF ListDeliveries, HasRow
    <2>2. row' = [d \in Rows |-> IF d \in D THEN GoneRow ELSE row[d]]
      BY <1>5, <2>0 DEF DeleteWrite, DeleteConfig
    <2>3. Status' = [d \in Rows |-> IF d \in D /\ Status[d] # "none" THEN "gone" ELSE Status[d]]
      BY <2>1, <2>2 DEF Status, GoneRow
    <2>4. Log!Purge(D)
      BY <2>3 DEF Log!Purge, Status
    <2> QED BY <2>4 DEF Log!Next
  <1>6. \/ UNCHANGED row \/ MarkSkipped(r) \/ DeleteWrite(r)
        \/ At(r, "mark") /\ UpdateStatus(req[r].row, "running")
        \/ \E d \in Rows : InsertRow(r, d)
    BY DEF Administer, Incoming, Proceed, HandlerFails, UpdateCheck, UpdateWrite,
           DeleteCheck, Receive, InsertRefused, MarkRunning
  <1> QED BY <1>1, <1>2, <1>3, <1>4, <1>5, <1>6

LEMMA StepRefines == IInv /\ [Next]_vars => [Log!Next]_Status
  <1> SUFFICES ASSUME IInv, [Next]_vars PROVE Log!Next \/ Status' = Status
    OBVIOUS
  <1>1. CASE UNCHANGED row
    BY <1>1 DEF Status
  <1>2. CASE \E r \in Requests : Administer(r) \/ Incoming(r) \/ HandlerFails(r)
    BY <1>2, HandlerRefines
  <1>3. CASE \E d \in Rows : Record(d)
    <2>1. PICK d \in Rows : Record(d)
      BY <1>3
    <2>2. task[d] \in Task /\ task[d].pc = "write"
      BY <2>1 DEF IInv, TypeOK, Task, Record, Doing
    <2>3. PICK s \in {"succeeded", "failed"} : UpdateStatus(d, s)
      BY <2>1, <2>2, TaskShape DEF Record, Finishing, Outcomes
    <2>4. row[d].status \in {"running", "gone"}
      BY <2>2, TaskShape DEF IInv, OpenDeliveriesOwned, OneWorkerPerDelivery, NoTask
    <2>5. Log!Move(d, "running", s) \/ Status' = Status
      BY <2>3, <2>4, WriteMoves, Statuses DEF IInv
    <2> QED BY <2>5 DEF Log!Next, Log!Finish
  <1>4. \/ UNCHANGED row
        \/ \E r \in Requests : Administer(r) \/ Incoming(r) \/ HandlerFails(r)
        \/ \E d \in Rows : Record(d)
    BY DEF Next, vars, Create, CreateConfig, Deploy, ConnectFails, Exec, ExitStatus,
           ChannelEnds, ProcessExits, RecordFails, Crash
  <1> QED BY <1>1, <1>2, <1>3, <1>4

\* Whatever interleaves and fails, the table of deliveries is the log that its
\* readers expect: statuses only move forward and an end is reported once.
THEOREM ImplementsLog == Spec => LogKept
  <1>1. Init => Log!Init
    BY DEF Init, Log!Init, NoRow
  <1>2. IInv /\ [Next]_vars => [Log!Next]_[d \in Rows |-> row[d].status]
    BY StepRefines DEF Status
  <1> QED BY <1>1, <1>2, InductiveInvariant, PTL DEF Spec, LogKept, Log!Spec
=============================================================================
