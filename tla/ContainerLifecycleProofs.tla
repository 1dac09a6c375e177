---------------------- MODULE ContainerLifecycleProofs ----------------------
(***************************************************************************)
(* Proofs about ContainerLifecycle, for any number of concurrent requests  *)
(* and containers: records are kept of complete containers only, no two    *)
(* creations work on one container, the synchronisation leaves             *)
(* provisioning containers alone, and ContainerRecord is implemented.      *)
(***************************************************************************)
EXTENDS ContainerLifecycle, TLAPS

\* What a step of request r does to the handlers, when r ends up as k.
Becomes(r, k) == k \in Handler /\ req' = [req EXCEPT ![r] = k]

\* The other handlers stay as they are.
LEMMA Others ==
    ASSUME TypeOK, NEW r \in Requests, NEW k, Becomes(r, k)
    PROVE  /\ req' \in [Requests -> Handler]
           /\ \A q \in Requests : req'[q] = IF q = r THEN k ELSE req[q]
  BY DEF TypeOK, Becomes

\* A handler that is not in flight is well formed, and no request is None.
LEMMA IdleTyped == Idle \in Handler /\ \A t \in Task : t.by \in Requests => t.by # None
  BY CLAssumption DEF Idle, Handler, Steps, Building, AllOps, Task

-----------------------------------------------------------------------------
(***************************************************************************)
(* Steps that give up: the handler is gone, its tasks belong to nobody.    *)
(* A configuration the node has applied by then stays.                     *)
(***************************************************************************)

\* A handler that gives up preserves the invariant.
LEMMA ReturnPreserves ==
    ASSUME IInv, NEW r \in Requests, Return(r),
           UNCHANGED <<rows, run, sync>>,
           mishaps' = mishaps \/ (mishaps < MaxMishaps /\ mishaps' = mishaps + 1),
           \/ UNCHANGED made
           \/ At(r, "create_config") /\ made' = [made EXCEPT ![req[r].ct] = "configured"]
    PROVE  IInv'
  <1> USE CLAssumption
  <1>1. /\ req' \in [Requests -> Handler]
        /\ \A q \in Requests : req'[q] = IF q = r THEN Idle ELSE req[q]
    BY IdleTyped, Others DEF IInv, Return, Becomes
  <1>2. tasks' \subseteq Task /\ \A t \in tasks' :
            \/ t \in tasks /\ t.by # r
            \/ t.by = None /\ \E u \in tasks : u.by = r /\ u.kind = t.kind /\ u.ct = t.ct
                                               /\ t = [u EXCEPT !.by = None]
    BY DEF Return, Disowned, IInv, TypeOK, Task
  <1>3. \A u \in tasks : u.by # r => u \in tasks'
    BY DEF Return, Disowned
  <1>4. At(r, "create_config") => Holds(r) /\ made[req[r].ct] = "cloned"
    BY DEF IInv, StageReached, Holds, Building, At
  <1>5. /\ made' \in [Cts -> Stages]
        /\ \A c \in Cts :
              \/ made'[c] = made[c]
              \/ made[c] = "cloned" /\ made'[c] = "configured" /\ c = req[r].ct /\ Holds(r)
    BY <1>4 DEF IInv, TypeOK, Stages
  <1>6. TypeOK'
    BY <1>1, <1>2, <1>5 DEF IInv, TypeOK
  <1>7. RowsReady'
    BY <1>5 DEF IInv, RowsReady, Recorded
  <1>8. HandlerKnows'
    BY <1>1 DEF IInv, HandlerKnows, At, Idle
  <1>9. TaskKnown'
    BY <1>1, <1>2 DEF IInv, TypeOK, Task, TaskKnown, At
  <1>10. OneClone'
    BY <1>2, <1>5 DEF IInv, TypeOK, Task, OneClone
  <1>11. OneHolder'
    BY <1>1, <1>2 DEF IInv, OneHolder, Holds, Building, At, Idle
  <1>12. StageReached'
    BY <1>1, <1>3, <1>5 DEF IInv, StageReached, OneHolder, Holds, Building, HandlerKnows, At, Idle
  <1>13. SnapshotSound'
    BY DEF IInv, SnapshotSound
  <1> QED BY <1>6, <1>7, <1>8, <1>9, <1>10, <1>11, <1>12, <1>13 DEF IInv
-----------------------------------------------------------------------------
(***************************************************************************)
(* Steps that move a handler and start no task.                            *)
(***************************************************************************)

\* Handler h, of request r, may go on as k.
MayBecome(r, h, k) ==
    /\ k.pc # "idle" /\ k.ct \in Cts
    /\ k.pc \in {"create_start", "post", "poll", "write"} => rows[k.ct] # "absent"
    /\ k.pc = "write" => k.verdict # "none"
    /\ \/ \A t \in tasks : t.by # r
       \/ h.pc = "poll" /\ k.pc = "write" /\ k.ct = h.ct /\ k.task = h.task
    /\ k.pc \in Building \cup {"create_clone_wait"} =>
          /\ k.ct = h.ct
          /\ \/ h.pc = "create_clone_wait" /\ h.task = "ok" /\ k.pc = "create_config"
             \/ h.pc = "create_resize_wait" /\ h.task = "ok" /\ k.pc = "create_insert"

\* A handler that moves on so preserves the invariant.
LEMMA MovePreserves ==
    ASSUME IInv, NEW r \in Requests, NEW k, Becomes(r, k),
           MayBecome(r, req[r], k),
           UNCHANGED <<rows, node, tasks, sync, mishaps>>
    PROVE  IInv'
  <1>1. /\ req' \in [Requests -> Handler]
        /\ \A q \in Requests : req'[q] = IF q = r THEN k ELSE req[q]
    BY Others DEF IInv
  <1>2. UNCHANGED <<rows, made, run, tasks, sync, mishaps>>
    BY DEF node
  <1>3. TypeOK'
    BY <1>1, <1>2 DEF IInv, TypeOK
  <1>4. RowsReady' /\ OneClone' /\ SnapshotSound'
    BY <1>2 DEF IInv, RowsReady, Recorded, OneClone, SnapshotSound
  <1>5. HandlerKnows'
    BY <1>1, <1>2 DEF IInv, HandlerKnows, MayBecome, At
  <1>6. TaskKnown'
    BY <1>1, <1>2 DEF IInv, TypeOK, Task, TaskKnown, MayBecome, At
  <1>7. StageReached'
    BY <1>1, <1>2 DEF IInv, StageReached, MayBecome, Building, At
  <1>8. OneHolder'
    BY <1>1, <1>2 DEF IInv, OneHolder, Holds, MayBecome, Building, At
  <1> QED BY <1>3, <1>4, <1>5, <1>6, <1>7, <1>8 DEF IInv

\* A handler that waits for nothing any more has no task left.
LEMMA NoTask ==
    ASSUME IInv, NEW r \in Requests,
           \/ req[r].pc \notin {"create_clone_wait", "create_resize_wait", "poll", "write"}
           \/ req[r].task # "running"
    PROVE  \A t \in tasks : t.by # r
  BY CLAssumption DEF IInv, TaskKnown, At

\* wait_for_task, after the clone and after the resize.
LEMMA AwaitedPreserves ==
    ASSUME IInv, NEW r \in Requests, NEW step,
           \/ At(r, "create_clone_wait") /\ step = "create_config"
           \/ At(r, "create_resize_wait") /\ step = "create_insert",
           Awaited(r, step), UNCHANGED <<rows, node, sync, mishaps>>
    PROVE  IInv'
  <1>1. CASE Return(r)
    BY <1>1, ReturnPreserves DEF node
  <1>2. CASE req[r].task = "ok" /\ Goto(r, step)
    <2> DEFINE k == [req[r] EXCEPT !.pc = step]
    <2>1. Becomes(r, k)
      BY <1>2 DEF Goto, Becomes, IInv, TypeOK, Handler, Steps, Building
    <2>2. MayBecome(r, req[r], k)
      BY <1>2, NoTask DEF MayBecome, IInv, TypeOK, Handler, HandlerKnows, At, Building
    <2> QED BY <1>2, <2>1, <2>2, MovePreserves DEF Goto
  <1> QED BY <1>1, <1>2 DEF Awaited

\* start, stop and restart begin for a recorded container.
LEMMA ActBeginPreserves ==
    ASSUME IInv, NEW r \in Requests, ActBegin(r)
    PROVE  IInv'
  <1>1. PICK op \in Ops \ {"create"}, c \in Recorded :
           req' = [req EXCEPT ![r] = [Idle EXCEPT !.pc = "post", !.op = op, !.ct = c]]
    BY DEF ActBegin
  <1> DEFINE k == [Idle EXCEPT !.pc = "post", !.op = op, !.ct = c]
  <1>2. Becomes(r, k)
    BY <1>1, CLAssumption DEF Becomes, Idle, Handler, Steps, Building, Recorded
  <1>3. MayBecome(r, req[r], k)
    BY NoTask DEF MayBecome, ActBegin, At, Idle, Recorded, Building
  <1> QED BY <1>2, <1>3, MovePreserves DEF ActBegin

\* poll_for_state ends with a state the handler may write.
LEMMA PollPreserves ==
    ASSUME IInv, NEW r \in Requests, Poll(r)
    PROVE  IInv'
  <1>1. PICK v \in {Target(req[r].op), "failed"} :
           req' = [req EXCEPT ![r].pc = "write", ![r].verdict = v]
    BY DEF Poll
  <1> DEFINE k == [req[r] EXCEPT !.pc = "write", !.verdict = v]
  <1>2. v \in {"running", "stopped", "failed"}
    BY DEF Target
  <1>3. Becomes(r, k)
    BY <1>1, <1>2 DEF Becomes, IInv, TypeOK, Handler, Steps, Building
  <1>4. MayBecome(r, req[r], k)
    BY <1>2 DEF MayBecome, Poll, At, IInv, TypeOK, Handler, HandlerKnows, Building
  <1> QED BY <1>3, <1>4, MovePreserves DEF Poll

\* create begins with an id that is free on the node.
LEMMA CreateBeginPreserves ==
    ASSUME IInv, NEW r \in Requests, CreateBegin(r)
    PROVE  IInv'
  <1>1. PICK c \in Cts :
           req' = [req EXCEPT ![r] = [Idle EXCEPT !.pc = "create_unlock",
                                                  !.op = "create", !.ct = c]]
    BY DEF CreateBegin
  <1> DEFINE k == [Idle EXCEPT !.pc = "create_unlock", !.op = "create", !.ct = c]
  <1>2. Becomes(r, k)
    BY <1>1 DEF Becomes, Idle, Handler, Steps, Building, AllOps
  <1>3. MayBecome(r, req[r], k)
    BY NoTask DEF MayBecome, CreateBegin, At, Idle, Building
  <1> QED BY <1>2, <1>3, MovePreserves DEF CreateBegin

\* The wait for the template ends, or times out.
LEMMA CreateUnlockPreserves ==
    ASSUME IInv, NEW r \in Requests, CreateUnlock(r)
    PROVE  IInv'
  <1>1. CASE Return(r)
    BY <1>1, ReturnPreserves DEF CreateUnlock, node
  <1>2. CASE Goto(r, "create_clone")
    <2> DEFINE k == [req[r] EXCEPT !.pc = "create_clone"]
    <2>1. Becomes(r, k)
      BY <1>2 DEF Goto, Becomes, IInv, TypeOK, Handler, Steps, Building
    <2>2. MayBecome(r, req[r], k)
      BY NoTask DEF MayBecome, CreateUnlock, IInv, TypeOK, Handler, HandlerKnows, At, Building
    <2> QED BY <1>2, <2>1, <2>2, MovePreserves DEF Goto, CreateUnlock
  <1> QED BY <1>1, <1>2 DEF CreateUnlock

-----------------------------------------------------------------------------
(***************************************************************************)
(* Steps that start a task.                                                *)
(***************************************************************************)

\* Which tasks are started from where, and what a clone does to its target.
Submits(r, kind, step) ==
    \/ /\ At(r, "create_clone") /\ kind = "clone" /\ step = "create_clone_wait"
       /\ made[req[r].ct] = "none" /\ ~TemplateLocked
       /\ made' = [made EXCEPT ![req[r].ct] = "cloning"]
    \/ /\ At(r, "create_resize") /\ kind = "resize" /\ step = "create_resize_wait"
       /\ UNCHANGED made
    \/ /\ At(r, "create_start") \/ At(r, "post")
       /\ kind \in {"start", "stop", "reboot"} /\ step = "poll"
       /\ UNCHANGED made

\* A new task preserves the invariant, owned by its handler or by nobody.
LEMMA SubmitPreserves ==
    ASSUME IInv, NEW r \in Requests, NEW kind, NEW step, Submits(r, kind, step),
           NEW k, Becomes(r, k), NEW new, new \in Task,
           new.kind = kind, new.ct = req[r].ct,
           \/ /\ k.pc = step /\ k.ct = req[r].ct /\ k.task = "running"
              /\ new.by = r /\ tasks' = tasks \cup {new}
           \/ /\ k = Idle \/ (At(r, "create_start") /\ k.pc = "write" /\ k.ct = req[r].ct
                                                    /\ k.verdict = "failed")
              /\ new.by = None /\ tasks' = tasks \cup {new},
           UNCHANGED <<rows, run, sync, mishaps>>
    PROVE  IInv'
  <1> USE CLAssumption
  <1>1. /\ req' \in [Requests -> Handler]
        /\ \A q \in Requests : req'[q] = IF q = r THEN k ELSE req[q]
    BY Others DEF IInv
  <1>2. req[r].ct \in Cts /\ \A t \in tasks : t.by # r
    BY NoTask DEF Submits, At, IInv, HandlerKnows
  <1>3. /\ made' \in [Cts -> Stages]
        /\ \A c \in Cts : \/ made'[c] = made[c]
                          \/ /\ kind = "clone" /\ c = req[r].ct
                             /\ made[c] = "none" /\ made'[c] = "cloning"
    BY <1>2 DEF Submits, IInv, TypeOK, Stages
  <1>4. TypeOK'
    BY <1>1, <1>3 DEF IInv, TypeOK
  <1>5. RowsReady'
    BY <1>3 DEF IInv, RowsReady, Recorded
  <1>6. HandlerKnows'
    BY <1>1, <1>2 DEF IInv, HandlerKnows, Submits, At, Idle
  <1>7. TaskKnown'
    BY <1>1, <1>2 DEF IInv, TypeOK, Task, TaskKnown, Submits, At
  <1>8. OneClone'
    BY <1>2, <1>3 DEF IInv, TypeOK, Task, OneClone, Submits, TemplateLocked, StageReached, At
  <1>9. StageReached'
    BY <1>1, <1>2, <1>3 DEF IInv, StageReached, Submits, HandlerKnows, At, Idle
  <1>10. OneHolder'
    BY <1>1 DEF IInv, OneHolder, Holds, Submits, Building, At, Idle
  <1>11. SnapshotSound'
    BY DEF IInv, SnapshotSound
  <1> QED BY <1>4, <1>5, <1>6, <1>7, <1>8, <1>9, <1>10, <1>11 DEF IInv

\* The two outcomes of a POST the node accepts.
LEMMA AcceptedPreserves ==
    ASSUME IInv, NEW r \in Requests, NEW kind, NEW step, Submits(r, kind, step),
           Accepted(r, kind, step), UNCHANGED <<rows, run, sync, mishaps>>
    PROVE  IInv'
  <1>1. /\ kind \in {"clone", "resize", "start", "stop", "reboot"}
        /\ step \in {"create_clone_wait", "create_resize_wait", "poll"}
        /\ req[r].ct \in Cts
        /\ \A t \in tasks : t.by # r
    BY NoTask DEF Submits, At, IInv, HandlerKnows
  <1>2. CASE /\ tasks' = tasks \cup NewTask(r, kind, r)
             /\ req' = [req EXCEPT ![r].pc = step, ![r].task = "running"]
    <2> DEFINE k == [req[r] EXCEPT !.pc = step, !.task = "running"]
               new == [kind |-> kind, ct |-> req[r].ct, by |-> r]
    <2>1. Becomes(r, k)
      BY <1>1, <1>2 DEF Becomes, IInv, TypeOK, Handler, Steps, Building
    <2>2. new \in Task /\ tasks' = tasks \cup {new}
      BY <1>1, <1>2 DEF Task, NewTask
    <2>3. k.pc = step /\ k.ct = req[r].ct /\ k.task = "running"
      BY DEF IInv, TypeOK, Handler
    <2> HIDE DEF k
    <2> QED BY <2>1, <2>2, <2>3, SubmitPreserves
  <1>3. CASE /\ req' = [req EXCEPT ![r] = Idle]
             /\ tasks' = Disowned({r}) \cup NewTask(r, kind, None)
    <2> DEFINE new == [kind |-> kind, ct |-> req[r].ct, by |-> None]
    <2>1. Becomes(r, Idle)
      BY <1>3, IdleTyped DEF Becomes
    <2>2. Disowned({r}) = tasks
      BY <1>1 DEF Disowned
    <2>3. new \in Task /\ tasks' = tasks \cup {new}
      BY <1>1, <1>3, <2>2 DEF Task, NewTask
    <2> QED BY <2>1, <2>3, SubmitPreserves
  <1> QED BY <1>2, <1>3 DEF Accepted

\* The start at the end of a creation, which goes on if it fails.
LEMMA CreateStartPreserves ==
    ASSUME IInv, NEW r \in Requests, CreateStart(r)
    PROVE  IInv'
  <1>1. At(r, "create_start") /\ Submits(r, "start", "poll")
    BY DEF CreateStart, Submits, node
  <1>2. CASE /\ tasks' = tasks \cup NewTask(r, "start", r)
             /\ req' = [req EXCEPT ![r].pc = "poll", ![r].task = "running"]
    BY <1>1, <1>2, AcceptedPreserves DEF Accepted, CreateStart, node
  <1>3. CASE /\ tasks' \in {tasks, tasks \cup NewTask(r, "start", None)}
             /\ req' = [req EXCEPT ![r].pc = "write", ![r].verdict = "failed"]
    <2> DEFINE k == [req[r] EXCEPT !.pc = "write", !.verdict = "failed"]
               new == [kind |-> "start", ct |-> req[r].ct, by |-> None]
    <2>1. Becomes(r, k)
      BY <1>3 DEF Becomes, IInv, TypeOK, Handler, Steps, Building
    <2>2. /\ k.pc = "write" /\ k.ct = req[r].ct /\ k.verdict = "failed"
          /\ req[r].ct \in Cts /\ rows[req[r].ct] # "absent"
      BY <1>1 DEF IInv, TypeOK, Handler, HandlerKnows, At
    <2>3. new \in Task /\ NewTask(r, "start", None) = {new}
      BY <2>2 DEF Task, NewTask
    <2>4. CASE tasks' = tasks
      <3>1. MayBecome(r, req[r], k)
        BY <1>1, <2>2, NoTask DEF MayBecome, Building, At
      <3> QED BY <2>1, <2>4, <3>1, MovePreserves DEF CreateStart
    <2>5. CASE tasks' = tasks \cup {new}
      <3> HIDE DEF k
      <3> QED BY <1>1, <2>1, <2>2, <2>3, <2>5, SubmitPreserves DEF CreateStart, node
    <2> QED BY <1>3, <2>3, <2>4, <2>5
  <1> QED BY <1>2, <1>3 DEF CreateStart

\* The clone is accepted for a free id only.
LEMMA CreateClonePreserves ==
    ASSUME IInv, NEW r \in Requests, CreateClone(r)
    PROVE  IInv'
  BY AcceptedPreserves, ReturnPreserves DEF CreateClone, Submits

\* The POST of start, stop and restart.
LEMMA ActPostPreserves ==
    ASSUME IInv, NEW r \in Requests, ActPost(r)
    PROVE  IInv'
  BY AcceptedPreserves, ReturnPreserves DEF ActPost, Submits, TaskOf, node

-----------------------------------------------------------------------------
(***************************************************************************)
(* Steps of a creation that build the container or record it.              *)
(***************************************************************************)

\* The container of a creation comes from stage h to stage k, or is recorded.
LEMMA BuildPreserves ==
    ASSUME IInv, NEW r \in Requests, NEW k, Becomes(r, k), k.ct = req[r].ct,
           UNCHANGED <<run, tasks, sync, mishaps>>,
           \/ /\ At(r, "create_config") /\ k.pc = "create_resize"
              /\ made' = [made EXCEPT ![req[r].ct] = "configured"] /\ UNCHANGED rows
           \/ /\ At(r, "create_resize") /\ k.pc = "create_insert"
              /\ made' = [made EXCEPT ![req[r].ct] = "ready"] /\ UNCHANGED rows
           \/ /\ At(r, "create_insert") /\ k.pc = "create_start"
              /\ rows' = [rows EXCEPT ![req[r].ct] = "provisioning"]
              /\ rows[req[r].ct] = "absent" /\ UNCHANGED made
    PROVE  IInv'
  <1>1. /\ req' \in [Requests -> Handler]
        /\ \A q \in Requests : req'[q] = IF q = r THEN k ELSE req[q]
    BY Others DEF IInv
  <1>2. req[r].ct \in Cts /\ Holds(r) /\ \A t \in tasks : t.by # r
    BY NoTask DEF At, IInv, HandlerKnows, Holds, Building
  <1>3. /\ At(r, "create_config") => made[req[r].ct] = "cloned"
        /\ At(r, "create_resize") => made[req[r].ct] = "configured"
        /\ At(r, "create_insert") => made[req[r].ct] = "ready"
    BY DEF IInv, StageReached
  <1>4. /\ made' \in [Cts -> Stages]
        /\ \A c \in Cts : \/ made'[c] = made[c]
                          \/ /\ c = req[r].ct /\ made[c] \in {"cloned", "configured"}
                             /\ made'[c] \in {"configured", "ready"}
                             /\ made[c] = "configured" => made'[c] = "ready"
    BY <1>2, <1>3 DEF At, IInv, TypeOK, Stages
  <1>5. rows' \in [Cts -> RowStates]
    BY DEF IInv, TypeOK, RowStates
  <1>6. TypeOK'
    BY <1>1, <1>4, <1>5 DEF IInv, TypeOK
  <1>7. RowsReady'
    BY <1>2, <1>3, <1>4 DEF At, IInv, TypeOK, RowsReady, Recorded
  <1>8. HandlerKnows'
    BY <1>1, <1>2 DEF At, IInv, TypeOK, HandlerKnows
  <1>9. TaskKnown'
    BY <1>1, <1>2 DEF At, IInv, TypeOK, Task, TaskKnown
  <1>10. OneClone'
    BY <1>4 DEF IInv, TypeOK, Task, OneClone
  <1>11. StageReached'
    BY <1>1, <1>2, <1>3, <1>4 DEF At, IInv, TypeOK, StageReached, OneHolder, Holds, Building, HandlerKnows
  <1>12. OneHolder'
    BY <1>1, <1>2 DEF At, IInv, OneHolder, Holds, Building
  <1>13. SnapshotSound'
    BY DEF IInv, TypeOK, SnapshotSound
  <1> QED BY <1>6, <1>7, <1>8, <1>9, <1>10, <1>11, <1>12, <1>13 DEF IInv

\* Configuration, resize and INSERT.
LEMMA BuildStepsPreserve ==
    ASSUME IInv, NEW r \in Requests,
           CreateConfig(r) \/ CreateResize(r) \/ CreateInsert(r)
    PROVE  IInv'
  <1>1. ASSUME NEW step \in {"create_resize", "create_insert", "create_start"}, Goto(r, step)
        PROVE  \E k : Becomes(r, k) /\ k.pc = step /\ k.ct = req[r].ct
    <2> DEFINE k == [req[r] EXCEPT !.pc = step]
    <2>1. Becomes(r, k) /\ k.pc = step /\ k.ct = req[r].ct
      BY <1>1 DEF Goto, Becomes, IInv, TypeOK, Handler, Steps, Building
    <2> QED BY <2>1
  <1>2. CASE CreateConfig(r)
    BY <1>1, <1>2, BuildPreserves, ReturnPreserves DEF CreateConfig, Goto
  <1>3. CASE CreateResize(r)
    BY <1>1, <1>3, BuildPreserves, ReturnPreserves, AcceptedPreserves
       DEF CreateResize, Goto, Submits
  <1>4. CASE CreateInsert(r)
    BY <1>1, <1>4, BuildPreserves, ReturnPreserves DEF CreateInsert, Goto, node
  <1> QED BY <1>2, <1>3, <1>4

\* update_state by a handler.
LEMMA WritePreserves ==
    ASSUME IInv, NEW r \in Requests, Write(r)
    PROVE  IInv'
  <1> USE CLAssumption
  <1>1. /\ req' \in [Requests -> Handler]
        /\ \A q \in Requests : req'[q] = IF q = r THEN Idle ELSE req[q]
    BY IdleTyped, Others DEF IInv, Write, Return, Becomes
  <1>2. /\ tasks' \subseteq Task
        /\ \A t \in tasks' : \/ t \in tasks /\ t.by # r
                             \/ /\ t.by = None /\ t.kind \notin {"clone", "resize"}
        /\ \A u \in tasks : u.by # r => u \in tasks'
    BY DEF Write, Return, Disowned, IInv, TypeOK, Task, TaskKnown, At
  <1>3. /\ req[r].ct \in Cts /\ rows[req[r].ct] # "absent"
        /\ req[r].verdict \in {"running", "stopped", "failed"}
        /\ rows' = [rows EXCEPT ![req[r].ct] = req[r].verdict]
        /\ UNCHANGED <<made, run, sync, mishaps>>
    BY DEF Write, IInv, TypeOK, Handler, HandlerKnows, At, node
  <1>4. /\ rows' \in [Cts -> RowStates]
        /\ \A c \in Cts : \/ rows'[c] = rows[c]
                          \/ rows[c] # "absent" /\ rows'[c] \notin {"absent", "provisioning"}
    BY <1>3 DEF IInv, TypeOK, RowStates
  <1>5. TypeOK'
    BY <1>1, <1>2, <1>3, <1>4 DEF IInv, TypeOK
  <1>6. RowsReady'
    BY <1>3, <1>4 DEF IInv, RowsReady, Recorded
  <1>7. HandlerKnows'
    BY <1>1, <1>4 DEF IInv, HandlerKnows, At, Idle
  <1>8. TaskKnown'
    BY <1>1, <1>2 DEF IInv, TypeOK, Task, TaskKnown, At
  <1>9. OneClone'
    BY <1>2, <1>3 DEF IInv, TypeOK, Task, OneClone
  <1>10. StageReached'
    BY <1>1, <1>2, <1>3 DEF IInv, StageReached, At, Idle
  <1>11. OneHolder'
    BY <1>1, <1>2 DEF IInv, OneHolder, Holds, Building, At, Idle
  <1>12. SnapshotSound'
    BY <1>3, <1>4 DEF IInv, SnapshotSound
  <1> QED BY <1>5, <1>6, <1>7, <1>8, <1>9, <1>10, <1>11, <1>12 DEF IInv

-----------------------------------------------------------------------------
(***************************************************************************)
(* Steps of the node.                                                      *)
(***************************************************************************)

\* A finished task tells the handler that waits for it, and nobody else.
LEMMA EndPreserves ==
    ASSUME IInv, NEW t \in tasks, NEW result \in {"ok", "failed"}, End(t, result),
           run' \in [Cts -> RunStates],
           made' = IF t.kind = "clone"
                   THEN [made EXCEPT ![t.ct] = IF result = "ok" THEN "cloned" ELSE "none"]
                   ELSE IF t.kind = "resize" /\ result = "ok"
                        THEN [made EXCEPT ![t.ct] = "ready"] ELSE made,
           UNCHANGED <<rows, sync, mishaps>>
    PROVE  IInv'
  <1> USE CLAssumption
  <1>1. /\ t \in Task /\ tasks' = tasks \ {t}
        /\ req' \in [Requests -> Handler]
        /\ \A q \in Requests : /\ req'[q].pc = req[q].pc /\ req'[q].ct = req[q].ct
                               /\ req'[q].verdict = req[q].verdict
                               /\ req'[q].task = IF q = t.by THEN result ELSE req[q].task
    <2>1. t \in Task /\ tasks' = tasks \ {t} /\ req \in [Requests -> Handler]
      BY DEF End, IInv, TypeOK
    <2>2. CASE t.by = None
      BY <2>1, <2>2 DEF End
    <2>3. CASE t.by # None
      <3> DEFINE k == [req[t.by] EXCEPT !.task = result]
      <3>1. t.by \in Requests
        BY <2>1, <2>3 DEF Task
      <3>2. /\ k \in Handler /\ k.task = result
            /\ k.pc = req[t.by].pc /\ k.ct = req[t.by].ct /\ k.verdict = req[t.by].verdict
        BY <2>1, <3>1 DEF Handler
      <3>3. req' = [req EXCEPT ![t.by] = k]
        BY <2>3 DEF End
      <3> HIDE DEF k
      <3> QED BY <2>1, <3>1, <3>2, <3>3
    <2> QED BY <2>2, <2>3
  <1>2. /\ made' \in [Cts -> Stages]
        /\ \A c \in Cts :
              \/ made'[c] = made[c]
              \/ /\ c = t.ct /\ t.kind = "clone" /\ made[c] = "cloning"
                 /\ made'[c] = IF result = "ok" THEN "cloned" ELSE "none"
              \/ /\ c = t.ct /\ t.kind = "resize" /\ made'[c] = "ready"
                 /\ made[c] \in {"configured", "ready"}
        /\ t.kind = "clone" => made'[t.ct] = IF result = "ok" THEN "cloned" ELSE "none"
        /\ t.kind = "resize" /\ result = "ok" => made'[t.ct] = "ready"
    BY <1>1 DEF IInv, TypeOK, Task, Stages, OneClone
  <1>3. TypeOK'
    BY <1>1, <1>2 DEF IInv, TypeOK
  <1>4. RowsReady'
    BY <1>2 DEF IInv, RowsReady, Recorded
  <1>5. HandlerKnows'
    BY <1>1 DEF IInv, HandlerKnows, At
  <1>6. TaskKnown'
    BY <1>1 DEF IInv, TypeOK, Task, TaskKnown, At
  <1>7. OneClone'
    BY <1>1, <1>2 DEF IInv, TypeOK, Task, OneClone
  <1>8. StageReached'
    BY <1>1, <1>2 DEF IInv, TypeOK, Task, StageReached, TaskKnown, OneClone, OneHolder,
                      Holds, Building, HandlerKnows, At
  <1>9. OneHolder'
    BY <1>1 DEF IInv, TypeOK, Task, OneHolder, Holds, Building, At, OneClone,
                StageReached, TaskKnown, HandlerKnows
  <1>10. SnapshotSound'
    BY DEF IInv, SnapshotSound
  <1> QED BY <1>3, <1>4, <1>5, <1>6, <1>7, <1>8, <1>9, <1>10 DEF IInv

\* A reboot turns into a boot; whoever waits for it goes on waiting.
LEMMA RebootPreserves ==
    ASSUME IInv, NEW t \in tasks, RebootGoesDown(t), UNCHANGED <<rows, sync, mishaps>>
    PROVE  IInv'
  <1> USE CLAssumption
  <1> DEFINE u == [t EXCEPT !.kind = "boot"]
  <1>1. /\ t \in Task /\ u \in Task
        /\ t.kind = "reboot" /\ u.kind = "boot" /\ u.ct = t.ct /\ u.by = t.by
    BY DEF IInv, TypeOK, Task, RebootGoesDown
  <1>2. /\ tasks' = (tasks \ {t}) \cup {u}
        /\ UNCHANGED <<rows, made, req, sync, mishaps>>
    BY DEF RebootGoesDown
  <1>3. TypeOK'
    BY <1>1, <1>2 DEF IInv, TypeOK, RebootGoesDown, RunStates
  <1> HIDE DEF u
  <1>4. RowsReady' /\ HandlerKnows' /\ SnapshotSound'
    BY <1>2 DEF IInv, RowsReady, Recorded, HandlerKnows, SnapshotSound, At
  <1>5. TaskKnown' /\ OneClone'
    BY <1>1, <1>2 DEF IInv, TypeOK, TaskKnown, OneClone, At
  <1>6. StageReached' /\ OneHolder'
    BY <1>1, <1>2 DEF IInv, TypeOK, StageReached, OneHolder, Holds, Building, At
  <1> QED BY <1>3, <1>4, <1>5, <1>6 DEF IInv

\* Whatever a task does preserves the invariant.
LEMMA TaskStepPreserves ==
    ASSUME IInv, TaskStep
    PROVE  IInv'
  <1>1. PICK t \in tasks : TaskFails(t) \/ TaskSucceeds(t) \/ RebootGoesDown(t)
    BY DEF TaskStep
  <1>2. t \in Task /\ run \in [Cts -> RunStates] /\ UNCHANGED <<rows, sync, mishaps>>
    BY DEF IInv, TypeOK, TaskStep
  <1>3. CASE TaskFails(t)
    BY <1>2, <1>3, EndPreserves DEF TaskFails
  <1>4. CASE TaskSucceeds(t)
    <2>1. run' \in [Cts -> RunStates]
      BY <1>2, <1>4 DEF TaskSucceeds, Task, RunStates
    <2> QED BY <1>2, <1>4, <2>1, EndPreserves DEF TaskSucceeds
  <1>5. CASE RebootGoesDown(t)
    BY <1>2, <1>5, RebootPreserves
  <1> QED BY <1>1, <1>3, <1>4, <1>5

-----------------------------------------------------------------------------
(***************************************************************************)
(* Steps of the synchronisation, restarts and outside changes.             *)
(***************************************************************************)

\* What is left of a pass when a container has been looked at.
LEMMA RestFacts ==
    ASSUME TypeOK, NEW c \in Cts
    PROVE  /\ Rest(c) \in Pass /\ Rest(c).pc # "write"
           /\ \A d \in Cts : Rest(c).seen[d] \in {"absent", sync.seen[d]}
  <1> DEFINE left == [sync.seen EXCEPT ![c] = "absent"]
  <1>1. left \in [Cts -> RowStates] /\ \A d \in Cts : left[d] \in {"absent", sync.seen[d]}
    BY DEF TypeOK, Pass, RowStates
  <1> HIDE DEF left
  <1>2. Rest(c) = [pc |-> IF left = SyncIdle.seen THEN "idle" ELSE "check",
                   seen |-> left, ct |-> 0, new |-> "none"]
    BY DEF Rest, left
  <1> QED BY <1>1, <1>2 DEF Pass

\* Whatever the synchronisation does preserves the invariant.
LEMMA SyncPreserves ==
    ASSUME IInv, SyncStep
    PROVE  IInv'
  <1>1. /\ UNCHANGED <<made, run, tasks, req, mishaps>>
        /\ rows' \in [Cts -> RowStates]
        /\ \A c \in Cts : \/ rows'[c] = rows[c]
                          \/ /\ rows[c] \notin {"absent", "provisioning"}
                             /\ rows'[c] \notin {"absent", "provisioning"}
    <2>1. UNCHANGED <<made, run, tasks, req, mishaps>> /\ (UNCHANGED rows \/ SyncWrite)
      BY DEF SyncStep, SyncList, SyncCheck, SyncSkip, SyncWrite, SyncWriteFails, node
    <2>2. CASE UNCHANGED rows
      BY <2>1, <2>2 DEF IInv, TypeOK
    <2>3. CASE SyncWrite
      <3>1. /\ sync.ct \in Cts /\ rows[sync.ct] \notin {"absent", "provisioning"}
            /\ sync.new \in {"running", "stopped"}
            /\ rows' = [rows EXCEPT ![sync.ct] = sync.new]
        BY <2>3 DEF SyncWrite, IInv, TypeOK, Pass, RunStates, SnapshotSound
      <3> QED BY <2>1, <3>1 DEF IInv, TypeOK, RowStates
    <2> QED BY <2>1, <2>2, <2>3
  <1>2. sync' \in Pass /\ SnapshotSound'
    <2>1. CASE SyncList
      <3>1. /\ sync'.pc = "check" /\ sync'.seen = rows /\ sync' \in Pass /\ rows' = rows
        BY <2>1 DEF SyncList, SyncIdle, Pass, IInv, TypeOK
      <3> QED BY <3>1 DEF SnapshotSound
    <2>2. ASSUME NEW c \in Cts, SyncCheck(c), Outdated(sync.seen[c], run[c])
          PROVE  sync' \in Pass /\ SnapshotSound'
      <3>1. /\ sync' = [sync EXCEPT !.pc = "write", !.ct = c, !.new = run[c]]
            /\ sync.seen[c] \notin {"absent", "provisioning"}
            /\ rows' = rows
        BY <2>2 DEF SyncCheck, Outdated
      <3>2. /\ sync' \in Pass /\ sync'.seen = sync.seen
            /\ sync'.ct = c /\ sync'.new = run[c] /\ run[c] # "none"
        BY <3>1 DEF IInv, TypeOK, Pass, RunStates
      <3> QED BY <3>1, <3>2 DEF IInv, SnapshotSound
    <2>3. ASSUME NEW c \in Cts, sync' = Rest(c)
          PROVE  sync' \in Pass /\ SnapshotSound'
      <3> DEFINE p == Rest(c)
      <3>1. /\ p \in Pass /\ p.pc # "write"
            /\ \A d \in Cts : p.seen[d] \in {"absent", sync.seen[d]}
        BY RestFacts DEF IInv
      <3> HIDE DEF p
      <3>2. sync' = p
        BY <2>3 DEF p
      <3> QED BY <1>1, <3>1, <3>2 DEF IInv, SnapshotSound
    <2>4. CASE SyncWrite \/ SyncWriteFails
      BY <2>3, <2>4 DEF SyncWrite, SyncWriteFails, IInv, SnapshotSound
    <2>5. CASE \E c \in Cts : SyncCheck(c) \/ SyncSkip(c)
      BY <2>2, <2>3, <2>5 DEF SyncCheck, SyncSkip
    <2> QED BY <2>1, <2>4, <2>5 DEF SyncStep
  <1>3. TypeOK' /\ RowsReady'
    BY <1>1, <1>2 DEF IInv, TypeOK, RowsReady, Recorded
  <1>4. HandlerKnows' /\ TaskKnown' /\ OneClone'
    BY <1>1 DEF IInv, TypeOK, HandlerKnows, TaskKnown, OneClone, Task, Handler, At
  <1>5. StageReached' /\ OneHolder'
    BY <1>1 DEF IInv, StageReached, OneHolder, Holds, At
  <1> QED BY <1>2, <1>3, <1>4, <1>5 DEF IInv

\* A pass that has not begun is well formed.
LEMMA SyncIdleTyped == SyncIdle \in Pass
  BY DEF SyncIdle, Pass, RowStates

\* A restart leaves rows, node and tasks in order.
LEMMA CrashPreserves ==
    ASSUME IInv, Crash
    PROVE  IInv'
  <1> USE CLAssumption
  <1>1. \A r \in Requests : req'[r] = Idle
    BY DEF Crash
  <1>2. tasks' \subseteq Task /\ \A t \in tasks' :
            t.by = None /\ \E u \in tasks : u.kind = t.kind /\ u.ct = t.ct
    BY DEF Crash, Disowned, IInv, TypeOK, Task
  <1>3. \A t, u \in tasks' : t.kind = "clone" /\ u.kind = "clone" => t = u
    BY <1>2 DEF IInv, TypeOK, Task, OneClone
  <1>4. UNCHANGED <<rows, made, run>> /\ sync' = SyncIdle /\ mishaps' \in 0..MaxMishaps
    BY DEF Crash, node, IInv, TypeOK
  <1>5. TypeOK'
    BY <1>2, <1>4, IdleTyped, SyncIdleTyped DEF Crash, IInv, TypeOK
  <1>6. RowsReady' /\ HandlerKnows' /\ StageReached' /\ OneHolder'
    BY <1>1, <1>4 DEF IInv, RowsReady, Recorded, HandlerKnows, StageReached, OneHolder,
                      Holds, Building, At, Idle
  <1>7. TaskKnown' /\ OneClone'
    BY <1>2, <1>3, <1>4 DEF IInv, TypeOK, Task, TaskKnown, OneClone
  <1>8. SnapshotSound'
    BY <1>4 DEF SnapshotSound, SyncIdle
  <1> QED BY <1>5, <1>6, <1>7, <1>8 DEF IInv

\* Nothing depends on whether a container runs.
LEMMA DriftPreserves ==
    ASSUME IInv, NEW c \in Cts, Drift(c)
    PROVE  IInv'
  <1>1. UNCHANGED <<rows, made, tasks, req, sync>> /\ mishaps' \in 0..MaxMishaps
    BY CLAssumption DEF Drift, IInv, TypeOK
  <1>2. TypeOK'
    BY <1>1 DEF Drift, IInv, TypeOK
  <1> QED
    BY <1>1, <1>2 DEF IInv, RowsReady, Recorded, HandlerKnows, TaskKnown, OneClone,
                      StageReached, OneHolder, Holds, SnapshotSound, At

-----------------------------------------------------------------------------
\* The invariant holds at the start.
LEMMA InitIInv == Init => IInv
  <1> SUFFICES ASSUME Init PROVE IInv
    OBVIOUS
  <1> USE CLAssumption DEF Init
  <1>1. TypeOK
    BY IdleTyped, SyncIdleTyped DEF TypeOK, RowStates, Stages, RunStates
  <1>2. RowsReady /\ SnapshotSound
    BY DEF RowsReady, Recorded, SnapshotSound, SyncIdle
  <1>3. HandlerKnows /\ TaskKnown /\ OneClone /\ StageReached /\ OneHolder
    BY DEF HandlerKnows, TaskKnown, OneClone, StageReached, OneHolder, Holds, Building, At, Idle
  <1> QED BY <1>1, <1>2, <1>3 DEF IInv

\* Every step preserves the invariant.
LEMMA NextPreserves == IInv /\ [Next]_vars => IInv'
  <1> SUFFICES ASSUME IInv, [Next]_vars PROVE IInv'
    OBVIOUS
  <1>1. ASSUME NEW r \in Requests, Create(r) PROVE IInv'
    <2>1. CASE CreateCloneWait(r) \/ CreateResizeWait(r)
      BY <2>1, AwaitedPreserves DEF CreateCloneWait, CreateResizeWait
    <2> QED
      BY <1>1, <2>1, CreateBeginPreserves, CreateUnlockPreserves, CreateClonePreserves,
         BuildStepsPreserve, CreateStartPreserves DEF Create
  <1>2. ASSUME NEW r \in Requests, Act(r) PROVE IInv'
    BY <1>2, ActBeginPreserves, ActPostPreserves, PollPreserves, WritePreserves DEF Act
  <1>3. ASSUME NEW r \in Requests, Abort(r) PROVE IInv'
    BY <1>3, ReturnPreserves DEF Abort, node
  <1>4. CASE UNCHANGED vars
    BY <1>4 DEF vars, IInv, TypeOK, RowsReady, Recorded, HandlerKnows, TaskKnown, OneClone,
                StageReached, OneHolder, Holds, SnapshotSound, At
  <1> QED
    BY <1>1, <1>2, <1>3, <1>4, TaskStepPreserves, SyncPreserves, CrashPreserves,
       DriftPreserves DEF Next

\* The inductive invariant holds in every reachable state.
THEOREM InductiveInvariant == Spec => []IInv
  <1>1. Init => IInv
    BY InitIInv
  <1>2. IInv /\ [Next]_vars => IInv'
    BY NextPreserves
  <1> QED BY <1>1, <1>2, PTL DEF Spec

\* Rows, tasks, handlers and the synchronisation's pass are always well formed.
THEOREM TypeCorrect == Spec => []TypeOK
  <1>1. IInv => TypeOK
    BY DEF IInv
  <1> QED BY <1>1, InductiveInvariant, PTL

\* create never records a container that is not cloned, configured and resized.
THEOREM OnlyReadyRecorded == Spec => []RowsReady
  <1>1. IInv => RowsReady
    BY DEF IInv
  <1> QED BY <1>1, InductiveInvariant, PTL

\* Two creations never work on one container, although nextid reserves nothing.
THEOREM CreationsApart == Spec => []OneCreator
  <1>1. IInv => OneCreator
    BY DEF IInv, OneHolder, Holds, OneCreator
  <1> QED BY <1>1, InductiveInvariant, PTL

\* sync_once never updates a row that is in provisioning, however old its snapshot.
THEOREM ProvisioningLeft == Spec => SyncLeavesProvisioning
  <1>1. IInv /\ [Next]_vars => [SyncWrite => rows[sync.ct] # "provisioning"]_vars
    BY DEF IInv, SnapshotSound, SyncWrite
  <1> QED BY <1>1, InductiveInvariant, PTL DEF Spec, SyncLeavesProvisioning

-----------------------------------------------------------------------------
(***************************************************************************)
(* ContainerLifecycle implements ContainerRecord.                          *)
(***************************************************************************)

Ready == {c \in Cts : made[c] = "ready"}

\* A step builds at most one container, and no container is ever undone.
LEMMA ReadyGrows ==
    ASSUME IInv, [Next]_vars
    PROVE  Ready' = Ready \/ \E c \in Cts \ Ready : Ready' = Ready \cup {c} /\ UNCHANGED rows
  <1>1. ASSUME NEW r \in Requests, Create(r)
        PROVE  Ready' = Ready \/ \E c \in Cts \ Ready : Ready' = Ready \cup {c} /\ UNCHANGED rows
    <2>1. CASE CreateClone(r)
      BY <2>1 DEF CreateClone, IInv, TypeOK, Ready
    <2>2. CASE CreateConfig(r)
      BY <2>2 DEF CreateConfig, IInv, TypeOK, StageReached, At, Ready
    <2>3. CASE CreateResize(r)
      BY <2>3 DEF CreateResize, IInv, TypeOK, StageReached, HandlerKnows, At, Ready
    <2>4. CASE UNCHANGED made
      BY <2>4 DEF Ready
    <2> QED
      BY <1>1, <2>1, <2>2, <2>3, <2>4 DEF Create, CreateBegin, CreateUnlock, CreateCloneWait,
         CreateResizeWait, CreateInsert, CreateStart, node
  <1>2. ASSUME TaskStep
        PROVE  Ready' = Ready \/ \E c \in Cts \ Ready : Ready' = Ready \cup {c} /\ UNCHANGED rows
    <2>1. PICK t \in tasks : TaskFails(t) \/ TaskSucceeds(t) \/ RebootGoesDown(t)
      BY <1>2 DEF TaskStep
    <2>2. t.ct \in Cts /\ made \in [Cts -> Stages] /\ UNCHANGED rows
      BY <1>2 DEF IInv, TypeOK, Task, TaskStep
    <2>3. t.kind = "clone" => made[t.ct] = "cloning"
      BY DEF IInv, OneClone
    <2> QED
      BY <2>1, <2>2, <2>3 DEF TaskFails, TaskSucceeds, RebootGoesDown, Ready
  <1>3. CASE UNCHANGED made
    BY <1>3 DEF Ready
  <1> QED
    BY <1>1, <1>2, <1>3 DEF Next, Act, ActBegin, ActPost, Poll, Write, Abort, SyncStep,
       SyncList, SyncCheck, SyncSkip, SyncWrite, SyncWriteFails, Crash, Drift, node, vars

\* A step changes at most one row: it inserts it for a ready container, in
\* provisioning, or gives a recorded container a settled state.
LEMMA RowsStep ==
    ASSUME IInv, [Next]_vars
    PROVE  \/ UNCHANGED rows
           \/ \E c \in Cts : /\ c \in Ready /\ rows[c] = "absent"
                             /\ rows' = [rows EXCEPT ![c] = "provisioning"]
           \/ \E c \in Cts : /\ rows[c] # "absent"
                             /\ \E s \in {"running", "stopped", "failed"} :
                                   rows' = [rows EXCEPT ![c] = s]
  <1>1. ASSUME NEW r \in Requests, CreateInsert(r), ~UNCHANGED rows
        PROVE  \E c \in Cts : /\ c \in Ready /\ rows[c] = "absent"
                              /\ rows' = [rows EXCEPT ![c] = "provisioning"]
    BY <1>1 DEF CreateInsert, IInv, StageReached, HandlerKnows, At, Ready
  <1>2. ASSUME NEW r \in Requests, Write(r)
        PROVE  \E c \in Cts : /\ rows[c] # "absent"
                              /\ \E s \in {"running", "stopped", "failed"} :
                                    rows' = [rows EXCEPT ![c] = s]
    <2>1. /\ req[r].ct \in Cts /\ rows[req[r].ct] # "absent"
          /\ req[r].verdict \in {"running", "stopped", "failed"}
      BY <1>2 DEF Write, IInv, TypeOK, Handler, HandlerKnows, At
    <2> QED BY <1>2, <2>1 DEF Write
  <1>3. ASSUME SyncWrite
        PROVE  \E c \in Cts : /\ rows[c] # "absent"
                              /\ \E s \in {"running", "stopped", "failed"} :
                                    rows' = [rows EXCEPT ![c] = s]
    <2>1. sync.ct \in Cts /\ rows[sync.ct] # "absent" /\ sync.new \in {"running", "stopped"}
      BY <1>3 DEF SyncWrite, IInv, TypeOK, Pass, RunStates, SnapshotSound
    <2> QED BY <1>3, <2>1 DEF SyncWrite
  <1> QED
    BY <1>1, <1>2, <1>3 DEF Next, Create, CreateBegin, CreateUnlock, CreateClone,
       CreateCloneWait, CreateConfig, CreateResize, CreateResizeWait, CreateStart, Act,
       ActBegin, ActPost, Poll, Abort, TaskStep, SyncStep, SyncList, SyncCheck, SyncSkip,
       SyncWriteFails, Crash, Drift, vars

\* Every step of the container lifecycle is a step of the abstract record.
LEMMA StepRefines == IInv /\ [Next]_vars => [Record!Next]_<<rows, Ready>>
  <1> SUFFICES ASSUME IInv, [Next]_vars PROVE [Record!Next]_<<rows, Ready>>
    OBVIOUS
  <1>1. CASE \E c \in Cts \ Ready : Ready' = Ready \cup {c} /\ UNCHANGED rows
    BY <1>1 DEF Record!Next, Record!Build, Ready
  <1>2. CASE Ready' = Ready
    BY <1>2, RowsStep DEF Record!Next, Record!Insert, Record!Settle, Record!Settled, Ready
  <1> QED BY <1>1, <1>2, ReadyGrows

\* The table containers behaves as ContainerRecord says, whatever interleaves,
\* fails, times out or restarts.
THEOREM ImplementsRecord == Spec => RecordKept
  <1>1. Init => Record!Init
    BY CLAssumption DEF Init, Record!Init, Record!Settled
  <1>2. IInv /\ [Next]_vars => [Record!Next]_<<rows, {c \in Cts : made[c] = "ready"}>>
    BY StepRefines DEF Ready
  <1> QED BY <1>1, <1>2, InductiveInvariant, PTL DEF Spec, RecordKept, Record!Spec
=============================================================================
