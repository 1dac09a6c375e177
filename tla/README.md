# hzelmaim: TLA+ models, checks and proofs

hzelmaim is a control plane for LXC containers on one Proxmox node: a Rust
backend (axum, PostgreSQL, the Proxmox HTTP API, SSH into the containers) and a
Next.js dashboard.  The repository has no design document; the models here are
read from the code, its comments and its migrations.

The backend is one process of async handlers over one database.  Hardly any
operation uses a transaction, none takes a lock, and every `await` is a point
where other requests run, where the process may be restarted, where the client
may go away (its future is dropped) and where a query or a Proxmox call may
fail.  What makes the system hard is therefore nearly always the same: a
handler checks something, awaits, and acts on what it saw; a Proxmox call
succeeds and its answer is lost; two of the three stores (tables, node,
handlers in flight) move on while the third does not.

## Inventory

| Part | State | Operations | Hard behaviour | What makes it correct |
|---|---|---|---|---|
| Private networks (`services/network_service.rs`, `db/network_repo.rs`) | `private_networks`, `network_memberships`, `bridge_id_seq` | create, rename, delete a network; add, remove a member | check-then-act over many awaits, half-done Proxmox calls, races of delete with add and of remove with add | tenants apart, bridge ids never reused, limits, disjoint ranges, an address on one NIC only, row and NIC agree |
| Proxmox node (`proxmox/*`) | containers, their run state and NICs; bridges, pending and live | clone, configure, start, stop, reboot, status; bridges; NICs | every call is slow, may fail, may succeed unnoticed | used only as its contract allows |
| Container lifecycle (`services/container_service.rs`, `db/container_repo.rs`) | `containers.state`, `container_ownerships` | create, start, stop, restart, each with a poll of up to 120 s | overlapping actions on one container, time-outs, restarts of the backend | the state converges to the node's; a new container is left to its creator |
| State synchronisation (`jobs/state_sync.rs`) | a snapshot of all rows | one pass every 30 s | acts on a stale snapshot | repairs every mismatch but `provisioning` |
| Sharing (`services/container_service.rs`) | `container_invitations`, `container_ownerships.permissions` | invite, answer | permissions read at invitation, used at acceptance; repeated answers, several invitations at once | nobody is given what the inviter did not hold; the creator keeps everything; lists agree with answers |
| Programs (`services/program_service.rs`) | `programs`, `program_invitations` | create, invite, answer, change permission | repeated answers; admission asked minutes before the container exists | a container goes to somebody admitted, or whose admission ended while his request was in flight |
| Webhook deployments (`services/webhook_service.rs`, `webhooks/*`) | `webhook_configs`, `webhook_deliveries`, detached deployment tasks | configure, receive, deploy | redelivery, configuration deleted meanwhile, restart, order of EOF and exit status | every delivery reaches a final state, or a fault has cut it off; what runs is a push to the configured branch; `succeeded` means exit code 0 |
| OAuth applications (`api/handlers/oauth.rs`, `db/oauth_repo.rs`) | applications, codes, refresh tokens | authorize, exchange, refresh, revoke, rotate secret, delete | concurrent refreshes, revocation against issue | a code is exchanged once; tokens go back to one consent; nothing lives after the application but what was in flight |
| Sessions, personal tokens, OIDC login (`auth/*`, `api/handlers/auth.rs`) | users, sessions, tokens, pending logins in memory | login, refresh, logout, token create and revoke | two first logins at once, a callback that comes twice, tokens that outlive their session | one user per identity, one session per login, a session is its identity's, a personal token is revoked once |
| Terminal sessions (`services/terminal_service.rs`, `api/handlers/stream.rs`) | two channels of 64 messages, three tasks | open, input, resize, upload, close | back-pressure both ways, teardown from any side, uploads between keystrokes | nothing lost or reordered, all tasks end |
| Command queue (`services/command_service.rs`) | `commands` | enqueue, get | none: nothing executes a queued command | - |
| Audit log, SSH CA, configuration, routing, OpenAPI | insert-only log; none | - | none | - |
| Dashboard (`apps/dashboard`) | tokens in local storage, shared refresh promise | API calls, token refresh | concurrent refreshes | one refresh at a time |

Components call each other in-process; the database and the Proxmox node are
the shared state; the state synchronisation and deployment tasks are the only
background activity.

## Modules

| Module | What it is |
|---|---|
| `PrivateNetwork` | the network service with its tables, the node's bridges and NICs, and the handlers in flight |
| `NodeContract` | abstract specification: what a Proxmox node may be asked about bridges and NICs |
| `MCPrivateNetwork` | the small instances TLC checks |
| `PrivateNetworkProofs` | theorems about `PrivateNetwork` under every interleaving, proved with TLAPS |
| `PrivateNetworkApartProofs` | theorems about `PrivateNetwork` when requests on the same object stay apart, the refinement of `NodeContract` among them |
| `ContainerLifecycle` | the container service, the tasks of the node, and the state synchronisation |
| `ContainerRecord` | abstract specification: what the table `containers` promises of each container |
| `MCContainerLifecycle` | the small instances TLC checks |
| `ContainerLifecycleProofs` | theorems about `ContainerLifecycle`, the refinement of `ContainerRecord` among them |
| `Programs` | programs, their invitations and who they admit |
| `ContainerSharing` | ownerships, permissions and invitations to containers; composed with `Programs` |
| `ContainerSharingProofs` | theorems about `ContainerSharing` and `Programs` |
| `WebhookDelivery` | webhook configurations, inbound events, detached deployments and their SSH command |
| `DeliveryLog` | abstract specification: what the delivery log promises of each row |
| `WebhookDeliveryProofs` | theorems about `WebhookDelivery`, the refinement of `DeliveryLog` among them |
| `OAuthFlow` | the OAuth provider: applications, codes, refresh tokens |
| `OAuthFlowProofs` | theorems about `OAuthFlow` |
| `Sessions` | login, users and identities, sessions, access and personal tokens |
| `SessionsProofs` | theorems about `Sessions` |
| `TerminalBridge` | the three tasks and two channels of a terminal session |
| `TerminalStream` | abstract specification: what a terminal session promises its two ends |
| `TerminalBridgeProofs` | theorems about `TerminalBridge`, the refinement of `TerminalStream` among them |
| `MC...` | the small instances TLC checks, one module per specification |

Components that share state are composed: `ContainerSharing` extends `Programs`,
whose answer `create` awaits before it provisions.  The others touch disjoint
state: networks own bridges and NICs, the lifecycle owns the containers and
their run state, webhooks, OAuth and sessions own their tables.  What one needs
of another is constant there: containers are never deleted, permissions on them
are never withdrawn, users are neither deleted nor disabled by any code.

### PrivateNetwork

*State.*  `networks` is the table `private_networks`, keyed by bridge id (the
table has a UNIQUE constraint on it; the UUID key says no more).  `members` is
the table `network_memberships`.  `seq` is `bridge_id_seq`, counted from 0
instead of 99.  `conf`, `live` and `nics` are the Proxmox node: bridges in its
pending configuration, bridges of the last applied one, and the `netN` entries of
the containers.  `req[r]` is a handler in flight: the await it stands at and the
locals it has set.

*Actions.*  One per await that reads or changes something: `CreateBegin` to
`CreateActivate` for `create_network`, `RenameBegin`/`RenameUpdate`,
`DeleteBegin` to `DeleteRow`, `AddBegin` to `AddActivate` for `add_member`,
`RemoveBegin` to `RemoveRow` for `remove_member`.  The first action of a
handler contains its validation and permission checks, and runs to the first
await whose result another request can change.  `Abort` ends a handler at any
await: a restart, a dropped connection, a failed query.  A Proxmox call takes
effect and is acknowledged, takes effect and is reported as failed, or fails
without effect.  An UPDATE or DELETE whose row is gone matches nothing and
succeeds, as in SQL; an INSERT is refused by the UNIQUE and foreign key
constraints of the migration.

*Abstractions.*  Address ranges are names with a relation `Clash` that says
which meet; host numbers stand for addresses; the SSH commands that
reconfigure a running guest are best effort, touch none of this state and are
left out, as are audit entries.  Containers are never deleted by the code, so
they are a constant set.  Permissions on containers do not change during a run.

*Properties that hold under every interleaving.*  `TenantIsolation`: a
container sits on an existing network's bridge only if someone who may manage the
network holds PERM_NETWORKS on the container, although the check is made six
awaits before the NIC is attached.  `FreshBridge`: a network row appears only
under an id of which no bridge or NIC is left.  `OvershootBounded`: limits are
passed by no more than the other requests in flight.

*Properties that hold when requests on the same object stay apart*, whatever
fails and wherever handlers stop.  The code does not keep them apart; three
conditions say what its callers would have to:
`RemovalsApart` (no removal of a container from a network overlaps another
request that adds it there or removes it from there), `DeletionsApart` (no
deletion of a network overlaps its creation or an addition to it),
`CreationsApart` (no user has two creations with clashing ranges before their
INSERTs).  Served one at a time, requests meet all three.

| Property | needs |
|---|---|
| `NicAccounted`: each NIC is covered by a row, so its address and slot stay reserved | `RemovalsApart` |
| `ActiveMemberHasNic`: a membership shown as active has its NIC | `RemovalsApart` |
| `IpUniqueOnBridge`: an address is on one NIC of a bridge only | `RemovalsApart` |
| `ActiveNetworkHasBridge`: a network that accepts members has its bridge up | `DeletionsApart` |
| `DeletionPath`: a network being deleted is never revived, and its row goes only when members and bridge are gone | both |
| `NodeContractKept`: the refinement of `NodeContract` | both |
| `RangesDisjoint`: the ranges of one user's networks never meet | `CreationsApart` |

While nobody is removed nothing has to stay apart for the first three: the
UNIQUE constraints suffice.  Removal and deletion that race with
an addition break some of these: see Findings and Disagreements.

### NodeContract

The node as a careful user would drive it: a NIC goes only onto a bridge that is
up, into an empty slot, under an address nobody has on that bridge; a bridge
goes only when no NIC is on it.  `PrivateNetwork` refines it under the
identity mapping (`NodeContractKept`) under `RemovalsApart` and `DeletionsApart`.

### ContainerLifecycle

*State.*  `rows[c]` is the `state` column of the row whose UNIQUE
`proxmox_ctid` is `c`, or absent.  The node has `made[c]`, how far the container
is built, and `run[c]`, the status it reports.  `tasks` holds what the node has
accepted and not finished; a task remembers the request that waits for it.
`req[r]` is a handler in flight, with what the task API last said of its task and
the state it is about to write.  `sync` is a pass of the synchronisation: the part
of its snapshot it has not visited and the update it is about to make.
`mishaps` only bounds `Crash` and `Drift`.

*Actions.*  `CreateBegin` to `CreateStart` are the awaits of
`HttpProxmoxClient::create_container` and then of `ContainerService::create`:
next id, wait for the template, clone, wait, configure, resize, wait, INSERT,
start.  `ActBegin` and `ActPost` begin start, stop and restart; `Poll` and
`Write` are shared by all four.  `TaskStep` is the node: a task fails, succeeds,
or, for a reboot, first takes the container down and then starts it.
`SyncList`, `SyncCheck`, `SyncSkip`, `SyncWrite` and `SyncWriteFails` are
`sync_once`, which ignores a failed status or update of one container and goes on.
`Accepted` is a POST whose answer arrives or is lost, `Awaited` a wait for a task
that may time out while the task goes on.  `Abort` drops a handler, `Crash`
restarts the backend (the node and its tasks go on), `Drift` is a change made on
the node by somebody else.

*Abstractions.*  Permission checks, names, sizes and the owner's row are left
out; so are the reads.  The synchronisation visits the rows of its snapshot in
any order.  What the node does with a task is external, modelled from how the
client uses it: a taken id or a locked template is refused, `create` picks the
lowest free id.  Time is not modelled: a time-out may come at any moment.

*Properties.*  `RowsReady` (a part of `IInv`): a container is recorded only when
cloned, configured and resized.  `OneCreator`: two creations never configure, resize or record the same
container, although `/cluster/nextid` gives both the same id; the node's refusal of
the second clone is what keeps them apart.  `SyncLeavesProvisioning`: however
stale its snapshot, the synchronisation never updates a row in provisioning.
`RecordKept`: the table implements `ContainerRecord`.  `Reconciled`: once
nothing is done to the containers any more, every row that has left provisioning
comes to show the node's status and stays so, whatever time-outs, overlapping
actions, stale updates and restarts have left.  `ProvisioningEnds`: without
restarts and dropped handlers no row stays in provisioning.

### ContainerRecord

A record appears for a completely built container, in state provisioning; it
is then only given settled states, never goes away and never goes back.
`built` is mapped to the containers whose `made` is ready.  A resize that is
still under way when its container has been resized already changes nothing the
mapping sees; every other step maps to one step or to a stutter.

### ContainerSharing and Programs

*State.*  `primary`, `perm` and `inv` are `container_ownerships` and
`container_invitations` (which is UNIQUE on container and user); `programs` and
`pinv` are their counterparts for programs.  An actor is a user, or an
OAuth token acting for an administrator, whose role the resolver lowers to that
of a user.  Permissions are sets of bits, of which "view" and "share" matter to
the code modelled; the mask a caller offers is an integer and may have bits that
are no permission.  `overtaken` is history: the admission by which a creation in
flight was let in has ended meanwhile.

*Actions.*  `CreateCheck` asks for admission, `CreateInsert` writes the container
and its ownership after the provisioning; `InviteCheck`, `InviteSubset` and
`InviteInsert` are the statements of `invite_by_email`; `Answer` is the
transaction of `respond_to_container_invitation`.  The handlers of programs are
one statement each, or checks of columns that never change followed by one, and
are one action each (`ChangePrograms`).  `Fail` is a statement that fails,
provisioning that fails, a restart or a dropped future.

*Properties*, all under every interleaving and for answers that come again in any
order.  `GrantsFlowDown`: a row that is not the creator's holds what its invitation
grants, and that goes back through holders to the creator or an administrator.
`CreatorKeepsAll`: no invitation overwrites the creator's row.  `ListsMatchAnswers`:
an accepted container is on the list and a pending one is not; of a declined one
nothing is said, for a decline takes nothing back (Disagreements).
`CreatorsAdmitted`, an action property: a container gets its creator once, from a
request that is done with it, and at that moment the creator is an administrator or
a member of an open program, or ceased to be one while this request was in flight.
The admission is asked once, minutes before the INSERT, so no more can hold; what
it excludes is that a declined answer, or a program whose flag is off, admits
anybody.  `TypeOK` has a part that the masks make worth saying: no bit that is no
permission is ever stored.

### WebhookDelivery and DeliveryLog

*State.*  The two tables, the handlers in flight, `task[d]` the detached
deployment of a delivery, `proc[d]` its command in the container.  `orphans` is
history: deliveries whose handler or task was cut off by a failed statement or
a restart.

*Actions.*  `Receive` reads the configuration once, verifies, parses and checks;
`InsertRow`, `MarkSkipped`, `MarkRunning` (which spawns the task) follow, and
`Exec`, `ExitStatus`, `ChannelEnds`, `ConnectFails`, `Record` are the task.
`UpdateCheck`/`UpdateWrite` and `DeleteCheck`/`DeleteWrite` are the owners'
handlers, with `ON DELETE CASCADE`.  The provider is GitHub's: Forgejo's is
registered, but a stub whose methods panic, which ends a request before it has
written anything (`Fail`).  The HMAC is a comparison of secrets; both lines of the
deployment command are one value.

*Properties.*  `OpenDeliveriesOwned`: whatever is pending or running is somebody's,
and of one only.  `DeploysItsBranch`: a task runs a push to the branch, and with
the command, of one and the same version of the configuration.  `LogKept`: the
table implements `DeliveryLog`, in which a status only moves forward and a final
one stays.  `DeliveriesSettle`: an open delivery comes to an end unless cut off.
`OutcomeTrue` does not hold: see Findings.

### OAuthFlow

*State.*  The three tables and the handlers in flight.  Secrets are numbered in
the order in which they are generated.  History variables and fields say where a
token comes from (`root`, `via`), which secret its client had presented, whether
that was still current when it was issued (`issued`), and which rotation stopped
half-way (`torn`).

*Actions.*  Each statement of each handler: consent, `consume` of a code (one
UPDATE that returns the row), the insertion of a token, find and revoke of a
refresh, the two statements of a deletion, the two of a rotation.  The
comparisons between two statements belong to the first.  Expiry of a code is an
action; `Fail` stops a handler anywhere.

*Properties.*  `TokensFollowConsent`, `CodeExchangedOnce` under every
interleaving; `ExistingTokensRevoked` and `LateIssuesBounded` together say what
deletion and rotation achieve once they have completed: everything issued before is
revoked, and what overlapping requests still get is fewer than may be in flight.
Tokens issued between the two statements of a deletion are neither: the first has
passed them by and the application still exists.  They are marked `closing`, and
nothing is said of how many they are.

### Sessions

*State.*  `login` are the pending states that `OidcService` keeps in memory,
`users`, `identities`, `session` and `pat` the tables, `access[x]` the latest
expiry of an access token that was ever handed out for session `x`, `now` a clock
that counts ticks.

*Actions.*  `CallbackBegin` removes the state, `Exchange` gets the identity;
`FindIdentity`, `FindEmail`, `Link`, `Register` are `upsert_oidc_identity`, a
transaction at READ COMMITTED whose reads others overtake and whose INSERTs the
UNIQUE constraints refuse; `OpenSession`, `Refresh`, logout behind the CSRF check,
personal tokens.  `OpenSession` is the INSERT of the session, the read of its user
and the signing of both tokens in one step: users do not change and a signature is
no state.  `RefreshValid` is what `validate_refresh_token` asks for, a signature, an
expiry and a session id: any unexpired token of the session, an access token too.
`Restart` empties the memory.  What `Authenticated` accepts is an operator: it
changes nothing.

*Properties.*  `OneUserPerIdentity`, `SessionsBelongToIdentity`, `OneSessionPerLogin`
are about logins that overlap, come twice or fail half-way.  `RevokedAnsweredOnce`:
of the DELETEs of a personal token that overlap or are retried, exactly one is
answered as done, and none while the token lives.  How long a session can be
refreshed is not bounded by the code, so no property bounds it (Disagreements).

### TerminalBridge and TerminalStream

*State.*  `reader` is `handle_terminal`, `bridge` and `writer` are the tasks it
spawns, `client` and `server` the two channels, `ssh` the session.  `sent`,
`shown`, `typed`, `printed` are what the two ends have said and seen.

*Actions.*  One per await: a send on a full channel is a step that is not
enabled, a send on a channel whose receiver is gone fails.  While the bridge
writes to the shell or uploads, it listens to neither side; this is where a
deadlock could hide.  The client may leave and the shell may end at any time.  The
payload of a message is one value that passes unchanged: that `from_utf8_lossy`
replaces the halves of a multi-byte character which the chunks cut in two
(`terminal_service.rs:272`, `stream.rs:196`) is below this model.

*Properties.*  `StreamKept`: the session implements `TerminalStream` (order on
each way, answers of uploads after what was typed before them, nothing after the
end).  `SessionEnds`: once the client is gone, all three tasks end and the SSH
session is given up.

## Runs

| Run | Instance | Shows |
|---|---|---|
| `pn_apart` | 2 requests, all operations, 1 user, 1 network up at the start, 3 ranges of which 2 meet, 2 containers with 1 slot, 2 addresses, 2 bridge ids, 2 membership ids; behaviours of `ApartSpec`, in which `RequestsApart` holds | the properties of the table above, the refinement among them |
| `pn_concurrent` | 2 requests of 2 users, create, delete, add, remove | tenant isolation, fresh ids, and the invariant of the proofs |
| `pn_growth` | 2 requests create, rename and delete networks, limits 1 and 2, 3 bridge ids | the bound on exceeding limits |
| `cl_safety` | 2 requests, create and stop, 1 container up, 1 more id, 1 restart of the backend | the safety properties, the refinement, the invariant of the proofs |
| `cl_live` | 2 requests, create and restart, 1 id, dropped handlers, restarts of the backend and outside changes, 2 in all | rows converge, and leave provisioning without mishaps |
| `cs_sharing` | 2 requests, 2 users and an administrator, 1 program with 1 invitation, 1 container, 2 invitations, masks of defined bits and one with another | all sharing properties |
| `wh_delivery` | 2 requests, 1 configuration of 1 container, 2 deliveries, failing statements, restarts | all delivery properties and the refinement |
| `oa_flow` | 2 requests, 2 applications, 1 code, 2 tokens, 2 secrets | all OAuth properties |
| `se_login` | 2 requests, 2 users, 2 subjects, 2 emails, 3 login states, 2 sessions, 1 personal token, 3 ticks, of which every token lasts 2 | all session properties |
| `te_bridge` | channels of 1, windows of 1, 3 frames of any kind but resize, 2 chunks of output | the refinement, the invariant of its proof, and that sessions end |
| `pn_v_ip` | 2 requests, add and remove | finding 1 |
| `wh_v_outcome` | 1 request, 1 delivery, SSH messages late or lost | finding 2 |

*Bounds.*  `MaxBridge` bounds how often ids are drawn from the sequence,
`MaxMember` the membership ids in use at a time, `Requests` the concurrency;
the limits and slots are the code's constants made small so that runs reach them
(5, 100 and 15 in the code).  Two requests are enough for every race between two
handlers.  Two addresses, and one slot for two networks, reach exhaustion and reuse.
In the lifecycle `MaxCt` bounds the ids ever used; a second
free id lets two creations wait for the template at once, and one is enough for
them to collide.  `MaxMishaps` bounds restarts and outside changes: they must stop
for anything to converge, and one already puts every state of a handler and a pass
before it.  `MaxInvites` stops invitations, not answers, which may come for ever.
Two tokens make a chain of one refresh, or two successors of nothing; with one
code every collision of two requests on it is there.  `MaxSecret` 2 is one
rotation.  `MaxNow` 3 lets a session be refreshed after its refresh token has ended,
by an access token that an earlier refresh has given it.
Capacity 1 fills a channel with one message; three frames put one in each of
reader, channel and bridge, so that everyone may wait for everyone.  The theorems
hold without these bounds.

*Fairness.*  A handler in flight goes on (WF): each of its awaits, query, Proxmox
call, `wait_for_task`, `wait_for_unlock`, `poll_for_state`, has a time-out and an
error path.  The node works its tasks off, well or not (WF).  The synchronisation
runs on a timer (WF), and visits every row in every pass; a status or an update
that it tries again and again succeeds at some time (SF for each container), as
otherwise the node or the database would be gone for good.  A deployment's task is
polled (WF), its connection times out, and its command is assumed to end, for
nothing in the code stops one that does not.  The three tasks of a terminal are
polled (WF); neither client nor shell has to read or answer, but a session on
which nothing moves, or an upload on a session that is lost, ends: the SSH
client gives up an inactive session.  Nothing is assumed to begin, and no task
to succeed.  Networks, sharing, OAuth and sessions do nothing on their own and
retry nothing, so no liveness is stated of them.

*Deadlock* is checked in `pn_apart`, `pn_concurrent` and `pn_v_ip`, where an idle
handler can always begin something.  Elsewhere the instance really may stop: ids,
frames, secrets or time are used up and no handler is in flight, a state in which
the system waits for input the bounds no longer give it.

## Proofs

`PrivateNetworkProofs` proves, for any finite or infinite sets of users,
containers and requests and any number of networks, from the named assumption
`PNAssumption` (the constants' shapes only):

- `TypeCorrect`: `Spec => []TypeOK`;
- `TenantsApart`: `Spec => []TenantIsolation`;
- `BridgeIdsFresh`: `Spec => FreshBridge`;
- `InductiveInvariant`: `Spec => []IInv`, from which the others follow.

`TenantIsolation` is not inductive: the NIC is attached on the strength of a
check made earlier, under a bridge id that might since have changed hands.
`IInv` adds what rules that out: locals are set when they are used
(`LocalsSet`); every id in use anywhere was drawn before (`DrawnBefore`); between
`nextval` and the INSERT a drawn id is known to its handler alone
(`DrawnIsPrivate`); and while its network exists, an `add_member` in flight is
authorised (`AddAuthorised`).  All actions but two have one shape: they move one
handler, let no row appear, keep every owner, and touch the node only for the
handler's own network.  `ShapePreserves` is proved once for that shape;
`CreateDraw` and `CreateInsert`, the two others, are proved on their own.

- `LimitsNearlyKept`: `Spec => []OvershootBounded`,

for a finite, nonempty set of requests (`RequestsAssumption`) and networks that
are within the limits at the start (`EstablishedAssumption`).  The bound on the
count alone is not inductive: a handler past its check adds to the count later.
`RoomInv` bounds a sum instead: the networks counted, plus the creations that
may still add one, stay below limit plus number of requests.  A handler enters
that sum only where the check has found the count below the limit, and then the
others in the sum are other requests; its INSERT moves it from one part to the
other.  The case a test would not reach: a creation still running whose network
a deletion has marked meanwhile is not counted any more, and its last step
counts it again without a check.  `RoomInv` therefore keeps such a creation in
the sum; that there is one for each network at most, and that it belongs to the
owner, is `BuildersOwn`.

`PrivateNetworkApartProofs` proves the properties of requests that stay apart, for
any constants and any number of requests, each theorem from the conditions it
needs: `Spec /\ []RemovalsApart => []NicAccounted` and so on, by the table under
PrivateNetwork.  `ApartSound` puts them together for `ApartSpec`, what the run
explores, and `OneAtATimeSound` for `Spec /\ []OneAtATime`; `GrowthSound` is the
first three under every interleaving, when nobody is removed.

- `WiringInv` (`NicsAccounted`, `ActiveMembersWired`, `AddressesUnique`): the UNIQUE
  constraints as facts about the table (`RowsKeyed`), and what an addition or a
  removal in flight may rely on (`AdderWired`, `RemoverWired`): the row it inserted
  or found is still there, the slot is still free before the attach call, and the
  NIC is off before the row goes.  Addresses are unique on the wire because every NIC
  has a row and rows have unique addresses.
- `BridgesInv` (`ActiveNetworksUp`): rows are on active networks only; a creation
  knows how far it has brought its bridge, a deletion how far it has taken it
  down.
- `RangesInv` (`RangesApart`): a range that has passed the overlap check is still
  free at the INSERT.
- `DeletionFollowsPath` and `ImplementsContract` need wiring and bridges: a bridge
  goes when its network has no members, and a NIC has a member.

`ContainerLifecycleProofs` proves, for any set of requests, any `MaxCt` and any
initial containers, from `CLAssumption` (again the constants' shapes only):

- `TypeCorrect`, `OnlyReadyRecorded` (`RowsReady`), `CreationsApart`
  (`OneCreator`): `Spec => []...`;
- `ProvisioningLeft`: `Spec => SyncLeavesProvisioning`;
- `ImplementsRecord`: `Spec => RecordKept`, by the mapping above;
- `InductiveInvariant`: `Spec => []IInv`.

`RowsReady` alone is not inductive, for the INSERT relies on four awaits that
each may have timed out.  `IInv` says what a handler knows at each of them:
a task it waits for is the one its last step started (`TaskKnown`); at most one
clone locks the template, and its target is being cloned (`OneClone`); each step of
a creation finds its container built so far (`StageReached`); from the end of a good
clone on, one creation holds its id and no other's resize is under way for it
(`OneHolder`); handlers act on containers they know (`HandlerKnows`).
`SnapshotSound` is the argument for the synchronisation: a row leaves provisioning
for good, so what an old snapshot says of provisioning stays true.  The steps of a
handler have few shapes, return, move on, submit a task, finish a building step,
and a task has one end; each shape is a lemma, and the actions cite them.

`ContainerSharingProofs` proves, from the shapes of the constants and the fact
that `Nobody` is no user, for any users, containers, programs, requests and
permissions:
`TypeCorrect`, `PermissionsFlowDown` (`GrantsFlowDown`), `CreatorsKeepAll`,
`OnlyAdmittedCreate`, `ListsCorrect`.  `IInv` adds what handlers in flight have
seen (`InFlightChecked`).  For invitations that is stable: permissions are never
taken back, so an inviter who may share still may.  An admission is not: an answer
or a change of the flag may end it, and then the step that ends it marks the
creations it overtakes, so that `LetIn` holds of each until its INSERT; any other
step leaves the admission as it is.

`WebhookDeliveryProofs` proves `TypeCorrect`, `OpenOwned`, `RightBranch` and
`ImplementsLog`.  `HandlersChecked` says that a handler about to deploy still holds
the version of the configuration it has verified the event with, and that its row,
if it still exists, is a push to that branch; `OneWorkerPerDelivery`, in
`OpenDeliveriesOwned`, that nobody else works on it.

`OAuthFlowProofs` proves `TypeCorrect`, `ConsentFollowed`, `CodesExchangedOnce`,
`TokensRevoked` and `LateBounded`, for a finite, nonempty set of requests and a
finite set of tokens (both are counted).  `LateIssuesBounded` is not inductive:
`LateCounted` adds the requests that presented the old secret and are still in
flight to the tokens issued late; each of them issues at most one, and the one
that rotates or deletes is none of them, so the sum stays below the number of
requests.  `DeletionRevokes` covers the moment between the two statements of
a deletion.

`SessionsProofs` proves `TypeCorrect`, `IdentitiesUnique`, `SessionsIdentified`,
`LoginsUsedOnce` and `TokenRevokedOnce` (`RevokedAnsweredOnce`, for any number of
overlapping revocations).  `HandlersInformed` and `OneHandlerPerLogin` say that a login in
flight is the only one of its state and that the user it has found stays linked.

`TerminalBridgeProofs` proves, for any capacity of the channels, any window and any
number of frames and chunks, from `BridgeAssumption`:

- `TypeCorrect`: `Spec => []TypeOK`, that neither channel exceeds its capacity
  among it;
- `ImplementsStream`: `Spec => StreamKept`, the variables of the two specifications
  being the same;
- `InductiveInvariant`: `Spec => []IInv`.

The guards of `TerminalStream` are about the two ends, the steps that must meet
them happen in the middle, so `IInv` describes what is on the way.  On the way to
the shell are the frames the bridge, the channel and the reader hold (`Held`):
they are in order and later than all that is typed (`FramesOrdered`), and of a kind
that is passed on (`FramesKnown`); before any of them no input is missing, as long
as the bridge will still write (`NoGap`).  On the way to the client is `Passing`:
what is shown, the writer's event, the channel, the bridge's event.  A step leaves
it as it is, adds an event at the end, or, when the writer is gone, cuts it
after what is shown (`PassingStep`); every event fits those before it
(`EventsFit`), and while the bridge serves, none is the end and no chunk heard is
missing (`EventsOpen`).  An answer is to an older frame than any that is still
held (`AnswersOlder`), which is why uploads are answered in order, and the bridge
is over when the end is shown (`EndIsLast`), which is why nothing is typed after
it.  A write error shows why `NoGap` needs its condition: the frame that was
not written is missing for ever, but then nothing is typed any more.

Only model-checked is liveness (`Reconciled`, `ProvisioningEnds`, `DeliveriesSettle`,
`SessionEnds`), which is out of the prover's reach: every safety property and
every refinement that a run checks is also a theorem.

## Findings

Where the code does something else than what a comment or the schema says; each
is a run in which TLC finds the behaviour.

1. `pn_v_ip`: `remove_member` of a membership that is still attaching deletes
   the row and the NIC comes afterwards; its address is given out again, against
   "Each IP within a network is unique" (`...private_networks.sql:46`).
2. `wh_v_outcome`: `exec_command` stops at EOF with the exit code still 0; when
   the status of a failing command comes after EOF, or the session is lost
   before it, the deployment is recorded as succeeded, against "returns captured
   stdout, stderr, and the exit code" (`services/terminal_service.rs:147`).

## Disagreements

Met while modelling, without a run of their own:

- Concurrent creations of one user exceed "Maximum number of active private
  networks a single user may own" (`services/network_service.rs:32`), for the count
  is read before the INSERT; `OvershootBounded` says by how much.
- A bridge is removed with a NIC on it when `add_member` overlaps `delete_network`,
  against "The bridge must have no active container NICs attached before calling
  this" (`proxmox/client.rs:36`); and a network deleted while it is created is set
  active again, against "active -> deleting -> row removed"
  (`...private_networks.sql:23`).
- The log texts "membership left in 'attaching' state" and "... 'detaching' state"
  (`network_service.rs:443`, `:573`), where the code sets 'failed'; "creating ->
  failed" in the schema (`:22`), a transition the code never makes.
- `restart` polls right after its reboot was accepted and may record Running
  before the container has gone down, against "updated to reflect the verified
  outcome" (`services/container_service.rs:268`).
- A row left in provisioning by a restart of the backend is passed over for ever,
  against "updates any mismatches" (`jobs/state_sync.rs:4`).
- Declining after accepting leaves the ownership row, against "so that the
  invitation state and the ownership row are always consistent"
  (`db/container_repo.rs:96`; `InvitationConsistent` states it).  Accepting grants
  what was offered, not "`viewer` access" (`services/container_service.rs:427`), and
  whoever holds "share" may invite, not "only the container owner"
  (`api/handlers/containers.rs:268`).
- A redelivered event is deployed again: the "Provider-assigned idempotency key"
  (`...webhooks.sql:23`) is stored and never compared.
- "Rotate: revoke the old token and issue a fresh one" (`api/handlers/oauth.rs:599`):
  two refreshes at once with one token revoke it twice and issue two.  A rotation
  that stops after its first statement leaves the old tokens live.  `rotate_secret`
  of a deleted application answers with a secret that was not stored.
- `refresh_token` means "to verify they still exist and are active"
  (`api/handlers/auth.rs:160`), but neither it nor the resolver of access tokens
  looks at the session row, so a logout ends the access of its browser by the
  clock only.  `validate_refresh_token` (`auth/jwt.rs:189`) looks at signature, expiry
  and the presence of its claims, which an access token of a session has as well; it
  is accepted in place of the refresh token, and a session can be refreshed beyond
  "long-lived, ~8 hours" (`:48`), each time before the last access token ends.
  Pending logins that never come back are never removed.
- A terminal's first binary frame is used up for the dimensions, against "Treat raw
  binary frames as terminal input" (`api/handlers/stream.rs:195`); an exit status that
  overtakes the rest of the output ends the session before it is shown; an upload
  whose session is lost is reported as done (`services/terminal_service.rs:388`).

## Not modelled

- SSH certificate authority (`ssh_ca.rs`): signs one certificate from its
  arguments; no state, nothing concurrent.
- Command queue: commands are validated and stored as queued; no code executes
  or changes one.
- Audit log: inserts whose failure is ignored and that nothing reads back.
- Configuration, routing, OpenAPI, start-up, error formatting: no state machine.
- Dashboard: rendering and fetch calls; its one piece of logic memoises a promise
  per page.
- Address arithmetic (`validate_cidr`, the overlap test, host numbering): pure
  functions of parsed prefixes; the network models take ranges and hosts as names.
- The development store `InMemoryAuthStore`, token encodings, signatures, HMAC and
  the 60 s leeway of the JWT library.  Which claims a validator asks for is modelled.
- The Proxmox task behind `PUT /network`: the client takes the configuration as
  applied on any 2xx answer, and `ApplyConfig` with it.
- Read-only handlers, but for those whose answer a property is about
  (`Listed`, `Pending`, `Members`).

## Plan

The safety properties of every modelled component are proved.  Left are the
hazards no property covers yet (they are listed with the reason), and
theorems that compose: that networks and lifecycle share no state on the node is an
argument of this document, not of a module.
