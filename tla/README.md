# A TLA+ model of Yuanshu

Yuanshu lets a browser operate Agents (Codex, for now) that run on somebody's
machines. A **Node** runs beside the Agent; a **Server** relays between Nodes
and browsers; a browser signs every control and the Node checks the signature
itself, so the Server can delay or drop messages but not make them up. Threads
are long, connections are short, and two browsers may look at one Thread: the
hard part of the program is what survives reconnections, crashes, races for
one Thread, and logs that are pruned while they are read.

This directory models that part. The modules are written from the Go and
TypeScript sources; `PROJECT.json` maps every definition to the lines it
stands for.

    tlc -workers 2 -config MCLeaseHub.cfg MCLeaseHub    a model-checking run
    tlapm LeaseHubProofs.tla                            the proofs of a module

## 1. Inventory

| Component | State | Operations | What is hard | What makes it correct | Modelled in |
|---|---|---|---|---|---|
| Lease store (`server/store/leases.go`, `admin.go`) | one row per scope: holder, epoch, expiry | acquire, takeover, renew, release, read, administrator's release | expiry, expected epochs, epochs after a release | epochs are never reused, a lease changes hands only with a new epoch | `LeaseTable` |
| Hub, lease handling (`server/lease_hub.go`, `hub.go`) | a mutex per scope, registered connections | validate, check and forward a control, answer, announce | check-then-forward, a replaced connection whose goroutine still runs, the administrator who takes no mutex | controls reach the Node under the current epoch, frames in record order | `LeaseHub`, promise in `LeasePromise` |
| Browser lease client (`web/src/relay/control-client.ts`) | a view per scope, renewal timers, pending requests | acquire, takeover, release, renew, look up, apply announcements | answers and announcements race, connections break with requests under way | the view ends at the row; a takeover is of the holder shown | `LeaseClient` |
| Event store (`node/store/events.go`) | log rows, head, byte total, outbox | append, prune, replay, acknowledge | retention by age and size in one pass, a clock that steps back | an unbroken suffix with its newest event | `EventStore` |
| Event log and delivery (`node/eventlog`, `node/control_session.go`) | log, `deliveryMu`, bound transport | publish, replay, recover, complete a control | two publishers, replay in two statements, delivery after append | append-only log; a replay is not interleaved; gaps are told | `EventLog` |
| Browser event stream (`control-client.ts`, `storage.ts`) | cursor, buffer, replay state | apply, buffer, replay page by page, snapshot recovery, reset | duplicates, holes, a callback that throws, lost controls | the cursor never skips, and no hole is left without a snapshot asked for | `EventStream` |
| Control execution and approvals (`node/control_session.go`, `node/store/controls.go`, `approvals.go`, `trust_replay.go`) | control rows, approval rows, highest sequence | validate, begin, dispatch, claim, answer, complete | crash inside a control, redelivery, timer against control | an effect at most once, one answer per request, final decisions | `AgentControl` |
| Codex adapter (`adapter/codex`) | client generation, Thread rows, pending requests, event channel | start or replace the process, start and steer a Turn, answer, expire, close | process dies at any step, late notifications | a Thread recorded idle is idle | `AgentControl`; its place behind the router in `RuntimeRouter` |
| Runtime manager and router (`node/runtime`) | an entry per Agent instance, event channels, session and task bindings | open, fail, close, route a call, bind a session, merge events | events before their session is bound, full buffers at a stop, a kill that leaves a Thread uncertain | events in order; a task is its session; a stop ends | `RuntimeRouter` |
| Node host (`node/host.go`) | the life of the parts, its mutex, `activeConfig` | start, reload, fail, shut down, local commands | waiting for a part while holding the mutex, recovery after a kill | what runs is one configuration; the mutex is given back | `NodeConfig`, `RuntimeRouter`, `AgentControl` |
| Configuration (`node/config_controller.go`, `config/store.go`, `node/store/config_changes.go`) | file and backup, pending changes | remote update, confirm, reject, local update, migrate | three writers, reload that fails half-way | no relay that nobody confirmed; parts agree | `NodeConfig` |
| Relay supervisor (`node/relay_supervisor.go`) | the connection's loop | connect, serve, reconnect, close | its replacement waits for it | one at a time | `NodeConfig` |
| Relay transport (`transport`) | bounded queues, loops | dial, send, receive, end | full queue, end while sending | frames or an end | `EventLog` (part) |
| Pairing and trust (`server/pairing.go`, `server/store/pairing.go`, `node/pairing.go`, `node/store/trust_replay.go`) | pairings, clients and the trust revision at the Server; trusted keys and the applied revision at every Node | create, claim, decide, revoke, poll the manifest | the key is trusted before the Server confirms; lost and late answers; overlapping polls; a manifest read in two statements | a Node obeys only keys the Server backs; a revocation reaches every Node and sticks | `Trust` |
| Enrollment of further Nodes (`server/node_enrollment.go`, `server/store/node_enrollment.go`, `node/node_enrollment.go`, `server/node_sessions.go`) | enrollments, Node rows, connections and their sessions, the candidate's credential | create, claim, decide, expire, cancel, activate, revoke | authentication and transaction are apart; repeated and rival claims; lost answers | who was signed for is who is admitted; a revoked issuer admits nobody; a Node stays, enrollments keep the limit | `Enrollment` |
| First set-up and identity of a Node (`node/setup.go`, `identity_repair.go`, `node/identity`, `server/node_invitations.go`, `bootstrap.go`) | key file, identity row, configuration, the relay's CA; secrets and invitations at the Server | exchange, submit, redeem, bind, save, repair | lost answers, overlapping submissions, kills between two files | a machine is bound to the row of its own key; a failed attempt breaks nothing | `NodeSetup` |
| Server administration (`server/admin.go`, `server/store/admin.go`) | challenges, sessions, idempotency cache, audit log | log in, sign, revoke, admit, cancel, invite | checks, transaction, clean-up and audit are apart; repeats; restarts | one effect per signature, recorded success, no lost update, revoked means out | `AdminService`; the lease release in `LeaseHub` |
| Server's files (`server/init.go`, `setup.go`, `backup.go`, `certificate_*.go`, `acme_provider.go`) | data directory: configuration, CA, certificates, ACME account, database | init, set-up, run, renew, restore, status | kills between writes, commands without the lock | clients' root is not lost; what is served chains; a restore is exact | `ServerFiles` |
| Replay protection (`protocol/v1/validator.go`, `server/store/replay.go`, `trust_replay.go`) | nonces, sequences, keys | check and record | redelivery | a control is accepted once and in order | Node side in `AgentControl` |
| Web projection, notifications, probes, standalone mode, catalogues, platform layer | | | | | not modelled, see 6 |

How they interact: a browser's control goes over the Hub (which checks the
lease and forwards it to the Node's relay) to the Node's `ControlSession`,
which handles one at a time and calls the router, and the router the adapter. What the Agent does comes
back through the adapter's event channel, the pumps of manager and router, the event pump and the log, and
leaves as numbered frames that the Hub hands to all browsers of the owner. The
result of a control is such a frame too. Leases are the Server's alone: the
Node never sees them. Which browsers' keys a Node accepts is decided at a Node by
a person, recorded by the Server, and copied by every Node of the owner. Nodes are admitted by
a bootstrap secret, by an invitation, or by a Node that is enrolled.

The hazards of each component, at the line where they bite, are listed in
`PROJECT.json`, with the properties that would catch them going wrong.

## 2. Modules

`LeaseTable` has the store's operations as functions of a row; `LeaseHub`
and `LeaseClient` extend it, and `LeaseHub` instantiates `LeasePromise`, the abstract
specification it implements. `EventStore` has the operations of the log, and `EventLog`
extends it. `EventStream` is written over what `EventLog` establishes, `RuntimeRouter`
over what `AgentControl` does inside a call. The others stand alone. `MC...` modules only choose
constants and, in three cases, restrict who does what at once (the scenes of `admin` and
`node_setup`; overlapping polls of `trust`);
`...Proofs` modules hold the theorems, four of them those of two components that belong together:
`LeaseHubProofs` also those of `LeaseClient`, `EventLogProofs` of `EventStream`, `EnrollmentProofs` of
`NodeSetup`, and `AdminServiceProofs` of `ServerFiles`. That is why the second of each pair calls its
specification `ClientSpec`, `StreamSpec`, `SetupSpec`, `FilesSpec`.

**LeaseTable.** A row is `[holder, epoch, expires]`. `AcquireLease`,
`RenewLease`, `ReleaseLease`, `Lease`, `AdminMatches` return the new row, the
record sent and the error class, each one transaction in the code. When the database fails,
the transaction is rolled back and the caller gets the error with an empty record (`Failed`), which
the handler sends like any other: state and epoch of nothing.

**LeasePromise.** What the Server promises about a scope, without mutex, connections, clock and
messages: a lease with a holder and an epoch, a permit the holder gets for a control, used or
dropped before anybody else obtains the lease.

**LeaseHub.** One scope, the `route` goroutine of every control connection and
the administrator's handler. `Receive` takes a control and the scope's mutex;
`HandleLease` is the transaction of `handleServerControl`, which may fail; `Announce`,
`BroadcastDone`, `Reply` what it sends before it unlocks; `CheckLease` and
`Forward` the check-then-forward of a guarded control. `AdminRelease` is the
UPDATE of the administrator, which takes no mutex (what he then announces is in `LeaseClient`). Every field
of a request is the client's claim, so requests are any member of `Claims`.
`controls` is the registry: a new connection of a client replaces the old one,
whose goroutine goes on until its `route` returns; `DisconnectControl` (a revocation) and `Close` (the
Server stops) take a connection out of it while its goroutine is anywhere. `Promise` maps the row to the abstract
lease and the control between check and send (`PermitOut`) to the abstract permit.

**LeaseClient.** Browsers with their sockets, and the Server's handler as two
steps (the transaction; everything it sends), which `LeaseHub` justifies by
mutual exclusion and frame order. `view` is the browser's lease map, `timer`
its renewal. Requests of a broken connection may be handled at any later time
(`HandleOrphan`) or never (`DropOrphan`). `HandleFails` is the answer of a store that failed, of which
`leaseFromResult` makes a lost lease of epoch 0 (`Blind`): the browser then offers to acquire against
epoch 0, and the refusal shows it the row. The administrator's release, read and announcement are three steps
without the mutex; `crossed` records that a handler ran in between, or that the read failed and nobody was told.

**EventStore / EventLog.** A stream is `[latest, total, log, outbox, pending, acked]`; the
log maps sequence numbers to `[at, size]`. `pruneEvents` walks from the oldest
row and stops at the first one that is neither too old nor over budget.
`EventLog` adds the pump and the handler: an append is a step, taking
`deliveryMu` is one, the hand-over to the transport is one. A transport is
bound (`DialRelay` succeeded), muted (its queue was full) or gone (one of the loops of the
relay ended it, so `Receive` fails). `ReplayHead` and `ReplayRowsRead` are the two
statements of `ReplayEvents`. `Crash` loses all but the store.

**EventStream.** One browser and one Node's stream. Handlers of the browser run
one after the other (`eventChain`), so each is a step. The Node's handler (`job`) takes several: a replay reads
the head (`Handle`), reads and sends a page (`SendPage`), appends its result (`Completes`) and sends it, holding
`deliveryMu` (`Gated`) while the pump goes on appending; a snapshot is published and sent without it. The log
keeps its newest rows, so that a cursor may fall behind while it is replayed. `Presence` sets the flag
without which no recovery control is sent. `lost`, `missed` and `refused` are histories that the properties name. `startReplayForNode`,
`applyOrBuffer`, `flushPending`, `finishReplay`, `requestSnapshots` are operators
on the browser's record with the names they have in the code.

**AgentControl.** The session, one consume goroutine per Codex process, the
approval timers, the event pump and Codex. The control's way is one action per
step that another actor can observe: `Accept` (validation and `CheckAndRecord`),
`BeginControl`, `MarkDispatching`, then `CheckThread`, `EnsureClient`, `EnsureLoaded`,
`SaveStarting` ... `NoteTurn` for a Turn, or `ClaimApproval`, `TakePending`, `Answer`
for an approval, and `CompleteControl`. `Shutdown` and `CloseRuntime` follow the order
of `closeResourcesLocked`; `RelayClosed` is a change of the relay, or an event that could not be
recorded, which cancels the control under way and leaves Runtime and Codex alone; `Crash` is a kill, after which Codex ends with its
standard input; `Start` and `Reconcile...` are the recovery. Codex itself is
external: it starts Turns, asks, withdraws, completes and exits as the adapter
expects it to. Abstracted: one Thread; a question to the user counts as an
approval request; an answer written to a live process arrives; a full event
channel is the fault `drop`, a failing workspace or store look-up `deny`, an error from
Codex `refuse`.

**RuntimeRouter.** The Agent side from start to stop, with two configurations in succession.
`RegisterWorkspaces`, `RegisterAgents`, `OpenNext`, `NewRouter` and `ReconcileThreads` are
the steps of `reload`; every instance has a runtime with its queue, the manager's pump with its buffer,
and the router's pump, which binds an event to a task and puts it into the channel all share. There is one
caller, since the control session is the only one and the host's mutex orders it with starts and stops.
`Stop` and `CloseStep` follow `closeResourcesLocked` and `Manager.Close`; `Kill` keeps the
tables and the sessions Codex has on disk.

**NodeConfig.** The file and its backup, the change table, the host's mutex and what runs under it
(`active`, `rows`, `retention`, the supervisor), reload goroutines, local commands, and
relay supervisors as small programs (`connect`, `migrate`, `online`, ...). A save is the write of the
backup and of the file with the load it was computed from some steps earlier; one that fails may have
replaced nothing, the backup, or the file too (`SaveFails`: the directory is synced after the rename). `ApplyFails` is
a reload that fails at any step before the supervisor is touched. Its rollback drops the error of each of its
own steps: the file may be left in any of those ways, and the rows as they are or half new (`torn`, until the
next reload). The retention of a valid configuration is always accepted (`eventlog/manager.go:115-123`), and a
supervisor can always be made from it (`relay_supervisor.go:63-66`), so the steps behind `Reconfigure`, which the
rollback does not undo, do not fail. A configuration is four settings, one
for each way the code treats one: applied at once, relay, permission, legacy credential.

**Trust.** The tables of the Server (`pairing`, `clients`, `revision`), those of the Nodes
(`trusted`, `applied`) and the HTTP calls between them. `Decide` of the Node is `Pending`
(it lists the claimed pairings), `PutTrustedKey`, `ServerResolves` or `CallFails`, and
`Withdraw`, the compensation, whose error is dropped (`WithdrawFails`). A call may fail before the Server acts, after it, or be carried
out when nobody waits any more (`ServerDecidesLate`). `Revoke` is local first and then a
DELETE that may be lost; `AdminRevokeControlClient` is the Server's own. A poll is
`StartSync` (the revision is read), `ReadRows`, and `ReconcileTrustManifest`; polls of one
Node overlap, because a reconnect starts a new loop without waiting for the old one's
call. `Crash` stops a Node; what its calls sent may still arrive. A client stands for
its id, key id and key. An expiry, which the Server writes when it next reads the pairing
and before it acts on it, is the step `ExpirePairing`, like the administrator's cancellation. Signatures,
codes, the Node's session and the pairing setting only decide whether a call is refused,
which is a lost call. `revokedAt` and `stranded` are history.

**Enrollment.** A request of a Node is two steps: `Ask...` is its authentication (`Authenticated`: an
active Node with a session of its current connection), and `CreateNodeEnrollment`,
`ResolveNodeEnrollment`, `RevokeNode` are the transactions. `DisconnectNode` is what follows the
commit of a revocation. Candidates join, lose answers, stop and monitor; a claim carries the hash of
the credential the candidate has stored or draws. `Hello` and `Register` are the status
check and the registration of a connection. `InvitedNodeJoins` is the other writer of the Node table: a redeemed
invitation adds an active Node and counts nothing.

**NodeSetup.** Machines with the files of `node/setup.go` (`key`, `row`, `config`, `ca`), submissions as
programs over them, one file per step, and the Server's bootstrap row, invitations and Node
rows. Answers are lost, requests carried out late, submissions overlap, and a machine may be killed
anywhere; `torn` records machines where submissions overlapped or one was cut short. A save may take effect and
report an error (`SaveFailsLate`), and the clean-up, which drops its own errors, may leave the CA as it is (`CleanUp`): `parted`
records those machines. The repair of a
legacy identity is a program of its own over the same files.

**AdminService.** A request is a program: session, idempotency cache (`LookUp`, wait, `WakeUp`), authorization
by signed challenge, transaction, clean-up (`Afterwards`), audit, answer. Operations are
those of the console: to revoke a client, to change a setting (admit), to invite and to cancel.
Logins and Hub connections of clients are two-step as in the code. A change of the settings carries the revision its
sender saw. `NodeRevokesClient` and `NodeDisconnectsClient` are a Node's revocation, which takes any client, the last one too, and
closes its connection but no session. Restarting empties what is in memory.

**ServerFiles.** The data directory: `config`, the managed PKI (`cur`, what a command
moved aside, staging, kept directories), what is served, ACME account, archive and database with its log.
Commands are programs, one file operation per step; `Kill` ends them anywhere. Commands that
take no lock run beside the others. A disk that failed one rename does not fail the next: the second rename of a swap or a
roll-back succeeds. A start reads the configuration and takes the lock in one step, where the code takes the
lock a little later: what the model says of a running Server's configuration holds of the one it loaded. `mishaps` records the things known to go wrong (see 4), and a
property names those it excludes.

## 3. Runs

| Run | States | Bounds | Shows |
|---|---|---|---|
| `lease_hub` | 1.4 M | 2 clients, 3 connections, epochs to 2, one clock tick, a store that fails at any operation | `FencedForwarding`, `KeepsPromise` (implements `LeasePromise`), `LeaseFramesInOrder` |
| `lease_client` | 4.6 M | 2 browsers, 3 connections, one release by the administrator; a handler starts when all frames are read | `SettledViewIsCurrent`, `TakeoverAsConfirmed` |
| `event_log` | 0.7 M | 4 appends, 2 sizes, 2 clock readings, 2 retention settings | `RetainedSuffix`, `GapIsReal`, `ReplayUninterrupted` |
| `event_stream` | 3.0 M | pages of 2, buffer of 4, a log of 6; 4 scenes: a backlog of several pages beside another browser, a pruned log, a new log, a reconnect; with outages and throwing callbacks | `CursorConsistent`, `GapsClose` |
| `agent_control` | 4.5 M | 1 request, 3 controls, 2 Turns, 2 processes, 2 starts or a start and a change of the relay, all faults | `ExecutedOnce`, `IdleIsReal`, `AnsweredOnce`, `DecisionIsFinal` |
| `runtime_router` | 2.1 M | 2 instances and Workspaces, of which the second start has one; 4 events, channels of 1, a swapped directory | `EventsInOrder`, `TaskIsItsSession`, `UncertainHasTask`, `StopNotStuck` |
| `node_config` | 0.9 M | 1 change, 2 updates, 2 reloads, 2 supervisors, one fault | `AppliedTogether`, `OneSupervisor`, `RelayConfirmed`, `MutexIsReleased` |
| `trust` | 0.5 M | 1 Node, 1 client pairing twice beside one that stays, 2 overlapping polls until the one stop or failed withdrawal, a late decision | `TrustIsBacked`, `RevocationSticks`, `RevocationReaches` |
| `enrollment` | 2.3 M | 2 Nodes, one of them invited, 2 candidates, 2 enrollments, limit 2, 2 requests under way, one fault | `OneNodeLeft`, `AdmittedAsSigned`, `RevokedIssuerAdmitsNobody` |
| `node_setup` | 1.2 M | one machine with 2 submissions, or 2 machines, or a legacy one; 2 invitations, one fault | `BoundToOwnRow`, `ConfigIsUsable` (`CAFollowsConfig` and `ConfigHasIdentity`), `KeyMatchesRow` |
| `admin` | 1.9 M | 2 clients, 6 scenes of up to 3 requests, a Node that revokes, 2 faults | `NoLostUpdate`, `CarriedOutOnce`, `SuccessIsRecorded`, `RevokedIsLockedOut` |
| `server_files` | 1.5 M | 5 scenarios: managed CA with failures or beside a status, external, ACME, database | `CANotLost`, `CAContinuity`, `ServedChains`, `RestoreIsExact`, `AccountMatches` |

The bounds are chosen for the cases the hazards name. Two epochs and three
connections give a takeover, the answer to it, and a client whose old goroutine
overlaps its new connection; a third epoch adds only a repetition, and the
theorems hold for any number. In `lease_client` a handler waits until every frame is read; the theorems about browsers
have no such bound. Pages, buffer and log of `event_stream` stand to each other as in the code (256 and 512, and a log
longer than both): a backlog of 5 takes three pages and a result behind them, one of 7 has lost its
first row when the browser asks from 0, and the results of its own replays prune a log of 6 further. A conflict (a cursor beyond
the log) needs a Node that lost its database and does not occur. Four appends with two sizes and ages make pruning
stop for either reason while a replay of two rows is under way. Three controls are a
turn.start and two answers that compete; two processes and two starts are a
death, a crash or a change of the relay and what follows. A second request would share nothing with the
first but the Thread row, and a third Turn repeats the second. Channels of one event fill with three
events of one instance behind one of another. Two reloads are one that overtakes the other; two
supervisors one and its successor. Two pairings let a client pair again after its revocation;
two polls can arrive in the wrong order. Two candidates claim one enrollment, or compete for the one
place a Node leaves under the limit of two, with two decisions under way and an invited Node that comes and goes beside them. The
scenes of `admin` are a repeat under the same key and under another, two browsers that revoke each other, one key for several
operations, two changes of the settings, and a revocation beside a connection. A command, a kill and the command again is what `server_files` repeats at
every step.

Deadlock is checked where the system cannot stop (`event_log`, `trust`, `node_setup`). Elsewhere the
bounds (or a world in which nobody connects) let it stop.

**Fairness.** `Trust`: weak fairness of a `Decide` that began, whose calls have
timeouts; strong fairness of a Node's polls, since the loop ticks every 30 seconds
for as long as the Node is connected, and an outage of the Server is taken to end.
`NodeConfig`: weak fairness of supervisors, local commands, reloads and the failure handler, goroutines that
do nothing but wait for each other; the mutex is taken to be fair (Go's is, after a millisecond).
Nothing obliges a user, a browser or the network. `GapsClose` of `EventStream` is an invariant of the states in which
everything has come to rest, and needs none. `StopNotStuck` of `RuntimeRouter` is the
absence of a circular wait, stated with `ENABLED`, and needs no fairness.

Every property of a passing run has a mutant in `PROJECT.json`: an operator in the
module that changes one definition the way a bug in that code would, under
which the run fails.

## 4. What the models found

The properties of the passing runs hold, with the exceptions they name. Two formulas that the documents suggest do not hold, and the runs leave them out. Each gives a short trace when it is added to the
configuration of its run:

* `HistoryGapRecovers` (a `PROPERTY` for `MCEventStream.cfg`). The flag that a reset was tried sits in the `ReplayState` that the reset deletes
  (`control-client.ts:714-721`), so it is never found set. A browser behind a pruned log is told `history_gap` for cursor 0
  as well, resets again and again, and never asks for a snapshot, although `guides/web-workbench.md:27` says "gaps
  trigger snapshot recovery". The trace has ten states: a log that lost its first row, a browser that connects.
* `StartsAreConservative` (an `INVARIANT` for `MCAgentControl.cfg`). A change of the relay (`host.go:928`) cancels the context of a control under way. `mapCallError` passes the
  cancellation on (`codex.go:200`), `StartTurn` takes it for a refusal and records the Thread as idle (`runtime.go:359-368`),
  while Codex has the request and runs the Turn; a second `turn.start` is then let through. `README.md:40`
  promises "conservative handling of ambiguous operations". `IdleIsReal` is about runs without such a
  cancellation (`stray`).

These are the other behaviours of the code that
were met on the way and that a property either excludes or cannot be stated against.

Leases:

* A store that fails answers with an empty record (`store/leases.go:57-69`, sent at `lease_hub.go:152-158`): the browser shows a
  lost lease of epoch 0, also when it holds the lease. A failing look-up or renewal therefore drops a lease from
  the view that the row still has, until the next answer.
* The administrator's announcement is not ordered with those of the handlers (`admin.go:704`): one that a handler overtook
  shows an older state, and a release whose read fails is announced to nobody. `SettledViewIsCurrent` is about releases that
  met no handler (`crossed`).

Events and Agents:

* `ReplayEvents` reads head and rows in two statements (`node/store/events.go:178-223`). An append
  between them may prune rows the head still counted: the batch has a hole and its result says
  confirmed. (`GapIsReal` is the other direction: a gap that is told is one.)
* `finishReplay` counts only the frames it had not applied: a full page that repeats applied events counts short and ends the
  replay with a snapshot for what is missing; while a snapshot is outstanding already, nothing more is
  asked, and the browser waits for it (`GapsClose` counts that as waiting). A replay the Hub drops is never answered,
  and its entry keeps every later replay of the connection from starting (`lost`). A browser that takes the Node for offline
  sends neither replay nor snapshot until an event is applied or the next presence arrives (`refused`). An event whose callback
  threw is a hole the browser does not see before the next event, and on a full page it is replayed again and
  again (`missed`). `GapsClose` is about connections whose recovery controls are sent and answered.
* `ensureClient` may replace a dead Codex process before its loss is handled; the loss is then ignored, and a
  request of the dead process is answered to the new one and reported as confirmed, although
  `README.md:169` says "Ambiguous results remain visible instead of being reported as success".
* The 1.1 publication of an approval request rewrites the row the 1.0 publication made
  (`PublishV11`). Coming after a claim it resets the row to pending, `MarkApprovalAmbiguous` then does
  nothing, and the request that was taken stays open unseen. It also replaces the digest, so
  that a Protocol 1.0 answer is refused as a conflict.
* After a kill the Thread is still "active", recovery looks at Threads in "needs_reconcile" only
  (`host.go:290`), and a claimed approval stays "processing", although `ClaimApproval` says it will be
  reconciled (`node/store/approvals.go:84`).
* `leaseFromResult` shows a confirmed look-up of another client's lease as held; the Server refuses
  its controls all the same.
* The router's shared channel is filled by all instances: one that is not read holds up all pumps, and an event of a
  session that is not bound holds its pump for up to two seconds. `resolveTask` does not look at the
  Workspace's links again (`router.go:331`), and `ResolveInteraction` is not supported behind a `Handle`
  (`router.go:239`).

Trust and Nodes:

* When the answer to an acceptance is lost after a poll has already applied its revision, the
  Node withdraws a key the Server admitted, and polls of the same revision change
  nothing, so the two differ until the next revision. A local revocation whose DELETE is lost is
  undone by the next manifest with a higher revision. The compensation's own error is dropped (`node/pairing.go:210`): the
  key then stays trusted until a manifest newer than the applied one.
* The limit of five active Nodes is checked by decisions only (`store/node_enrollment.go:227`): a redeemed invitation adds one
  on top (`store/invitations.go:168`).
* `ControlHandler` reads the client's status before the handshake (`hub.go:278`) and does not look again when it
  registers: a client revoked in between keeps its relay connection (`stray`), and the Node refuses its
  controls once the manifest has arrived.
* The candidate's first manifest asks for a Node session that it cannot have yet
  (`node/node_enrollment.go:129` against `server/pairing.go`), so an approved join does not end in a
  bound Node (`TrustSyncAccepted` is `FALSE`); the test at `node_enrollment_test.go:66-90` stands in
  a Server that does not ask.
* Two set-up submissions that overlap restore each other's CA file (`node/setup.go:405`). So does a save that reports an error after
  its rename (`config/store.go:267-271`): the new configuration is on disk and the clean-up takes its CA away. The
  clean-up drops its own errors, and a kill skips it. After any other failure the CA is the configuration's.
* A rollback that fails to write the rows back, as it will when a locked database made the reload fail, leaves rows that do
  not follow the active configuration until the next reload (`host.go:405-413`).
* Changing the configuration: a remote update that was loaded before a local approval and saved after it
  writes the old, wider permission back. And a supervisor that migrates a legacy credential wants the host's
  mutex (`host.go:964`) that whoever replaces it holds while it waits for the supervisor's end
  (`relay_supervisor.go:210`): with such a credential the host may hang, which is why
  `MutexIsReleased` starts without one.

Administration:

* An administrator cannot revoke the last control client, but a Node can (`store/pairing.go:215-243` counts nothing): the owner
  then has to pair anew. A Node's revocation leaves the client's administration sessions, which
  no longer pass `requireSession`.
* A waiter that finds a new running entry after it woke gets an empty answer (`admin.go:208-222`,
  against `admin_test.go:121-123`). It does not compare the body again, and the digest is of
  the body alone, so one key used for several operations may be told of another's success. The
  console draws a key for every request (`admin-client.ts:90`).

Server's files:

* `cert status` and `doctor` build a certificate provider without the lock: they create roots and renew
  beside a Server or beside a command that has moved the directory aside; at its commit the command may
  then overwrite the CA that was kept. Key and certificate are two files, and concurrent
  renewals may mix them until the next renewal.
* A kill between the two renames (`certificate_staging.go:82-87`, restore-ca likewise) leaves no
  `pki/managed`: the next start silently makes a new CA, and the directory that was kept is never
  put back. A rollback that is cut short in `RemoveAll` may leave the leaf of the old CA beside a new
  root, whose issuer `renewManaged` does not check.
* `atomicWriteServerFile` has one name for its temporary file and may report an error after the rename; the
  rollback then removes the PKI the new configuration names. `init` refuses to run while
  `pki/managed` has no usable CA.
* A restore replaces `server.db` and leaves `server.db-wal` of a Server that was killed; the
  pre-restore copy has the main file only. The invitation of the set-up page is written after the
  lock is given back and may fall into a restore.
* Two ACME providers may store the registration of another key; issuance then fails for good. After a switch of the ACME
  environment the registration with the other authority is kept.

## 5. Proofs

All theorems hold for every value of the constants under the named assumptions
of the modules (`LeaseTableAssumption`, `LeaseHubAssumption`, `EventStoreAssumption`,
`EventLogAssumption`, `AgentControlAssumption`, `TrustAssumption`, `AdminAssumption`,
`EnrollmentAssumption`, `SetupAssumption`, `EventStreamAssumption`, `BudgetAssumption`, `NothingAssumption`, and
`ConfigAssumption` of `NodeConfig` and of `RuntimeRouter`), which give the
constants their types, and say that keys of the cache belong to a
client, that there is a Node, or a client, to begin with, that the value for "nobody", "no row" or "no file" is no
other value, that a certificate is renewed within its lifetime, and that a configuration lists an Agent instance once, which
`validAgentInstances` (`config/validate.go`) checks.

**LeaseHubProofs.** `HubInv` is the conjunction of `TypeOK`, `LeaseMutex`,
`NoTakeoverDuringForward`, `ForwardOrder` and `RecordOrder`. Mutual exclusion is inductive with
the types. The rest needs the others: that a forwarded control carries the
current epoch follows from its check having seen the row and from nobody but
the administrator having changed it since, which is mutual exclusion; a release by the
administrator raises the epoch and leaves the lease to nobody, so the order survives it. From `HubInv`:
`MutualExclusion`, `CheckedControls`, `Fencing`, `Ownership`, `FrameOrder`, `Registration`, and the
refinement `PromiseKept`: every step of the Hub is a step of `LeasePromise` or a stutter. A transaction either obtains,
ends, or leaves the abstract lease alone (`StoreOpMoves`); the permit is out only while its goroutine
has the mutex (`PermitFacts`), which is why nobody obtains the lease meanwhile.

For the browsers, `ClientInv` has three parts. `KnowInv`: whatever anybody holds about the lease (a request, a
frame, a view, the record of the handler or of the administrator) is of an epoch the row has had, and if that
is the current one names its holder or nobody; what is `Known` stays so, because a transaction makes one of the
moves of `NextRow`. The empty record of a store that failed is of epoch 0, which every row has had. `CountInv`: every pending request of a browser is on its way, being handled, or answered
and unread, one for one, so that an answer always finds the request it belongs to. `FreshInv`: while no
handler has crossed an administrator's release, a connected browser has asked, is about to be told (by the handler or by the
administrator), or was told last (`Told`, the last frame of its queue or, behind it, its view) the row's epoch or
that the store failed. `SettledBrowsersAgree` is the case
in which the first two are excluded; `TakeoverIsAsConfirmed` follows from `KnowInv` at the step of the
transaction, since an expected epoch that still fits names the holder that was seen.

**EventLogProofs.** `LogInv` says that the log is an unbroken suffix mirrored by the outbox
(`StreamInv`), that whoever is inside a replay holds `deliveryMu` (`GateOK`), that the head a
replay read is not beyond the log (`EarliestOK`), and that the rows it still has to send are
in order and behind the last frame (`RecordsOK`). Pruning needs no induction over rows: what
it keeps is defined by the first row at which it stops. From `LogInv`: `SuffixRetained`,
`LogAppendOnly`, `GapsAreReal`, `ReplayKeepsTheGate`.

`BufferIsConsistent` is about the browser. `Buffered` says that the buffer lies beyond the event after the cursor, within the
log and the limit. Every handler keeps it (one lemma each); the central one is `flushPending`, whose
loop is the interval of consecutive numbers that starts after the cursor (`RunIsInterval`), so that its end is a
cardinality and no induction is needed. `WireOK` says that frames carry numbers of the log, which only grows.

**AgentControlProofs.** `EffectAtMostOnce`: `ExecutedOnce` is not inductive, since a control
could have run before. `ExecInv` adds that controls beyond `highest` have had no effect
(`Fresh`), and that a control still on its way to the Agent has had none (`Untaken`). `Accept`
needs the first, every call of the adapter the second, and a crash at any point takes
the control back to no later place.

`ApprovalAnsweredOnce` and `RecordedDecisionIsFinal` share `AskInv`: until it is settled a request is
in exactly one place (the Codex process, its inbound messages, `pending`, the control that
took it out of there), and as long as it is in one it has neither an answer nor a decision, recorded
or in the events still to be published; behind a decision in the queue of events, or in the pump's hands, no event
about the same request follows. Taking the request out of `pending` is what all who
race for it do under the lock, so it is the step the argument turns on. `IdleThreadIsIdle` has `TurnInv`: at most
one Turn is running or has completed without being consumed, none when the row is idle, and none while a
`turn.start` is between its check and its call. It is lost when a start is cancelled that Codex already has, and
holds again from the next start of the Node (`StrayInv`).

**NodeConfigProofs.** `ConfigInv` holds who has the mutex (`MuInv`) and three facts that are needed because
a configuration is read some steps before it is used. `SupInv`: every supervisor but the host's has ended, since a new one starts
only after the old one was drained. `RelayInv`: whatever anybody still means to write or to apply (a
load made before the mutex, the next file of a save, the file a rollback puts back) has a relay that
is known, and a confirmed change stays as it was confirmed. `TogetherInv`: what each phase of a reload has applied so far, outside the rows a rollback could not write; at most
one reload is in such a phase because it holds the mutex. From it: `SupervisorIsAlone`, `RelayIsConfirmed`,
`PartsRunTogether`.

**RuntimeRouterProofs.** `TaskKeepsItsSession`: bindings are written back whole by whoever read them
earlier, so `TaskInv` says that the call under way and every pump hold a row of the session their task was
answered for; `told` only grows. `UncertainThreadHasTask`: the interesting step is the transaction of `ReplaceWorkspaces`,
which deletes Threads and bindings by their workspace. `PlaceInv` says that a row, also one in somebody's
hands, is of the workspace its session was made in, so that a Thread and its binding go together;
`KeptInv` and `EarlyInv` that nobody writes back a binding of a workspace that has just been dropped, since
pumps and calls only run after the registration; `BoundInv` that a Turn is only started for a session with a binding.
`EventsStayInOrder`: `Ordered` is a predicate on one source's events in the shared channel, behind it, and
in its queue, with lemmas for what forwarding, emitting, sending and consuming do to it. That consuming keeps it is a
fact about counting (`CountTail`), by a bijection rather than induction. The queue stays consecutive also while an
entry closes, when its pump may go on, and an instance is opened with everything empty
(`OpenInv`), for which the instances of a configuration must differ.

**TrustProofs.** `TrustIsBacked` is not inductive: a manifest on its way may make a key active, so
what it says must be backed already. `TrustInv` adds `Recent` (no revision in use is beyond
the Server's, and a row that says active is of a client that is active, or whose
revocation has a revision beyond the manifest's, because the revision is read before
the rows) and `Trusting` (only an acceptance puts a key). Three lemmas say how a step moves
the Server's clients (`ClientsMove`), the polls (`SyncsMove`) and the keys (`KeysMove`,
`KeysRise`), action by action; the invariant follows from these alone. From `TrustInv`: `Backing`
and `Sticking`. The order of the two statements in `ControlTrustManifest` is what both rest on.

**AdminServiceProofs.** `AdminInv` adds to the four properties what they rest on. `OnceInv`: the one
permit of a signed operation is in one place (`Permitted`): not signed yet, pending as a challenge, held by the one
request that may execute, or spent; an operation that needs no signature has its row closed by its first
execution. `RecordInv`: an execution that
committed has taken effect, and every success in the cache is recorded, because the entry is written
after the audit. `LateInv`: whoever sent a request after its revocation is not active, and never
becomes so. `UpdateInv`: a change of the settings that took effect was made from a revision below the present one,
so that the next one, which must match it, was not made from the same. From
`AdminInv`: `UpdatesAreKept`, `OnePermit`, `Recording`, `Revocation`. That no update is lost follows
from the revision compared inside the transaction, not from the check before it.

For `ServerFiles` the invariant `FilesInv` says what is on disk between any two writes of every program.
`ControlInv`: who holds `server.lock` holds it alone, a provider does what its mode says, and a command that
has a directory to install has a complete one. `InstallInv`: where the old and the new directory are at each step
of a swap or a roll-back, and that no provider works on the directory meanwhile; `RootInv`: one provider at a time gives a
directory a root, and only one without; `CopyInv`: where the roots given to clients are, which is `CANotLost`
at the moments when nothing is being installed and more than it at the others. `SoundInv` and
`LatestInv`: key, certificate and root in a directory belong together, and the
directory in use, or the one that a roll-back would put back, continues the root given last. The database
(`RestoreInv`) and the ACME account (`AccountInv`) are separate. A part holds outside the
`mishaps` of its property; a lemma shows that no step takes one back. From `FilesInv`: `GivenRootsAreKept`,
`RootContinues`, `ServedIsOwn`, `RestoredAsPacked`, `AccountIsConsistent`.

**EnrollmentProofs.** `EnrollmentInv` adds `OpenIsIssued` (an open enrollment has an active issuer: a
revocation closes the enrollments of its Node in the same transaction) and `RequestsFit` (a decision under way
is about the claim its row holds, since a claim is only ever replaced by an equal one, and no
two requests create one row). `Moves` says which transaction a step is, and the five parts are
then proved one by one. From it: `NodesBounded`, `SignedAdmission`, and `NoLateAdmission`, which is
`OpenIsIssued` read at the step that admits.

For `NodeSetup` there are three invariants over the types. `IdentityInv`: one submission of a machine at a time is
between its key and its row, and then there is no row yet; a repair that has moved the row aside remembers
one that fits the key file until that is moved too, so that rolling back from any point restores a
matching pair. `BindingInv`: the answer a claim is given, the row of the bootstrap secret
that may be repeated, and every identity row, also one moved aside, name a Node row with the same key, and nobody is admitted
before there is an owner. `CAInv`: on a machine that is neither torn nor parted the one submission under way has its
own CA on disk and remembers the one to put back, or has not touched it. From these: `IdentityKeepsItsKey`,
`BindingIsOwn`, `CAStaysWithConfig`, and `SavedNodesHaveIdentity` (`ConfigInv`): the row is in place before a
submission can reach its save, and a repair takes the configuration away before the identity. The last two
together are `SavedConfigIsUsable`.

Only model-checked: the liveness properties (`RevocationReaches`, `MutexIsReleased`), which
need fairness, and `StopNotStuck`, which needs `ENABLED`: both are out of the prover's reach, as are facts
about recursive definitions for every input; and `GapsClose`, whose proof would have to follow every recovery control
through the Node's handler. Every other property of a passing run is a theorem.

## 6. Not modelled, and what is next

Not modelled: the Server's own replay table (one INSERT whose conflict refuses the frame);
notifications (deduplicated rows); the second log for Protocol 1.1, which is the first one under
another name; the translation of Codex messages into text; the browser's projection and pages, a
fold without concurrency; the console's and tray's pages; standalone mode, which wires the
parts together in one process; command lines, catalogues and other generated code; the platform layer; the
probes and the proof of concept, which no production path uses.

Next, in this order:

1. `ControlPath`: sequence and nonce from the signing browser over the Server's replay table to the
   Node's, with the keys of `Trust`, as a refinement of a register of accepted sequences.
2. `RelayLink`: the loops of a relay with queues of one, composed with the supervisor of `NodeConfig`.
3. `Projection`: the browser's fold of events against snapshots, compared with a reference fold.
