# Opale: verification project

Opale is a self-hosted tool to manage a fleet of machines: an API (Node, Fastify,
PostgreSQL) under `api/`, an agent for Windows in Go under `agent-go/`, a command
line tool in Go under `cli/`, and a front end without framework under `front/`.
This directory holds TLA+ modules translated from that code, the TLC
configurations that check them on small instances, and theorems checked by TLAPS.
Paths in this file are relative to the root of the repository;
`PROJECT.json` maps every definition to the lines it models.

## 1. Inventory

### The parts and their state

| Part | State it keeps | Operations | Talks to |
|---|---|---|---|
| Packages and deployments (`api/modules/inventory/routes/packages.js`, `deployments.js`, `lib/deployment-snapshots.js`) | tables `packages`, `deployments`, `deployment_snapshots`, `deployment_jobs` | create, edit, approve, deploy, cancel, cancel-all, delete, retry, retry-bulk | the checkin reads and writes the same rows |
| Agent checkin (`api/modules/inventory/routes/agent.js`, `POST /checkin`) | the same tables, `agent_tokens`, `devices`, `script_executions` | apply results, fan out jobs, select, claim, reply | the agent's cycle; every admin route |
| Agent cycle (`agent-go/loop.go`, `checkin.go`, `exec_*.go`, `state.go`) | result queue in memory and in `state.json`, the work of the last reply | checkin, acknowledge, execute, queue and save a result, check in again | the checkin handler |
| Periodic cleanup (`api/plugins/cleanup.js`) | none | time out stuck deployments and scripts, purge | deployments, scripts |
| Agent WebSocket and consoles (`api/modules/inventory/lib/agent-ws.js`, `routes/agent.js` `/ws`, `api/modules/remote/`, `agent-go/ws.go`, `console.go`) | registry of connections, registry of console sessions, `remote_sessions`, PTYs on the agent | connect, supersede, evict, heartbeat, grant, open, take over, close | tokens, browsers, agent |
| Tokens and enrolment (`routes/agent.js`, `lib/device-claim.js`, `agent-go/rotation.go`) | `agent_tokens` on the API, the token on the agent | exchange, rotate, revoke, claim a device | checkin, WebSocket |
| Agent update (`agent-go/update.go`, `service_loop.go`, `tamper.go`) | three binaries on disk; the surveillance window, the failure counter and the integrity baseline in `state.json` | replace, watch, roll back, restart | checkin reply |
| Scripts (`routes/scripts.js`, checkin, `cleanup.js`) | `script_executions` | queue, claim, result, time out | agent |
| LAPS, credentials (`agent-go/laps.go`, `routes/admin-credentials.js`) | local administrator's password on the machine, its escrow in the API | rotate, escrow, recover | checkin |
| Linux fleet (`api/modules/linux/`) | `linux_device_keys`, `linux_preregistrations`, rows of `devices`, nonces, escrow, git mirror | enrol, approve (new, conversion, re-image), reject, revoke, checkin, escrow | shares `devices` with the agents' checkin and with Intune |
| Email bridge (`api/modules/email-bridge/`) | outbox columns of `ticket_messages`, poll cursors, inbox | poll, process, send, mark read | Microsoft Graph, tickets |
| Tickets, hardware, onboarding, groups, monitoring, ask (`api/modules/...`) | their own tables | request/response routes | each other through SQL |
| API frame (`api/lib`, `api/plugins`) | migrations table, rate limits | load modules, migrate, shut down | all |
| CLI, front, demo, landing, scripts | user side only | | API |

### What is hard

* **A request is not atomic.** Each `await` of a handler lets others run; most
  admin routes check with one SQL statement and write with another.
* **At-least-once results.** The agent keeps a result until a checkin that
  carried it is answered; a lost reply sends it again, maybe after the
  deployment was timed out and retried.
* **At-most-once work.** A claimed deployment travels in one HTTP reply. If it is
  lost, nothing resends it; the timeout settles the row.
* **Approval against distribution.** What runs on a machine as SYSTEM must be the
  content that an admin approved, although edits, approvals, queueing,
  selection and claims interleave.
* **State machines that survive crashes.** The rotation of the local
  administrator's password and the replacement of the agent's binary each write
  several places (account, server, `state.json`, files) that no transaction
  joins, and must resume from whatever mixture a crash leaves.
* **A cursor over a list that others change.** The mail poller must lose nothing
  although pages split equal dates, mails appear late, one mail fails for ever
  and a human moves the cursor.
* **Two managers of one row.** A Windows row of `devices` may be converted to
  Linux while its agent's checkin, an Intune sync or a token exchange, which do
  not take the enrolment's lock, are about to write it.
* **Two ends of one session.** A console exists in the browser, in two maps and a
  table of the API, and as a process on the agent, tied by two WebSockets that
  fail separately.

`PROJECT.json` lists these hazards with their lines and the properties that
catch them.

### What makes each part correct

* Deployments: the outcome shown is the outcome of the attempt shown; only
  approved content is claimed and run; an attempt is claimed once; every pending
  row that has its snapshot is eventually claimed; every claim that is not lost ends.
* Consoles: the session that occupies a device is tied to its present connection;
  a shell dies with its session; a revoked credential loses its connection.
* Tokens and Linux keys: an approved key speaks for one device, which nobody else
  speaks for; what an admin refused stays refused; a Windows agent has no say on a
  device once it is converted, but for the requests it had under way.
* Outbox: a message is sent at most once unless its send is ambiguous; it is
  eventually sent or marked failed.
* Poll cursor: no mail is passed unseen, none is abandoned for another's failure,
  each is ingested in the end.
* Update: a binary that cannot report is left, what a rollback restores has worked
  on this device, and a good version is installed in the end.
* LAPS: whenever no stash is kept, the escrowed password is the one in place, and
  after any failure the two come together again.
* Scripts: as deployments, with weaker guards.

## 2. Plan

Written, in this order: `Deployments` with its abstract specification `Attempts`
(section 3), `Consoles` (4), `Outbox` (5), `Laps` (6), `AgentUpdate` (7),
`MailPoll` (8), `Enrolment` (9). `Deployments` composes the API with the agent,
`Enrolment` composes the Linux fleet with the tokens of the Windows agents; the
others share nothing but the checkin that carries them.

Next:

1. `Scripts` (script executions: claim without a token, timeout, late result).
2. The rest of the email bridge: what a mail becomes once ingested (threads,
   pending review, mark-read).
3. Pure algorithms against reference definitions: maintenance window, version
   comparison, thread matching, ticket relations.

## 3. Package delivery: `Deployments`

### The model and the code

One step is one SQL statement, one message, or one step of the agent; everything
that two `await`s separate is separated. A transaction of several statements
(only approve has one that matters) writes at its COMMIT and locks the package's
row until then (`Locked`).

| State | Code |
|---|---|
| `pkg[p]` | row of `packages`: status, and its content as a version number |
| `dep[i]` | row of `deployments` joined with its row of `deployment_snapshots`; `claim` is `started_at`, the claim token; `snap = 0` means no snapshot |
| `job[j]` | row of `deployment_jobs` (a scope that goes on creating rows) |
| `claims` | the claim timestamps issued so far |
| `checkin[q]` | a `POST /checkin` in progress: which statement is next, what it has read |
| `admin[a]` | an admin request of several statements in progress |
| `apc`, `conn`, `mem`, `disk`, `todo`, `unsaved`, `follow` | the agent: place in its cycle, request it waits for, result queue in memory and in `state.json`, work left of the last reply, result not yet queued, follow-up checkins made |
| `approved`, `ran`, `lost` | history: contents approved, executions made, attempts a failure lost. No guard reads them |

Actions are named for the handlers; their lines are in `map`. Packages:
`CreatePackage`, `EditPackage`, `ApproveCheck` / `ApproveRefresh` /
`ApproveCommit`, `DeployCheck` / `DeployJob` / `DeployRow` / `DeployEnd`,
`CancelAllRows` / `CancelAllJobs`, `CancelJob`, `DeleteCheck` / `DeleteCommit`.
Deployments: `CancelDeployments`, `RetryBulk`, `RetryRead` / `RetryConflict` /
`RetryUpdate`, `TimeoutStuck`, `AdminFails`. Checkin: `ApplyResult`,
`ResultThrows`, `ResultsDone`, `FanOut`, `Select`, `ClaimJobs`, `CheckinFails`,
`ReplyUnread`. Agent: `SendCheckin`, `GiveUp`, `ReceiveReply`, `SaveAcked`,
`Execute`, `QueueResult`, `EndCycle`, `Crash`.

Abstractions: a statement is atomic, except for the approval's transaction; the
content of a package is a version number, an exit code 0 or 1, a claim time a
counter, so no two claims have the same microsecond; time is left out, so the
timeout may strike any set of the oldest running rows at any moment; the order
of the queue is left out, a batch is any set the LIMIT allows; whether a job's
scope holds a device is a free choice of each fan-out; results are sent as any
non-empty part of the queue (the code: its first ones); a deleted job is a
cancelled one. `offer` and `follow` only matter to agents before 2.15.3
(`Legacy`). PATCH reads the package before it writes, but writes the same
status whatever it read, so one step models it.

### Runs

| Run | Question | Bounds |
|---|---|---|
| `delivery` | is no claim taken over and none forgotten, with every admin operation and an agent that drops the work of some replies (`Legacy`) | 1 row, 2 simultaneous checkins, 2 claims, 1 failure |
| `approval` | is only approved content queued, claimed and run; is the outcome the current attempt's; do the tables implement `Attempts` | 2 admins, 1 checkin, 2 contents, 2 claims, 1 failure |
| `liveness` | is every row that has its snapshot claimed, does every claim end | 2 packages, 2 contents, 2 rows with a batch of 1, 2 claims, 2 admins, no failure |

Two claims are enough to confuse two attempts of a row, two contents to confuse
an old approval with a new one, two checkins or two admins to interleave any
pair of requests; a batch of one with two rows makes the LIMIT bite. In `liveness` one admin
edits and approves a package while the other deploys, so that one row may wait without
a snapshot, for ever, beside the row that must be claimed: only the order of the
selection (`agent.js:1259`, rows without a snapshot last) keeps it from filling the
batch. `Approvers` and `Deployers` give each admin of that run one task and `Frozen`
keeps the second package from being edited, to bound the states; with failures too
there would be too many for a liveness check, and the other runs have them. The
failures (`MaxFaults`) are: a lost request or reply, a handler that throws, a
failed save of `state.json`, a crash of the agent. `AdminOps` names the admin
operations of a run. `approval` leaves out the single retry, whose race (below)
breaks the ledger, and cancel-all and the deletion of a job, which `delivery` has. That
the outcome is the current attempt's in spite of a single retry (hazard
`deployments.js:154`) is therefore shown by the theorem `OutcomeIsTheAttemptsAlways` only.

Four races are in the model, and the code lets them happen; the properties say
what holds in spite of them:

* A row queued between the refresh of an approval and its COMMIT has no snapshot
  and is never distributed, although "ils partiront avec le contenu que l'admin
  vient d'approuver" (`packages.js:299-301`). It never carries another content, and
  `PendingIsClaimed` speaks of the rows that have a snapshot.
* Two retries of one row both pass the check of `deployments.js:139`, and the
  second UPDATE (line 154) may reset a row that has been claimed in between; the
  outcome shown is still that of the current attempt.
* A fan-out between the two statements of cancel-all queues a row again
  (`packages.js:193`); a row queued or claimed between the check and the DELETE of
  a package goes with it (`packages.js:276`).
* A scoped deploy inserts its job and then the rows (`packages.js:433`): a fan-out
  in between may create and claim a row, and the loop then creates a second one.
  The approval names no version of what it approves (`packages.js:287`): what it
  approves is the content at the COMMIT.

### Fairness

`FairSpec` assumes that the API answers the requests it accepted (each statement
eventually runs), that an agent that is up goes on with its cycle (it is a loop
with a 15 minute timer, and every request has a 60 s deadline), and, strongly,
that a selection is made again and again inside the maintenance window with no
update on offer. Nothing forces an admin to act, nor the timeout to strike:
`RunningEndsUnlessLost` holds without it.

### The abstract specification

`Attempts` says what a reader of a row may rely on: a row moves from the queue to
an attempt, an attempt is executed at most once, and a row shows a result only
if its current attempt was executed with it. `KeepsTheLedger` instantiates it
with `status`, `claim`, `clock` and `done` read from `dep`, `claims` and `ran`.
It holds without `POST /:id/retry` only: the UPDATE of that handler looks at the
status no more (`deployments.js:154`), and another retry and a claim between its
SELECTs and its UPDATE have it put a running row back into the queue, where it is
claimed and executed again. With "retry" among `AdminOps` and two requests, TLC
finds that trace. An agent older than 2.15.1 sends no token, and what it reports
late settles a later attempt (`agent.js`): the refinement assumes there is none.

### Proofs

`DeploymentsProofs` proves `TypeCorrect`: `TypeInv`, which adds to `TypeOK` the
links between requests, messages and rows (a result names a row that was
claimed, a delivery's claim number is at most `claims`, an agent waits for one
request), is inductive. The same module and `DeploymentsAccount` prove six of
the properties above for every number of devices, packages, rows, requests,
admins, claims and failures, from `DeploymentsAssumption` alone, and the refinement:

* `NoStaleSnapshotAlways`, from `QueueInv`. The property is not inductive: a
  commit writes what the refresh read earlier. `LockInv` says that two approvals
  never hold the lock of one package and that the package still is what it was;
  a row inserted under the lock has no snapshot.
* `ClaimedOnceAlways` and `ClaimsWhatIsApprovedAlways`, as steps of the same
  invariant.
* `OnlyApprovedRunsAlways`: every snapshot, delivery and execution holds a
  content of `approved`.
* `OutcomeIsTheAttemptsAlways`, from `OutcomeInv`: claim numbers are never used
  twice (`TokensInv`), what an agent has to do for the current claim holds the
  row's snapshot (`WorkInv`), and a result that travels was executed
  (`ResultInv`).
* `RunningIsAccountedForAlways` (`DeploymentsAccount`), from `AccountInv`: what the
  place of an agent or of a request says of what they hold (`Places`), deliveries
  and results are of rows of their device (`Owned`), a result its request has
  dealt with ended its attempt or was lost (`Told`). The lemma `Transport` says
  what one step does to deliveries and results wherever they are; `RunsSteps` and
  `ClaimsTravel` that a claim is new, and in its reply, when it is made.
* `AttemptsRunOnce` (`DeploymentsAccount`): an attempt is executed once at most, by one
  device, for every value of the constants: with the single retry and with agents
  before 2.15.3 too. `OnceInv` says that a delivery is in one reply or with one agent,
  and not executed yet. A run checks it through `KeepsTheLedger` only, which leaves
  these two out.
* `LedgerIsKept` (`DeploymentsAccount`): `KeepsTheLedger` for every value of the
  constants with `Legacy = {}` and no "retry" in `AdminOps`, from `OnceInv` again; one
  lemma per process (`PackageLedger`, `DeploymentLedger`,
  `CheckinLedger`, `AgentLedger`) maps its steps to steps of `Attempts`.

The step lemmas (`RowSteps`, `LockSteps`, ...) say once what each action may do
to a row, and the invariants' proofs cite them. Only model-checked: the
liveness properties (liveness under fairness is outside the prover's reach).

### Not modelled here

The deletion of a device and its cascade, the detections, `script_executions`,
the inventory data of the checkin, the contents of reports and audit logs.

## 4. Remote consoles: `Consoles`

### The model and the code

The API is one process, so what a handler does between two `await`s is one step
and reads and writes its maps together. The two ends of a socket are separate
states that fail on their own; frames of one direction keep their order.

| State | Code |
|---|---|
| `tokens[t]`, `evictions` | `agent_tokens`: the device of a valid token; the evictions that follow a revocation's UPDATE |
| `conn[c]` | an agent's WebSocket seen from the API: `auth` and `known` are the two awaits of the `/ws` handler before `register`, `closing` a socket closed whose `close` event has not run |
| `reg[d]` | `AgentWSRegistry.conns` |
| `up`, `pty[c]` | the agent's end of the socket and the shells it carries (`console.go`) |
| `toAgent`, `toServer` | frames on their way |
| `sess[s]` | a console request: grant, browser's handler (`takeover`, `insert`: its awaits), session |
| `sessions`, `byDevice` | the two maps of `ConsoleSessionsRegistry` |
| `tab`, `row[s]`, `ending` | the browser's socket, the row of `remote_sessions`, the rows whose `ended_at` is about to be written |

Agent connections: `Dial`, `AuthToken`, `HelloDropped`, `Register`,
`RecheckToken`, `Invalidate`, `Rebind`, `EvictTokens`, `EvictDevice`,
`SocketEnds`, `CloseEvent`, `Dispatch`. Agent: `AgentOpens`, `AgentCloses`,
`PtyExits`, `AgentDrops`, `AgentEnds`. Consoles: `Grant`, `GrantExpires`,
`Connect`, `AfterTakeover`, `Inserted`, `InsertFails`, `BrowserCloses`, `EndRow`.
`Close` is `ConsoleSessionsRegistry.close` up to its first await; `EndRow` is the
rest.

Abstractions: `recheckToken` reads the token and evicts in one step (only an
eviction that comes one await later is lost); any process that holds a token may
dial, with no order among dials; the data that the terminal carries, its
resizing, the session log, and the orderly stop of the API are left out; a frame
that is too large closes the session as the browser's own close does;
`AgentDrops` also stands for the write on the shared socket that a closed
session's context interrupts (`console.go:226`). A connection or a request
identifier is used once, so a run has as many connects and console requests as
it has identifiers.

### Runs

| Run | Question | Bounds |
|---|---|---|
| `sessions` | is the session of a device tied to its present connection, has every shell on an open connection and every open row a session | 1 device, 2 connections, 2 console requests, no failure |
| `service` | does the device get its shell or become free; does a shell without a session end | 1 device, 2 connections, 1 request, 1 failure, fairness |
| `tokens` | does a connection whose token is revoked or moved leave the registry | 2 devices, 1 token, 2 connections, no console, 1 failure, fairness |

Two connections of one device are what supersession needs, two requests what a
takeover or a conflict needs; one token that is revoked, expires or moves between
two devices needs both. The failures are a socket that drops although both ends
live, an UPDATE that fails, an INSERT that fails or whose answer is lost
(its row then stays open: `unended`); `sessions` has none, since a socket may end
there by itself in every other way, and two sessions with a failure would be too
many states.

Known limits of the code that the model has and no property denies: `create`
tests `byDevice` before an awaited INSERT and sets it after
(`console-sessions.js:62`), so two consoles opened together both pass and the
first is in `sessions` only; a hello that arrives before the listener of `/ws` is
attached (`agent.js:1616`) is lost, which leaves the connection without console
capability until it reconnects; a browser that closes during the awaits of the
handler (`console.js:226`) leaves a session until the agent goes or somebody takes
over. A stop without the `onClose` hooks would leave open rows: not modelled.

### Fairness

Handlers go on after each await; what was sent over a live socket is read; a
socket whose other end is gone ends (heartbeat with a late pong on the API, TCP
keepalive on the agent); the 30 s timer of a connection rechecks its token.
Nothing forces a person to open or close a console nor a shell to exit, and
nothing forces a device to dial again.

### Proofs

`ConsolesProofs` proves the four invariants of `sessions` for any numbers of
devices, tokens, connections and requests, and with any number of failures, which
that run leaves out. None of them is inductive alone, so the proof is of `IInv`:

- `Refs`: what the place of a handler or of a request says of the device and the
  connection it has read (a request past `connect` has a device, a session in
  `sessions` is `live`);
- `Links`: a registered connection belongs to its device and has not had its
  `close` event, so a late `close` cannot take a successor with it;
- `Fresh`: nothing was sent over a connection that is not registered yet, so a
  connection has no stray shell when it opens;
- `Holder`: `HolderIsReachable`, and the session names the device it holds. Every
  way out of the registry (supersession, eviction, `close`) closes the session of
  the device in the step that changes `reg`;
- `Shells`: a shell, and every `open` frame, has its session or is followed *on
  the same connection* by a `close` frame. The order of the frames is what makes
  this hold: an `open` still on its way cannot overtake the `close` of its session;
- `OpenRowHasSession`.

Two facts do most of the work: the sessions that a step closes are apart from each
other (`HeldApart`: each goes with its own connection), so that `close` adds its
frames at the end of each connection once (`CloseFramesTo`, `CloseFramesTell`);
and the agent's reading takes the first frame only (`ReadFrame`, `ReadOrders`).
The liveness properties `HeldIsServed`, `ShellEndsWithSession` and
`InvalidIsEvicted` are model-checked only.

## 5. Outbox of the email bridge: `Outbox`

### The model and the code

An admin writes an internal note and may then have it sent by mail; a worker of
each instance of the API mails what waits in the outbox. One step is one SQL
statement or one answer of Microsoft Graph.

| State | Code |
|---|---|
| `msg[m]` | row of `ticket_messages`: type, `email_sent_at`, `outbound_attempts`, `outbound_failed_at`. `m` is a number: the order of `created_at` |
| `state[i]` | an instance: running, stopping (`stopSignal` aborted, the tick in progress awaited), down |
| `tick[i]` | the worker's tick: the statement or call that is next, what is left of its batch, `attemptsBefore`, the retries after a 429 |
| `req[q]` | a send-by-mail request between its SELECT and its UPDATE |
| `accepted`, `ambiguous`, `reopened`, `lost` | history: mails that Graph accepted, those whose answer was lost, messages that send-by-mail reset in the outbox, claims that a crash, a failed statement or its lost answer left behind. No guard reads them |

Routes: `SendByMailRead` / `SendByMailUpdate`, `RetrySend`. Worker: `TickStarts`
(`nonOverlapping`), `PickPending`, `NextMessage`, `ClaimForSend`, `GraphAccepts`,
`GraphRefuses`, `GraphThrottles`, `WaitEnds`, `RecordOutcome` (`releaseClaim` or
`markFailure`). Process: `Stop`, `Stopped`, `Start`, `Crash`.

Abstractions: the requests of one delivery (createReply, PATCH, send, the new
mail after a 404) are one call with one retry counter, because only the last of
them delivers; the settings enable the worker; whether a ticket has a recipient
does not change (`NoRecipient`: its mappings have no `from_address`); a request
that was refused before its UPDATE is not represented; the clock is left out, so
a stop may be forced (`Crash`) at any moment.

### Runs

`outbox`: two instances, two notes of which the older has no recipient, two
requests, two attempts, one retry after a 429, two failures (crash, stop, lost
answer, failed statement). Two instances race for one message; two attempts
cover a retry and a give-up; two failures let a restart be followed by another
crash. It checks that Graph accepts a mail once unless the answer was lost
(which the worker's header comment accepts) or send-by-mail reset it; that a
message shown as sent, or as failed, is what it shows (`ShownIsTrue`); and that every message
with a recipient leaves the outbox.

The last property depends on a bound that belongs to the code: a message without
recipient is neither sent nor failed, so each tick picks it again, and MAX_BATCH
(20) of them, older than the others, block the outbox for good. The run has
fewer than `Batch` of them.

A second click on send-by-mail is not the no-op announced at `tickets.js:637`: the
type is checked in a SELECT and the UPDATE (line 667) has no guard, so it resets a
message that was queued or sent since, and it is mailed again. `reopened` records
these resets, and the properties except them and nothing else.

### Fairness

The timer ticks every 10 s, each request to Graph has a deadline of 30 s and each
wait one too, and the container restarts (`restart: unless-stopped`). Nothing is
assumed of what Graph answers, nor of admins.

### Proofs

`OutboxProofs` proves `TypeOK`, `SentOnce` and `ShownIsTrue` for any sets of messages,
instances and requests and any bounds, from `OutboxAssumption`. The inductive invariant
`IInv`, which TLC also checks on the instance of the run, adds to `TypeOK`:

* `Owned`: the claim is a mutual exclusion. A regular message (no lost answer, no reset)
  in the hands of a tick is claimed by it alone, and Graph has not accepted it.
* `Delivered`: the claim of an accepted regular message stays, so nobody claims it again.
* `Shown`: a failed message is not claimed, and a claim that no tick holds is a delivery
  or what a failure left.
* `Notes` and `Batches`: what send-by-mail has not touched is in nobody's hands, and what
  is in a batch was put in the outbox; `Attempts`: whoever holds a message has attempts
  left.

A step that writes no message keeps `IInv` by `SameHands`; the six that do have a lemma
each. That a batch has an oldest message is the well-foundedness of the naturals.
`LeavesTheOutbox` is only model-checked.

## 6. The local administrator's password: `Laps`

### The model and the code

Every checkin runs `lapsRotator.run` (`agent-go/laps.go`), which draws a password,
saves a stash in `state.json`, posts the password to the escrow, marks the stash
as escrowed, changes the local account with a script, and forgets the stash. Each
of these steps may fail or be the last one before a crash.

| State | Code |
|---|---|
| `local` | password of the local account |
| `server` | the row of `device_admin_credentials`, which each POST overwrites |
| `mem`, `disk` | `State` in memory and in `state.json`: `PendingAdminCred` (the stash and its phase), `CurrentAdminCred`, and whether a rotation is due |
| `pc`, `next` | where `run` is, and where it goes after a save |
| `flight` | a POST that the agent gave up and the server may still execute |
| `late`, `replaced`, `abandoned` | history: the escrow comes from a belated POST; the stash of the password in place was replaced; a stash was given up (a legacy one) or not read |

Actions: `RunStarts`, `FlushLegacyStash`, `RestoreCurrentEscrow`, `LookUp`,
`SaveStash`, `PostEscrow`, `MarkEscrowed`, `Apply` (its four outcomes),
`BestEffortSave`; `Start`, `OtherSave` (the rest of the agent saves the same
`State`), `Crash`, `RotationDue`, `Lands`. The initial states are a new agent and
what an agent up to 2.14 may have left. Passwords are names; one that is in use
nowhere is as good as a new one. The backoff is time: a run that it turns away is
no step.

### Runs

`laps`: eight passwords (one more than a state can hold), five failures of any kind: a
crash, a POST that is lost or executed late, a save that fails, a `state.json` that
cannot be read, of which `LoadState` makes an empty state that the next save writes.
Without a stash the escrow is the password in place (`SettledIsAligned`); a stash
that says "never applied" was not (`PreparedIsNotApplied`); a password is applied
only when the server holds it and the disk says so (`AppliesWhatIsEscrowed`); and
after any failure the two ends meet again (`Realigns`).

`restore` ends in a violation, with three failures: `run` puts `CurrentAdminCred`
back on the server because "Mot de passe jamais appliqué : le poste a toujours celui
de CurrentAdminCred" (`laps.go:286`). After an uncertain application the stash is
"escrowed", and the next rotation replaces it by a "prepared" one, which forgets
that the former password may be in place. If that rotation fails before its own
application, the agent overwrites the escrow with a password that opens nothing.
The next rotation repairs it, which is why `Realigns` holds and `SettledIsAligned`
excepts `replaced`.

### Fairness

A checkin every 15 minutes runs the machine, the service manager restarts a dead
agent, 30 days pass, a request ends. Failures are bounded by `MaxFaults`: the
liveness says that the agent recovers once they stop.

### Proofs

`LapsProofs` proves `TypeOK` and the three safety properties for any set of passwords, finite or
not, and any number of failures, from `LapsAssumption` (a finite set has at least
eight). None is inductive by itself. The inductive invariant `IInv`, which TLC also
checks on the instance of the run `laps`, is `TypeOK` and

* `Steps`: where `run` is tells the phase of the stash, and from the answer of the
  escrow to the application the server holds the stashed password, unless a belated
  POST has overwritten it;
* `Copied`: a stash in memory is the one on disk, because it is saved before it is used;
* `Told`, of `mem` and of `disk`: what a stash, or its absence, says of the account and
  of the escrow. It is needed of both because a crash makes `disk` the state of the next
  process, whatever step it interrupts.

Each action has a lemma with one step per part of `IInv`. That the drawn password is in
use nowhere (`FreshIsFree`) is a count: a state names seven passwords at most.
`Realigns` is only model-checked.

### Not modelled here

The routes that show a password or request a rotation (`admin-credentials.js:77`:
no Windows agent reads the request), the change of the account's name, the duration
of the backoff, the encryption.

## 7. Update and rollback of the agent: `AgentUpdate`

### The model and the code

One step ends with one operation on the disk, a rename or a save of `state.json`
(`agent-go/update.go`), because a crash may follow each.

| State | Code |
|---|---|
| `cur`, `bak`, `failed` | the files at `binaryPath`, `backupPath` and `.failed` |
| `image`, `swapped`, `restart`, `tamper` | the process: version it runs, `swappedVersion`, `restartRequests`, `runtimeTamper` |
| `mem`, `disk` | `State`: the surveillance window, the failures counted in it, the version rolled back and when, the hash of the binary |
| `pc`, `offer`, `latest` | step of `runCheckin`, the update of the last reply, the version that the server distributes |
| `proven`, `undone`, `last`, `torn` | history: versions of which a checkin succeeded, versions rolled back in the last day and the last of them, an operation cut in the middle or a `state.json` that could not be read |
| `withdrawn`, `unhashed` | history: a version was replaced by an older one in `dist/`; a rollback could not hash the binary it restored |

Actions: `CheckinSucceeds`, `CheckinFails`, `StartUpdate`, `MoveToBackup`,
`Promote`, `RecordUpdate`, `MoveToFailed`, `RestoreBackup`, `ForgetUpdate`;
`HandleRestart`, `Reboot`, `Crash`, `Start`, `OtherSave`; `Publish`, `DayPasses`.
A version stands for its binary and its hash; `Mute` versions run but no checkin of
theirs succeeds.

### Run

`update`: four versions, the second and third mute, published in any order, three
failures. A version between two good ones and two bad ones in a row are what the order of
updates and rollbacks needs; two failures let a good version be rolled back (its server
was down) and the third, a crash or a failed operation, follow. The properties:

* `BackupWorked`: the backup has always worked on this device.
* `UnprovenIsWatched`: an unproven binary is watched in the file its process will load.
* `NoFalseTamper`: no false alarm of integrity, unless the rollback could not hash the
  binary it restored (`update.go:227-232`): it then keeps the baseline of the version
  rolled back, and each process raises an alarm until a replacement records another hash
  (`unhashed`).
* `NoUpdateLoop`: the last version rolled back is not installed again within a day. The
  agent remembers that one only. The server offers what it finds in `dist/`
  (`agent.js:93`), so an admin who withdraws the newest version may bring back one that
  was rolled back earlier in the day; as long as nobody does (`withdrawn`), none of the
  day comes back.
* `MuteIsLeft`: a mute version is left.
* `PublishedIsInstalled`: a good version that stays published is installed in the end,
  unless the device runs a newer one that works: an agent never goes back to an older
  version by an update.

All but the first are said of states that no failure has `torn`: between the two renames
of a replacement there is no binary at the service's path, and the code has no recovery
for it; after a `state.json` that could not be read, the agent has forgotten the window
and the version rolled back.

### Fairness

A process makes a checkin at its start and every 15 minutes, some of them inside the
maintenance window; the service manager starts the service; devices are rebooted
some day (strongly fair, because a restart that Windows refused waits for it); a day
passes. Nobody has to publish, nor to leave a version published.

### Not modelled here

A version that dies before its first checkin (nothing watches it), the signature of
the download, the self-test, which changes nothing, other systems than Windows. The
binary in `dist/` and the file that names its version change together. A
stop of the service cancels the checkin under way, which `CheckRollback` counts as a
failure: it is one of the failures of `CheckinFails`.

### Proofs

`AgentUpdateProofs` proves `TypeOK` and the four safety properties for any versions,
any limit of failures and any number of faults, from `UpdateAssumption`. The
inductive invariant has three parts. `Typed` is `TypeOK`, and a closed window counts
nothing in the file either. `Files` relates the files to the place in the checkin:
the current binary is the one that runs or one that worked, unless the process knows
that it was replaced (`swapped`); that is why the backup an update makes has worked,
even after a rollback whose restart failed. `Records` relates both copies of `State`
to the binary that a cut or a failed rename leaves or puts back (`Resting`): unless
`torn`, its hash is the baseline and, if it never reported, it is in the window.
The baseline is excepted while
`unhashed`, which implies that no window is open. `Remembers` is what `NoUpdateLoop` needs
of the last version rolled back: both copies name it, because a day is the only thing that
makes them forget it. `Ordered` is what it needs of the others: while nothing was
withdrawn, versions are offered, hence watched and rolled back, in increasing order, so
all those of the day are at most the last one, which is refused, and the offer is newer.
`MuteIsLeft` and `PublishedIsInstalled` are model-checked only.

## 8. Polling of a mailbox: `MailPoll`

### The model and the code

`pollMailboxCursor` (`email-bridge/lib/poll-cursor.js`) lists the mails from a
cursor on, inclusively, and keeps in a setting the ids of the cursor's second that
are done, the failure it is waiting for, and how far a search went.

| State | Code |
|---|---|
| `date`, `box`, `writer`, `poison` | the mails: dates in whole seconds, what Graph lists, those whose ingestion writes, those of them that always fail |
| `cursor`, `state` | the settings `mail.cursor.*` and `mail.cursor_state.*`: `at`, `done`, `retry`, `scan` |
| `tick` | the locals of one tick, None between two |
| `aged` | mails whose first failure is 30 minutes old |
| `broken` | nothing can be written for the moment |
| `ingested`, `failures`, `abandoned`, `excused`, `shifted` | the mapping table; history: failures of each mail, mails that the log says were given up, left out for a reason the code states, or leapt over by an offset |

Actions: `TickBegins`, `ListingFails`, `PassOver`, `HandleSilent`, `HandleWrites`,
`HandleFails`, `HandleUnknown` (the answer of the COMMIT is lost), `NextPage`,
`Save`, `TickDies`; `Appears`, `Vanishes`, `AdminMoves`, `Ages`, `Breaks`,
`Recovers`. What a mail becomes (thread, review, proposal) is the write of one
transaction.

### Run

`mail`: four mails with any non-decreasing dates, one of a system folder, pages of
two, two pages a tick, one or two pages of `done` ids only, three attempts, one mail
that appears late, one that always fails, one event of the environment. Four mails in
pages of two let a second be split between pages and filled beyond what a tick can
see; three attempts separate a verdict from a first failure. No mail falls behind the
cursor unseen (`NoneLost`); none is abandoned for the failures of others
(`AbandonedOftenFailed`); each is ingested in the end (`IsIngested`).

Three limits of the code are named in the properties: a second with more mails than
`MAX_SKIP_PAGES` pages (`Crowded`), which the valve gives up; the nextLink, which is
an offset, so a mail that appears or vanishes before it inside one second makes the
listing leap over another (`shifted`); and a mail that appears in a range that the
search for a verdict has passed, which waits until a later one is written.

### Fairness

The timer starts a tick as long as the process is up, the clock turns, and what broke
the writes is repaired one day.

### Proofs

`MailPollProofs` proves `NoneLost`, `AbandonedOftenFailed` and `TicksGoForward` for any
mailbox, limits and number of faults, from `MailPollAssumption`. None is inductive: a
tick goes through positions that it may never save, and counts on pages that it listed
while the box was another one. The inductive invariant `IInv`, which TLC also checks on
the instance of the run `mail`, has four parts:

* `TypeOK`, with the dates in the order of the listing.
* `CountInv`: a record of failures, in the settings or in the locals, counts no more than
  happened, so a suspect has failed `MaxAttempts` times before a verdict is awaited.
* `LoopInv`: as long as the page counts, its mails are ahead of the position and within
  the offset; a kept place and a suspect are on the right side of each other.
* `SoundInv`: positions that leave nothing behind (`Sound`). The settings are one; the
  position before a suspect is one; beyond it, the tick's position is one but for the
  suspect, as long as the search has not `jumped`, and so is the position just after the
  suspect, where `Back` returns. `Read` says that every mail before the end of the
  listed page is on the page, passed, or leapt over. It says nothing of a tick whose
  cursor an admin has moved: such a tick saves nothing.

The listing is the set of mails from a date on, and `Rank` how many of them come before
a mail, which is what an offset counts. The lemmas on it say that an appearance puts
nobody forward (`RankGrows`) and a disappearance each later mail one forward
(`RankShrinks`), so that exactly one can slip below the offset: the one `Vanishes` adds to
`shifted`. What a step does to the locals is stated once (`SilentStep`, `WritesStep`,
`FailsStep`, `SaveStep`), and the four invariants cite these lemmas. `TicksGoForward` adds
`ForwardInv`: neither the position nor the one before the suspect is before the cursor
that the tick read. `IsIngested` is model-checked only.

## 9. Who speaks for a device: `Enrolment`

### The model and the code

The Linux fleet and the tokens of the Windows agents share the table `devices`. A key
enrols and waits (`pending`) until an admin approves it, for a new device, for the
Windows row it converts or for the Linux row it re-images, or until a reservation of
its serial approves it at once. These transactions hold one advisory lock; checkins of
either agent, exchanges and rotations of tokens, Intune syncs and deletions do not.

| State | Code |
|---|---|
| `keys[k]` | row of `linux_device_keys`: status, claimed serial, device; `unknown` is no row |
| `rows[r]` | row of `devices`: free, Windows, Linux (`pull`) or deleted; serial; whether it carries facts of a Windows agent or of Intune |
| `prereg[s]` | `linux_preregistrations` |
| `tokens[t]` | `agent_tokens`: state, device, used, issued by a rotation |
| `tx[k]` | an enrolment or approval under the lock, with what `classifyEnrollment` read |
| `req[q]` | a request of a Windows agent, a checkin, a WebSocket or a rotation: its token, the statement that is next, the row that `authToken` or the lookup found, and whether that row was converted since (history) |

Linux: `EnrollBegins`, `EnrollKnown`, `EnrollStaysPending`, `EnrollAutoApproves`,
`ApproveBegins`, `ApproveNew`, `ApproveOnto`, `TxFails`, `Reject`, `Revoke`, `Purge`,
`LinuxCheckin`, `Preregister`, `DeletePreregistration`. Windows: `CreateToken`,
`RevokeToken`, `Exchange`; a checkin is `CheckinBegins` (`authToken`), `LookupDevice`,
`Claim`, `Inventory` (the transaction), `WritesResults` (the statements after its COMMIT),
`TokenUpdate`; a WebSocket `ConnectBegins`, `Connects`, `WritesLastSeen`; a rotation
`RotateBegins`, `RotateCommits`; `RequestEnds` ends any of them anywhere. Both: `IntuneInserts`,
`IntuneUpdates`, `DeleteDevice` (the cascade takes keys and tokens).

Abstractions: a transaction that locks what it reads is one step, the two steps of an
enrolment apart; one machine has one spelling of its serial; hostnames are left out, so
a lookup by name may find any row and a taken name is a refusal; the two SELECTs of the
lookup are one step; the facts are one bit, and `ssh_host_key_fp`, which the API learns
when an admin opens an SSH session, is not one of them; the quota and the expiry
of a bootstrap, the proofs of possession, profiles and rings are left out; the approval in
bulk is `ApproveNew` for each key.

### Run

`linux`: two keys, two rows, two tokens, one serial, a cap of one, one Windows request
under way (`Request`). Two keys of one serial are a clone, a re-image or a full queue; two rows let
one be converted while the other is what a request still names; two tokens let one be
linked while another is, or one rotate into the other. Every approved key has a Linux row
of its own with its serial (`KeysMatchRows`), the queue keeps its cap (`QueueIsCapped`),
what was refused stays out (`RefusedStaysOut`), Windows facts come back on a converted row
only from a request that was authenticated before (`NoAgentAfterConversion`). One request
at a time, because two of them meet only in the row that both want to claim; the
theorems below hold for any number.

The ways that `NoAgentAfterConversion` leaves out are real, and nothing clears again what
they refill of what `clearWindowsFacts` cleared: a checkin authenticated before the
conversion writes its inventory (`agent.js:923`) and, after that transaction, its
compliance results and its software (1088-1098, 1142-1155); a WebSocket writes
`last_seen_ws` when it opens (1536) and when it closes (1717), so also when the eviction
that follows the conversion closes it.

Other limits of the code, which the model has and no property denies: a checkin that
inserts a row binds its token only with its last statement (`agent.js:1187`), so another
unlinked token may claim that row in between, although the comment at `agent.js:806`
means to prevent it; classification takes one approved key (`LIMIT 1`), and
misses a clone when a key without a serial has adopted this one; a reply of rotate-token
that is lost leaves a live token nobody holds. Outside the model: after a re-image the
recovery key of the old disk still counts as the current one (`checkin.js`,
`buildAssignment`).

### Proofs

`EnrolmentProofs` proves the four properties for any number of keys (finitely many),
rows, tokens, serials and requests, from `EnrolmentAssumption`. The inductive invariant
`IInv` adds to `TypeOK`, `KeysMatchRows` and `QueueIsCapped`:

* `Locked`: one transaction at a time, about a key that nobody has decided on. Without it
  an approval could overwrite a rejection, or two approvals bind two keys to one row.
* `RoomLeft`: the count of pending keys that an enrolment read is still true when it
  inserts, because only the holder of the lock adds one.
* `ServedBefore`: a request about a row, once past the claim, found it as a Windows row or
  has the mark of a conversion since; a token names no row that does not exist yet. A row
  never becomes a Windows one again, and `authToken` and the claim refuse a Linux one, so a
  request that starts after the conversion never holds the row.

`LinuxTypeOK` and `WindowsTypeOK` are the type invariant, one step per action; the other
parts of `IInv` have a lemma each, and the two action properties follow from `IInv` and the
guards. The lemmas about cardinalities rest on `FiniteSetTheorems`. The specification states
no fairness: nothing obliges an admin or an agent to act.

## 10. Not modelled

* Script executions: planned, as deployments without a claim token.
* What a mail becomes once ingested, the inbox screens, `mark-read-worker.js`.
* Git mirror and git over HTTP of the Linux fleet: a wrapper of the git program.
* The escrow of LUKS keys and of the Linux recovery password, the assignment that a
  Linux checkin receives.
* Tickets, hardware requests, onboarding, groups, stock, winget, settings, users, push:
  one statement per request.
* Monitoring, compliance, natural language queries: computations without protocol state.
* SSH sessions: a bridge to one socket, with the grants that `Consoles` has.
* The API's loader, migrations and rate limits; the command line tool, the front end, the
  demo, the landing page and one-off scripts.
