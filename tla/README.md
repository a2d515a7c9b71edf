# Verification of the workspace control plane

This directory holds TLA+ models of the control plane in
`src/services/control-plane`, the TLC configurations that check them, and TLAPS
proofs about them. Paths below are relative to that directory's `internal/`
unless they start with `src/`.

1. [The system](#1-the-system)
2. [The modules](#2-the-modules)
3. [The runs](#3-the-runs)
4. [Fairness](#4-fairness)
5. [What is proved](#5-what-is-proved)
6. [Where code and documents disagree](#6-where-code-and-documents-disagree)
7. [Not modelled](#7-not-modelled)
8. [Plan](#8-plan)

## 1. The system

A single control-plane process serves one owner's phone. It starts and stops
development workspaces through Coder, keeps their rows in PostgreSQL, forwards
terminals, files, Git and previews into them, checkpoints their volumes, and
suspends and finally deletes the ones nobody uses. A maintenance command drains
it around host updates.

| Component | State | Operations | What makes it correct |
|---|---|---|---|
| Workspace service (`workspace/service.go`) | mutation gates per workspace, `admissionGate`, `runtimeGate` | Create, ApproveSetup, DenySetup, Retry, Resume, Suspend, SuspendIfInactive, Delete, ReconcileCapacity, drain | a live provider is always covered by a row that counts; nothing is orphaned; limits fit the pool; unfinished phases complete |
| Admission controller (`admission`) | capacity, maintenance flag | PlanStart, Shares, SetMaintenanceDrain | never admits beyond the maximum or while drained |
| Workspace store (`postgres/workspace.go`) | the `workspaces` table | full-row Save, and gate-free column updates: TouchActivity, TransitionIfInactive, UpdateQuota, UpdatePolicy, UpdateGitRisk | a full-row Save does not undo a column update |
| Coder client (`coder/client.go`) | quota cache | Provision, LookupProvisioned, Start, StopAndWait, Delete, ApplyQuota | a call may take effect although its answer fails |
| Lifecycle coordinator (`lifecycle/coordinator.go`) | recorded terminal activity | RecordActivity, Scan once a minute, retries | only truly inactive workspaces are stopped; every unfinished phase is retried |
| Checkpoint scheduler and service (`checkpoint`) | archives, per-workspace gates | RunOnce, Create, Restore, prune | stopped work is recoverable; a restore never exposes a half-written volume |
| Maintenance coordinator (`maintenance`) | the durable run | Begin, Recover, Complete, fail | admission reopens only after verification |
| Application (`application`) | runtime boundary, mutation gates, safety approvals | handlers for workspaces, files, terminals, previews | no runtime mutation crosses the drain |
| Terminal gateway (`terminal`) | tabs, tickets, subscribers, leases, replay ring, input receipts | Open, Attach, Input, Revoke, Drain | input is applied once and in order; a revoked device sees nothing more |
| Sessions (`session`, `postgres/session.go`) | rotating token families | Issue, Rotate, Revoke | a replayed token revokes its family; a racing rotation does not outlive a revocation |
| Passkeys (`passkeys`, `postgres/passkeys.go`, `bootstrap.go`, `recovery.go`) | ceremonies, reservations, buckets; owner, passkeys, bootstrap credentials | Begin, Finish, admission; enrol, add, revoke, reset | slots never leak; an owner is never locked out by a race |
| Previews (`preview`, `coder/portforward.go`) | routes, grants, active requests, tunnels | list, access, Authorize, Target, Revoke | nothing is served after a revocation |
| GitHub (`githubapp`, `githubsync`, `githubworkspace`) | installation, durable records of token uses, advisory locks | UseInstallationToken, sync, disconnect, suspend, reconnect | a disconnect that is reported complete ends every use |
| Setup reviews (`setupreview`, `application/workspaces.go`) | reviews, activities | Ensure, ResolveApproval | a workspace at the boundary can be decided; review and decision agree |
| Notifications (`notifications`, `apns`) | bounded queue, endpoints | register, enqueue, deliver, retry | a revoked device has no endpoint |
| Files and Git (`files`, `gitops`) | ETags, index transaction | Save, Stage, Commit, Push, Pull | no work of the terminal is overwritten; only scanned commits are pushed |
| Vault, secrets and key rotation (`vault`, `application/secrets.go`, `postgres/master_key_rotation.go`) | wrapped keys, grants, serve leases | change, grant, launch, rotate | every record stays readable; a launch sees one set of grants |
| Workspace helper (`workspacehelper`) | restore journal, secret file, Codex credential and its leases | checkpoint, restore, secrets, Codex credentials | an interrupted request leaves nothing half done or two credentials |
| HTTP API, configuration, metrics, wiring | - | - | each handler makes one application call |

`PROJECT.json` lists every component with its status.

**Interactions.** HTTP handlers call the application, which calls the workspace
service. The service holds a workspace's mutation gate for a whole operation
and takes `admissionGate` and then `runtimeGate` inside it; provider calls
happen under `runtimeGate`. The lifecycle worker, the checkpoint scheduler, the
terminal loops and the file handlers write the same row without any gate, one
column at a time. The maintenance coordinator sets the drain flag, crosses
`admissionGate` once to be sure every earlier decision has committed, and then
drains rows through the service. Terminal output reaches the lifecycle worker
only through `Coordinator.RecordActivity`, an in-memory buffer.

**What is hard.** Every provider call can be accepted and unanswered; the
process can crash between any two calls; the row's `FailureCode` is the only
trace of how far a start got. Three goroutines write one row, one of them
through a private copy read earlier. Quotas of running peers have to be lowered
before, and recorded quotas raised before, the change they cover. Background
work has to bring every interrupted phase to an end. The `hazards` of
`PROJECT.json` list these places line by line.

## 2. The modules

| Module | Contents |
|---|---|
| `WorkspaceService` | workspace service, admission, rows, provider and quota cache; operations interleaved at every store and provider call, failures and crashes |
| `MCWorkspaceService` | the symmetry set for TLC |
| `WorkspaceServiceProofs` | the inductive invariants' proofs, the theorems and the refinement of WorkspaceLifecycle |
| `WorkspaceLifecycle` | the abstract specification: a workspace as a small state machine, and the closed admission |
| `Maintenance` | the maintenance coordinator, its durable run, the scheduler and the API calls, over WorkspaceLifecycle |
| `MCMaintenance` | the symmetry set for TLC |
| `MaintenanceProofs` | the inductive invariant's proof and the theorems |
| `WorkspaceRetention` | one workspace over time: activity, idle marking, idle suspension, periodic checkpoints, Git risk, retention |
| `MCWorkspaceRetention` | the module TLC runs for it |
| `RetentionProofs` | the inductive invariant's proof and the theorems |
| `Terminal` | access to one terminal tab: connection requests, tickets, admission, the reader and writer of each connection, device revocation, close and reopening |
| `TerminalProofs` | the inductive invariant's proof and the theorems |
| `TerminalInput` | composer input of a tab: keys, receipts, confirmations, the lease |
| `TerminalReplay` | output of a tab: the ring, a subscriber's queue, reconnection over generations |
| `InitialPrompt` | delivery of the stored prompt through the sockets of a Codex tab |
| `MCStreams` | these three for TLC |
| `StreamsProofs` | their inductive invariants and theorems |
| `LoginAdmission` | passkey ceremonies and the admission of anonymous logins |
| `Sessions` | refresh families: issue, rotation, replay, revocation, as interleaved transactions |
| `Enrollment` | bootstrap, enrolment, further passkeys, revocation, reset after total loss |
| `Previews` | routes, grants, requests at the gateway, tunnels and their revocation |
| `Notifications` | push endpoints, their registration and revocation, the dispatcher |
| `MCAccess` | these five for TLC |
| `AccessProofs` | proofs of their inductive invariants and their theorems |
| `Checkpoints` | archives, pruning, the protected operations and the whole restore with its journal |
| `GitIndex` | native Git beside the owner's terminal |
| `KeyRotation` | the rewrapping of every envelope beside serving processes |
| `SecretGrants` | secrets, grants, their file in a workspace, and terminals that inherit it |
| `CodexAuth` | the Codex credential of a workspace |
| `GitHubAuthority` | token uses of one installation against synchronisation and disconnection |
| `MCHoldings` | these six for TLC |
| `HoldingsProofs` | proofs of their inductive invariants and their theorems |
| `SetupReview` | reviews of repository setup and their concurrent decisions |
| `SetupReviewProofs` | its inductive invariant and theorem |
| `MCProgress` | Terminal and SetupReview for TLC, with their fairness |

Operators named `...Mutant` are plausible wrong versions of the definition that
follows them. No specification uses them; they record which mistake each
property detects.

### WorkspaceService

| Model | Code |
|---|---|
| `rows[w]` | the row: `State`, `FailureCode`, `ProviderResourceID # ""`, `Quota`, `PrivateInputsPending`, `DevcontainerDir # ""`, `SetupApproved` |
| `phase[w]`, `limit[w]` | what Coder really does: absent, stopped or live, and the limit of its latest build |
| `quotas[w]` | `Client.quotas`, lost in a crash |
| `op[w]` | the goroutine that holds w's mutation gate: its kind, the call it makes next, its private copy of the row, its progress through a rebalance |
| `op[Lifecycle]` | the lifecycle worker inside ReconcileCapacity |
| `admissionGate`, `runtimeGate` | the two one-token channels |
| `drain` | `maintenanceDrain` and how far BeginMaintenanceDrain has got |
| `faults` | the failures still allowed |

Each action is one store call or one provider call together with the control
flow around it up to the next call. `Decide` and `Commit` are PlanStart and the
reservation under `admissionGate`; `ListConsumers`, `RaiseQuota`, `ApplyQuota`
and `ShrinkQuota` are one turn of the rebalancing loop; `SaveUnconfirmed`,
`CallProvision`, `SaveProvisioned`, `CallStart`, `CallInitialize` and
`SaveRunning` the steps of a start with its durable markers;
`ReconcileProvisioning` what a retry does with the marker it finds;
`StartSuspension` to `SaveSuspended`, `SaveDeleting` to `FinalizeDelete` and
`DrainWorkspace` to `persistMaintenanceDrainResult` the ways down. A provider
call has three outcomes: done, refused, and done but reported as failed.

Abstractions:

- CPU, memory and disk are one scarce resource. The code divides each of them
  the same way and compares each with its own minimum; disk pressure is the
  separate outcome `Decide(w, FALSE)`.
- Failure codes no control flow reads are `"other"`; the empty code and
  `capacity_rebalance_pending`, which only an older release left on a
  provisioning row, are `"legacy"`.
- `ready`, `needs_attention` and `maintenance` are declared in `core/types.go`
  but never written, so they are not states of the model.
- The rebalancing loop visits its targets in any order. The code sorts shrinking
  targets first; the properties hold without that order.
- A store call that fails after its commit is the step itself followed by
  `StoreError` at the next control point.
- A create that the following lookup does not see never appears later. The code
  relies on this in `reconcileProvisioning` and in `Delete`.

### WorkspaceLifecycle

What the maintenance coordinator needs to know of a workspace: off, provisioning,
live, suspending, deleting or gone, which moves between them exist, and that no
start is admitted while admission is closed. `closed` is more than the flag: it
says that every start admitted before the flag has reached its row.
`WorkspaceService` implements it (`ImplementsLifecycle`): its rows map to the
states through `lifecycleState`, and `closed` is the point where
BeginMaintenanceDrain has crossed both gates. `Maintenance` extends it and takes
each step of an owner or of the lifecycle worker from `WorkspaceStep`.

### Maintenance

| Model | Code |
|---|---|
| `run` | the latest row of `maintenance_runs`; the unique index admits one active run |
| `flag`, `closed` | `Controller.maintenanceDrain`, and whether BeginMaintenanceDrain has returned since |
| `clock` | where now is relative to `WarningAt` and `ScheduledFor` of the run |
| `worker` | the scheduler goroutine: the call it makes next, its copy of the run, the snapshot of the current pass |
| `call[c]` | an API call in flight with its copy of the run |

Every action is one store call, one call of the workspace service or one store
to the flag, with the control flow up to the next. The compare and swap of
`MaintenanceStore.Transition` is `Swaps`; it can fail before or after its commit.
A drain works through its snapshot in any order (the code sorts by ID), counts
passes and returns on the errors the code returns on; `saved` is history and says
that the workspace in hand was checkpointed. Counters, messages and activity
entries are left out.

One assumption is about time. `Complete`, `Cancel` and `fail` store the flag
after the run has changed, without a lock, so a call that is delayed between the
two could reopen admission under the next run's drain. `Tick` excludes that: it
does not reach a window while a call is verifying or about to store the flag. The
shortest warning lead is one minute (`coordinator.go:168`) and a health check
ends within 30 seconds (`coder/client.go:134`). A weekly run created moments
before its window has no such lead; the coincidence is not covered.

Other behaviour the model has and no property is about: the checkpoint that a
best-effort drain goes on without is made again by `Suspend`, which then refuses;
a warning whose activity entry fails is not announced again; a completion whose
commit succeeded and whose answer was lost leaves admission closed until the next
restart; a cancelled weekly run is created again for the same window by the next
scan.

### WorkspaceRetention

One workspace, time in ticks of the lifecycle scan. `row` is the database row,
`up`, `dirty` and `ckpt` are the truth about runtime, volume and latest
checkpoint; `op` is the operation holding the mutation gate, `scan` the
lifecycle worker, `scheduler` the checkpoint scheduler, `api` a SaveFile between
its helper call and its row update, `pending` the activity recorded but not yet
flushed. `scan.unchanged` says whether `last_activity_at` is still the timestamp
the scan read, which is what `TransitionIfInactive` compares. Timestamps are
kept as ages with a cap. Two variables are history only: `late` (work written
after an operation's own checkpoint) and `op.heard` (terminal activity during an
idle suspension). Starts that fail are left to WorkspaceService.

### Terminal

| Model | Code |
|---|---|
| `session[d]` | whether `Sessions.ValidatePrincipal` accepts the device; a device has one session family and a revocation is final |
| `workspace`, `admission[d]` | holders of the application's workspace mutation gate and of the device's terminal admission gate |
| `connect[d]`, `revoke[d]`, `closing` | the control points of CreateTerminalConnection, of RevokeDevice (and the two calls of the same shape) and of Unregister with its caller |
| `tab`, `drains`, `runtime`, `running` | the entry in `Manager.tabs`, what `beginClose` waits for, the PTY, `Application.running` |
| `tickets[d]`, `subscribers`, `byDevice[d]` | unused tickets and the counters of `capacity.go` |
| `conn[c]` | one connection: subscriber, gates (`revoked`, and in flight by what its goroutines are doing), its context (`cancelled`), reader and writer |
| `lease` | the holder of the tab's input lease |

A critical section under `Manager.mu` and the tab's mutex is one action, since
everything it reads and writes is protected by them; what a call does after it
has given them up (waiting for drains, closing the runtime, deleting the tab) is
an action each. A frame passes through its gate in steps: `ReadFrame` enters,
`ApplyFrame` does the work, `TakeResponse` and `Written` hand the receipt to the
writer and back, and the gate is left only then. The code's two gates of a
connection are always revoked together, so one flag stands for both.

`RevokeSession` is the durable revocation. It may fail, and its COMMIT may take
effect and be reported as an error; either way the caller returns the error and
does not sweep the gateway (`RevokeEnds`), and the session is or is not revoked.
`revoke[d].done` is history: some revocation of the device returned success.
A revocation that is called again after an error sweeps what the first one left.

One tab of one workspace and one owner: the per-owner and global counters then
equal the tab's. What frames contain is left out (the receipts of
inputs are in TerminalInput, the replayed output in TerminalReplay), as are
reconnect tokens (they are swept in the same loops as
tickets), pings (answered outside the gates), the shutdown of the manager and
the output pump; the PTY client ends its output only when it is closed.
`CloseLock` to `CloseReturns` stand for a closed tab, a disconnected Codex and a
suspension alike; the tab may be opened again afterwards, which a closed tab
never is.

### TerminalInput, TerminalReplay, InitialPrompt

| Model | Code |
|---|---|
| `draft[k]` | the composer's delivery loop in the app: whose draft, unsent, sent, receipted, confirmed |
| `link[c]`, `toServer[c]`, `toPhone[c]` | a WebSocket, its handler's control point, frames not yet read by either end |
| `holder` | `inputLease` |
| `receipts`, `delivered`, `confirmed` | `inputReceipts`, their `receiptWritten`, `confirmedInputOrder` |
| `generation`, `next`, `kept` | registration of the tab, and the replay ring |
| `viewer`, `ticket`, `stream` | the client's cursor, `afterSequence` of its ticket, the subscriber's initial replay and bounded queue |
| `stored`, `pty[t]`, `marks` | the prompt row, a runtime with its sockets and settle timers, delivered callbacks under way |

`WriteInput` is the critical section under `inputMu`: duplicate, tombstone,
capacity, write and record; a PTY write may also take effect and report an error.
A dropped link may still hold frames the gateway will read, so a retry can
overtake the original. `After` is `Ring.After` with both gap cases; `Broadcast`
drops a subscriber whose queue is full. In `InitialPrompt` a settle timer, a wait
for the write gate and a socket that breaks and is dialled again are separate
steps.

### LoginAdmission, Sessions, Enrollment

`LoginAdmission` has the ceremony table, the admission record per device, the
global buckets and the four counters; `Reserve`, `Commit`, `Cancel` and `Consume`
are the critical sections, and the lookup of known devices happens before them
and may be stale. (A stale answer can let the number of unknown logins exceed its
own cap by one; the total, which the property is about, still holds.)

`Sessions` and `Enrollment` interleave transactions at their locks. `Sessions` is
READ COMMITTED: a statement sees what was committed when it began and waits for
locked rows. `Enrollment` distinguishes serializable transactions, whose snapshot
is older than the wait for the advisory lock, from those that look again after
it. `ServeStarts` assumes that no server is started while `recover-passkeys`
runs, as its runbook demands.

### Previews, Notifications

`Previews` is one workspace: `job` is the operation holding its gate (a list, a
grant of access, the revocation of a route, a drain), `visit[v]` a request at the
gateway, `active` the requests the token manager can cancel, `tunnel[r]` the port
forward. Contexts are cancelled after the manager's mutex is released, which is
where requests overtake revocations. A route stands for one port of one provider
resource. A list whose commit answer is lost leaves the grants of the routes it
removed in place until they expire.

`Notifications` has the registration transaction with its row lock, the
revocation's sweep of endpoints and the dispatcher. A registration may leave its
gate after COMMIT was sent and before it took effect; only the lock on the device
row then orders it before the revocation. A push listed before a revocation may be
sent after it, and events are dropped when the queue is full; both are what the
code says it does.

### Checkpoints, GitIndex

`Checkpoints` is one workspace: `zips` and `jsons` are the two files of each
checkpoint, `work` the operation holding the checkpoint gate, `helper` the restore
running in the workspace, which outlives a control plane that stops waiting.
`SetAside`, `Place`, `UndoRecord` move one path at a time through the journal; the
helper may be killed at any of them. `discard` is a discard of Git changes: it
holds the checkpoint gate only until its own checkpoint is made (`Persisted`) and
the application's mutation lock until its helper has answered, so restores wait for
it and periodic checkpoints do not. `PruneNext` prunes by age, by number and, when
`full`, by size; how large archives are is left open, except that one alone fits.
The helper of a discard whose answer was lost (`DiscardAbandoned`) may still run
beside anything; nothing is claimed for what it takes away, and it has to end before
the next discard begins, which is a bound. That HEAD moves, and the empty checkpoint
of a clean workspace that has unpushed commits, are not modelled.

The clock is assumed not to step back. Not a property: a killed
helper leaves `.git/index.lock`; archives without metadata are never collected;
discarding a directory can drop tracked sensitive files that the checkpoint
omits; edits made between the protecting export and its apply are in neither
(`src/docs/runbooks/CHECKPOINT_RESTORE.md:30-66` tells the owner to stop first).

`GitIndex` is the index (does its tree hold a granted secret), `index.lock`, the
branch and the remote. `Install` compares the lock file with the one the operation
created and `Rename` then renames it by its path, as `Ends` and `RemoveLock` do when
it is dropped: in between the path may have come to lead to somebody else's lock.
`UpdateRef` is the compare and swap of the branch, `Push` sends the scanned commit
by name. A pull is go-git's: `PullFetches` compares HEAD with what came,
`PullMoves` sets the branch without its old value, once after the fetch and once in
the reset, which may stop in between over unstaged changes, and `PullWritesIndex`
writes the index over whatever is staged, without `index.lock`. The
terminal locks, writes, commits, moves the branch and removes locks as it likes;
`writing` says that its Git believes to have `index.lock`.
`since` is history: what happened to the index and the lock since an operation made
its private copy. `git restore` (`Unstage`) is one step; the files of the working
tree are not modelled.
`ScanReachable` and the remote checks in `mutation_guard.go` are not called from
these operations and are not modelled.

### SecretGrants, KeyRotation, CodexAuth, GitHubAuthority

`SecretGrants`: `op[o]` takes the gate of its secret, then the gates of the
workspaces in order, changes the tables and writes the grant file (`tmpfs`) of
each running workspace; `OpenTerminal` builds the redactor (`tab.redacts`), and
the process starts later (`ProcessStarts`). A `Mutate` may commit and be reported as
an error, and the list of running workspaces may be older than the commit: the
workspaces it synchronizes are any of the running ones it holds, and the others keep
a stale file. A helper call is assumed not to take effect after it has returned.

`KeyRotation`: servers hold a shared advisory lock in a session nobody watches
(`LeaseConnectionLost`), the rotator takes the exclusive one, loads, updates row
by row and commits. The operator switches the key file before starting a server,
as `src/docs/runbooks/CREDENTIAL_ROTATION.md:60-110` says. A COMMIT that took effect
may be reported as a failure, or the command die just after it (`RotationCommits`,
`unanswered`): then the operator keeps the old key file over rows under the new key,
servers that are started cannot read them and write new rows under the old key, and
the next rotation stops at the first row it cannot read.

`CodexAuth`: key, materialized and sealed credential, and the leases of wrapped
processes, any of which may die. A wrapper and its child die together. A logout
while another Codex runs, followed by a suspension, is undone by the seal of the
other; the owner's latest wish is then that of the process still running.

`GitHubAuthority`: `use[u]` goes through reserve, mint, date, operate, revoke and
settle; any call may fail, a process may die, and the session holding its lock may
be lost (`LeaseLost`). An operation whose helper's end was not observed either says
so (`OperationAmbiguous`: the record is kept), or does not (`OperationDropped`:
`runHelper` passes the error through `external()`, `application.go:239`, which keeps
context and domain errors and formats every other one into text): then the token is
revoked and the record settled while the helper may still run. Tokens are assumed to outlive the time allowed for a use.

### SetupReview

`setup` is the part of the row the reviews depend on; `Ensure` creates the review
and its activity in one transaction; `resolver[k]` is a ResolveApproval call
between its steps: read, decide on the workspace, resolve the event. Reviews are
bounded by `MaxReviews`; the last one is not denied, so that the bound does not
look like a workspace nobody can review.

### Composed for TLC

`MCStreams`, `MCAccess` and `MCHoldings` put parts that share no state side by
side: `part` is chosen in the initial state, that part's next-state relation runs
and the others keep their initial state. Such a run explores the union of the
parts' state spaces, never their product, and is exactly one check per part.
The model values are drawn from shared pools so that one symmetry set serves all.

## 3. The runs

| Run | Bounds | Checks |
|---|---|---|
| `faults` | 2 workspaces, 1 slot, all cases of inputs and Dev Container, 2 failures of any kind | `LiveProviderIsAccounted`, `LiveRowHasProvider`, `NoOrphanedProvider`, `InputsDurableBeforeProvider`, `AtMostMaxRunning`, `DeletionIsFinal` |
| `capacity` | 2 workspaces, 2 slots, pool 3, 1 crash, provider failure or drain | `CapacityNotExceeded`, `RecordedQuotaIsUpperBound`, `PrivateCopyIsFresh`, `ImplementsLifecycle` |
| `liveness` | 2 workspaces, 1 slot, 1 crash or provider failure | `TransitionsComplete`, `QueueIsServed` |
| `drain` | 2 workspaces, 1 API call at a time, 2 runs, 2 passes, 1 failure or crash | `HostUpdateFindsNothingRunning`, `DrainIsNotCancelled`, `ScheduledDrainCheckpointsFirst`, `DrainCompletes` |
| `reopen` | 1 workspace, 1 run, 1 failure | `OnlyVerificationReopens` is violated |
| `timely` | idle timeout 1, checkpoint interval 4, retention 1, 2 calls, 1 failure | `RecoverableWhenStopped`, `IdleClaimIsExpired`, `QuietIsReleased` |
| `dirty` | 1 call | `DirtyIsNeverAutoDeleted` is violated |
| `activity` | 1 call | `ActivityPreventsIdleStop` is violated |
| `progress` | terminal: 1 device, 2 connections, 1 unused ticket, 2 subscribers per device; setup: 2 decisions, 3 reviews | `RevokedIsSilent`, `CallsReturn`, `ClosedSubscriberLeaves`, `ReviewMatchesDecision`, `BoundaryIsReviewable` |
| `streams` | input: 2 phones, 2 links, 2 drafts, 1 receipt, 1 remembered key, 1 PTY error; replay: ring and queue of 2, 4 frames, 2 generations; prompt: 2 tabs, 2 sockets each, 2 writes | `InputIsExact`, `ReplayIsComplete`, `PromptIsGated` |
| `access` | 2 apps, 2 calls, 2 ceremonies; 2 devices, 2 families, 2 transactions, 3 pairs; 3 credentials, 3 passkeys, 2 requests; 1 route, 1 device, 2 visits, 2 grants; 1 device, 2 tokens, 2 registrations, queue of 1 | `RegistrationsKeepTheirReserve`, `RevokedMeansDead`, `OwnerKeepsAccess`, `RevokedPreviewIsGone`, `EndpointsFollowDevices` |
| `holdings` | 2 files, 2 checkpoints of which 1 is kept, 1 edit; 2 native operations, 2 commits; 2 servers, 2 rows, 2 keys; 2 secrets, 2 workspaces, 2 operations; 2 Codex processes, 3 credentials; 2 token uses | `RecoveryIsSound`, `OnlyScannedIsPublished`, `NativeKeepsTerminalWork`, `OneKeyForEveryRow`, `LaunchIsCurrent`, `GatesAreOrdered`, `CredentialFollowsOwner`, `DisconnectEndsTokenUse` |

The type invariants and the inductive invariants of the modules with proofs are
theorems or lemmas (section 5) and are not repeated in the runs. Each was checked
by TLC under the constants of its module's run before it was proved. The type
invariants of the other modules document their state.

**faults** lets any two failures fall anywhere in any history of calls: a crash,
a store error, a refused or unanswered provider call, a failed quota build, a
failed local step, a full disk. Two failures are what it takes to fail and then
fail again while recovering, which is where a marker is misread. Two
workspaces compete for one slot, so queueing, promotion and the handover of a
slot from a half-stopped workspace occur. The operations of one workspace are
serialised by its mutation gate, so a third workspace adds waiting but no new
kind of conflict.

**capacity** has two slots and a pool of 3, which two do not divide evenly: the
share of one is 3 and of two is 1, so both directions of the rebalance and the
rounding occur. Failed quota builds and store errors are excluded: after an
unanswered quota build, or a store error in the rebalance that closes a start, the
cache is wrong and both bounds fail (section 6); with `"quota"` or `"store"` as
`Faults`, TLC shows it. Local failures and a full disk, which the run leaves out to
stay small, do not break them: TLC finds both bounds intact with
`{"local", "disk", "crash"}`, and for `RecordedQuotaIsUpperBound` that is a theorem.

**liveness** states that whatever one crash or provider failure leaves behind,
the scan brings every transitional row to its end, and nobody waits in the queue
beside a free slot.

`ImplementsLifecycle` in the same run shows that the service is the lifecycle
the coordinator relies on: in particular that no row enters `provisioning` once
the drain has crossed the gates, although starts were in flight when the flag was
set.

**drain** has two workspaces, so that one can change while the other is being
handled, and two passes, the last of which gives up. Two runs let a call or a
worker act on a run that has been replaced. One API call at a time suffices to
race the worker; the theorems of section 5 have no such bound, and hold for any
number of calls, failures and runs.

**timely** needs a checkpoint interval longer than the idle timeout (section 6 has
the reverse). A timeout and a retention of one tick are enough because only
"expired or not" is compared; one tick per call lets activity, expiry and a
second scan fall inside a probe or a checkpoint.

**progress**, terminal: the tab is opened, closed and reopened while the device
connects and is revoked, and a revocation may fail with or without being durable.
Two connections of the device are admitted at once, so that one is revoked, closed
or leaving while the other is in the middle of a frame. Connections meet only in the
two locks, the lease and the counters, so what could block a call for ever is a connection's
reader and writer, the revocation and the close waiting for each other, and all
of them are there. The theorems cover any number of devices. Setup: two decisions
can conflict, and a third review shows what follows a denial and a retry.

**streams**: two phones contend for the lease, two links let a retry overtake the
frame it repeats, a memory of one confirmed key makes eviction happen, and one
unconfirmed receipt makes the capacity refusal happen. Four frames over a ring
and a queue of two reach eviction and overflow, and two generations a cursor from
the past on either side of the window.

**access**: one slot for logins beside a table of two makes every refusal happen;
two transactions are the smallest race, and a deadlock between them is a
`Fail`. Three passkeys let two revocations race for the last two. One preview
route and device with two requests let one be cancelled while the other passes.

**holdings**: keeping one checkpoint makes pruning happen after every second, also
between a discard's checkpoint and its helper call; two
files let a restore stop between them. Two native operations model a helper that
outlived its caller; two commits are what a push needs to find the branch moved, or a
pull a commit it did not know. Two keys suffice for a rotation that is reported as
failed and the next one. Two secrets and two workspaces are the smallest cycle of
gates. Two uses of a token let one be left behind while the other disconnects.

Parameters are small where the code compares with a limit and only "full or not"
matters; every bound not in the code is marked `bound:` where it is declared.

The specifications never deadlock in the passing runs.

## 4. Fairness

`WorkspaceService!Fairness` asks that an operation in flight keeps moving and
that the scan keeps returning to every row. It is strong fairness because a step
that waits for a gate is enabled only between two holders. The gates are Go
channels, whose waiters are served first come, first served, so a waiter is not
overtaken for ever; the scan runs each minute, visits every row and waits for its
mutation gate like any other caller. Owner calls, failures and crashes have no
fairness, and the failures of one behaviour are bounded: the claim is that
recovery completes once failures cease.

In `Maintenance` the scheduler runs each minute and a call that has begun ends:
weak fairness of `Work` and of each `Serve(c)`. Time and owners have no fairness;
`DrainCompletes` says that a drain once begun ends whatever they do, when
failures have ceased.

In `Terminal` a call that has begun goes on, and so does a connection's handler
once it has a frame: a PTY write and a WebSocket write have timeouts
(`coder/pty.go`, `frameWriteTimeout`), and `conn.Read` returns when the context is
cancelled. Strong fairness is asked of CreateTerminalConnection alone, which waits
for mutexes; Go's `sync.Mutex` hands the lock to a waiter it has starved for a
millisecond. Clients, healthy connections, tickets and leases have no fairness.

`SetupReview` asks only that `Ensure` happens: the lifecycle scan calls it for
every row at the boundary each minute (`lifecycle/setup_reviews.go`). Nobody is
obliged to decide. `MCProgress!ProgressFairness` is the fairness of both parts,
each for the behaviours of its own part.

In `WorkspaceRetention` goroutines that can run do run, and time passes. `Tick`
waits for a worker that is due and for one that has run `CallTicks`: the code's
tickers and the deadlines on its helper calls justify both. `GoQuiet` is the
moment after which nobody does anything with the workspace; the liveness
properties start there.

## 5. What is proved

`WorkspaceServiceProofs` proves, for every set of workspaces, every capacity and
any number of failures, under `ConstantsAssumption` (finitely many workspaces,
distinct actors, a positive pool and maximum, and a positive minimum share, which
`admission/controller.go:78` demands):

| Theorem | States |
|---|---|
| `TypeCorrect` | `Spec => []TypeOK`: also that no share or limit leaves the pool |
| `ControlPoints` | `Spec => []ControlInvariant` |
| `Accounting` | `Spec => []LiveProviderIsAccounted` |
| `LiveRows` | `Spec => []LiveRowHasProvider` |
| `NoOrphans` | `Spec => []NoOrphanedProvider` |
| `DurableInputs` | `Spec => []InputsDurableBeforeProvider` |
| `TombstonesAreFinal` | `Spec => DeletionIsFinal` |
| `RunningLimit` | `Spec => []AtMostMaxRunning` |
| `SavesAreFresh` | `Spec => []PrivateCopyIsFresh` |
| `LifecycleRefinement` | `Spec => ImplementsLifecycle` |
| `RecordedQuotas` | `NothingLost => (Spec => []RecordedQuotaIsUpperBound)` |

None of these properties is inductive. Whether a stop may be recorded depends on
which call was just made, so the invariant has to say for every control point
what the code relies on there. `ControlInvariant` does so in five parts:
`RowFacts` (row against provider, always), `CopyFacts` (the private copy and the
row agree wherever the copy will be written back, up to the quota and the
running/idle flip), `WaitFacts` (which operation waits where, and in which state
its row is), `StateFacts` (the row's state under the runtime gate) and
`ProviderFacts` (the marker that covers the next call, and what the last call
left). The inductive invariant is `TypeOK /\ ControlInvariant`.

The step from state to state has one lemma per action. A frame lemma reduces
each to the workspace the action touches, because another workspace's row
changes only in its quota and its running/idle flip (`Close`), which no fact
reads. The first six theorems then follow from `RowFacts`, and `DeletionIsFinal`
from `StateFacts`.

`RunningLimit`, `SavesAreFresh` and `LifecycleRefinement` need to know who holds
which gate, and have an invariant each beside `IInv`:

- `AdmissionInvariant` counts `Slots`, the rows that hold a slot of the running
  limit. The count the code compares (`consumers`) would not do: it contains
  tombstones, and the deletion of a stopped workspace adds one, so it may exceed
  the maximum. An operation that decides or commits holds `admissionGate`, and one
  that is about to commit a start has a slot free. Every other action takes no slot
  (`NoNewSlot`) and leaves the admitting operations of the others alone (`Alone`).
- `FreshInvariant` says that an operation at a runtime control point holds
  `runtimeGate`, so that no other one writes quotas while it works on its copy, and
  that its own rebalance spares its row until the start's quota is recorded
  (`SparesItself`).
- `DrainInvariant` says that nothing is about to commit a start once
  BeginMaintenanceDrain has crossed `admissionGate`. The crossing establishes it
  because whoever was committing held that gate; `PlanStart` keeps it because it
  admits nothing under the flag.

The refinement is then a case per Save: `RowMoves` lists the moves of a row's
state that are moves of `WorkspaceLifecycle`, and `ProvisioningRefines`,
`EndingsRefine`, `QuarantineRefines` and `AdmissionRefines` show that each Save
makes one of them, from the state facts of its control point. Steps that write no
row move the drain or nothing.

`RecordedQuotas` has a hypothesis: `NothingLost` says that no store call and no
quota build fails. Provider calls, disk measurements and local steps may fail, a
drain may begin and the process may crash anywhere. Without it the property is
false, with either failure (section 6). The bound is not inductive because a start
leaves the quota cache of its workspace stale: the provider gets the full limit
of the start and the cache keeps what it held before. What repairs that is the
rebalance that closes every start, and the proof is about why it cannot stop
halfway. It rests on two more invariants:

- `ReservationInvariant`: a start holds `admissionGate` from its decision to its
  return, and until its own rebalance is over its row says that nothing was started
  for it. So no second start changes the shares between the rebalance before the
  provider call and the one after.
- `QuotaInvariant`, in four parts. `StartFacts`: from the first rebalance on the
  start is `Settled`, that is, shares are defined, no peer is unresolved, and its
  own quota is at most the share of the consumers there still are. `ClosingFacts`:
  so the closing rebalance goes through, and the limit is within its target.
  `RebalanceFacts`: between its two calls a rebalance has recorded an expansion and
  already made a reduction. `RecordFacts`: the bound itself, and that what the cache
  remembers bounds the limit unless a closing rebalance is still due.

The steps are classed by what they can disturb: `Plain` ones start nothing, `Chain`
ones are inside a start, and the rest are outside the runtime gate or the calls of
a rebalance. `Undisturbed` says what a start that is `Settled` needs of all of them:
its gate is kept, and no consumer is added or becomes unresolved.

`CapacityNotExceeded` is not a theorem. It is false under the same failures, and
without them it is a sum over the workspaces: the argument needs induction over a
finite set, which the installed provers cannot do.

`MaintenanceProofs` proves, under `MaintenanceAssumption`, for any number of
workspaces, API calls, runs, passes and failures:

| Theorem | States |
|---|---|
| `MaintenanceTypes` | `Spec => []TypeOK` |
| `HostUpdateIsSafe` | `Spec => []HostUpdateFindsNothingRunning` |
| `CoordinatorFacts` | `Spec => []CoordinatorInvariant` |
| `DrainsAreNotCancelled` | `Spec => DrainIsNotCancelled` |
| `CheckpointsComeFirst` | `Spec => ScheduledDrainCheckpointsFirst` |

`HostUpdateFindsNothingRunning` is not inductive: that nothing runs when the
drain ends depends on the worker still draining the active run behind a closed
admission, which depends on no call being about to reopen it, which depends on
the clock when the drain began. `CoordinatorInvariant` states these facts as
`WorkerFacts`, `SnapshotFacts` and `CallFacts`. The steps are grouped by frame
lemmas: a worker that goes back to sleep (`Sleeping`), a step inside the drain
(`Draining`), a swap by the worker (`WorkerSwaps`), a step of a call (`Calling`).
That owners cannot undo the drain is `StepFacts`: behind a closed admission a
workspace only comes down.

`TerminalProofs` proves, under `TerminalAssumption` (finitely many connections,
distinguishable lock holders), for any number of devices and connections and any
limits:

| Theorem | States |
|---|---|
| `TypeCorrect` | `Spec => []TypeOK` |
| `AccessIsOrderly` | `Spec => []AccessInvariant` |
| `RevocationIsFinal` | `Spec => []RevokedIsSilent` |
| `RuntimeOutlivesMutations` | `Spec => []MutationHasRuntime` |
| `LimitsHold` | `Spec => []CountsAreExact` |

`RevokedIsSilent` speaks of the time after a revocation has returned success; a
revocation that is durable and reported as an error leaves the device's tickets and
connections (section 6). `done` stays true through later revocations of the device, failed or not.
That it holds then depends on the sweep having marked every connection of the device, on
the drain set containing all that were busy, on no marked connection beginning
anything, and on no request that was authenticated earlier still being able to
issue a ticket. `AccessInvariant` states these facts per phase of a revocation
and of a close (`RevocationIsOrdered`, `CloseIsOrdered`), with the lock holders
(`LocksAreHeld`) and the shape of a connection (`ConnectionsAreWellFormed`). All
steps of a connection's goroutines are instances of one relation (`Evolves`):
after the gates are revoked nothing begins. `CountsAreExact` needs, beside it,
only that nothing but admission and release changes whose connection a slot is.

`StreamsProofs` proves, under the assumptions `PromptAssumption`,
`ReplayAssumption` and `InputAssumption` (natural bounds, a ring that holds a
frame, a memory of at least one key, a lease holder distinct from nobody):

| Theorem | States | From |
|---|---|---|
| `PromptStaysGated` | `PromptSpec => []PromptIsGated` | `PromptInvariant`: what armed the delivery is a socket with output; the sockets written to are finite and are paid for by reported failures or by the copy |
| `ReplayHasNoHoles` | `ReplaySpec => []ReplayIsComplete` | `ReplayInvariant`: from the client's position, or the one behind the gap marker at the head, everything up to the latest frame is on its way in order (`Unbroken`); an unused ticket is for the cursor its client still has |
| `InputStaysExact` | `InputSpec => []InputIsExact` | `InputInvariant`: each write is in the receipts, the confirmed keys, or accounted for as ambiguous or forgotten (`LedgerIsSound`); a confirmation on the wire is for a receipt that was delivered or settled (`SoundLink`) |

The attempt to prove the last one changed the property: with more frames on the
wire than the run allows, a key can be evicted, an old frame writes the draft anew,
and a second confirmation then meets a receipt that was never sent and closes the
connection. `ReceiptsAreHonest` now names that case.

`AccessProofs` proves, for any number of devices, transactions, requests, routes
and calls, under `NotificationsAssumption`, `SessionsAssumption`,
`EnrollmentAssumption`, `PreviewsAssumption` and `AdmissionAssumption` (limits that
are natural or positive, no more logins than ceremonies, a null value that is no
app):

| Theorem | States | From |
|---|---|---|
| `EndpointsStayFollowed` | `NotificationsSpec => []EndpointsFollowDevices` | `NotificationsInvariant`: a registration that holds the device row holds it alone, its device is not revoked, and it is about to disable every other enabled endpoint; the gate is not needed |
| `RevokedStaysDead` | `SessionsSpec => []RevokedMeansDead` | `SessionsInvariant`: row locks are exclusive (`TxsApart`); who is about to commit a pair holds the row a revocation needs; who revokes has seen every pair of its families and every family of its device (`SoundTx`) |
| `OwnerAlwaysKeepsAccess` | `EnrollmentSpec => []OwnerKeepsAccess` | `EnrollmentInvariant`: at most one credential is open, and one that is open for a recovery, or not yet made, enrolled nobody; a recovery whose snapshot showed no passkey holds a credential that is no longer open once there is one; nothing is served while a reset runs |
| `RevokedPreviewStaysGone` | `PreviewsSpec => []RevokedPreviewIsGone` | `PreviewsInvariant`: a request whose context is alive is counted, or a revocation has it in hand to cancel (`PendingFacts`); when the grants of a route or a device leave, what is left of its requests is in hand, and without a grant none is added (`RouteFacts`, `DeviceFacts`) |
| `RegistrationsAlwaysKeepTheirReserve` | `AdmissionSpec => []RegistrationsKeepTheirReserve` | `AdmissionInvariant`: the table, the links to its logins and the counters agree (`TableIsSound`), there is room for the reserved slots (`HasRoom`), and every reserved slot is held by a call (`SlotsAreHeld`) |

`HoldingsProofs` proves, for any number of paths, checkpoints, servers, rows, keys,
processes, commits, secrets, workspaces and token uses, under the assumptions of
its modules:

| Theorem | States | From |
|---|---|---|
| `RotationIsSafe` | `KeyRotationSpec => []OneKeyForEveryRow` | `RotationInvariant`: a server that is up has its lease, nobody serves between the commit and the switch of the file, the rows locked are all there are; after a rotation that was committed and reported as failed, a row is under the key of the key file or of the audited rotation |
| `CredentialIsKept` | `CodexAuthSpec => []CredentialFollowsOwner` | `CodexAuthInvariant`: while anybody runs tmpfs holds the newest credential, and a dead process left that one or none |
| `DisconnectIsEffective` | `AuthoritySpec => []DisconnectEndsTokenUse` | `AuthorityInvariant`: a record is outstanding from before the mint to the last step of a use and of a remote end (`SoundUse`); a use that has not recorded itself holds the shared lock (`GuardedUse`); a helper nobody was told of goes without a record only when its token is revoked (`Severed`) |
| `PushIsScanned` | `GitIndexSpec => []OnlyScannedIsPublished` | `GitIndexInvariant`: what is about to be pushed reaches nothing secret |
| `TerminalWorkIsKept` | `GitIndexSpec => NativeKeepsTerminalWork` | the same: but for a pull, whoever holds the lock has a current copy; who is about to rename it has it still or lost it after the comparison (`SoundLock`); a commit about to become the tip is a child of the tip that was read, and a fetched commit a descendant (`SoundNative`) |
| `GatesDoNotDeadlock` | `SecretGrantsSpec => []GatesAreOrdered` | `GatesInvariant`: an operation holds only gates below those it still wants; in a circle of waiters the one that wants the highest gate contradicts it |
| `LaunchesAreCurrent` | `SecretGrantsSpec => []LaunchIsCurrent` | `GrantsInvariant`: an operation on a secret has or will have the gate of every workspace the secret is granted to, gates are exclusive, and a file that is not due for synchronization is the granted set |
| `RecoveryStaysSound` | `CheckpointsSpec => []RecoveryIsSound` | `CheckpointsInvariant`: the identity an operation is writing is the latest, and listed from its metadata on (`WorkFacts`); while entries are applied the journal holds what was in the way and the workspace the rest, and a rollback has put back all but the records it has still to undo (`HelperFacts`, `PathFacts`); every checkpoint from a discard's own on records what the discard is about to take away, because all of them are of everything that changed (`DiscardFacts`) |

`SetupReviewProofs` proves `ReviewsAreDecidedOnce`, `SetupSpec =>
[]ReviewMatchesDecision`, for any number of racing decisions. `SetupInvariant`
adds what a call between its decision and its event relies on: an approval is never
taken back, and a review that is open while the workspace is denied was open when
it was denied.

`RetentionProofs` proves, under `TimingAssumption` (positive timeouts, natural
bounds), for any idle timeout, checkpoint interval and retention:

| Theorem | States |
|---|---|
| `StoppedIsRecoverable` | `Spec => []RecoverableWhenStopped` |
| `IdleClaimsAreExpired` | `Spec => IdleClaimIsExpired` |

Both rest on `RetentionInvariant`. `OperationFacts` says which row states each
control point of an operation is reached in, and that work is in the latest
checkpoint or late (`Protected`) from the operation's own checkpoint on, and for as
long as the row is not live; that is what a stopped runtime inherits. `ScanFacts`
says that a scan whose compare-and-swap would still succeed read an expired row and
has met no resume since, so every writer of the row has to keep its timestamp or
invalidate the scan. Steps outside the mutation gate are instances of one frame
lemma (`Aside`), the ends of operations of another (`ReturnKeeps`).

Only model-checked:

- liveness (`TransitionsComplete`, `QueueIsServed`, `DrainCompletes`,
  `CallsReturn`, `ClosedSubscriberLeaves`, `BoundaryIsReviewable`,
  `QuietIsReleased`): fairness is outside the prover's reach;
- `CapacityNotExceeded`, for the reason above. Where a store call or a quota build
  may fail, neither it nor `RecordedQuotaIsUpperBound` holds.

Every other invariant and action property of the passing runs is a theorem.

## 6. Where code and documents disagree

Shown by a run:

- **Risk discarded on idle suspension.** `SuspendIfInactive` ignores the dirty and
  unpushed flags of its own checkpoint, so retention can delete unpushed work,
  against `src/ARCHITECTURE.md:501` (run `dirty`).
- **Activity during the idle checkpoint.** The goroutine that flushes terminal
  activity is the one busy suspending, so the activity is not in the row when
  `TransitionIfInactive` looks, against `workspace/service.go:822-823` (run
  `activity`).
- **Failed verification reopens admission.** `Complete` answers a failed health
  check with `fail`, which stores the flag whether or not the run could be marked
  failed, against `maintenance/coordinator.go:321-323`: "only successful
  post-update verification reopens it" (run `reopen`).

Stated as a property that no run includes; TLC refutes each when it is put in
place of the properties of the run of its module (with the constants given here):

- **Quota cache.** `Client.ApplyQuota` skips the build when its cache holds the
  requested quota, but a build whose answer was lost, and `Start`, do not update
  the cache. The rebalance that closes a start makes up for the latter unless a store
  call fails in it. A peer that grew unnoticed is not lowered before the next start,
  and the pool is exceeded, against the comment at `workspace/service.go:1437-1438`
  (`CapacityNotExceeded` and `RecordedQuotaIsUpperBound`, run `capacity` with
  `Faults = {"quota"}` or `{"store"}`).
- **Checkpoints count as activity.** `checkpoint/scheduler.go:119` touches the row
  after every periodic checkpoint. With the default interval of 15 minutes and the
  default timeout of 30 no workspace ever becomes idle, against
  `src/CAPABILITY_MATRIX.md:13` (`QuietIsSuspended`, run `timely` with
  `IdleTimeout = 2`, `CheckpointInterval = 1`).
- **Conflicting setup decisions.** A denial and an approval that race a retry leave
  the review denied and the setup approved, against
  `src/docs/adr/0019-durable-setup-review-reconciliation.md:37-45`
  (`ConflictFailsClosed`).
- **Written more than once.** A PTY write that took effect and reported an error
  leaves no receipt, so the retry is written again, against
  `src/packages/api-contract/terminal-v1.md:42` (`AtMostOncePerGeneration`).
- **Mixed generations.** A cursor from an earlier generation that is not ahead of
  the new one continues silently, so a view can mix two generations, against
  `terminal-v1.md:52` (`ViewIsOneGeneration`).
- **Prompt more than once.** Two Codex tabs started before the mark is stored, or a
  write that took effect and reported a failure, deliver the prompt twice, against
  "the one-shot write" of `src/docs/adr/0003`, line 39
  (`PromptIsOneShot`).
- **A tunnel after revocation.** A request removed by the revocation of its device
  but not yet cancelled can start a tunnel on a route that was just revoked,
  against `coder/portforward.go:76-78` (`RevokedRouteHasNoTunnel`).
- **Inherited and not redacted.** A process that starts after its tab was opened,
  because the PTY dials late or again, inherits values granted since the redactor
  was built, against
  `src/SECURITY.md:139` (`InheritedIsRedacted`).
- **Rotation beside a server.** A server whose lease session was lost goes on
  serving while the rotator runs, against `src/SECURITY.md:192` and
  `postgres/master_key_rotation.go:28-30` (`RotationExcludesServing`).
- **Tokens that outlive a disconnect.** After an ambiguous operation the record is
  kept only until the operation's own deadline, before the token's expiry; when the
  revocation failed too, a disconnect then completes beside a token that GitHub
  still accepts, against `githubapp/token_use.go:58-61`
  (`UnrevokedTokenBlocksDisconnect`).
- **A lock lost.** A use whose lock was lost after it was authorized and before it
  reserved its record can mint after a disconnect returned, against `postgres/repository.go:577-579`
  (`DisconnectIsABoundary`).
- **A ticket after sign-out.** `RevokeDevice`, `RevokeCurrentSession` and
  `RefreshSession` return when the store reports an error, also when its COMMIT took
  effect (`application/passkeys.go:154`, 188, 220): the device is revoked and keeps
  its tickets, connections and lease until it is revoked again, against
  `terminal/gateway.go:434-437` (`NoTicketOutlivesSignOut`; what does
  hold is `RevokedIsSilent`).
- **A helper after a disconnect.** `external()` loses the ambiguity of a helper call
  that fails without a context error (`application.go:239`), so its record is settled
  and a disconnect completes while the helper may still be running, against
  `githubapp/token_use.go:50-54` and `coder/client.go:226-229` (`DisconnectOutlivesHelpers`). Its
  token is revoked by then, so that it can only finish what GitHub has already
  authorized; that is the `Severed` case of `DisconnectEndsTokenUse`.
- **A discard's checkpoint pruned under it.** A periodic checkpoint between the
  discard's checkpoint and its helper call may prune the former, whose identity and
  restore URL the discard then answers with, against `checkpoint/service.go:147-149` (`DiscardKeepsItsToken`).
  The work is in the periodic one (`DiscardIsRecoverable`).
- **A pull over a commit.** The branch is set without its old value, so a commit
  the terminal makes after the ancestor check is no longer on it, against
  `workspacehelper/helper.go:135`: "Native pull is always fast-forward-only" (`PullIsFastForwardOnly`).
  For the same reason `NativeKeepsTerminalWork` claims a descendant only when
  the branch is still the one the pull read, and excludes by name an index a pull
  wrote and a lock that went between the comparison and the rename.

## 7. Not modelled

Of modelled components: `UpdateSafetyMode`, retention warnings, state-event audit
rows, queue positions and the blocking of an owner's later queue entries by an
earlier one; the eviction of the bounded quota cache, which only forgets entries
as a restart does; reconnect tokens, pings, resizing and the manager's shutdown in
the terminal gateway; which repositories a synchronisation lists; terminal tab
rows, activity and settings, which are stored and read back.

Components without a module: attachments and their janitor, confined files, the
terminal's output filter and redactor, Codex events and configuration, the
provider adapter, the HTTP API, the in-memory store, metrics, host disk and
migrations. They are parsing, formatting, cryptography, proxying,
operating-system confinement or I/O around one call of a component above; the
process keeps no state in them that two actors share.

Two refusals that leave all state alone are not among the modelled ones: the cap on
receipts per tab (`terminal/gateway.go:787`) beside that of the device, and the cap on
devices with an admission record (`passkeys/admission.go:150`). The recovery of an
unconfirmed provision lacks the branch for a row that is `provision_unconfirmed` and
has a provider resource ID (`workspace/service.go:1311-1318`), which no operation
leaves behind.

Hazards known and not covered by a property:

- two that are findings (section 6): the quota build whose answer
  is lost (`coder/client.go:674`), which `capacity` excludes, and the periodic
  checkpoint that counts as activity (`checkpoint/scheduler.go:119`), which cannot
  happen under the intervals of `timely`;
- after a rotation that was committed and reported as failed, the rows cannot be
  read with the configured key file until the operator notices; no document of the
  repository claims otherwise, and `OneKeyForEveryRow` says what is left;
- the index a pull overwrites, and a lock replaced between comparison and rename
  (`gitops/index_transaction.go:136-145`): staged work of the terminal can be lost;
- a create that Coder executes after the lookup has answered not-found
  (`coder/client.go:348`) would appear behind a row that no longer expects it;
- `UpdatePolicy` takes no gate (`postgres/workspace.go:353`); an operation that
  read the row earlier and saves it whole undoes it;
- retention is decided on a listed row (`lifecycle/coordinator.go:309`); Delete
  rechecks state and flags, not the age.

## 8. Plan

Done: the workspace service, retention, maintenance and terminal modules; input,
replay and prompt; login, sessions, enrolment, previews and notifications;
checkpoints, Git, rotation, secrets, Codex and GitHub; setup reviews. Theorems
about all of them, and the refinement of `WorkspaceLifecycle`.

Proofs: of the invariants only `CapacityNotExceeded` is left, out of reach as long
as no prover here can do induction over a finite set.

Models next: the three uncovered hazards of section 7; an abstract input log that
`TerminalInput` implements.
