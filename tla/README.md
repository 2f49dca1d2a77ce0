# vphone-web in TLA+

vphone-web is a Go server that creates, boots, controls and deletes virtual
iPhones on a macOS host. It keeps its state in one SQLite database, runs long
work as background jobs, drives the vphone launchpad CLI for everything that
concerns VM processes, and can be the controller of a cluster of such servers.
This directory holds TLA+ models of it, TLC runs over small instances and TLAPS
proofs for all instances. Sources are cited as paths below `src/`.

## 1. Inventory

| Component | State | Operations | Interacts with | Hard behaviour | What makes it correct | Here |
|---|---|---|---|---|---|---|
| Job queue `internal/jobs/{queue,store,job}.go` | `jobs` rows; `pending`, `running`, `sinks`; `wakeCh`; the contexts | Enqueue, dispatchLoop, execute, Cancel, Close, reconcileStale | every service enqueues; `run()` closes it | goroutines, lost wake-ups, cancel against dispatch, failed writes, restarts | the limit, one owner per job, final outcomes, every job settles | `JobQueue` |
| Job runner `jobs/runner.go` | a process group, two pipes | RunCommand, execStreaming | a `Run` of the queue | kill on cancel, pipes that stay open | the command ends when its context does | assumed (fairness) |
| Log sink `jobs/logsink.go` | ring of lines, partial line, subscribers | Write, Subscribe, Close, Snapshot | execute, log WebSockets | slow subscribers, Subscribe against Close | history plus stream has no gap but dropped lines, and no double; no channel is closed twice or sent on after; every viewer ends | `LogStream` |
| Port allocator `vm/ports.go` | `used` | Reserve, Allocate, Release | VM manager, `vms` rows | racing deletions, failing inserts, restart, changed configuration | exclusive blocks, no leak | `PortBlocks` |
| VM manager `vm/{manager,store,instance}.go` | `vms` rows, `runtimes`, forwards; goroutines per boot | Create, Boot, Stop, DeleteJob, Reprovision, UpdateConfig, Import, Shutdown | HTTP handlers, job queue, launchpad, TCP forwarder | every operation reads the status once and writes it later; stale supervisors; crashes | transient states have an owner and end; a RUNNING VM is supervised | `VMLifecycle` |
| Reconciliation `vm/reconcile.go` | rebuilds runtimes, `used` and statuses | reconcile | launchpad, guest API | restart in the middle of anything | no orphaned transient status | `VMLifecycle`, `PortBlocks` |
| Provisioning `vm/provision.go` | the job's progress | provision, runProvisionSteps | job queue, launchpad | exclusive use of the VM directory | the firmware is installed alone; nothing outlives the job; the restore and the DFU VM do not wait for each other | `Provision`; the status in `VMLifecycle` |
| Snapshots `vm/snapshots.go` | `snapshots` rows, launchpad's snapshots | Create, Restore, Delete, List | VM status, jobs | guards are checked at enqueue, work is done later | no snapshot work on a running VM (does not hold) | not modelled |
| Bundles `vm/bundle.go` | archives, a new row | Export, ImportBundle | port allocator | cleanup after partial failure | no leak | port blocks only |
| IPSW library `ipsw/{library,store}.go` | `ipsws` rows, files | Register, SaveUpload, Download, Delete | job queue, VM manager | row and file changed apart; equal file names; deletion of a running download; restart | READY means a complete file; foreign files stay; deletions last | `Library` |
| Cluster manager `cluster/manager.go` | node registry, health, VM cache | Register, Delete, sweep, FindJobNode | nodes over HTTP | sweeps work on stale nodes; the machine at an address changes; timeouts | caches hold what the accepted machine said; sweeps converge | `Cluster` |
| Cluster proxy `cluster/proxy.go` | none | routing of `/api/v1` requests | cluster manager | the cache, the row and the server are read at different times | a request reaches the owner | `Cluster` |
| Accounts `auth/{service,store}.go` | `users`, `sessions` | Login, ResolveSession, SetRole, SetDisabled, BootstrapAdmin | middleware, SSO | read-modify-write of whole rows, sliding expiry | sessions expire neither early nor late; what was deleted stays so | `Accounts` |
| TCP forwarder and proxies `proxy/*.go` | listeners, two goroutines per connection | Start, Stop, StopAll, handle | VM manager, guest API | half-closed connections, Stop while accepting | a bridge comes down as a whole, nothing is left open | `Relay`; the log handler in `LogStream`, a VM's listener in `VMLifecycle` |
| Launchpad `upstream/launchpad.go` | external VM processes | VMLaunch, VMStop, VMDelete, VMList | VM manager, pipeline | the launcher outlives the poll; the VM is outside the process group | – | environment |
| Guest API `upstream/{client,ws}.go`, guest control, VNC, Frida | inside the guest | RPC | handlers | timeouts | – | not modelled |
| Configuration, database, `cmd/vphone-web` | start-up | Load, Open, run | all | order of deferred closings | – | start and end of the process |
| MCP server `mcp/*.go` | none | a sequential JSON-RPC loop over HTTP | HTTP API | – | – | not modelled |
| Web frontend `web/` | a React client | – | HTTP API | – | – | not modelled |

`PROJECT.json` lists the same components with their sources, and the hazards
with the line where each bites.

## 2. The modules

| Module | What it is |
|---|---|
| `BoundedQueue` | what the job queue promises: arrival order, a limit, one settlement per job, no idle slot |
| `JobQueue` | the queue as it is coded; implements `BoundedQueue` |
| `JobQueueProofs` | its theorems |
| `PortBlocks` / `PortBlocksProofs` | the allocator with the `vms` table, and its theorems |
| `VMLifecycle` / `VMLifecycleProofs` | the VM manager, and its theorems |
| `Library` / `LibraryProofs` | the IPSW library with its files and downloads, and its theorems |
| `Provision` / `ProvisionProofs` | the pipeline that installs a VM, and its theorems |
| `LogStream` | the output of one job and those who watch it |
| `Relay` | TCP forwards and WebSocket bridges |
| `ProxyProofs` | the theorems about `LogStream` and `Relay`; it extends both, hence the prefix of `RelayInit`, `RelaySpec` and the like |
| `Cluster` / `ClusterProofs` | the controller of a cluster: registry, sweeps, caches, routing; its theorems |
| `Accounts` / `AccountsProofs` | users and sessions, and their theorems |
| `MC...` | instances for TLC: model values, symmetry, the configurations of ports |

Definitions that begin with a comment `Mutant:` are faulty variants of the
definition that follows them. No specification uses them; put in the place of
the real definition each makes TLC report the property it belongs to, which
shows that the property says something about that code.

### JobQueue

One step is what runs under one hold of `q.mu`, one SQL statement, or one
operation on a channel. `stage[j]` says how far the goroutine that is
responsible for job `j` has come: Enqueue (`inserted`, `queued`), the dispatcher
(`claimed`), execute (`launched` ... `exited`), or Cancel of a waiting job
(`withdrawn`, `marked`, `cancelled`). `row` is the status column, `running`,
`pending`, `sinks` and `wakeCh` are the fields of `Queue`, `cancelled` and
`done` are each task's context and channel. `fallback` are calls of Cancel that
found the job neither running nor waiting and go to the database. `Restart` is
the death of the process at any moment and the `NewQueue` of the next.

Abstracted: what a job does (`RunReturns` returns success or an error), its
output, times and exit code. A write fails for at most `MaxUnsaved` jobs while
the database is open, and always after it has been closed. The dispatcher holds
`claimed` for one step only (`disp = "launch"`), between its unlock and
`inflight.Add(1)`, where Close can overtake it.

### PortBlocks

`used` is the allocator's map; `stage` and `block` are the `vms` rows and, before
a row exists, the local variables of Create, Import or ImportBundle. A deletion
(handler or job) reads the row, later deletes it and later still releases the
block it has read; any number may be under way for one VM, since the status
check of DeleteJob is not atomic with its write and other writers replace
DELETING. `Restart` may bring another `[ports]` section; the history variable
`under` says from which section a VM's block was taken.

`PortsOf` is `blockFor`, which every reader of a row applies. The column
`frida_port` would replace the last port of a VM, but nothing ever stores another
value than 0 in it: `setFridaPort` (`vm/store.go:188`) has no caller. `NoSharedPorts`
is said of VMs whose blocks come from one section. Blocks of two sections may
overlap whenever their grids do, and nothing in the code sets out to prevent it;
what holds of those is `BlocksAreExclusive`, that they have different bases.

### VMLifecycle

A *boot* is everything one call of Boot leaves behind: its goroutine (`pc`), the
watcher of realBoot (`watch`), superviseEvents (`sup`) and postBootServices
(`post`). It stands for one runtime object; `runtimes[v]` is the one registered
in `m.runtimes`. An *agent* is a call of Stop, DeleteJob with its job, or Create
or Reprovision with the pipeline's job. `alive` are the VMs with a vphone-vm
process, `launching` those with a vphone-cli launcher that has not ended: the
launcher may produce a process long after the poll for it has given up.
`forwards` are the VMs with a listener of the TCP forwarder. The handlers of
`api/vm_handlers.go` only call these operations; restartVM is a Stop followed by
a Boot.

Abstracted or assumed:

* VMs are native ones with a token and a launchpad name; legacy VMs and adopted
  directories without a launchpad name are left out, and so are `api_port`, the
  directories and the snapshot rows.
* `StopKill` ends the process, if there is one: launchpad's `vm stop` or else
  SIGTERM and SIGKILL. `vm delete --force` may or may not.
* The supervisors' first ticks come 5 and 10 seconds after the registration of
  the runtime; the RUNNING write that follows it in the same goroutine is taken
  to be done by then (`Ticking`). Without that the watcher could go first and
  `RunningIsWatched` would not hold.
* A pipeline is one agent whose outcome is written at its end; `Provision` has
  its own launches (DFU).
* `Shutdown` is one step. After it no request begins; what runs goes on until
  `Restart`.

### Library

One step is one SQL statement, one system call on the file, or one event of the
transfer. An id of `Ids` is a uuid, and stands both for the entry and for the one
request that makes it: `pc[i]` is how far that request and its job have come,
`row[i]` the status column, `path[i]` the `file_path`. `disk` says of each path
whether there is no file, a partial one, what one transfer has written whole, or
what several have written into each other. `holds` are the transfers that have
the file now at their path open: whoever goes on writing after `os.Remove`
writes a file without a name. `removing` are calls of Delete between their
DELETE and `os.Remove`. `Managed` and `Outside` are the paths for which
`isManaged` answers yes and no.

Abstracted or assumed:

* The client names the file (`filepath.Base` of a file name or URL), so any
  request may take any managed path.
* The tool is curl, which truncates a file that is there, or aria2c, which writes
  beside it; both report success only when they have all bytes.
* `os.Remove` of a file that is there succeeds; a file in the library is changed
  by the server only. `Register` of a path in the library is allowed.
* Any INSERT or UPDATE may fail. Of a failed INSERT of Download nothing is left,
  so there is no step for it.
* The job is `pending` until a worker starts it or Cancel takes it out;
  `JobQueue` has the details. Cancelling a running job kills the tool
  (`ToolFails`). When the server dies the tool, which has a session of its own,
  may live on as a `stray`.
* Version, build, device, kind and size are left out; the time that `ipsw info`
  takes (up to 20 s) is the gap between `UploadCopied` and `UploadInsert`.

`ReadyIsUsable` is stated of entries that are *alone*: no other request, finished
or not, ever named their file. Without that it does not hold: a second upload
truncates the file of the first.

### Provision

One provisioning job. `step` is how far `runProvisionSteps` and its deferred
function have come; `wrapper` is the CLI that launches the DFU VM and a child of
the server, `vm` the process it makes. The VM is spawned by a privileged helper
outside the wrapper's process group and holds the wrapper's output open, so that
killing the one does not end the other and `dfuCmd.Wait` waits for both. The
restore waits, in its clean-up, for that VM to go: `marker` is its "waiting for
disconnect" on the way to the watcher, which runs killDFU in a goroutine
(`killer`, with three steps of its own) at most once. `proc` says whether
`dfuCmd.Process` is not nil. Nothing orders the watcher's flag with the
pipeline's read of it when the marker came with the output of the VM: that read
may find either value (`RestoreRefused`). The watcher looks for the words in what
is left of the last write and the new one, and keeps both in one field,
`partial`, without a lock. The restore's lines come whole, but the VM's output
comes in chunks from another goroutine: if the words are split over two chunks
and a line of the restore is written between them, they are lost (`marker =
"lost"`). Then nobody kills the VM, and the restore stays in its clean-up until
the job is cancelled or the VM dies by itself; `CleanupEnds` is said of the other
cases. That `partial`, a string, could be read half written is left out.

Assumed of the tools: the VM is spawned while its wrapper lives; a restore that
succeeds, or fails for its unsealed volume, has been through its clean-up;
SIGTERM to the wrapper's group and SIGKILL to the VM work, so that a wrapper for
which killDFU has waited five seconds in vain (`vm/provision.go:137`) is one whose
output the VM still holds, not one that lives. A death of the server
and the deletion of the VM are in `VMLifecycle`.

### LogStream

One step is one hold of the sink's or the queue's mutex, one operation on a
channel, one message to a client or one access to the database. Lines are
numbers in the order in which the job completes them, `partial` says whether
bytes follow the last newline. `phase` is the end of execute: the sink is closed,
its `Snapshot` stored, and only then is it taken out of `q.sinks`. A viewer is
one call of `Logs` with its channel. `by` (where its lines come from), `sent` and
`lost` (lines dropped for it) are history variables for the property, and so is
`unstored`: markTerminal has failed, which is logged and nothing more. The cut of
the stored output at a mebibyte is left out.

What a viewer is promised is `OnlyDropsMissing`. Its lines are in order and none
comes twice. What is missing is lines that were dropped because its channel was
full, in the middle or at the end, and, for one that came late, lines that the
ring had given up by then. When it is told "job complete" it has, up to those,
the output to its end. Three viewers are excepted from the last: one that came
before the job began, one that came after the end of a job whose output could not
be stored, and one for which the row could not be read. They are told "job
complete" with nothing or with what the column has.

### Relay

A bridge has two loops, one per direction, each reading one socket and writing
the other. A WebSocket bridge (display, terminal, tunnel) closes both sockets
when a loop ends; a forwarded connection waits for both loops or for Close of its
forward. `fwd` and `forwards` are the `TCPForward` objects and the map of the
`PortForwarder`, whose operations hold one mutex. A peer may end a connection or
just do nothing at any time: a read or a write that it blocks never returns by
itself, since there is no deadline on them. What is carried is left out.

### Cluster

One step is one SQL statement, one hold of `vmMu` or `jobMu`, or one HTTP
exchange. `status`, `addr` and `pin` are the columns of a node, `shown` the
certificate whose fingerprint the operator was shown by the 409 of the first
Register. `check[i]` is the goroutine of a sweep for node `i`, which works on the
row that the sweep has read; `vmCache` and `jobNode` are the two caches; a
request is first routed by the cache, then reads the row of the node, then is
sent. `server` says which machine answers at an address: it may go away, come
back, or be replaced by another with another certificate at any moment, between
any two of these steps. An answer other than 200 counts as none. Requests for
the controller's own VMs are not followed.

`home` gives each VM and job the machine that draws its id (a uuid). An agent is
the same program and may have nodes of its own, for which it answers too:
`listVMs` appends what its caches hold of them (`api/vm_handlers.go:34`), and its
`routeRemoteJob` passes on a request for a job of theirs (`api/proxy.go:80`). Such
an agent is not modelled a second time. `Below` names the machines that its nodes
ever lead to, through their nodes too; its list is all VMs it has itself and any
set of VMs that those have made, existing or not (`ListsOf`), and it may say that
it has a job of theirs, or not (`MayHaveJob`); it always says so of its own. So
`CachesFromAccepted` and `DeliveredToOwner` say of a TLS node that an entry comes
from, and a request goes to, the accepted machine, which made the VM or the job
itself or has nodes that lead to the machine that did. What happens to the request
from there on is the same property of that agent. `SweepsConverge` says nothing of
deleted VMs of the agent's nodes: two controllers that are nodes of one another
keep telling each other of them.

What the properties say of identity is said of nodes with TLS; without it nothing tells
machines apart.

### Accounts

One step is one SQL statement on the two tables; between the statements of a
request are bcrypt, a directory or an identity provider, and the steps of other
requests. `updateUser` writes all columns of the row it read (`copy`). `left` is
the time until `expires_at` in ticks, `unused` a history variable: the time
since the session was last accepted. The errors of touchSession and
deleteSession are ignored: the request is accepted or refused all the same
(`StatementFails`), and `unused` goes on when the expiry was to be moved and was
not. A tick is about a quarter of the TTL, and no call of ResolveSession is
taken to last that long. Passwords (right, or the call ends), e-mail addresses
and the must-change flag, which nothing checks, are left out.

## 3. The runs

| Run | Checks | Bounds |
|---|---|---|
| `JobQueueSafety` | `TypeOK`, `ConcurrencyBound`, `NoLostWakeup`, `OneOwner`, `DoneMeansTerminal`, `NoOrphanedRows`, `CancelledPendingNeverStarts`, `OutcomeSticks` | 2 jobs, limit 0 raised to 1, one fall-back of Cancel, one job with failed writes, one restart |
| `JobQueueLive` | `JobsSettle`, `RefinesBoundedQueue` | 2 jobs, limit 1, one restart, fairness |
| `PortBlocksSafety` | `TypeOK`, `BlocksAreExclusive`, `NoBlockLeaks`, `NoSharedPorts` | 4 VMs, 3 blocks of 4 or of 5 ports, 2 deletions |
| `VMLifecycleSafety` | `TypeOK`, `TransientsOwned`, `RunningIsWatched` | 1 VM, 1 boot at a time, 2 agents, all requests, forwards |
| `VMLifecycleLive` | `CrashNoticed`, `TransientsResolve` | 1 VM, 2 boots, 1 agent, boot and stop, fairness |
| `LibrarySafety` | `TypeOK`, `ReadyIsUsable`, `OutsideUntouched`, `DeletedForGood` | 3 requests, 2 paths in the library, 1 outside |
| `ProvisionSafety` | `InstallAlone`, `NothingLeft`, `CleanupEnds` | none: all 695 states of one job |
| `LogStreamSafety` | `TypeOK`, `OpenIffSubscribed`, `OnlyDropsMissing`, `ViewersEnd` | 2 viewers, a ring of 2, channels of 2, 4 lines |
| `RelaySafety` | `RelayTypeOK`, `NothingStray`, `BridgesComeDown` | 2 addresses, 2 forwards, a forwarded connection and a WebSocket bridge |
| `ClusterSafety` | `TypeOK`, `CachesFromAccepted`, `DeliveredToOwner`, `SweepsConverge` | 2 nodes, one with TLS, at 1 address with 2 machines, one of which has the other as a node; 1 VM, 1 job, 1 request |
| `AccountsSafety` | `TypeOK`, `SlidingExpiry`, `NoneReturns` | 2 users, 2 names, 1 session, 2 requests, a TTL of 4 ticks |

Why the bounds are enough: with two jobs and one slot one job waits behind the
one that runs, so that claims, cancellations and the last wake-up of a worker
race; larger limits and more jobs are covered by the theorems. Four VMs for
three blocks exhaust the allocator and issue a block again after a deletion,
with another deletion of the old VM still under way; 4 and 5 are the smallest
block size that is accepted and the smallest that holds all five ports. The
status of a VM depends on other VMs only through the limit, which only adds
refusals, so the lifecycle runs have one VM; two boots are needed for a stale
supervisor to meet a new boot, and two agents for two stops, or a stop and a
deletion, to overlap. The safety run has one boot at a time because its
invariants are also proved, for any number of boots. Three requests and two
managed paths let two share a file while the third is alone with its own, and a
file be removed and made again under a transfer. Four lines overflow a ring and
a channel of two, so that history and stream are cut on both sides and one
viewer may lag behind the other and lose lines. Two forwards let one replace
another at its address or take a second one. Two nodes at one address, with a
second machine that may appear there, make every answer a possible impostor's.
One machine has the job, the other, its node, the VM, which both list: entries
of a machine's own and those passed on occur side by side. That a request for a
job is passed on, too, occurs in the proofs only (a third machine makes the
instance too large); one VM and one job are enough, as entries of the caches do
not influence each other. Two requests race for a session or a row; a TTL of
four ticks has a half that is neither its start nor its end. Restarts are
unbounded in `PortBlocks`, `VMLifecycle`, `Library`, `Cluster` and `Accounts`.
Deadlock checking is off where the model ends: `JobQueue`, `Library` and `Relay`
when all ids have been used, `LogStream` when the job is over and the viewers
are gone, `Provision` when the job is over.

### Disagreements between the code and what is said of it

One of them is a run, `VMLifecycleDestroy`, that ends with a counterexample:
`DestroyStops`, which `PROJECT.json` quotes from the source, fails because Stop
refuses DELETING, the status that DeleteJob has just written.

The modules show the others, without a run:

* Job queue. Close "waits for them to exit" (`jobs/queue.go:252`), but may return
  before the dispatcher has counted the job it has just claimed (256). Cancel's
  fall-back and markStarted may replace a final status.
* Ports. `block_size = 4` is accepted (`config/config.go:340`,
  `docs/06-configuration.md:56`) although five offsets are used
  (`vm/ports.go:10` asks to "keep these < the configured block size"): the VNC
  port of a VM is then the Frida port of the one before it, which `NoSharedPorts`
  states as the only case; blocks of two configurations overlap.
* VM manager. `max_concurrent_vms` is "enforced at boot"
  (`docs/06-configuration.md:64`), but two boots may count before either marks
  (`vm/manager.go:659`). Stop means to "tear down TCP forwards for this VM"
  (1109), but the listener may be opened after it (871). Reprovision may fail
  after it has written CREATING; Boot and Reprovision may both pass their checks;
  watchers write ERROR after Shutdown; the watcher of an earlier boot, which Stop
  does not end, may mark ERROR a VM that is being booted again; DELETING survives
  a restart or a cancelled job, and a VM that is DELETING cannot be deleted again.
  "BOOTING" stays when the `launchpad status` before a launch never returns: it runs
  under `context.Background()` and no deadline of its own (`vm/manager.go:720`,
  `upstream/launchpad.go:192`, `239`).
* Provisioning. The watcher is there "to catch it from either source"
  (`vm/provision.go:120`), but misses words of the VM that are split by a line of the
  restore (326). A VM that is spawned after killDFUByName and before the wrapper
  is killed makes `dfuCmd.Wait` wait for it (`vm/provision.go:163-171`); killDFU
  may outlive a failed job when the marker is read late (321).
* Library. Delete says that "in-progress downloads are deleted from disk"
  (`ipsw/library.go:304`), but the job of the deleted entry goes on and its tool
  makes the file later. DOWNLOADING survives a restart and the cancelling of a
  waiting job; two entries of one base name share a file, which the deletion of
  either removes.
* Logs. A viewer of a PENDING job is told that it is complete
  (`proxy/logs.go:34-40`). "The full output is still persisted"
  (`jobs/logsink.go:8`), but Snapshot has only what the ring holds (120), and the
  failed write of it is logged and forgotten (`jobs/queue.go:168`). A slow
  subscriber "will catch up via subsequent lines" (`jobs/logsink.go:66`), but never
  sees those that were dropped. "There are no leaks" (`proxy/logs.go:23`) is said
  of the reader goroutine; the handler that sends stored output has neither reader
  nor deadline (37) and may stay for as long as its client keeps the connection.
* Forwarder. "When either direction ends, close both" (`proxy/tcpforward.go:122`)
  waits for both, so that a connection of which one end has gone may stay until
  its forward is closed; after an error of Accept a forward stays registered but
  deaf (62-69).
* Cluster. Deleting a node leaves its entry in `vmCache`; its VMs then count as
  the controller's own (`cluster/proxy.go:193`), also when another registration
  of the same agent lists them, since the first owner found decides. Controllers that
  are nodes of one another may list a deleted VM for ever.
* Accounts. A writer that read a user's row before SetDisabled wrote it puts the
  old flag back (`auth/service.go:278`): a user who was just disabled is enabled
  again. Sessions of a user that was deleted between the check and the INSERT
  stay in the table, where they resolve to nobody, for PurgeExpiredSessions (316)
  is never called. The last administrator can be demoted, disabled or deleted.

### Fairness

`JobQueue`: the dispatcher, every goroutine of execute and every call that has
begun keep running (weak fairness of each step): Go's scheduler starves no
runnable goroutine. A `Run` is only promised to return once its context is done,
for `RunCommand` kills the process group then; the second part of `JobsSettle`
assumes explicitly that no job runs for ever. Nothing is promised of enqueueing,
cancelling, closing or crashing.

`VMLifecycle`: the goroutine of a boot, the two tickers and a Stop that has begun
make progress. The poll, `vm stop` (30 s) and `vm list` (10 s) have deadlines;
`pgrep` and `lsof` have none and are taken to return. The launch itself is not
fair, for it begins with `launchpad status`, which may hang: that BOOTING ends is
promised (`TransientsResolve`) under the hypothesis, written into the property,
that no boot of the VM stays at its launch. Nothing is promised of requests,
pipelines, launchers, processes or restarts.

`Provision`: the goroutines that copy output and that kill, and a restore that
has nothing left to wait for; the watcher acts on a marker that it has recognised.
No other tool is sure to end. `LogStream`: a viewer that has something to do goes
on, as the write of a line has a deadline of ten seconds (`proxy/logs.go:80`); the
one write of the stored output has none and is fair only while the client reads;
nothing makes the job end. `Relay`: a read of a socket that is at its
end or closed here returns, and so does a write to a socket closed here; a
handler goes on once it may. Peers promise nothing. `Cluster`: the sweep has a
timer and every exchange of a check a timeout. `Accounts` has safety properties
only.

## 4. The proofs

All hold for every value of the constants, under the assumptions named in the
modules (`JobsAssumption`, `ConfiguredAssumption`, `BoundsAssumption`;
`ConfigsAssumption`, `TopPortAssumption`; `SetsAssumption`, `NamesAssumption`,
`RequestsAssumption`, `LimitAssumption`; `PathsAssumption`; in `Cluster`
`NamesAssumption`, `HomeAssumption`, `TlsAssumption`, `BelowAssumption`; in `Accounts`
`TTLAssumption`, `NamesAssumption`, `DrawnAssumption`; in `LogStream`
`BoundsAssumption`, in `Relay` `NamesAssumption`). `Provision` has no constants.

* `JobQueueProofs`. `TypeCorrect` is inductive by itself. `Ownership`
  (`OneOwner`) is inductive relative to it: each step moves a job between
  `pending`, `running` and the settled stages together with its stage.
  `LimitHolds` follows, for the jobs at work are exactly `running`, whose size
  the claim bounds. `WakeupsAreKept` needs a strengthening that says where a
  token may be on its way while the dispatcher sleeps: an enqueuer that has
  appended but not yet called wake, or a worker that has left `running` but has
  not called it. `DoneIsFinal` needs the results of returned jobs to be final and
  the rows of persisted ones to be saved or listed as unsaved, and
  `RestartLeavesNoOrphans` that a row exists only for jobs that have begun.
  Two action properties follow. `OutcomesStick`: one lemma lists who may write a
  row at all (`RowWriters`), another how far a stage moves in one step
  (`StageSteps`). `WithdrawnStayOut` needs one invariant more,
  `RunningMeansStarted`: RUNNING is in the row only of a job whose markStarted has
  been called, so that a withdrawn one does not have it already.
* The same module shows that the queue keeps its promise:
  `QueueImplementsPromise` is the safety part of the refinement. Its mapping
  sends each job to its place by its stage, `pending` to the line and `rootDone`
  to the closing; `StepRefines` goes through the actions, of which most
  change no place and are stutters. A claim is `Admit` because, with one owner per
  job, the active places are exactly `running` (`ActiveIsRunning`).
* `PortBlocksProofs`. `NoDoubleIssue` and `NothingLeaks` are proved together: the
  strengthening adds that no two deletions are about to release the same VM and
  that a VM whose block is about to be released no longer holds it, because
  exactly one deletion succeeds in deleting the row. `PortsStayApart` adds that
  every block lies on the grid of the section it was taken from (`OnGrid`, over
  `under`), so that bases of one section are at least a block apart. A block has at
  least four ports (`ConfigsAssumption`, which is the check of `Config.validate`),
  so that only offsets 0 and 4 of neighbours can meet, and only when it has four.
* `VMLifecycleProofs`. `TransientsAreOwned` is inductive given the types: every
  action that leaves one of the owning program counters also writes the status,
  and a row that does not exist is not brought back.
* In the same module, `RunningIsSupervised`. `RunningIsWatched` is not inductive: a Stop that has
  picked up a runtime long ago may switch its supervisor off when the VM is
  RUNNING again. `Supervised` therefore asks of a RUNNING VM a goroutine that no
  Stop can take from it (`Guards`): a watcher, or the supervisor of a runtime
  that no Stop in `stopkill` holds. Every writer of RUNNING provides one (a boot
  has registered its runtime and its watcher has not ticked: `ReportsWatched`),
  and whoever ends the last one has written another status first, or does so in
  the same step. It needs that runtimes belong to their VM, in `m.runtimes`
  (`RuntimesKnown`) and in the hands of a Stop (`StopsKnow`): boots are used
  again only when nothing refers to them.
* `LibraryProofs`. `LibraryInv` says for each request how file, path and row
  follow its progress: a transfer that has not finished holds a partial file or
  has lost it with its entry, and a row is READY only after the file was whole.
  The part about the file is for requests that are alone with it; one lemma
  handles the request that steps (`OwnBegins`, `OwnGoesOn`), one all others
  (`OtherPart`, through `ActsFrame`: a step changes only the file it names).
  `ReadyIsPresent` follows; `RegisteredStay` and `DeletionsLast` are action
  properties shown from the same invariant.

* `ClusterProofs`. What a cache, a check or a request holds was learnt at an
  earlier time, so the invariant ties each to something that does not change any
  more: a node that has been accepted keeps its certificate (`Keeps`), and for a
  TLS node the pin is the one that was shown (`Rows`). `Caches` and `Requests`
  then say that every entry, every check and every request under way exists for
  accepted nodes only, and that what they name is at home at the machine shown for
  the node or below it (`Under`).
  `CachesAreFromAccepted` follows, and `RequestsReachTheOwner` as an action
  property: an exchange succeeds only if the machine shows the pinned
  certificate.
* `AccountsProofs`. `Clocks` relates the two clocks of a session: `left` and
  `unused` add up to at least half the TTL and at most all of it. `Fresh` is what
  a request relies on that accepts its user without moving the expiry: what it
  read, at least half the TTL, is still there. `Well` says what a request has at
  each of its steps. `DeletedStayDeleted` is an action property: an insertion
  draws an id or a token that nobody used before, and an update finds the row or
  changes nothing.
* `ProvisionProofs`. `Evidence`: where there is a marker, and so where killDFU
  runs, the restore has reached its clean-up and the VM has been spawned. `Order`: what must have
  happened before each step of the pipeline, in particular that killDFU is over
  before the firmware is installed. `Reaped`: in the deferred function each step
  leaves less to kill, and where `dfuCmd.Process` has been forgotten killDFU has
  run.

* `ProxyProofs`, for `LogStream`. `StreamInv` is what `NothingElseMissing` needs. Of
  every viewer, the lines it was sent, still has as history and has in its channel,
  put one behind the other, rise (`Rising`) and leave out between two of them only
  what was dropped (`Joins`); and as long as it follows the sink, every line from
  its first one on, and every line that the ring still holds, is there or dropped
  (`Covers`). The ring is the end of the output without a gap (`EndOf`), which
  is why history and stream meet when a viewer subscribes. What a handler may have
  at each station (`Station`) and what it knows of the end of the job (`Timely`)
  say when the whole has become what was sent. Lemmas about sequences stand first:
  a line appended at the end keeps each of these facts, so does the loss of the
  oldest when the ring has one too many, and a line that moves from one sequence to
  the next leaves their concatenation alone.
  `ClosedOnce` follows from the same invariant.
* `ProxyProofs`, for `Relay`. `BridgesNothingStray` is inductive with the types:
  whoever takes a forward out of `pf.forwards` closes it in the same step
  (`ListenersFound`), and no step of a peer or a loop opens a socket of a handler
  that has returned (`SocketsKept`).

Only model-checked is all liveness: `JobsSettle`, `TransientsResolve`,
`CrashNoticed`, `CleanupEnds`, `ViewersEnd`, `BridgesComeDown`,
`SweepsConverge`, and of `RefinesBoundedQueue` the fairness that the abstract
queue promises (no slot stays free while a job waits). It is outside what the
installed provers can do, for they know nothing of ENABLED. Every invariant and
every action property of a run is a theorem.

## 5. Not modelled, and what is left

Not modelled:

* Snapshots. Each operation checks the VM's status when it enqueues its job
  (`vm/snapshots.go:155`, `182`) and leaves the work to launchpad. That the check
  is stale when the job runs is listed as a hazard; no property of this code
  would hold against it.
* UpdateConfig, the rows of Import after their insertion, and the legacy VMs
  without a token.
* The pipes of the job runner, a command run through `proxy/exec.go`, guest
  control, VNC and Frida: exchanges with the guest or with a tool, with no state
  in the server.
* The MCP server, which translates one request at a time to HTTP, the frontend,
  and the protocols of single sign-on (what a verified identity changes is in
  `Accounts`).
* Archives, migrations and the parsing of the configuration: sequential I/O.

What would come next: the snapshots with the status checks they should make, and
abstract specifications, like `BoundedQueue`, of what the port allocator and the
library promise.
