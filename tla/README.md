# A formal model of HomeFleet

This directory holds TLA+ specifications of the parts of HomeFleet where order, concurrency and
failure decide whether it is correct: jobs from the delegating tool call to the applied branch, their
executors, event streams and workspaces, the transport they travel on, pairing, discovery and the
node registry, a daemon's own life, its self-upgrade and the fleet rollout. TLC checks each on a
small instance; TLAPS proves all but the liveness for every value of the constants. Paths below
are relative to `packages/daemon/src/` unless they say otherwise; `PROJECT.json` maps every
definition to the lines it models and lists the runs, the mutants that show each property to be
breakable, the hazards and the findings.

    tlc -workers 2 -config Jobs.cfg MCJobManager     # a run (table below)
    tlapm JobManagerProofs.tla                       # the proofs of a module

## The system

One daemon, `homefleetd`, runs per machine. It is a single Node.js process: **an action of a module
is what runs between two awaits**, and everything else in the daemon may run there. The real
parallelism is between processes: daemons of different nodes, git commands, executors' children, the
detached updater, and users with a terminal.

| Component | State it keeps | Operations | Modelled by |
| --- | --- | --- | --- |
| Job manager (`jobs/job-manager.ts`) | records, queue, running set, order of ended jobs | submit, run, cancel, cancelOwnedBy, stop, evict | `JobManager` |
| Job routes, streams (`jobs/routes.ts`, client) | one subscriber per open response | subscribe, replay, deliver, close, resume | `JobStreams` |
| Executors (`packages/executors`) | one conversation, one child process | model turns, tools, budgets, abort, spawn, kill, verify | `SafeSpawn`, `AgentTools`, `Executors` |
| Workspace store (`workspace/*`) | per-repo tip, objects, checkout directories, pins, promise chain per repo | resolve (read, write), release, evict, import bundle, gc, stop, init | `WorkspaceStore` |
| Write artifacts (`artifact-store`, `artifact-apply`) | bundles by job, transient refs, branches in the user's repository | finalize, register, evict, sweep, download, inspect, fetch, re-read | `WriteJobs`, `Delegation` |
| MCP front (`mcp/*`) | where each delegated job runs, its last status, applied outcomes, applies in flight | delegate, status, result, cancel | `Delegation` |
| HFP transport (`transport/*`) | sockets, one exchange each | connect, gate, body, answer, stream, time out | `HfpWire`, `HfpTransport` |
| Pairing, trust (`pairing/`, `trust/`) | active code and its failures; trusted devices in memory and on file | begin, cancel, pair request, outbound pair, unpair, persist | `Pairing` |
| Discovery (`discovery/*`) | merged candidates, per channel a socket or browser | sight, merge, evict, record, start, stop, endpoint lookup | `Discovery` |
| Known nodes (`discovery/known-nodes.ts`) | nodes seen, in memory and on file; write in flight and its follow-up | record, remove, persist | `KnownNodes` |
| Daemon assembly (`daemon.ts`), lifecycle commands (`cli/daemon-*.ts`) | what is up, its teardown stack, the control token | start, unwind, stop, signal; start, stop and restart commands | `DaemonLifecycle` |
| Node upgrade (`upgrade/coordinator.ts`, `updater.mjs`) | claim, `upgrade.lock`, installed release, updater process, shutdown timers | claim, prepare, hand over, install, check, roll back, stop, start | `NodeUpgrade` |
| Fleet rollout (`upgrade/rollout.ts`, `fleet-upgrade.ts`) | rollout status in memory and saved, the loop | start, push, watch, upgrade self, abort, restore | `FleetRollout` |
| Fleet command (`cli/cli.ts`) | the status it saw last | start, poll, wait for the restart, summarise, exit | `FleetCommand` |
| Control API, dashboard, other commands, config, catalog, identity, release fetch, protocol schemas | little or none | | no |

How they interact. A delegator's tool call (`Delegation`) syncs its repository over the transport
(`HfpTransport`, a bundle to `WorkspaceStore`), submits a job to the worker (`JobManager`), and
follows its events (`JobStreams`). To run a job the manager asks the workspace store for a checkout
and an executor for a result (`Executors`), and releases the checkout before it frees the slot. A
write job's result is committed, bundled and registered (`WriteJobs`); when a record is dropped the
manager tells the artifact registry. `job_result` downloads the bundle and applies it to a branch of
the user's repository. Where a worker is, the delegator knows from `Discovery`, which records into
`KnownNodes`. Unpairing a device removes it from the trust store (`Pairing`) and from the registry,
and cancels its jobs. An upgrade, local or pushed by a peer, stops the daemon through the same
shutdown as a user's stop (`NodeUpgrade`, `DaemonLifecycle`); a rollout pushes to peers one at a time
and ends with this node's own upgrade (`FleetRollout`), under a command that polls it
(`FleetCommand`).

What makes it hard, and the properties that have to hold:

- **Jobs.** A cancel races the executor's completion; a job is aborted while its workspace is being
  resolved; executors emit late or ignore their abort; eviction runs when jobs end, in another
  order than they were submitted. The limits must hold, no accepted job may be lost, an outcome must
  stay final, the hook must be called once per record.
- **Streams.** Replay and registration surround events that are appended synchronously; connections
  are lost anywhere and resumed by sequence number; a record is dropped under a reader. Every event
  must be read once and in order, and the end of a stream must mean the result.
- **Executors.** Budgets, aborts and failures fall into the middle of a batch of tool calls; timeout,
  abort, exit and watchdog of a child race. A result must say what happened, half-finished work must
  not be committed, and `execute()` must settle.
- **Workspaces.** Pins change without the lock under which directories change; eviction picks a
  victim first and locks second; git commands are killed part way. A running job's directory must
  stay, pins must match handles, no directory may be forgotten, passes must not deadlock.
- **Deliverables.** A job outlives its cancel; deletions fail; the worker dies between any two steps;
  answers are lost; two calls apply one artifact while the branch moves. Nothing may be left without
  an owner, and success may only be claimed for a branch that was re-read.
- **Transport and trust.** Requests are authenticated before their body is read; sockets break
  anywhere; writes of several callers overlap and fail. A code must admit one device, what a caller
  was told must be what the file says, and a body or stream must be whole or known not to be.
- **Discovery.** Candidates are evicted, moved and shadowed; most writes are skipped; a stop races a
  bind. The directory must never fall back on an older place, and a stop must leave nothing open.
- **The daemon's life.** Two processes on one data directory; a stop in the middle of a start; pids
  reused. The token must be the serving daemon's, and a stop reported done must be done.
- **Upgrades and rollouts.** A lock outlives the process that took it; stops, signals and upgrades
  cross; every step of the updater may fail; peers are also upgraded by others. One upgrade at a
  time, an honest outcome, one node at risk, never two loops, never a surface blocked for good.

The full list, each hazard at its line with the properties that cover it, is `hazards` in
`PROJECT.json`.

## Modules

`JobLifecycle` and `DurableStore` are abstract: what a component promises, without its mechanism. The
others translate the code. `MC*` modules only add model values, symmetry and the refinement mapping;
`*Proofs` hold the theorems and `ListLemmas` the facts they share. A name `X_Fault` next to an operator
`X` is a seeded fault, used to show that a property can be violated; it is no part of the model.

**JobManager.** `at[j]` is where `runJob`/`executeJob` of job `j` is suspended: *resolving* (the
workspace), *executing*, *releasing* (the handle), *returning*. The queue and `terminalOrder` arrays
are sets ordered by `turn` (the submission) and `ended`. Every step that ends a job includes
`finishJob`'s eviction, and every step that frees a slot includes `pump`. `Pump` and `EvictIfNeeded`
describe a loop by the least number of elements after which its condition fails, so no recursion is
needed. A rejected submit changes nothing and is a stuttering step. An executor returns any
outcome, "canceled" only after its signal; it emits at any time, also after it ended.
**JobLifecycle.** Each job is absent, queued or running, ended, forgotten; three limits. The mapping
reads the phase off the record (`MCJobManager!Lifecycle`).

**JobStreams** extends `JobManager`: each of its steps also delivers what it appends to the open
responses (`Deliver`); a client opens connections one after the other and resumes from what it has
read. A consumer may leave and a connection may be lost with anything in flight.

**SafeSpawn** is one child of `spawn.ts`: the checks before it, the timeout and the job's signal, which
share one kill, the watchdog that settles for a child the kill does not reach, exit and close.
**AgentTools** has the pure side of the tools: the capped read that must not cut a character, grep's two
caps, glob's cap, the exact-match edit. A text is the sequence of its characters' widths, a file its
size, its matching lines and whether it is gone when grep's scan gets to it; the scan passes over such
a file without a word (`ScanFile`). A write or an edit may fail half way. **Executors** composes both under the model conversation and the three kinds
of job. The model answers with any turn of calls, also of unknown tools or unparsable arguments.

**WorkspaceStore.** `lock[r]` is the promise chain of a repository; its head is the callback that
runs. A directory has a commit and is whole or torn (gitlink and HEAD, part of the files). A git
command that fails or is killed leaves any of what it may have done: a worktree add nothing, a torn
directory or the whole of it, a removal the same (`Remains`), at a resolve, at an eviction and at
init's own evictions, whose failures are only logged. `strays` is a history variable: the whole
directories left so, until a resolve, a removal or the next init takes them up. Two
commits can share a directory name, which is a truncated hash. `Reach` is the history of a commit;
gc keeps what the tip and the worktrees reach. A sync is the delegator's `have-tip`, its bundle
(incremental if the tip is in its history) and the upload. `haveTip` waits its turn on the chain in
the code and reads at once here.

**WriteJobs** follows a deliverable on the worker: `step[j]` is where `execute()` is in the declared
done, the lock, commit, ref, bundle, un-ref, registration and verify; `rec` is the manager's record
as far as artifacts see it. What a failing deletion leaves, and the ref of a `git update-ref` killed
after it was written, is in `leftovers`, until an init whose purge and sweep succeed: both are at best
effort, and what they leave stays a leftover.
**Delegation** is the delegating node over it: a call is one MCP tool call, its phase the wait its
handler is in. Requests and answers may be lost, the worker may die anywhere, the operator may move
the branch, to an ancestor too, which the fetch then brings forward, and the bundle fetched may not be
the one inspected. Calls that are refused before their
first wait change nothing and are left out.

**HfpWire** is the event-stream parser, byte by byte, with chunks cut anywhere, next to a reference
definition of the records of a text (`RecordsOf`) and of where the parser has to stop (`FateOf`). The
bytes are those the parser tells apart (`Marks`): newline, carriage return, the colon of a line that is
not data, content of a result, content that JSON or the schema refuses, other content. A line loses the
carriage return it ends in; a record that is refused makes the parser throw. **HfpTransport** has the exchanges of one peer with one node:
the pinned client, the gate in its order, bodies and their caps, temporary files, timers and broken
sockets, and the unpair that crosses them. TLS is external: a connection is to the expected peer, to
an impostor or to one without a certificate.

**Pairing.** The store is the sequence of its mutations; the file reflects a prefix of it. `queue`
and `snap` are the serialized persists. A code is the number of its window. **KnownNodes** is the
coalescing variant of persist, with versions as content; both implement **DurableStore**: a mutation
reported done is in the file, the file never goes back, a restart takes up the file.

**Discovery** extends `KnownNodes`, whose versions get their contents here. `entries` are the
aggregator's candidates in the order of their map, `chain` its queued records, `lastQueued` its write
bounding. `latest` is a history variable: where each device was last accepted to be. Sightings are
hints; the clock may be set back. Channels start and stop around the UDP bind.

**DaemonLifecycle.** Processes on one data directory that want the same ports; five components stand
for all in the order of assembly; `start()` and `stop()` are both in progress at once if they cross.
CLI commands poll, wait, kill and read the token; a dead process' pid may be given to another program.

**NodeUpgrade.** Daemon processes, the installed release, the lock and updater processes. `run` is
the coordinator's claim (`pending`, then `inProgress`), `asked` is `shutdownRequested`, `timers` are
the two 250 ms timers. The updater's steps are what it does between two sleeps or child processes.
A pushed upgrade claims the node as a local one does. A claim may be refused for any reason.
Each file operation of `acquireLock` is a step (`LockCreated`, `LockWritten`, `LockFound`, `LockRead`,
`LockRemoved`): a lock that is created and not written yet reads as corrupt, and what is removed is
whatever is there by then. `overlapped` is a history variable: two daemons have been in `acquireLock`
at the same time.

**FleetRollout.** `call` is a `startFleet` call, `loop` its loop's suspension point, `node` this
daemon with its upgrade claim, `peer` the other nodes, which anyone may upgrade. A record of a
failed upgrade is the number of the attempt. `heard` is a history variable: how many attempts of a peer
had ended when the rollout last heard the peer before its push. Deadlines may pass and answers be lost whenever they
are awaited. States that the loop treats alike are merged: *passed* is unreachable, refused and too
old; *failed* is failed and rolled back. **FleetCommand** adds the command that watches a rollout by
polling, the full status the daemon serves, and its file.

## Runs

| Run | Configuration | Instance | What it shows |
| --- | --- | --- | --- |
| jobs | `Jobs.cfg` | 3 jobs, 2 slots, queue 1, 2 records, 1 logged event | limits, no job lost, retention and one hook call per record, refinement of `JobLifecycle` |
| job_streams | `JobStreams.cfg` | 2 jobs, 1 slot, 1 record, 1 event, 2 connections | exactly-once reading of a well-formed log, final outcomes, jobs and streams end |
| executors | `Executors.cfg` | 2 tool calls in all and per turn, small caps | spawn and results tell the truth, answers say what they left out, every execution settles |
| workspace | `Workspace.cfg` | 2 repos (1 never synced), 3 commits (2 sharing a name), 2 jobs, 1 sync, cap 1 | directories held, pins exact, none forgotten but by a failed command, tip complete, no deadlock of passes |
| delegation | `Delegation.cfg` | 1 job, 2 calls, 1 tracked, 2 lives of the worker | deliverables accounted for and downloadable, applied means verified, honest routes, calls answer |
| transport | `Transport.cfg` | 2 requests (1 with a body or stream), bodies to cap + 1 | peers as trusted, bodies whole, events as sent up to a result or a malformed record, requests end |
| pairing | `Pairing.cfg` | 2 devices, 3 calls, 2 windows, 2 failures | one device per code within its guesses, explained disagreement, refinement of `DurableStore` |
| directory | `Discovery.cfg` | 2 devices, 3 endpoints, a static entry, maps of 2 | latest endpoint, no shadowing, clean stop, refinement of `DurableStore`, stop returns |
| lifecycle | `Lifecycle.cfg` | 2 processes, 1 command, 2 signals | token of the serving daemon, true stops, commands end |
| upgrade | `Upgrade.cfg` | 2 updaters, 4 processes, 2 of users' starts | lock covers an upgrade, true outcomes (both until two daemons take the lock at once), no forced exit, every upgrade ends |
| rollout | `Rollout.cfg` | 2 peers, 2 calls, 1 old failure, 3 attempts | one node at risk, no loop outlives the daemon, fresh failures, surface frees |
| fleet_command | `FleetCommand.cfg` | 1 peer, 2 rollouts | violated on purpose, see Findings |

Why the bounds are enough. *Jobs*: three jobs on two slots fill slots and queue and leave one to be
refused or evicted; a second evicted record makes the order matter; one event distinguishes a late from
a timely one. One peer suffices for `cancelOwnedBy`, as owners never interact except through the shared
limits. *Streams*: one lost connection and one resumed; the second job evicts the first. *Executors*:
two calls are the least batch with a middle; every cap is met from both sides, and one file of a scan
may vanish. *Workspace*: one cached
checkout makes every second resolve evict, across two repos, and gc at every fetch. *Delegation*: two
calls overlap on one job, others' tasks push it out of a registry of one, and two lives have one crash
or stop between them; jobs share only the repository lock, which `OthersLock` takes for all others.
*Transport*: one long exchange and one short that overlap with an unpair; streams are cut at every byte, a line end with a carriage return and a malformed record between others
included.
*Pairing*: three calls are two that overlap and one that sees the result. *Directory*: a third endpoint
for two map places, two clock readings beside the first. *Lifecycle*: the second process is the one that
fails to start, or that a restart launches. *Upgrade*: two updaters are needed for an overlap, and a
user's starts for strangers on the port; the fourth process is given up once two daemons have been in
`acquireLock` together (`Bounded` of `MCNodeUpgrade`), where three show both takeovers. *Rollout*: two
peers and two calls for overlap, two attempts per peer for an old failure, and a third of one peer, on
which someone else's failure falls between selection and push, while the rest of the fleet is as it
was (`Bounded` of `MCFleetRollout`). The parameters named as bounds in the modules (`MaxEmits`, `MaxWindows`,
`UserStarts`, `MaxRollouts`, `MaxTries`, `MaxRuns`, `MaxClock`, `MaxSignals`) cap counters that the code
leaves open. `Jobs` is a symmetry set in the run `jobs` only, which checks no liveness. Deadlock is
checked where the system never stops (pairing, directory, the workspace store, rollout). It really may
stop in the other runs: the manager is stopped or every id used, an execution is over, every call and
life is spent, every daemon is dead and no start is left. These configurations say `CHECK_DEADLOCK
FALSE`.

## Fairness

Weak fairness only, and only for what the code bounds:

- `JobStreams`: a connected client reads and a closed response is noticed; resolvers and executors
  settle (`FairJobs`). The latter is what `ExecutorSettles` shows of the shipped executors and
  `ResolveSettles` of the resolver.
- `Executors`: the executor's own steps, its timers, the disk and git. Nothing is assumed of the model
  endpoint, and nothing of a child, except that one that exits lets go of its pipes (see Known limits).
- `WorkspaceStore`: callbacks of a promise chain run in order and every git command is bounded
  by `gitTimeoutMs` and then killed. Nothing is assumed of the jobs that hold handles.
- `Delegation`: every wait of a tool call has a client or git timeout; the worker owes nothing.
- `HfpTransport`: the client's event loop runs and the socket's timer fires; the server owes no answer,
  and the network not one byte more of a body or stream.
- `Discovery`: file operations settle, promises that can go on do, a bind or a close ends one way or
  the other. `Pairing` needs none, it has no liveness property.
- `DaemonLifecycle`: a command goes on polling until its deadline, and a daemon's components start
  and stop or fail.
- `NodeUpgrade`: an updater runs on unless it is killed: its waits have deadlines.
- `FleetRollout`: a call and a loop go on, as fetch, push, poll and watch are bounded; a daemon that
  has handed itself over stops, and one that has stopped is started again. Peers owe nothing.

## Proofs

All are of specifications without fairness or independent of it, for every value of the constants
under the named assumptions of the modules. Every invariant, action property and refinement that a
run checks is stated by a theorem of the same property, each through an inductive invariant that TLC
checked on the run's instance first. The eight `*Proofs` and lemma modules follow the components.

| Module | Components | Theorems on properties of the runs |
| --- | --- | --- |
| `JobManagerProofs` | `JobManager`, `JobStreams` | `SlotsAreRespected`, `NoActiveJobIsLost`, `TerminalStaysFinal`, `RecordsAreAccountedFor`, `ManagerImplementsLifecycle`, `StreamsReadOnce` |
| `ProcessProofs` | `SafeSpawn`, `AgentTools`, `Executors`, `DaemonLifecycle` | `SpawnTellsTruth`, `ResultsAreTrue`, `AnswersAreHonest`, `TokenIsTheListeners`, `StopsAreTrue` |
| `WorkspaceStoreProofs` | `WorkspaceStore` | `HeldIsNeverYanked`, `DiskIsAccountedFor`, `TipIsComplete` |
| `DelegationProofs` | `WriteJobs`, `Delegation` | `WorkerAccounts`, `DeliveredUnderCalls`, `AppliedWasVerified`, `RoutesAreHonest` |
| `PeerProofs` | `Pairing`, `HfpWire`, `HfpTransport` | `CodesAdmitOne`, `FileLagsOnlyForCalls`, `PairingIsDurable`, `RequestsAreTrusted`, `BodiesArriveWhole`, `EventsArriveAsSent` |
| `DiscoveryProofs` | `KnownNodes`, `Discovery` | `KnownNodesDurable`, `DiscoveryDurable`, `EndpointsAreLatest`, `StopsAreClean` |
| `UpgradeProofs` | `NodeUpgrade`, `FleetRollout` | `LockAlwaysCovers`, `OutcomesAreTrue`, `OneNodeAtATime`, `FailuresAreFresh` |
| `ListLemmas` | | none; facts the others share |

**ListLemmas.** No installed prover can instantiate a theorem that takes an operator, so the
library's induction theorems are out of reach. What replaces them: `LeastOf` (a set of numbers has a
least one), from it `AllAlong` (what holds at 0 and goes from each place of a list to the next holds
along it, as a set of places), and `StepsExist` (a recursive function given by its steps exists),
which is what lets a proof unfold the recursive functions of `HfpWire` and `AgentTools`. These are
inductions along one given list; what a definition computes for every input follows from them where
the induction is over its places.

**Jobs**, for any finite set of jobs and any limits (`JobsAssumption`, `LimitsAssumption`). None of
the properties but the type (`TypeCorrect`) is inductive by itself. That the queue is bounded rests on
no slot being idle while a job waits, because `submit` looks at the queue only if the slots are taken.
The invariant is `SlotInv`: types; `Coherent`: the running set is exactly the jobs with a live
coroutine, the queue exactly those with status *queued*, and a job that has not ended has a record;
`TurnsDistinct`: submissions are totally ordered; `SlotBounds`. The lemmas `PumpEffect` and
`FinishEffect` say once what `pump` and `finishJob` do to them, and each action's case cites them.
The proof of `PumpEffect` is the heart: the loop's stopping point is the least one, so one job
fewer would still have fitted. `RecordsAreAccountedFor` is inductive relative to `SlotInv`: eviction
stops either because few enough ended records are left or because none is left to evict, and a
job that ends in a step is evicted or kept by that step, never both noticed and kept.

`ManagerImplementsLifecycle`: a step of the manager is at most one step of `JobLifecycle`.
`SubmitAccepts` (a submission starts or queues its own job and no other, because a waiting job means
the slots are full), `RunJobEndsStarts` (a freed slot starts at most one waiting job), `FinishEnds`
(what ends, and what eviction forgets in the same step), `StopAlike`. That the limits hold on what
peers see (`LimitsKept`) is where `SlotInv` and `RecordsAccountedFor` are used.

`StreamsReadOnce`, for any jobs, connections and watched job (`WatchedAssumption`). `ReadInv` adds to
`SlotInv` that each log is well formed for the status of its job (`LogInv`) and that a connection that
is not lost holds the next stretch of the log the client has not read, up to the log's end while the
route is subscribed (`StreamInv`). `LogMove` says what any step of the manager does to a log
(nothing, or *running*, one log line or the final events at its end), `Unread` that what is on the
wire of a connection goes on where the client stands.

**Executors.** `SpawnTellsTruth`, through `SpawnInv`: `SpawnTruth` alone is not inductive, it also takes
that a child that ended has a code, that an armed watchdog knows the reason of its kill, and that a
call before its checks has touched nothing (`FieldsAgree`). `ResultsAreTrue`, for any budget and turn
length (`BudgetsAssumption`), through `ExecInv`: what each phase has behind it (`PhasesAgree`: the
result is given once, a command job never converses, only a declared write job is finalized, a call
being answered is counted), and which edits are reported and
committed (`CommitsWhole`). The proof carries `SpawnInv` along as one of its conjuncts, since the
executor's abort is the child's.

`AnswersAreHonest`, for any caps, texts, file lists and edits (`CapsAssumption`, `InputsAssumption`: a
character has a width of at least one byte). An answer is that of one tool for one input, so the
argument is about operators: the cut of a capped read falls on a lead byte, hence at the end of a
character (`EncodedIs`, `CutIsAtAnEnd`), and is the last that fits; grep's scan keeps, file by file,
that what it left out of the files that are there (`HitsAre`) is what it marks (`ScanKeeps`).

**Daemon.** `TokenIsTheListeners` and `StopsAreTrue`, for any processes, commands and signals
(`LifecycleAssumption`). `DaemonInv`: what is up is a beginning of the start order, or of it what the
teardown has left (`Ordered`); a port has one owner (`Exclusive`); unless a `stop()` cut into a
`start()` that had not ended, the token is that of the started process that answers (`TokenInv`); a
command knows of the process it asked, and a pid is reused only when its process is gone (`CmdInv`). A
stop that succeeds rests on `Lasting`: no step brings a process back.

**Workspaces**, for any finite sets of repositories and commits, any `Reach` that is a history, any
truncation of hashes and any limits (`StoreAssumption`). The three properties share one invariant,
`IInv`. A call in the middle of its git commands is at the head of its chain (`LockInv`); the order of
last uses names a checkout once (`UsedOnce`); pins are exactly the live handles of a checkout, a number
against the cardinality of a set (`PinsInv`); nobody has a pin on what is being added or removed
(`AddingAlone`, `RemovingAlone`); the directory of a handle is right from before its pin is taken
(`DirInv`); what was asked for, once seen in the object store, stays with its history (`ObjectsInv`).
`RemovingAlone` is where the code is subtle: eviction picks its victim outside the lock and looks again
inside it. For `DiskIsAccountedFor`, `StepStrays` says of each step that a directory it leaves whole and
makes nobody's is one that a failed command left (`RemainsOf`), so nothing else adds to `strays`.

**Deliverables.** `WorkerAccounts`, for any jobs and number of lives, under whatever delegators submit
and cancel. The invariant `WorkerInv` says who holds the lock (`LockHeld`), that records follow
`execute()` until the manager is torn down (`RecordFollows`), that a bundle is handed from the step
to the registry without a gap (`BundleHandedOver`), and where each file and ref belongs, to a step or
to what a command that failed or was killed left for the next init (`FilesBelong`).
`RecordFollows` is what rules out the registration of an artifact whose record is already evicted.

Every step of the delegating node is a step of the worker, a request to it or none (`StepsOnWorker`),
so `DeliveredUnderCalls`; and `AppliedWasVerified` for any number of calls, jobs and registry places.
Its invariant `CallInv` adds to the types that the flight of a job and its leader know each other
(`FlightInv`), and that all calls that were told of a job's end were told the same (`ToldInv`), which
rests on a lemma about the worker, `RecordsEnd`: a record that ended only ever goes away. Without it a
call that was told *failed* could join a flight that ends in *applied*. `RoutesAreHonest` adds
`RouteInv` (`OthersAssumption`): the registry names a job once (`RouteTypes`) and only jobs the worker
took, and a terminal status in it is that of a record that ended so, or was evicted since
(`TrackedWasTaken`); a job in an answer still to be registered was taken (`PostedWasTaken`).

**Peers.** Of pairing, for any devices and windows, any limit of guesses and any set of calls, infinite
ones too (`PairingAssumption`): `CodesAdmitOne`, `FileLagsOnlyForCalls` and the refinement
`PairingIsDurable`. `IInv` says that the queue holds calls that wait, each once (`QueueInv`: otherwise a
write could report a refused call as done), and that the active code is that of the last window, has
admitted nobody and counts exactly the wrong guesses made of it (`CodeInv`). `LogInv` adds that each
change the file lacks belongs to a call that waits or failed, and that the write in progress holds
what its caller changed: the reason no persist loses another call's change.

Of the transport, for any requests and caps (`BodyAssumption`): `RequestsAreTrusted` and
`BodiesArriveWhole` through `TransportInv`. The gate's check comes before the body is awaited, and the
cancellation of `unpairPeer` after the store changed, so what bounds the work left is where each
request is (`WorkInv`). The rest is the order in which the client pins, sends, opens its file and
cleans up (`ClientInv`), and the server gates, reads and handles (`ServerInv`).

`EventsArriveAsSent`, for any streams of the bytes the parser tells apart (`StreamsAssumption`), any
chunks and either cap. `RecordsOf` defines the records of a text by its places, without a parser; the
proof shows that the parser `Follows` the text received: what it has yielded is `RecordsOf` of it, its
data are what lies at the places of the record in progress (`Pending`), its line what lies from there to
the end (`InLine`), and its state is `FateOf` the text. A carriage return at the end of the text is the
hard byte: it is data until a newline shows that it belonged to the line's end (`Trim`, `TextTrimmed`,
`LineTaken`). `PlacesNext`, `PendingNext`, `NothingYielded` and `RecordYielded` say what one byte more
changes of the places and of the records, `ByteRead` that the parser does the same, `BytesRead` and
`ChunkRead` carry it along a chunk of any length.

**Discovery.** Of the registry, for any set of callers: `KnownNodesInvariant` (a write that runs has a
snapshot between the file and memory that includes its callers' mutations, and the callers of the
follow-up still wait) and from it `KnownNodesDurable`: every step is a step of `DurableStore` or a
stutter. `DiscoveryUsesRegistry` shows every step of discovery to be a step of the registry or none,
for any devices, endpoints and limits, hence `DiscoveryDurable`.

`EndpointsAreLatest` and `StopsAreClean` (`DiscoveryAssumption`) through `DirectoryInv`: maps keep one
entry per key (`ContentsInv`); a candidate is where its device was last seen, and no endpoint is listed
with a device and without (`CandidatesInv`); the last outstanding record of each device is of its last
sighting, and where none is outstanding the registry says so too (`RecordsInv`); channels follow
`start` and `stop` (`LifeInv`). `RecordsInv` is why a skipped write is harmless: `lastQueued` of a
device is its last sighting or nothing, and eviction and unpairing forget it.

**Upgrades.** Of one node, for any updaters and user's starts (`UpgradeAssumption`), through
`UpgradeInv`: that a process that does not serve has no upgrade in hand (`IdleUnlessServing`), that an
updater waits for or kills only processes it knows (`ProcessesKnown`); and, until two daemons have been
in `acquireLock` at the same time, that one is in it at most (`OneInside`), whose the file is while it
is written, until the updater starts and while it runs (`WriterHoldsLock`, `LockedHoldsLock`,
`RunningHoldsLock`), that nobody's lock is about to be removed (`RemovesFree`), that one daemon or
updater holds it (`OneHolder`), and that what is installed is as far as the step says
(`InstalledAsFar`). `AcquireKeeps` says why a daemon alone in `acquireLock` takes the lock only when it
covers nobody: between its read of a stale lock and its removal no other file can have come there.
`LockAlwaysCovers` needs `OneHolder` across the hand-over from daemon to updater, where the lock's
daemon dies; `OutcomesAreTrue` needs `InstalledAsFar` where a stranger answers on the port.

Of a fleet, for any finite set of peers, rollouts and attempts (`RolloutAssumption`), through
`RolloutInv`: only the loop of the current rollout acts (`OnlyCurrentRuns`, `StartingAlone`), it
remembers the peer the status names (`LoopKnowsPeer`), the peer at risk is where the loop is
(`RiskIsAtLoop`), this node goes last (`SelfIsLast`), a stop awaits the loop (`StopAwaitsLoop`).
`OneNodeAtATime` follows. `FailuresAreFresh` is an action property that compares the failure with the
peer's own count of attempts (`Ended`), which no step of the rollout reads: it takes `HeardAsDue`, that a
failure among the attempts that had ended when the peer was heard, and which it still reports, is the
one the loop remembers (`HeardOf`), and `RecordsGrow`, that what others do to a peer puts a record only
of an attempt that had not ended. The poll's guard alone compares two records, and says nothing of
attempts.

**Only model-checked.** Liveness, for which the provers have no support under fairness: `EveryJobEnds`,
`StreamEnds`, `ToolCallsAnswer`, `ExecutorSettles`, `StopReturnsAtLast`, `CommandsEnd`, `RequestsEnd`,
`UpgradeSettles`, `SurfaceFrees`, `ResolveSettles`. And the violation in `FleetCommand`.

## Findings

**fleet_command.** `homefleet fleet upgrade` takes whatever rollout the daemon reports at a poll
(`cli.ts:1062`, `last = next`) without comparing its id with the one it started. If that one ended with
a peer refused, or its status was lost in a crash, and another rollout ran before the next poll, the
command reports the other and exits 0, against `cli.ts:882-883`.

### Known limits

What the models show the code not to prevent, or leave to the environment. The first group is in the
models, where it does happen; no property forbids it.

- A `git worktree add` cut short leaves the gitlink and HEAD, by which the next resolve takes the
  checkout for complete (`workspace-store.ts:497`).
- A failed `git worktree add`, a failed removal of an eviction (`workspace-store.ts:1320`, logged only)
  or one of init (1357) may leave a whole checkout that has no entry and does not count towards the
  cap, until a resolve of its commit or the next start (`strays`).
- Two daemons on one data directory that are in `acquireLock` at the same time may both take the lock
  (`upgrade/files.ts:97-123`): one reads the other's file between its creation and its body, and takes it
  for corrupt; or removes, after both found a stale lock, the one the other has just made. Then two
  updaters run, and an outcome may say *succeeded* where the other has broken or rolled back the release.
  `LockCoversUpgrade` and `OutcomeTruthful` hold until that has happened; without that premise TLC
  finds a behaviour of 15 states to two updaters, against "One upgrade at a time" (`upgrade/files.ts:10`).
- A rollout that got no answer to its hello knows of no earlier failure, and a peer's old one then stops
  it (`rollout.ts:369-373`); and of a peer it heard at its selection, a failure that another requester
  caused between selection and push counts as that of the push. `FailureIsFresh` says no more than that
  the attempt was not over when the peer was last heard.
- A file that vanishes between grep's walk and its scan is left out without a marker
  (`packages/executors/src/agent/tools.ts:422-426`), which `AnswersHonest` excepts.
- A `git update-ref` killed after it took effect leaves its ref to the sweep of the next init
  (`workspace-store.ts:796`), which itself may fail.
- A commit synced for a job not yet resolved is pruned by another delegator's diverging sync
  (`workspace-store.ts:1160`); the job then fails to resolve.
- A push from another node upgrades a daemon in the middle of its own rollout, because `acceptRemote`
  does not look for one (`coordinator.ts:331`); `rollout.ts:13-14` says the coordinating daemon is
  never down while peers are watched.
- `isShuttingDown` is read when an upgrade is claimed; a signal during the seconds of preparation does
  not stop `runUpgrade` from spawning the updater, which starts the daemon again (`coordinator.ts:90`).
- A peer answers with its new version before its updater has decided that it is healthy, so a rollout
  may go on past a peer that then rolls back, and the CLI may print "Upgraded" within the updater's
  two seconds (`cli.ts:716`). The summary of a rollout does not look at the node's own roll-back.
- The answer to an accepted push may be lost: the peer counts as unreachable, and the next is pushed to
  while it upgrades (`rollout.ts:390`).
- The answer to a delegated job may be lost: the job runs on the worker and no route leads to it
  (`mcp/tools.ts:707`).
- A component that `start()` brings up after a `stop()` ran gets no stop (`daemon.ts`), which
  `TokenMatchesListener` excepts.
- A write job that ignores its abort beyond stop's bounded wait registers its bundle late; the sweep
  and the next init remove it, and nothing offers it in between.

The second group is left out of the models, or excluded by an assumption.

- A child that exits while a descendant holds its pipes keeps a spawn, or a git command, open for good
  (`packages/executors/src/spawn.ts:373`); the fairness of `Executors` excludes it.
- A second daemon started on a data directory in use purges the worktrees of the one that runs before
  its own ports fail to bind.
- An upgrade slower than `STALE_LOCK_MS` (`upgrade/files.ts:119`) loses its lock to a second one.
- A wall clock set back while the registry is at its cap may evict the newest node; a failing
  `aggregator.start` leaves mDNS up. mDNS' renaming and watchdog, UDP's replies and the node
  directory's hello fan-out are not modelled.
- Identifying a process and killing it is one step in `DaemonLifecycle`; the Windows task is left out.

Smaller disagreements between code and comments, met on the way and modelled as the code has them:
`job-manager.ts:61` calls the retention cap one on active and terminal records, while `submit` (304)
adds records beyond it and only the end of a job (728) evicts; `job-manager.ts:481-483` says stop
awaits every in-flight execution, but not those whose record was evicted during their teardown
(503-511); `daemon.ts:256-257` tells the user whose pairing could not be saved that this node does not
trust the peer yet, while `trust-store.ts:103-104` trusts it in memory until the next restart;
`workspace-store.ts:1284-1285` expects a pass blocked by pins to be made up for at release, where none
runs (1227-1232); `rollout.ts:370` compares with "what the peer reported before this push", where for
most peers it is what they reported at selection (372-375), so a failure that another requester caused
in between looks fresh.

## Plan

The order was: `JobManager` with its proofs, `JobStreams`, `Pairing`, `KnownNodes` with its proofs,
`WorkspaceStore`, `NodeUpgrade`, `FleetRollout`; then what lies between the nodes, `WriteJobs` and
`Delegation`, `SafeSpawn` and `Executors`, `HfpTransport`, `Discovery`, and around them
`DaemonLifecycle` and `FleetCommand`. What is left:

1. the guards and sources of a release (`prepare.ts`, `guards.ts`, `peer-release-source.ts`) below
   `NodeUpgrade`, and the report of an outcome at the next start;
2. mDNS' renaming and watchdog, and the node directory's fan-out;
3. proofs: those of what 1 and 2 add; that `Executors` and `WorkspaceStore` settle what `JobStreams`
   assumes of executors and resolvers, as abstract specifications they implement.

## Not modelled

TLS, the bytes of mDNS, UDP and HTTP, the file system below rename, git's own correctness, the wording
of the model conversation, formatting and logging; the control API, the dashboard and the commands that
call it once, which hold no state of their own; the catalog's probes, on which nothing gates;
configuration and protocol schemas, whose limits appear as the assumptions on constants; the key pair;
release downloads and signatures, a sequence whose outcome the upgrade models choose. Time is
abstracted: a deadline is an action that may happen while it is awaited.
