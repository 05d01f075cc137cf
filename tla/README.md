# Rainier, in TLA+

Rainier runs coding-agent sessions in sandboxes on a fleet of runners. A control
plane stores the sessions, decides which runner each one is placed on, and talks
to each runner over one WebSocket; a runner starts, parks, resumes and removes
sandboxes, and stops those whose work is over; an agent in each sandbox boots the
session, keeps its credentials, runs commands in it and streams its terminal.

This directory models the parts of that system where state is shared and the
order of events is not under anybody's control.

| file | what it is |
|---|---|
| `SessionStore.tla` | the session rows and the guarded `Transition` statement |
| `RunnerLink.tla` | a runner's connection, its commands and its sandboxes |
| `ControlPlane.tla` | scheduler, API requests, connection handlers; composes the two above |
| `ControlPlaneProofs.tla` | theorems about `ControlPlane`, with TLAPS proofs |
| `RunnerRegistry.tla` | the runner's registry of one session id and the goroutines around it |
| `RunnerRegistryProofs.tla` | theorems about `RunnerRegistry`, with proofs |
| `InputFence.tla` | what the sandbox promises about keystrokes, as an abstract specification |
| `AttachPlane.tla` | attachments, the controller lease and its handoffs; implements `InputFence` |
| `AttachPlaneProofs.tla` | theorems about `AttachPlane`, with proofs; the refinement of `InputFence` |
| `NetSlots.tla` | the pool of network slots of a runner |
| `MicroVM.tla` | the microVM driver; extends `NetSlots` |
| `MicroVMProofs.tla` | theorems about `MicroVM` and `NetSlots`, with proofs |
| `Reaper.tla` | the sandbox's table of reaped children, as operators |
| `Exec.tla` | `rainier exec` from the caller to the process and back; uses `Reaper` |
| `ExecProofs.tla` | theorems about `Exec` and `Reaper`, with proofs |
| `WorkspaceTree.tla` | the rules a workspace tree is held to, as operators |
| `Checkpoint.tla` | the checkpoint of a cold suspend and its restore; uses `WorkspaceTree` |
| `AgentCustody.tla` | a person's agent login in custody and in the sandboxes |
| `AgentCustodyProofs.tla` | theorems about `AgentCustody`, with proofs |
| `GuestReconnect.tla` | how a microVM guest is admitted and comes back |
| `GuestReconnectProofs.tla` | theorems about `GuestReconnect`, with proofs |
| `BootChain.tla` | the stages of a boot, their verdicts, and the git credential |
| `EnvironmentCache.tla` | environments, the snapshot cache, pinning; extends `BootChain` |
| `EnvironmentCacheProofs.tla` | theorems about `BootChain` and `EnvironmentCache`, with proofs |
| `MC*.tla`, `*.cfg` | instances for TLC |
| `PROJECT.json` | the map from definitions to source lines, runs, mutants, findings, hazards |

`tlc -config placement.cfg MCControlPlane` runs a configuration; `tlapm
ControlPlaneProofs.tla` checks the proofs of a module; those of
`MicroVMProofs`, `GuestReconnectProofs` and `EnvironmentCacheProofs` take about a
quarter of an hour each, the others minutes.

Most instances have a variable `setup`, chosen once from the constant `Setups`: a
scenario says which calls are made, which faults may happen and how often. One
run then explores many small scenarios side by side instead of one that is too
large, and a scenario is named in the MC module for what meets in it.

## The system

**Session repository** (`internal/controld/pgstore`, `control`). State: one row
per session: lifecycle state, runner, placement generation, controller lease,
pinned setup hash. Operations: insert, and `Transition`, one `UPDATE` whose guard
(from-states, optionally the expected generation) and effect are atomic. The
generation advances exactly when the statement names a runner. *Correct* when
nothing else changes a row, and the generation tells one placement from the next.

**Scheduler and fleet service** (`controlapp/scheduler.go`, `fleet.go`,
`resume_reconcile.go`). A loop that first settles cold resumes whose reply was
lost, then places queued sessions on runners with room and starts a goroutine
per placement which reads the generation, builds the launch spec, dispatches
`create` and, on failure, requeues or fails the row. *Hard*: nothing holds a
lock between reading a row and writing it. *Correct* when a session is not run
twice, a started session is never created again, and nothing waits for ever.

**Session service** (`controlapp/sessions.go`). Create, delete, suspend, resume:
read the row, dispatch to the runner, commit. A cold resume claims first
(`suspended_cold` to `resuming`, naming the runner, hence a new generation) and
dispatches afterwards.

**Environments** (`controlapp/environments.go`, `internal/driver`'s snapshots). An
image, a setup script and at most one cached snapshot of their result, on one
runner. *Hard*: an environment is edited while sessions of it are being placed,
are building it and are reporting. *Correct* when the cache is exactly what it
says and nobody boots an environment that is not the one asked for.

**Runner plane** (`runnerplane`). Per connection: a minted connection
generation, registration, reconciliation of the announce with the stored rows,
orphan destroys, and a read loop that correlates results with waiting dispatches
and applies events. Replacing a connection does not stop the old handler at once.
*Correct* when what an old connection or an old sandbox says cannot move a row
that has moved on.

**Runner agent** (`internal/runnerd/agent.go`). A goroutine per command, so
commands take effect in any order; results and events are queued on the
connection and dropped with it.

**Runner registry and idle stop** (`internal/runnerd/registry.go`, `runnerd.go`,
`idlestop.go`, `resume_placement.go`). State per session id: lifecycle marker,
container handle, placement generation, boot epoch, the installed hub, counts of
operations and stops in flight, and whether the child is known to have exited.
Every access is one short critical section; every driver call is made outside
the lock. Goroutines: API operations, the idle sweep, and one monitor per sandbox
connection that must decide whether a lost connection was a crash. *Hard*: each
of them reads, calls Docker, and writes. *Correct* when a deliberate stop is never
taken for a crash and no session with work in it is stopped.

**Controller lease and attach plane** (`controlapp/attachments.go`,
`attachplane`, `internal/session`, `internal/attachio`). Who may type into a
session. State: the lease columns of the row, the ownership each replica holds of
each attach, the binding the sandbox holds, what the client was told. *Hard*: two
attaches hand control over while each has three kinds of goroutine and the
sandbox is a queue away. *Correct* when keystrokes of one controller at a time
execute, and what a client believes is what it was last told.

**Exec** (`internal/sandboxexec`, `cmd/sessiond`, `internal/runnerd`). Commands
run beside the session, the table of reaped children, the counts that keep the
idle sweep away and the handshake that empties a sandbox before it freezes.

**Guest reconnect** (`internal/runnerd/reconnect*.go`, `controlapp/reconnect.go`,
`controlapp/bootstrap.go`, `cmd/sessiond`). Enrollment, proof, epochs and leases for guests that outlive a
connection or a runner's process.

**Drivers and network slots** (`internal/driver`). Docker and Firecracker; a pool
of network slots that must not hand one slot to two guests.

**Workspace checkpoint** (`checkpoint`, `internal/wstream`,
`internal/runnerd`, `internal/driver`). A tree streamed out of a sandbox while
its programs run, written as one object and a manifest, and restored.

**Session agent** (`cmd/sessiond`): boot chain, watcher, reports, agent homes and
the credential helper. **Agent custody**: a login that a person makes in one
sandbox and finds in the next, and that a logout must remove everywhere.

**Relay, command line, egress proxy, identity and HTTP**: see `components` in
PROJECT.json for what each is and what of it is modelled.

## SessionStore, RunnerLink, ControlPlane

`row[s]` is the stored row; `opened[s][g]` is a history variable saying for which
runner generation `g` was opened. `Matches`, `Moved` and `Apply` are the `WHERE`
and `SET` of `pgSessions.Transition`.

`RunnerLink` has `live[r]` (the installed connection), `host[r]` (the fleet row),
`cmds` (commands handed to a connection), `pipe[r]` (messages the runner has
written) and `box[r][s]` (the runner's sandbox, one state per session). A command
that takes time is two actions (`ExecCreate`/`ExecCreated`,
`ExecResume`/`ExecResumed`), so that others interleave. `create`, `suspend` and
`destroy` outlive the connection that carried them; `resume` and `resume_status`
do not, as in `agentSession`.

`ControlPlane` has one process per goroutine: `sched`, `create[s][g]` (the
`dispatchCreate` goroutine of a placement), `req[q]` (one API call), `conn[r][c]`
(the handler of a connection) and `orphans`. A step is one store or transport call;
what a goroutine read earlier is kept in its own record (`req[q].row`,
`conn[r][c].stored`) and is as stale as it is in the code. The event path is two
steps, `Serve` (decode, check) and `ApplyEvent` (the write), because
`ApplyRunnerEvent` reads the row and then writes it.

### Runs

| run | instance | shows |
|---|---|---|
| `placement` | 1 session, 1 runner, 2 connections, 3 generations, 1 spontaneous sandbox event | `TypeOK`; `EventsOfThisPlacement`: an event's write lands on the placement it was checked against; `StartedNeverRecreated`: a session that has run is never queued again and a gone one never revived |
| `settle` | from a settled running session: 2 API calls, 2 connections, status queries; and from two queued sessions: 2 runners, the older session eligible on one of them only | `EvidenceHolds`: an answer "not booted" is still true when it is applied; `ResumeSettles` (liveness); `QueuedIsPlaced` (liveness): no queued session waits for ever beside an eligible runner with room |

*Bounds.* Two connections of one runner are the smallest number at which an old
handler and a new one overlap; three generations allow insert, placement, requeue
and second placement. One runner is enough for event fencing because adoption and
requeue already move the row off it. `QueueCap = 1` makes the outbound queue overflow. The `settle` instance starts from
reachable later states (`Settled`, `Requeued`) so that two API calls and a reconnect, or
two sessions over two runners, fit in the state space. Deadlock checking is off: with every bound used up and nobody calling, the
plane really has nothing to do.

*Fairness.* Weak fairness for the scheduler loop (it has a safety tick), for each
goroutine, request, handler and orphan destroy once started (Go runs them to the
end), and for the runner's commands of each type. Strong fairness for listing a
resuming row: every pass asks about every such row it meets, but which rows it
meets changes. Nothing makes a user call, a runner connect or a connection drop,
and `ResumeSettles` and `QueuedIsPlaced` only speak of connected runners.

### Proofs

For every fleet, every set of sessions and requests and every bound, from the
named assumptions on the constants alone:

- `TypeCorrect`: `Spec => []TypeOK`. One lemma per process (`SchedulerType`,
  `CreateGoroutineType`, `RequestType`, `HandlerType`, `OrphanType`) and one per
  runner command, joined by `StoreStep`, `LinkStep` and `PlaneStep`.
- `NeverRecreated`: `Spec => StartedNeverRecreated`. `RowTransitions` shows that
  every writer of a row uses one of the listed from/to sets. A resume commits to
  the state it read from the row, so the proof needs the invariant `ResumeRows`
  (a resume request only holds a row read in a live state).
- `EventsFenced`: `Spec => EventsOfThisPlacement`. The inductive invariant is
  `PlacementInv`: a row's runner is the one its generation was opened for
  (`RowPlaced`), and a pending event carries a generation that was opened for the
  runner it came from and that the row has reached (`EventsPlaced`). History only
  grows (`HistoryKept`), so a pending event stays placed while the row moves; the
  compare-and-swap does the rest.
- `EvidenceTrue`: `Spec /\ []QuietRevival => []EvidenceHolds`. The evidence "generation
  g did not boot here" is false as soon as something boots it, so the invariant
  `EvidenceInv` follows everything that could: it was asked for a row that was placed
  there (`AskedPlaced`), the request that could still boot it is spent (`Spent`,
  `EvidenceSpent`), and the runner refuses what is older (`EvidenceFine`). The premise
  `QuietRevival` says that while such evidence stands, no create of that session and no
  resume without a generation is waiting at that runner. It is needed, because the
  attempt without it failed for a reason in the code: a resume sent while the session
  was parked warm names no generation, the runner has nothing to refuse it by, and
  when it is delivered after a cold suspend and a status query it boots the very
  placement that was reported as never booted. TLC finds that in 20 steps once four
  API requests are allowed (the run `settle` has two, on every state of which the
  premise holds); a create delivered after a delete does the same.

Model-checked only: the liveness properties, because fairness is out of the prover's
reach.

### Interleavings TLC reaches here

Three orders of events were seen that break what a comment says; no run keeps them,
they are listed as hazards with their lines: two goroutines of a requeued session
read one generation (`scheduler.go:402`); a create placed between registration and
reconcile is compared with the older announce and requeued (`fleet.go:459`); a cold
resume claimed after the rows were listed is settled from the older announce
(`fleet.go:615`).

## RunnerRegistry

One session id of one runner. `entry` is its `sessionEntry`, `ctr[h]` the container
behind handle `h` (status, number of starts, what its child is doing), `op[o]` an API
goroutine serving one operation after another, `op[Sweeper]` the idle sweep,
`hub[n]` a sandbox connection with its monitor, `frames` the boots named by
`child_exited` frames that were read but not yet routed. Each step is a driver call
or a critical section:

- create: `CreateClaim`, `CreateDriver`, `CreateHandle`, `CreateState`;
- suspend: `Begin`, `Target`, then `WarmPause`, `WarmPark` or `ColdMark`, `Stop`,
  `Settle`, `StopLands`, `StopReported`, which the sweep shares after `SweepClaim`;
- resume: `ResumeCheck` (with the placement claim), `ResumeDriver`, `ResumeStart`,
  `ResumeDone`; with a placement, `ResumeComplete`, or `ResumeInspect` and `ResumeFailed`;
- delete: `DeleteTarget`, `DeleteMark`, `DeleteDestroy`, `DeleteDone`;
- connection: `Dial`, `Install`, `LoseConn`, `ReadExit`, `RouteExit`, and the
  monitor's `HubDied`, `HubInspect`, `HubRemove`, `HubDestroy`;
- the world: `ChildExits`, `Crash`, `DaemonStops` (a stop its client gave up on),
  `Restart` (`Recover` in a new process).

A driver error that the state of the container explains is always possible; any
other error, a crash and an unfinished stop are faults, bounded by `MaxFaults`. The
empty handle of an entry whose create has not returned names no container; Docker
answers an inspect of it with "no such object" or with an error, and both are
possible here.

| run | instance | shows |
|---|---|---|
| `sweep` | 1 API goroutine, the sweep, 2 connections, 2 starts, 2 boots, 1 fault | `CountsComeBack`: no count of an operation or a stop outlives its goroutine, whatever failed or was recreated; `NoResumeOverSweep`: the guard of a resume against the sweep's stop is total |
| `racing` | 2 API goroutines, the sweep, 1 connection, no fault | `SweepsOnlyFinished` violated: two resumes of one parked session let the sweep stop a session whose child runs; see findings |

*Bounds.* Two starts and two boots are one suspend and resume, which is where a
report of the old child can meet the new one. Two connections let a redial overlap
the monitor of the one it replaces. `sweep` has one API goroutine, `racing` the two
that its trace needs. One container: an id is not reused after its container is gone.
Symmetry is over goroutines and connections, which no property names.

Three more interleavings were seen that no run keeps: a monitor that read "running"
before a stop began removes the entry of a parked session (`runnerd.go:1151`, a
hazard); a failed delete restores "running" over a container a stop has parked
(`registry.go:400`); two stops of which one fails roll the entry back to "running"
although the other succeeds (`registry.go:920`). With a failing driver
the last two would break `SweepsOnlyFinished` as well; `racing` needs no fault.

### Proofs

For any number of API goroutines, containers, connections, boots and faults:

- `TypeCorrect`: `Spec => []TypeOK`, with `OpPlaces` (a goroutine stands at a place of
  its own operation, the sweep only ever stops) as the strengthening.
- `NoCountLeftBehind`: `Spec => []CountsComeBack`. The invariant is the bound itself,
  on cardinalities: the entry counts at most as many stops as there are goroutines in
  `Stopping`, and at most as many operations as in `Bracketed`. Every step `Accounts`
  for the one goroutine that moves: it joins a set when it counts up, leaves when it
  counts down, and an entry created anew starts at zero, below any set. That is why an
  inequality is inductive where the equality is not.
- `SweepGuardTotal`: `Spec /\ QuietCreates => []NoResumeOverSweep`. The guard reads the
  counts, so it is only as good as they are: the proof needs them exact (`CountsExact`)
  and then shows `Excluded`, a resume at its driver and the sweep in a stop never
  together. The condition `QuietCreates` says that no id is created anew while an
  operation of its earlier entry is still in flight. The attempt without it failed for
  a reason in the code: `endOp` and `endStop` go by the id, so what such an operation
  gives back is taken from the new entry, which is why they floor at zero
  (`registry.go:753`, `892`). A delete waits for its container, and the control plane
  does not use an id again, so the condition is met by the system; the registry alone
  does not enforce it.

## InputFence, AttachPlane

`InputFence` is what the sandbox promises: a generation that only advances, and a
set of attachments whose keystrokes execute, which under the exclusive policy is at
most the owner of the generation. `AttachPlane` is everything that leads up to it.

`store` is the row's controller generation, lease holder and whether the lease is
still live; `own[a]` the ownership a replica keeps of attach `a` (mode, generation,
whether the client was told, whether it is registered); `belief[a]` what the client
was last told; `toBox[a]` the frames on their way to the sandbox; `box` the
sandbox's generation and the binding of each attachment; `ack[a]` the channel of
capacity one on which a displacement waits; `hold` and `handoff` the announce hold
and the handoff mutex. An attach is served by the pump (opening, claims, releases,
departure), the heartbeat, and one goroutine per peer that displaces it; each is a
process `<<kind, winner, target>>` in `run`. A step is a statement of the
repository, a critical section of an ownership, a send, or a wait for an
acknowledgement that arrives or times out. `BoxStep` is the relay and the pty's
`bind`; `ClientStep` a client that types, releases, asks for control or leaves.

`FenceImplemented` is the refinement: `INSTANCE InputFence` with `gen` the sandbox's
generation, `owner` the winner of that generation (history `won`) and `writers` the
attachments the pty would let write.

| run | shows |
|---|---|
| `attach` | `FenceImplemented`; `NoOrphanedControl`: the winner of the current generation is not left a viewer; `TruthTold`: when nobody talks to a client, and the last message meant for it was not lost, it believes what its plane holds; `DisplacedStepsDown`: no plane goes on carrying the keystrokes of a controller the row has left, pushed or found out by its own heartbeat; `HandoffsEnd` (liveness) |

*Messages that are lost.* A send has one acknowledgement timeout and its error is
ignored (`ownership.go:254`, `979`). `MessageLost` is the notice of a handoff that runs out
of that time before its turn, behind a snapshot and with the socket left open
(`stream.go:263`), or in its write; the opening answer is lost with its socket. What a
client has missed is kept in `belief[a].lost` until the next message that arrives.
`NoticeSkipped` and `NoticeGivesUp` are a notice that is overtaken by a later one. Nothing
repeats a lost one: on one replica the displaced attach is a viewer before its notice is
sent, the heartbeat passes over a viewer (`ownership.go:718`), and the client believes for
ever that it has control, although `ownership.go:248` calls the heartbeat the mechanism
behind the notice. The model has that behaviour, and TLC its trace; what is checked beside it
is that such a client's keystrokes do not execute (`FenceImplemented`) and that its plane has
stepped down (`DisplacedStepsDown`).

*Bounds.* Two attaches of every kind (driver, one that may not drive, watcher,
client that negotiates nothing) under both policies, on one replica or two, up to two
or three generations (`setup.top`), with a lost acknowledgement, a lost notice, a failing store, a
slow client, a failed pairing and a dropped connection, each in a scenario of its own. Two
attaches are enough for a handoff in both directions; three generations are a
take-over of a take-over. *Fairness.* Goroutines run, and the sandbox takes each
attach's frames; nothing makes a client act, a lease expire or a fault happen.
Deadlock checking is off because every client may have left. *Set apart*: a failing
repository for `NoOrphanedControl`. The keystroke a displaced controller has in flight
when its successor is answered (`plane.go:238`) is a hazard without a property.

### Proofs

For any attaches, policies, replicas, faults and any number of commands and
generations:

- `AuthorityHolds`: `Spec => []Authority`, the inductive invariant. `FenceImplemented` says
  nothing of the messages under way, so it is not inductive; `Authority` follows the
  right to type from where it is won to where it is used: the row's history `won`,
  a claim not yet answered, the ownership in a replica, an announce that is held back,
  a frame on its way, the binding in the sandbox, what a client believes. Whoever
  carries `control` under a generation has won it, unless the policy is shared. The
  history only moves forward (`Forward`), so what a step leaves alone stays lawful
  (`HoldsForward`), and each action has one lemma for what it moves.
- `GenerationsKnown`: nobody knows a generation the row has not reached.
- `FenceHolds`: `Spec => FenceImplemented`, the refinement. Initial states map to
  initial states; a step of the sandbox is `Advance` or a stutter of `InputFence`, every
  other step a stutter.
- `TruthHolds`: `Spec => []TruthTold`. The property only speaks of the moment when nobody
  talks to a client that has missed nothing, so the invariant `Telling` has to say what is still owed before it:
  who may be about to speak to an attachment at each place of each process (`Talking`),
  and that whatever differs between the belief of a client and the ownership of its
  plane is what one of those is about to say, or was lost (`Truth`).
- `ControlNotOrphaned`: `Spec => []NoOrphanedControl`. The invariant `Winners` keeps, for
  the winner of the current generation, where its process stands (`StandsAt`), what it
  still holds there (`Keeps`) and what is still coming to it (`Comes`); it rests on
  `Authority` and `Telling`, because a winner loses control by what others are told.
- `TypeCorrect`: `Spec => []TypeOK`.

Model-checked only: the liveness properties `DisplacedStepsDown` and `HandoffsEnd`.

## NetSlots, MicroVM

`NetSlots` is the pool: `inUse`, `leaked`, `foreign` and the namespaces of the host;
acquiring an index first finishes the teardown of a leaked one, and releasing one
that cannot be torn down leaks it. `MicroVM` has the records in memory and on disk
(`inst`, `disk`), the Firecracker processes (`vm`), the evidence of a launch (`ev`),
root filesystem copies, workspace images (`ws`, the number of writes they hold),
checkpoints (`store`), and `calls[c]`, the driver call goroutine `c` is in. Create,
suspend (warm, cold, cold with a checkpoint), resume, snapshot, destroy, inspect,
resume status and recovery are each a sequence of critical sections and outside
effects, with the error path of each.

| run | shows |
|---|---|
| `microvm` | `NothingPulledAway`: a live VM keeps its namespace, files and a record or call that answers for it; `NoSlotLost`: with no call in flight an index in use is the slot of the record that holds it; `WorkKept`: the durability barrier of a cold suspend; `GenerationBootsOnce`: no placement generation boots twice, or after a status answer that it never did, restarts included; `CallsEnd` (liveness) |

*Bounds.* Two callers are enough for every overlap the driver's own claims (resuming,
snapshotting, destroying) are about; up to three sessions over two slots, three
generations, two checkpoints, two faults. The faults are failing saves, launches, stops, streams,
verifications and network setup, a full disk, a dying VM, and a restart of the
runner or of the host. *Fairness.* A call goes on while it can; nobody has to make
one. Deadlock checking is off: all sessions may be destroyed.

*Status questions.* The scenario `Queries` has creates, suspends, delayed and failing resumes,
status questions and a restart of the runner together. Nothing orders a status question and
a suspend of the same session (`resume_placement.go:69` takes no lock), and the record
the suspend copied before the answer and saves after it is older than what was answered
(`microvm.go:1790`, `1806`): it takes the recorded generation off the disk again, and asked
once more the driver answers from memory and saves nothing. After a restart the delayed
command then boots the generation that was answered as never launched, against
`microvm.go:3596`; TLC has the trace. `GenerationBootsOnce` sets exactly these answers apart
(`Overlapped`), the behaviour stays in the model, and it is listed as a hazard.

### Proofs

For any number of callers, instances and slots, any sessions, generations and setups,
whatever fails and whenever the runner or the host restarts:

- `SlotsNeverLost`: `Spec => []NoSlotLost`. The property speaks of the moment without a
  call in flight. `SlotsHeld` says at every moment that each index in use has exactly one
  holder, a record or a call, and at which places of a call (`HoldingPlaces`) the call is
  it: an index changes hands in `CommitSlot`, `ResumePublish`, `SuspendPark`, `FoldState`,
  `DestroyClaim`, `DestroyKeeps` and `Refuse`, and is given back once. That a hand-over
  finds the hands of the record empty is what the driver's claims are for, so the proof
  needs `Claims`: a create has its instance to itself, a resume is the only one that
  has set `resuming` and no teardown has claimed what it brings up, of two
  teardowns past their claim the record is still there for at most one (`Fits`, `Alone`).
  `ReleaseSlot`'s check that the index is the key's own is never what saves it: the proof
  shows the other branch is never taken.
- `VMsMoored`: `Spec => []Moored`. It says of a VM that is there, or whose launch left
  evidence that does not say it is gone (`Live`), that its record on disk names its slot,
  the namespace of that slot is its own, its root filesystem is there (`Anchored`), and
  either a call that has launched it or the record in memory answers for it, with the
  teardown that could not stop it where there is one (`Carried`, `Stood`). That the
  disk and the evidence are part of it is for the restart: the new runner knows of a VM
  only what these say, and takes back its slot from them. `Equipped` says where a call may
  rely on its instance having no VM, and what the record it is about to save says.
- `NothingIsPulledAway`: `Spec /\ [][CleanCreates]_vars => []NothingPulledAway`. All of the
  property but the workspace is `VMsMoored`, without a premise. The workspace belongs to
  the session, so two instances of one session share it: `OneInstance` says that only one
  of them is there at a time, `Floats` that a VM, and a call about to launch one, has it.
  The premise is that a session is created again only once no record of an earlier
  instance is left on disk. It is needed: a suspend that saves its copy of the record
  after a concurrent destroy leaves a record on disk only (`microvm.go:895`); the
  session is created again; a destroy of the leftover, come late, counts the instances of
  the session in memory, finds none because the create is not yet published, and removes
  the workspace (`RemoveWorkspace`) under the VM that create has launched. TLC has a trace of
  about 30 steps on an instance with two instances of one session, and with the premise in
  the guard of `Create` finds no error in that instance. In the scenarios of `microvm` each
  session has one instance, so the premise holds of all of them.
- `TypeCorrect`: `Spec => []TypeOK`. `Types` adds where each kind of call may stand and
  with what (`Stands`), and that a process with an identity runs or is paused.

The invariant is `Inv`, which is `Types`, `Claims` and `SlotsHeld`, and beside it `Moored`,
`OneInstance` and `Floats`; TLC agrees with each of them on every state of `microvm`. Most
actions have three lemmas, one for the types, one for the claims and slots, and one for the
moorings (`SuspendVMMoors`); those that only move a call share `Moves`, those that change a
record `Changes`, the steps with the pool `PoolStep`. The assumptions are `PoolAssumption` and
`DriverAssumption`; the latter has at least one generation, because a create carries one.

## Reaper, Exec

`Reaper` is the table of statuses nobody has claimed yet: numbered outcomes, the
oldest dropped for a tombstone. `Exec` has the caller and its splice (`call`), the
attachment and its process in the sandbox (`ex`), slots, quiescing and the mailbox
of counts (`box`), the connection (`link`), count frames that may arrive in any
order (`wire`), the runner's entry (`ent`) and the warm suspend in flight (`op`).
Opening is `Ask`, `DialBack`, `Reserve`, `Start`, `Arm`, `Announce`, `HandOver`; the
end is `WaitReturns`, `EmitExit`, `CloseExec`, with `KillOne`, `Killed` and
`Discard` for one that is killed; a suspend is the notice, `KillAll` one exec at a
time, `AnswerReady` or `GiveUpWaiting`, and `Freeze`.

| run | shows |
|---|---|
| `exec` | `ReadyMeansGone`: a sandbox frozen on its word is empty; `AnswerHonest`: what a caller is told is its own command's outcome; `QuietViewExact`: with no report on its way the runner's count is the sandbox's; `ClaimedAtRest`: with no report on its way, the sweep claims no session in which an exec holds a slot; `WorkSettles` (liveness) |
| `exec_after_resume` | `ResumedTakesExecs` violated: see findings |

*Bounds.* Three commands over two slots and one detached slot, two unclaimed
statuses against three orphans, queues of one frame, a clock of one tick
with an idle limit of one, three registrations. `Redials` loses the connection of one
detached command twice, so that counts are dropped, restated and overtaken before the sweep
looks; its state space with two commands is beyond a run of a few minutes. *Fairness.* Weak fairness of everything the
system does by itself; a command may run for ever, a caller need not speak. Deadlock
checking is off: every caller may be done. *Left out*: a pid reused before its waiter
has run, eviction of tombstones. *Not checked*: how long after its last exec a session is
stopped. With two detached commands and two drops the idle clock may have started too
early: an owed report of zero, numbered before the second command, is sent on the second
connection and applied before the count restated there, which starts the clock; the second
drop makes the restated count stale; the third connection restates a zero, which starts no
clock because the count was zero; and the sweep claims the session in the tick in which
the second command ended. No exec is killed by that, which is what `ClaimedAtRest` says,
but the session is stopped sooner than the idle limit (`idlestop.go:34`).

### Proofs

For any commands, pids, limits, queue lengths, clocks and setups:

- `AnswersHonest`: `Spec => []AnswerHonest`. The outcome of a command passes from the
  process to the reaper's table, to its waiter, to the attachment, to the splice, to the
  caller. `Honest` says what stands at each of these: at which stage an attachment may
  hold what (`Stand`, `Told`, `Utters`), that no two processes that are not waited for
  share a pid (`Apart`), and that what the table holds for that pid, numbered after the
  mark taken at the start, is of this very process (`Marked`, `Numbered`): pids are
  reused, the numbers are what keeps an orphan's status from being taken for a
  command's.
- `ReadyGone`: `Spec => []ReadyMeansGone`, from `Latch`: while a suspend is in flight the
  sandbox is the one that was asked, its door is shut from when it has heard, and the
  word that nothing runs is given of an empty live set.
- `ViewExact`: `Spec => []QuietViewExact`. `QuietViewExact` speaks of the moment without
  reports; `Counted` of all others: a report tells of the slots as they were at its
  number, and the last number is in the sandbox's mailbox, on the wire under the current
  registration, or with the runner. Frames arrive in any order, from earlier connections
  and earlier boots; the number and the registration are what the runner goes by.
- `ClaimsAtRest`: `Spec => ClaimedAtRest`, from `ViewExact`, without a premise on connections:
  the sweep claims at a count of zero, and with no report on its way the count is exact.

The invariants hold on every state of `exec`. The assumption is `ExecAssumption`:
pids are positive, the commands are finitely many, and none of them is called as one of
the words the model uses beside them. Model-checked only: `WorkSettles` (liveness).

## WorkspaceTree, Checkpoint

`WorkspaceTree` has the rules as operators: what an index may contain and in which
order, which links stay inside, where an entry lands. `Checkpoint` has the walk of
the sandbox (`guest`), the connection (`net`), `StreamWorkspace` (`host`), the writer
and the restore (`drv`), objects and manifests (`store`), the record in memory and on
disk (`rec`), the image file, and the programs that go on writing to `ws`.

| run | shows |
|---|---|
| `checkpoint` | `CommittedWasThere`: a manifest names a whole object that holds what was there; `ResumesWithItsWork`: a workspace nobody wrote to comes back exactly, whatever failed; `LandsWhereNamed`: a restored entry is made at its own path; `SuspendEnds` (liveness) |

*Bounds.* Three paths, one below another, with directories, links and a socket; two
suspends, so that frames of an abandoned attempt meet the next; two connections with
a window of two frames; two faults. Streams and objects of up to four and three
entries that no walk of this code would produce check that the readers rely on
nothing but their own validation. *Fairness.* Sandbox, host and driver go on; a
connection may stay down. *Left out*: a file rewritten with the same size between its
stat and its copy is not noticed by the code, so `CommittedWasThere` only asks for
bytes the name had meanwhile.

## AgentCustody

`row` is the row of `agent_credentials` (version, revoked, last revoked version, the
files), `home[b]` the files in sandbox `b` and the `agentSet` kept for them,
`pass[b][w]` the sync loop and the pass beside it, `orphans` puts whose caller has
given up, `revokes` downward revokes on their way, `user` the person. A sandbox boots,
fetches, puts what changed with a bounded number of attempts, makes a last pass at
exit and at close; a logout revokes the row and is swept into the sandboxes; a
withdrawal does the same for a membership.

| run | shows |
|---|---|
| `custody` | `LoggedOutStaysOut`: custody never again holds a login from before a logout; `RevokedStaysGone`: nor does a sandbox that was told; `LoginSaved` (liveness): a login made in a ready sandbox reaches custody |

*Bounds.* Two sandboxes, three logins, two attempts (the code has four; the last
one is what differs). *Fairness.* A sandbox boots and its passes go on. *Set apart*
(`past.slip`, `past.met`): a put that read the files under a removal it could not
finish, a revoke's or a fetched tombstone's; two fetches of which the older answer
lands last; and two passes of one sandbox that meet. The first of these in its second
form was found by a proof attempt, not by a run: the scenario `Overlaps` now reaches it
(a pass finds the set dirty, a fetch beside it brings a tombstone that cannot be applied
and adopts its version, and `putSet` reads the old login and sends it under that version).

### Proofs

For any number of sandboxes, logins, attempts, puts on their way and faults:

- `LogoutHolds`: `Spec => []LoggedOutStaysOut`, and `RevokeHolds`:
  `Spec => []RevokedStaysGone`, both from `IInv`, which is `Types` and `Custody(L)` for
  some version `L`: that of the tombstone of the last logout. `LoggedOutStaysOut` only
  speaks of the row, while what could break it is a put with old files whose version the
  row still accepts. So the invariant says of everything that carries a version - the row
  (`RowFine`), a put under way or abandoned (`PutFine`), a home (`HomeFine`), an answer on
  its way down (`WorkFine`), a downward revoke (`RevokeFine`), two passes of a sandbox
  beside each other (`PairFine`) - that from `L` on it holds no login from before the
  logout. Each action has one lemma, split into what it leaves alone and what it writes.
- `TypeCorrect`: `Spec => []TypeOK`.

Model-checked only: `LoginSaved` (liveness).

## GuestReconnect

`store` is the bootstrap row (token, pinned identity, pending attempt, epoch) with
the rows `lockScope` reads; `entry`, `chan`, `work` and `fwd` are the runner's entry,
the driver's guest channel, the workers that own a stream and the forwarded
requests; `guest` is sessiond; `wire[c]` a vsock stream. `Dial`, `EnrollSends`,
`Prove`, `Accept`, `Redeem`, `Refresh`, `Acknowledged` are the guest's side of the
preamble; `EnrollHeard`, `ProofHeard`, `Fence`, `Configured`, `RedeemHeard`,
`ReadyHeard`, `Install` the runner's. A call the runner gave up on may be executed
later (`ServeLate`).

| run | shows |
|---|---|
| `reconnect` | `AnswersItsQuestion`: a guest never gets the answer to an earlier boot's request; `NoOldVoice`: nothing from a fenced stream is sent up; `CanStillReconnect`: identity and epochs never diverge so that the guest is locked out; `Reconnects` (liveness) |

*Bounds.* Four streams at once, epochs up to six, two breaks, timeouts or restarts per
scenario. *Fairness.* Workers, guest, requests and the redial of the control
connection go on. *Set apart* (`past.remint`): a mint executed after its caller gave
up replaces the identity of a guest that has since enrolled. *Left out*: the limits of
64 claims and 1024 forwards, the exchange of older guests, recovery without a
generation.

### Proofs

For any number of streams and epochs and any setups:

- `AnswersHold`: `Spec => []AnswersItsQuestion`. A wrong answer needs a guest and a runner
  that disagree about who is on a stream, so the inductive invariant is about that:
  `Placed` (entry, channel and workers belong to one placement), `Wired` (the two ends of
  a stream and who holds them), `Sent` and `Told` (what either side may still have to
  read at each stage of the preamble), `Stand` (at which stage the guest may be, given
  the worker's), `Voice` (every request and answer on the guest's own stream is its own)
  and `Forwarded` (under one control connection the number of a forward stands for one
  request).
- `NoOldVoiceHolds`: `Spec => NoOldVoice`, an action property: what is sent up comes from
  the hub of a stream that was not fenced (`HubUnfenced`).
- `ReturnStaysPossible`: `Spec => []CanStillReconnect`. Added for it are `KeptGuest` (the
  key, placement and epoch of an enrolled guest are the store's) and what must be known at
  each stage for that to survive the next one: a proof, an epoch or a token on its way
  (`KeptEnrolling`, `KeptAccepted`, `KeptSecrets`, `KeptReconnect`).
- `TypeCorrect`: `Spec => []TypeOK`.

`IInv` joins these; TLC agrees with it on every state of `reconnect`. There is a
lemma per action and per part it can disturb. The only assumption is
`ReconnectAssumption`, on the constants. Model-checked only: `Reconnects` (liveness).

## BootChain, EnvironmentCache

`BootChain` has the wrapper shell that runs setup, clone, agents and init and writes
an exit code per stage onto the volume, the watcher that polls them, the two queues its
reports wait in, and the git that asks for a credential. `EnvironmentCache` adds the
environment's row with its cache, the session rows with what was pinned, the
scheduler's copy of the environment, the create goroutines, containers and images
per runner and the snapshot builds.

*Reports.* `Offer` puts a payload on the channel of eight and drops the newest when
nothing drains it (`offerControl`); `Take` moves one from there to the pending queue of
the connection, where `AppendPending` drops the oldest. A connection that dies may
`Swallow` what was written into it, and what it could not send waits for the next. The
runner routes each frame on a goroutine of its own, so `news` is a set. That is also why the
credential may be marked after the failure it explains has been read, against
`gitchain.go:769`: TLC has the trace, it is listed as a hazard.

*Ends of stages.* `TimeOut` bounds setup, clone and init. The secrets stage fails by
itself, and the agents stage has no bound of the watcher's: its script counts its own
wait out (`AgentsWaited`), and that it ends is why a boot with it ends.

*Rejected credentials.* `AuthRejected` is a match over the end of everything the session
has printed, so `GitFails` lets any earlier stage have left an "auth" line in it. The
report names no token, the vault marks whatever is stored, and any process of the sandbox
may send one (`Accuse`); the erase of a git helper is one such, of the clone's git or the
agent's. A mark on a credential GitHub accepts is therefore behaviour of the model, as it
is of the code (`gitchain.go:630`), and no property denies it.

*Setup runs.* What a container or an image holds is the sequence of scripts that ran to
their end in it, and `held` how many of them came with the image, so a second run of the
same script is seen. A cold resume of a container made from the base image does run its
setup again (`runners.go:249`); one made from a cached image must not, because the commit
empties the variable that carries the script.

| run | shows |
|---|---|
| `boot` | `NoStaleVerdict`: a reported verdict is this boot's; `CacheIsBuilt`: the current cache names an image on the runner it names, committed after exactly its script, and no other, over exactly its image; `AgentIsReady`: an agent runs only where the setup asked for, and no other, has run, over a cached image not once more, and in a repository on its branch; `BootEnds` (liveness): every boot reaches its agent or is told of as failed |

*Bounds.* Two sessions, two runners, two scripts, two images, two tokens, three
generations, and queues of two payloads each (the code has eight): `Crowded` offers
three and loses a connection, so that either queue overflows beside a failure. *Fairness.* The shell's echo, a script that ends
itself, the watcher and its bound, delivery, redial and the control plane's handling go
on; other scripts and git get none, so they may hang. *Set apart*, each by a history
flag: a re-placement on a runner that had an
earlier placement of the session (`past.same`, because `setup_done` carries no
generation), a requeued row that keeps its snapshot ref (`past.kept`,
`scheduler.go:248`), a clone cut off before its branch was made (`past.cut`), and, for
`BootEnds`, a report of failure that a full queue dropped, that was swallowed by a dying
connection, or that the runner had no connection for (`past.lost`). What an init hook or the agent writes
into a container before it is committed is not represented.

### Proofs

For any runners, sessions, scripts, tokens, generations and setups:

- `VerdictsAreOwn`: `Spec => []NoStaleVerdict`. What a watcher heard is what its own stage
  ended with in this boot. The strengthening (`ChainFine`) says of every code on the
  volume that can be read that its stage reached it in this boot, of a shell that goes
  on that its earlier stages ended well, and of the shell between the end of a stage and
  the echo which code it is about to write.
- `CachesAreBuilt`: `Spec => []CacheIsBuilt`. The invariant follows a container from the
  row that was placed to the image committed from it: the row and its create goroutine
  (`RowFine`, `JobFine`), nothing of a placement before its create (`FreshFine`), what a
  container was made of and what was run in it (`BoxFine`, `SetupFine`), that the news
  of a setup is true of the container that is there (`NewsFine`), and that a build or an
  image holds what it is named for (`BuildsFine`, `ImagesFine`). Until `past.same`, a
  container, its news and its builds belong to one create; the news carries no
  generation, and this is where the proof needs it.
- `AgentsAreReady`: `Spec => []AgentIsReady`, from the same parts (`Readied`), `CloneFine`
  for the repository and `RestsFine` for a container that is started again; that a
  container from a cached image has no script, whoever starts it, is in `Readied`.
- `TypeCorrect`: `Spec => []TypeOK`.

The invariant is `IInv`; TLC agrees with it on every state of `boot`. The assumptions are
`BootChainAssumption` and `CacheAssumption`, on the constants: among them that a scenario
which starts with a snapshot has the script it is the snapshot of. A first attempt failed
at `Placement`, whose CASE had guards that overlapped: TLA+ then lets either value be the
result, and only TLC's order made it the code's. It is a chain of IF now, and a CASE of
`MicroVM` with the same fault has disjoint guards. Model-checked only: `BootEnds`
(liveness).

## Findings

`exec_after_resume`. `KillAll` sets `quiescing`, and nothing clears it. A sandbox that is
suspended warm is frozen and thawed with its process, so after `rainier resume` every
exec is refused as `session_ending`, although `docs/design/rainier-exec.md` gives a
resume as the remedy.

`racing`. A resume forgets the exit of the old child only if it restarted the container
and finds the entry parked (`registry.go:985`). Of two resumes at once, the one that found
the container already up may land first; then neither forgets it, and the idle sweep
reads the exit of the child that is gone and stops the session under the new one.
`idlestop.go:12` promises that a session whose child runs is never stopped.

Three more disagreements with a comment are kept as hazards, with their lines: the lost
notice of a take-over (`AttachPlane`), the status answer a suspend overwrites (`MicroVM`),
and the rejection that is applied after its failure (`BootChain`).

## Model-checked only

- Every liveness property, because fairness is out of the prover's reach.
- `WorkKept` and `GenerationBootsOnce` of `MicroVM`: an older copy of a record saved late
  (`microvm.go:1806`) can take back what is on disk before a restart, so they do not hold for
  every overlap of calls, and what is set apart for the one is not what the other needs.
- The violated properties of the two findings, each over the instance its trace needs.
- The properties of `Checkpoint`, which rests on what operators over sequences of entries
  compute, which would be induction over data. Its `TypeOK` describes its state.

## Not modelled

Formatting, logging, HTTP and WebSocket framing, authentication, sealing, image
building, launch-spec contents, pool scoping, idempotency keys and recorded events;
the egress proxy (a stateless allowlist), the terminal emulator and the event log
(byte-level conversion), the file and diff methods of sessiond (one request, one
answer); the HTTP surface of a lone runner; most of the command line client; clocks
other than "may have passed", except the idle clock of `Exec`.
