------------------------------ MODULE MicroVM ------------------------------
(***************************************************************************)
(* The microVM driver of a runner: instance records in memory and on disk, *)
(* the Firecracker processes and the evidence of their launch, the root    *)
(* filesystem copies, the workspace images and their checkpoints, and the  *)
(* network slots.                                                          *)
(*                                                                         *)
(* A call of the driver holds the mutex only for its bookkeeping: the      *)
(* hypervisor, the pool, the disk and the guest are reached with the mutex *)
(* released.  So a step is one critical section or one such outside        *)
(* effect, and the runner, the host or a VM may die between any two steps. *)
(*                                                                         *)
(* A workspace is the number of writes it holds, 0 when there is no image. *)
(* The epoch of a record is kept as a flag of the calls that read it:      *)
(* `fresh` until the record is bumped.                                     *)
(*                                                                         *)
(* Left out: agent homes, image pulls and the image store, cgroups, the    *)
(* contents of the boot configuration, the guest channel, List (an Inspect *)
(* of every instance), and anything a refused call leaves unchanged.       *)
(***************************************************************************)
EXTENDS NetSlots

CONSTANTS
    Callers,        \* goroutines calling the driver, one call at a time each
    SessionOf(_),   \* the session an instance is created for
    MaxGen,         \* bound on placement generations
    MaxCheckpoint,  \* bound on checkpoint generations of a session
    MaxWrites,      \* bound on writes to a workspace
    MaxFaults,      \* bound on the faults of a behaviour
    Setups          \* scenarios: the calls issued, the faults met, how many sessions the host admits

ASSUME DriverAssumption ==
    /\ IsFiniteSet(Keys) /\ Keys = 1 .. Cardinality(Keys)
    /\ MaxGen \in Nat \ {0} /\ MaxCheckpoint \in Nat /\ MaxWrites \in Nat \ {0} /\ MaxFaults \in Nat
    /\ Callers # {}

VARIABLES
    inst,           \* inst[id]: the record in memory
    disk,           \* disk[id]: the record on disk
    seq,            \* the last instance id handed out
    vm,             \* vm[id]: the Firecracker process, and the slot it was launched on
    ev,             \* ev[id]: the evidence of the launch on disk
    rootfs,         \* ids with a root filesystem copy
    ws,             \* ws[s]: the workspace image of session s
    store,          \* store[s][g]: what checkpoint generation g of session s holds, 0 if there is none
    calls,          \* calls[c]: the call goroutine c is in
    setup,          \* the scenario
    spent,          \* history: the faults that have happened
    owed,           \* history: owed[s]: the writes the last cold suspend of session s promised to keep
    ran,            \* history: sessions whose create has returned an instance
    settled         \* history: settled[id]: placement generations launched, or reported as never launched (not Overlapped)

drv == <<inst, seq>>
eng == <<vm, ev>>
work == <<ws, store, owed>>
hist == <<setup, spent>>
marks == <<ran, settled>>
vars == <<net, inst, disk, seq, vm, ev, rootfs, ws, store, calls, setup, spent, owed, ran, settled>>

Ids == Keys
Sessions == {SessionOf(id) : id \in Ids}
Generations == 1 .. MaxCheckpoint

NoRecord == [st |-> "none", cold |-> FALSE, blocked |-> FALSE, idx |-> 0, gen |-> 0, ck |-> 0]
NoInstance == [st |-> "none", cold |-> FALSE, blocked |-> FALSE, idx |-> 0, gen |-> 0, ck |-> 0,
               slot |-> 0, live |-> FALSE, resuming |-> FALSE, destroying |-> FALSE,
               snapshotting |-> FALSE, checkpointing |-> FALSE]
NoVM == [st |-> "none", slot |-> 0]
NoCall == [op |-> "none", pc |-> "idle", id |-> 0, gen |-> 0, slot |-> 0, next |-> "none",
           cold |-> FALSE, fresh |-> FALSE, seen |-> "none", made |-> FALSE, owed |-> 0, rec |-> NoRecord]

Init ==
    /\ InitPool
    /\ inst = [id \in Ids |-> NoInstance] /\ disk = [id \in Ids |-> NoRecord] /\ seq = 0
    /\ vm = [id \in Ids |-> NoVM] /\ ev = [id \in Ids |-> "none"] /\ rootfs = {}
    /\ ws = [s \in Sessions |-> 0] /\ store = [s \in Sessions |-> [g \in Generations |-> 0]]
    /\ calls = [c \in Callers |-> NoCall]
    /\ setup \in Setups /\ spent = {}
    /\ owed = [s \in Sessions |-> 0] /\ ran = {} /\ settled = [id \in Ids |-> {}]

-----------------------------------------------------------------------------
(* What a record says.                                                     *)

Known(id) == inst[id].st # "none"

\* what is written of a record: the flags and the slot pointer are not
Persistable(r) == [f \in DOMAIN NoRecord |-> r[f]]

Warm(r) == r.st = "suspended" /\ ~r.cold
Occupies(r) == r.resuming \/ r.st = "running" \/ Warm(r)

Used == Cardinality({id \in Ids : Occupies(inst[id])}) + Cardinality({c \in Callers : calls[c].op = "create"})

\* reconcileState: no process is how a cold-parked session should look
Reconciled(r, state) ==
    CASE state = "paused" /\ r.snapshotting -> r
      [] state = "running" -> [r EXCEPT !.st = "running", !.cold = FALSE]
      [] state = "paused" /\ ~r.snapshotting -> [r EXCEPT !.st = "suspended", !.cold = FALSE]
      [] state = "gone"    -> [r EXCEPT !.st = IF r.cold THEN "suspended" ELSE "gone"]

Idle(r) == r.st = "gone" \/ (r.st = "suspended" /\ r.cold)

-----------------------------------------------------------------------------
(* Calls: each names the place it has reached, and where its release of a  *)
(* slot returns to.                                                        *)

At(c, op, pc) == calls[c].op = op /\ calls[c].pc = pc
Id(c) == calls[c].id
Session(c) == SessionOf(calls[c].id)
Goes(c, pc) == [calls EXCEPT ![c].pc = pc]
Returned(c) == [calls EXCEPT ![c] = NoCall]

\* the slot is given back before the call goes on
Releases(c, slot, next) ==
    [calls EXCEPT ![c] = [@ EXCEPT !.pc = IF slot = 0 THEN next ELSE "release", !.slot = slot, !.next = next]]

\* bump: whoever read the record before must not act on what it read
Bumped(cs, id) == [c \in Callers |-> IF cs[c].id = id THEN [cs[c] EXCEPT !.fresh = FALSE] ELSE cs[c]]

\* a fault of this kind happens now; each kind happens once in a behaviour
Fault(kind) == kind \in setup.faults \ spent /\ Cardinality(spent) < MaxFaults /\ spent' = spent \cup {kind} /\ UNCHANGED setup
NoFault == UNCHANGED hist

Issued(op, id) == {c \in Callers : calls[c].op = op /\ calls[c].id = id}

\* what the driver relies on (endSnapshot, resumeAfterSnapshot): the runner above keeps suspend, resume and snapshot of one
\* session apart.  A teardown that waits for a resume is not held up by another one: its context bounds the wait
MayIssue(op, id) ==
    /\ op \in setup.ops
    /\ \A o \in {"suspend", "resume", "snapshot"} : Issued(o, id) = {}
    /\ op = "resume" => \A c \in Issued("destroy", id) \cup Issued("reap", id) : calls[c].pc # "wait"

-----------------------------------------------------------------------------
(* The engine.  A launch leaves a marker before its process starts and the *)
(* identity of the process right after; without the identity nobody can    *)
(* tell whether the process is there, unless the host has booted since.    *)

Alive(id) == vm[id] # NoVM

\* FirecrackerEngine.State
State(id) ==
    CASE ev[id] \in {"marker", "untracked"} -> "error"
      [] ev[id] = "full" /\ Alive(id) -> vm[id].st
      [] OTHER -> "gone"

\* Stop: the process is gone, and then the evidence of it
Stopped(id) ==
    /\ ev[id] # "untracked" /\ (ev[id] = "marker" => ~Alive(id))
    /\ vm' = [vm EXCEPT ![id] = NoVM] /\ ev' = [ev EXCEPT ![id] = "none"]
    /\ NoFault

\* Stop reports an error, and the process is not known to be gone
Lingers(id) ==
    /\ ev[id] = "untracked" \/ (ev[id] \in {"marker", "full"} /\ Alive(id))
    /\ IF ev[id] = "full" THEN Fault("stop") ELSE NoFault
    /\ UNCHANGED eng

\* Stop reports an error, and the process is gone: its jail could not be removed, or the evidence of it
Littered(id) ==
    /\ ev[id] = "full" /\ Fault("jail")
    /\ vm' = [vm EXCEPT ![id] = NoVM] /\ ev' \in {ev, [ev EXCEPT ![id] = "none"]}

Gone(id) == Stopped(id) \/ Littered(id)

-----------------------------------------------------------------------------
(* Slots and records, as every call uses them.                             *)

\* where a call goes when its launch cannot go on: Create undoes, Resume undoes and ends its claim
Undoing(c) == IF calls[c].op = "create" THEN "unwind" ELSE "undo"

TakeSlot(c) ==
    /\ calls[c].pc = "take"
    /\ IF Candidate = 0
       THEN calls' = [calls EXCEPT ![c] = [@ EXCEPT !.pc = Undoing(c), !.slot = 0]] /\ UNCHANGED net
       ELSE Take(Candidate) /\ calls' = [calls EXCEPT ![c] = [@ EXCEPT !.pc = "build", !.slot = Candidate]]
    /\ UNCHANGED <<drv, eng, work, hist, disk, rootfs, marks>>

BuildSlot(c) ==
    LET i == calls[c].slot
    IN  /\ calls[c].pc = "build"
        /\ \/ Built(i, Id(c)) /\ calls' = Goes(c, "intent") /\ NoFault
           \/ Retired(i) /\ calls' = Goes(c, "take") /\ NoFault
           \/ /\ Fault("net") /\ BuildFails(i, Id(c))
              /\ calls' = [calls EXCEPT ![c] = [@ EXCEPT !.pc = Undoing(c), !.slot = 0]]
        /\ UNCHANGED <<drv, eng, work, disk, rootfs, marks>>

\* Release: not this key's index, nothing to do
ReleaseSlot(c) ==
    /\ calls[c].pc = "release"
    /\ calls' = IF Mine(calls[c].slot, Id(c)) THEN Goes(c, "teardown")
                ELSE [calls EXCEPT ![c] = [@ EXCEPT !.pc = calls[c].next, !.slot = 0]]
    /\ UNCHANGED <<net, drv, eng, work, hist, disk, rootfs, marks>>

TeardownSlot(c) ==
    LET i == calls[c].slot
    IN  /\ calls[c].pc = "teardown"
        /\ \/ TornDown(i) /\ NoFault
           \/ TeardownFails(i) /\ Fault("net")
        /\ calls' = [calls EXCEPT ![c] = [@ EXCEPT !.pc = calls[c].next, !.slot = 0]]
        /\ UNCHANGED <<drv, eng, work, disk, rootfs, marks>>

\* the copy made under the mutex is written after it; a failure is reported and changes nothing more
SaveRecord(c) ==
    /\ calls[c].pc = "save"
    /\ \/ disk' = [disk EXCEPT ![Id(c)] = calls[c].rec] /\ NoFault
       \/ Fault("save") /\ UNCHANGED disk
    /\ calls' = IF calls[c].op = "resume" THEN Goes(c, "end") ELSE Returned(c)
    /\ UNCHANGED <<net, drv, eng, work, rootfs, marks>>

-----------------------------------------------------------------------------
(* Create.                                                                 *)

\* reserveSlot; the control plane does not create a session again once its create has returned
Create(c) ==
    LET id == seq + 1
    IN  /\ calls[c] = NoCall /\ "create" \in setup.ops /\ id \in Ids /\ id <= setup.n
        /\ \A j \in Ids \ {id} : SessionOf(j) = SessionOf(id) => ~Known(j) /\ \A d \in Callers : calls[d].id # j
        /\ SessionOf(id) \notin ran /\ Used < setup.total
        /\ seq' = id /\ settled' = [settled EXCEPT ![id] = {}]
        /\ calls' = [calls EXCEPT ![c] = [NoCall EXCEPT !.op = "create", !.pc = "disks", !.id = id, !.gen = 1]]
        /\ UNCHANGED <<net, eng, work, hist, inst, disk, rootfs, ran>>

\* the workspace image, unless the session has one, and the root filesystem
CreateDisks(c) ==
    /\ At(c, "create", "disks")
    /\ \/ /\ ws' = [ws EXCEPT ![Session(c)] = IF @ = 0 THEN 1 ELSE @]
          /\ rootfs' = rootfs \cup {Id(c)}
          /\ calls' = [calls EXCEPT ![c] = [@ EXCEPT !.pc = "take", !.made = ws[Session(c)] = 0]]
          /\ NoFault
       \/ Fault("disks") /\ calls' = Returned(c) /\ UNCHANGED <<ws, rootfs>>
    /\ UNCHANGED <<net, drv, eng, store, owed, disk, marks>>

\* everything the VM will use is on record before a process can exist, in a record no resume accepts
Intended(c) ==
    IF calls[c].op = "create"
    THEN [NoRecord EXCEPT !.st = "running", !.blocked = TRUE, !.idx = calls[c].slot, !.gen = calls[c].gen]
    ELSE [Persistable(inst[Id(c)]) EXCEPT !.st = "running", !.cold = FALSE, !.blocked = TRUE, !.idx = calls[c].slot]

SaveIntent(c) ==
    /\ calls[c].pc = "intent"
    /\ \/ disk' = [disk EXCEPT ![Id(c)] = Intended(c)] /\ calls' = Goes(c, "launch") /\ NoFault
       \/ Fault("save") /\ calls' = Goes(c, Undoing(c)) /\ UNCHANGED disk
    /\ UNCHANGED <<net, drv, eng, work, rootfs, marks>>

\* Launch, up to the start of the process: refused while evidence of an earlier one is there
LaunchVM(c) ==
    /\ calls[c].pc = "launch"
    /\ \/ /\ ev[Id(c)] = "none" /\ NoFault
          /\ ev' = [ev EXCEPT ![Id(c)] = "marker"]
          /\ vm' = [vm EXCEPT ![Id(c)] = [st |-> "booting", slot |-> calls[c].slot]]
          /\ settled' = [settled EXCEPT ![Id(c)] = @ \cup ({calls[c].gen} \ {0})]
          /\ calls' = Goes(c, "boot")
       \/ /\ IF ev[Id(c)] = "none" THEN Fault("launch") ELSE NoFault
          /\ calls' = Goes(c, "refuse")
          /\ UNCHANGED <<eng, settled>>
    /\ UNCHANGED <<net, drv, work, disk, rootfs, ran>>

\* the process is identified and the guest starts; on an error Launch kills it, and may not see it exit
BootVM(c) ==
    LET id == Id(c)
    IN  /\ calls[c].pc = "boot"
        /\ \/ /\ Alive(id) /\ NoFault
              /\ vm' = [vm EXCEPT ![id].st = "running"] /\ ev' = [ev EXCEPT ![id] = "full"]
              /\ calls' = Goes(c, "publish")
           \/ /\ IF Alive(id) THEN Fault("launch") ELSE NoFault
              /\ vm' = [vm EXCEPT ![id] = NoVM] /\ ev' = [ev EXCEPT ![id] = "none"]
              /\ calls' = Goes(c, "refuse")
           \/ /\ Alive(id) /\ Fault("launch")
              /\ \/ UNCHANGED eng
                 \/ vm' = [vm EXCEPT ![id].st = "running"] /\ ev' = [ev EXCEPT ![id] = "full"]
              /\ calls' = Goes(c, "refuse")
        /\ UNCHANGED <<net, drv, work, disk, rootfs, marks>>

\* the record of a launch that failed and could not be undone: it keeps all the VM may still use
Retained(c) ==
    [(IF calls[c].op = "create" THEN [NoInstance EXCEPT !.gen = calls[c].gen] ELSE inst[Id(c)])
        EXCEPT !.st = "running", !.cold = FALSE, !.blocked = TRUE, !.live = @ \/ calls[c].op = "create",
               !.slot = calls[c].slot, !.idx = calls[c].slot]

\* refuse and stopUnverified: undone if the process is gone, else retained, and Create accounts for it
Refuse(c) ==
    LET id == Id(c)
    IN  /\ calls[c].pc = "refuse"
        /\ \/ /\ Gone(id)
              /\ calls' = Goes(c, Undoing(c))
              /\ UNCHANGED <<inst, disk>>
           \/ /\ Lingers(id)
              /\ inst' = [inst EXCEPT ![id] = Retained(c)]
              /\ disk' = [disk EXCEPT ![id] = Persistable(Retained(c))]
              /\ calls' = Bumped(IF calls[c].op = "create" THEN Returned(c) ELSE Goes(c, "end"), id)
        /\ UNCHANGED <<net, seq, work, rootfs, marks>>

\* the record is unblocked on disk, and then there is an instance; a VM left with a record that cannot be saved is refused
CreatePublish(c) ==
    LET rec == [Intended(c) EXCEPT !.blocked = FALSE]
    IN  /\ At(c, "create", "publish")
        /\ \/ disk' = [disk EXCEPT ![Id(c)] = rec] /\ calls' = Goes(c, "commit") /\ NoFault
           \/ Fault("save") /\ calls' = Goes(c, "refuse") /\ UNCHANGED disk
        /\ UNCHANGED <<net, drv, eng, work, rootfs, marks>>

CommitSlot(c) ==
    /\ At(c, "create", "commit")
    /\ inst' = [inst EXCEPT ![Id(c)] = [NoInstance EXCEPT !.st = "running", !.idx = calls[c].slot, !.gen = calls[c].gen,
                                                         !.slot = calls[c].slot, !.live = TRUE]]
    /\ ran' = ran \cup {Session(c)}
    /\ calls' = Returned(c)
    /\ UNCHANGED <<net, eng, work, hist, seq, disk, rootfs, settled>>

\* in reverse: the slot, the record, the root filesystem, and the workspace image if this create made it
Unwind(c) ==
    /\ At(c, "create", "unwind")
    /\ calls' = Releases(c, calls[c].slot, "unmake")
    /\ UNCHANGED <<net, drv, eng, work, hist, disk, rootfs, marks>>

Unmake(c) ==
    /\ At(c, "create", "unmake")
    /\ disk' = [disk EXCEPT ![Id(c)] = NoRecord] /\ ev' = [ev EXCEPT ![Id(c)] = "none"]
    /\ rootfs' = rootfs \ {Id(c)}
    /\ ws' = IF calls[c].made THEN [ws EXCEPT ![Session(c)] = 0] ELSE ws
    /\ calls' = Returned(c)
    /\ UNCHANGED <<net, drv, vm, store, owed, hist, marks>>

-----------------------------------------------------------------------------
(* Suspend.  A cold one first makes the workspace a verified checkpoint.   *)

Suspend(c, id, cold) ==
    /\ calls[c] = NoCall /\ MayIssue("suspend", id) /\ cold \in setup.cold
    /\ Known(id) /\ ~(cold /\ setup.ckpt /\ inst[id].checkpointing)
    /\ calls' = [calls EXCEPT ![c] = [NoCall EXCEPT !.op = "suspend", !.pc = IF cold /\ setup.ckpt THEN "stream" ELSE "stop",
                                      !.id = id, !.cold = cold, !.gen = inst[id].ck + 1, !.owed = ws[SessionOf(id)]]]
    /\ inst' = IF cold /\ setup.ckpt THEN [inst EXCEPT ![id].checkpointing = TRUE] ELSE inst
    /\ UNCHANGED <<net, eng, work, hist, seq, disk, rootfs, marks>>

\* the checkpoint claim ends, if the record is still there to carry it
Unclaimed(id) == IF Known(id) THEN [inst EXCEPT ![id].checkpointing = FALSE] ELSE inst

\* freeGeneration; a committed generation is never written again
FreeGenerations(c) == {g \in Generations : g >= calls[c].gen /\ store[Session(c)][g] = 0}

\* the guest streams what it has on its workspace, and the manifest commits it; MaxCheckpoint stands for the probe limit
StreamWorkspace(c) ==
    LET s == Session(c)
        free == FreeGenerations(c)
    IN  /\ At(c, "suspend", "stream")
        /\ \/ /\ vm[Id(c)].st = "running" /\ free # {} /\ NoFault
              /\ store' = [store EXCEPT ![s][Min(free)] = ws[s]]
              /\ calls' = [calls EXCEPT ![c] = [@ EXCEPT !.pc = "record", !.gen = Min(free)]]
              /\ UNCHANGED inst
           \/ /\ IF vm[Id(c)].st = "running" /\ free # {} THEN Fault("stream") ELSE NoFault
              /\ inst' = Unclaimed(Id(c)) /\ calls' = Returned(c)
              /\ UNCHANGED store
        /\ UNCHANGED <<net, eng, seq, ws, owed, disk, rootfs, marks>>

\* recordCheckpoint, right after the commit: the record has to name what the store holds
RecordCheckpoint(c) ==
    LET id == Id(c)
        r == [inst[id] EXCEPT !.ck = calls[c].gen]
    IN  /\ At(c, "suspend", "record")
        /\ IF Known(id)
           THEN /\ inst' = [inst EXCEPT ![id] = r]
                /\ calls' = Bumped([calls EXCEPT ![c] = [@ EXCEPT !.pc = "recorded", !.rec = Persistable(r)]], id)
           ELSE calls' = Returned(c) /\ UNCHANGED inst
        /\ UNCHANGED <<net, eng, work, hist, seq, disk, rootfs, marks>>

CheckpointSaved(c) ==
    /\ At(c, "suspend", "recorded")
    /\ \/ /\ disk' = [disk EXCEPT ![Id(c)] = calls[c].rec] /\ calls' = Goes(c, "verify") /\ NoFault
          /\ UNCHANGED inst
       \/ Fault("save") /\ inst' = Unclaimed(Id(c)) /\ calls' = Returned(c) /\ UNCHANGED disk
    /\ UNCHANGED <<net, eng, work, seq, rootfs, marks>>

\* mutant: what Verify says is logged
VerifyIgnored(c) ==
    /\ At(c, "suspend", "verify")
    /\ inst' = Unclaimed(Id(c)) /\ calls' = Goes(c, "stop")
    /\ \/ NoFault /\ UNCHANGED store
       \/ Fault("verify") /\ store' = [store EXCEPT ![Session(c)][calls[c].gen] = -1]
    /\ UNCHANGED <<net, eng, ws, owed, seq, disk, rootfs, marks>>

\* the stream is drained and the checkpoint read back; one that does not read back (-1) ends the suspend
Verify(c) ==
    /\ At(c, "suspend", "verify")
    /\ inst' = Unclaimed(Id(c))
    /\ \/ calls' = Goes(c, "stop") /\ NoFault /\ UNCHANGED store
       \/ /\ Fault("verify") /\ calls' = Returned(c)
          /\ store' = [store EXCEPT ![Session(c)][calls[c].gen] = -1]
    /\ UNCHANGED <<net, eng, ws, owed, seq, disk, rootfs, marks>>

\* Pause takes a running VM only; an error of either leaves the record as it is
SuspendVM(c) ==
    LET id == Id(c)
    IN  /\ At(c, "suspend", "stop")
        /\ \/ calls[c].cold /\ Stopped(id) /\ calls' = Goes(c, "park")
           \/ calls[c].cold /\ (Lingers(id) \/ Littered(id)) /\ calls' = Returned(c)
           \/ /\ ~calls[c].cold /\ vm[id].st = "running" /\ calls' = Goes(c, "park") /\ NoFault
              /\ vm' = [vm EXCEPT ![id].st = "paused"] /\ UNCHANGED ev
           \/ /\ ~calls[c].cold /\ vm[id].st # "running" /\ calls' = Returned(c) /\ NoFault
              /\ UNCHANGED eng
        /\ UNCHANGED <<net, drv, work, disk, rootfs, marks>>

\* the record as a suspend leaves it: a cold one lets go of the slot
Parked(r, cold) ==
    IF cold THEN [r EXCEPT !.st = "suspended", !.cold = TRUE, !.slot = 0, !.idx = 0]
    ELSE [r EXCEPT !.st = "suspended", !.cold = FALSE]

SuspendPark(c) ==
    LET id == Id(c)
        r == Parked(inst[id], calls[c].cold)
    IN  /\ At(c, "suspend", "park")
        /\ IF Known(id)
           THEN /\ inst' = [inst EXCEPT ![id] = r]
                /\ calls' = Bumped([calls EXCEPT ![c] = [@ EXCEPT !.pc = IF calls[c].cold THEN "discard" ELSE "save",
                                                                  !.rec = Persistable(r), !.slot = inst[id].slot]], id)
                /\ owed' = IF calls[c].cold THEN [owed EXCEPT ![Session(c)] = calls[c].owed] ELSE owed
           ELSE calls' = Returned(c) /\ UNCHANGED <<inst, owed>>
        /\ UNCHANGED <<net, eng, hist, seq, ws, store, disk, rootfs, marks>>

\* the root filesystem goes, then the slot, then the record is written
SuspendDiscard(c) ==
    /\ At(c, "suspend", "discard")
    /\ rootfs' = rootfs \ {Id(c)}
    /\ calls' = Releases(c, calls[c].slot, "save")
    /\ UNCHANGED <<net, drv, eng, work, hist, disk, marks>>

-----------------------------------------------------------------------------
(* Resume and ResumePlacement: a cold one is a new VM.                     *)

\* a generation the record has seen and is cold under was refused, failed, or reported as never launched
Stale(r, gen) == gen # 0 /\ (gen < r.gen \/ (gen = r.gen /\ r.cold))

Resume(c, id, gen) ==
    LET r == inst[id]
        named == IF gen = 0 THEN r ELSE [r EXCEPT !.gen = gen]
    IN  /\ calls[c] = NoCall /\ MayIssue("resume", id) /\ gen \in setup.gens
        /\ Known(id) /\ ~r.blocked /\ ~r.destroying /\ ~Stale(r, gen) /\ r.st # "running" /\ ~r.resuming
        /\ disk' = IF gen = 0 THEN disk ELSE [disk EXCEPT ![id] = Persistable(named)]
        /\ IF r.cold /\ Used >= setup.total
           THEN inst' = [inst EXCEPT ![id] = named] /\ UNCHANGED calls
           ELSE /\ inst' = [inst EXCEPT ![id] = [named EXCEPT !.resuming = TRUE, !.slot = IF r.cold THEN 0 ELSE @]]
                /\ calls' = [calls EXCEPT ![c] =
                     [NoCall EXCEPT !.op = "resume", !.id = id, !.gen = gen, !.cold = r.cold, !.slot = IF r.cold THEN r.slot ELSE 0,
                                    !.next = "prepare",
                                    !.pc = IF ~r.cold THEN "thaw" ELSE IF r.slot # 0 THEN "release" ELSE "prepare"]]
        /\ UNCHANGED <<net, eng, work, hist, seq, rootfs, marks>>

\* a recovered record has no boot configuration, and only a negotiated placement may fetch one
Configurable(c) == inst[Id(c)].live \/ (setup.reconnect /\ calls[c].gen # 0)

\* ensureWorkspaceForResume: the image, or the checkpoint the record names, or nothing to boot on (0)
WorkspaceForResume(id) ==
    LET s == SessionOf(id)
    IN  IF ws[s] # 0 THEN ws[s]
        ELSE IF setup.ckpt /\ inst[id].ck \in Generations /\ store[s][inst[id].ck] > 0 THEN store[s][inst[id].ck]
        ELSE 0

PrepareResume(c) ==
    LET id == Id(c)
        ready == Configurable(c) /\ WorkspaceForResume(id) # 0
    IN  /\ At(c, "resume", "prepare")
        /\ \/ /\ ready /\ NoFault
              /\ ws' = [ws EXCEPT ![Session(c)] = WorkspaceForResume(id)]
              /\ rootfs' = rootfs \cup {id}
              /\ calls' = Goes(c, "take")
           \/ /\ IF ready THEN Fault("disks") ELSE NoFault
              /\ calls' = Goes(c, "end")
              /\ UNCHANGED <<ws, rootfs>>
        /\ UNCHANGED <<net, drv, eng, store, owed, disk, marks>>

\* a warm resume: only a paused VM is resumed
ThawVM(c) ==
    /\ At(c, "resume", "thaw")
    /\ IF vm[Id(c)].st = "paused"
       THEN vm' = [vm EXCEPT ![Id(c)].st = "running"] /\ calls' = Goes(c, "publish")
       ELSE calls' = Goes(c, "end") /\ UNCHANGED vm
    /\ UNCHANGED <<net, drv, ev, work, hist, disk, rootfs, marks>>

\* the record takes over the slot and the root filesystem of the new VM
ResumePublish(c) ==
    LET id == Id(c)
        r == [inst[id] EXCEPT !.st = "running", !.cold = FALSE, !.blocked = FALSE]
        r2 == IF calls[c].cold THEN [r EXCEPT !.live = TRUE, !.slot = calls[c].slot, !.idx = calls[c].slot] ELSE r
    IN  /\ At(c, "resume", "publish") /\ Known(id)
        /\ inst' = [inst EXCEPT ![id] = r2]
        /\ calls' = Bumped([calls EXCEPT ![c] = [@ EXCEPT !.pc = "save", !.slot = 0, !.rec = Persistable(r2)]], id)
        /\ UNCHANGED <<net, eng, work, hist, seq, disk, rootfs, marks>>

\* nothing was launched, or it is gone: the intent is overwritten, then the slot and the root filesystem go
Undo(c) ==
    /\ At(c, "resume", "undo")
    /\ \/ disk' = (IF calls[c].slot = 0 THEN disk ELSE [disk EXCEPT ![Id(c)] = Persistable(inst[Id(c)])]) /\ NoFault
       \/ calls[c].slot # 0 /\ Fault("save") /\ UNCHANGED disk
    /\ calls' = Releases(c, calls[c].slot, "unclone")
    /\ UNCHANGED <<net, drv, eng, work, rootfs, marks>>

Unclone(c) ==
    /\ At(c, "resume", "unclone")
    /\ rootfs' = rootfs \ {Id(c)}
    /\ calls' = Goes(c, "end")
    /\ UNCHANGED <<net, drv, eng, work, hist, disk, marks>>

\* mutant: a resume that fails before it has launched anything keeps its claim
EndResumeKeepsClaim(c) ==
    /\ At(c, "resume", "end")
    /\ inst' = IF ~Occupies([inst[Id(c)] EXCEPT !.resuming = FALSE]) THEN inst ELSE [inst EXCEPT ![Id(c)].resuming = FALSE]
    /\ calls' = Returned(c)
    /\ UNCHANGED <<net, eng, work, hist, seq, disk, rootfs, marks>>

EndResume(c) ==
    /\ At(c, "resume", "end")
    /\ inst' = [inst EXCEPT ![Id(c)].resuming = FALSE]
    /\ calls' = Returned(c)
    /\ UNCHANGED <<net, eng, work, hist, seq, disk, rootfs, marks>>

-----------------------------------------------------------------------------
(* Snapshot: the VM is paused while its root filesystem is copied.         *)

Snapshot(c, id) ==
    /\ calls[c] = NoCall /\ MayIssue("snapshot", id)
    /\ inst[id].st = "running" /\ ~inst[id].snapshotting
    /\ inst' = [inst EXCEPT ![id].snapshotting = TRUE]
    /\ calls' = [calls EXCEPT ![c] = [NoCall EXCEPT !.op = "snapshot", !.pc = "freeze", !.id = id]]
    /\ UNCHANGED <<net, eng, work, hist, seq, disk, rootfs, marks>>

\* the guest flushes, then the VM is paused
FreezeVM(c) ==
    LET id == Id(c)
    IN  /\ At(c, "snapshot", "freeze")
        /\ \/ /\ vm[id].st = "running" /\ NoFault
              /\ vm' = [vm EXCEPT ![id].st = "paused"] /\ calls' = Goes(c, "copy")
           \/ /\ IF vm[id].st = "running" THEN Fault("flush") ELSE NoFault
              /\ calls' = Goes(c, "end") /\ UNCHANGED vm
        /\ UNCHANGED <<net, drv, ev, work, disk, rootfs, marks>>

\* resumeAfterSnapshot, whether or not the copy was made: not a session somebody has stopped meanwhile
CopyRootfs(c) ==
    /\ At(c, "snapshot", "copy")
    /\ calls' = Goes(c, IF inst[Id(c)].st = "running" /\ ~inst[Id(c)].cold THEN "unfreeze" ELSE "end")
    /\ UNCHANGED <<net, drv, eng, work, hist, disk, rootfs, marks>>

UnfreezeVM(c) ==
    /\ At(c, "snapshot", "unfreeze")
    /\ vm' = IF vm[Id(c)].st = "paused" THEN [vm EXCEPT ![Id(c)].st = "running"] ELSE vm
    /\ calls' = Goes(c, "end")
    /\ UNCHANGED <<net, drv, ev, work, hist, disk, rootfs, marks>>

EndSnapshot(c) ==
    /\ At(c, "snapshot", "end")
    /\ inst' = IF Known(Id(c)) THEN [inst EXCEPT ![Id(c)].snapshotting = FALSE] ELSE inst
    /\ calls' = Returned(c)
    /\ UNCHANGED <<net, eng, work, hist, seq, disk, rootfs, marks>>

-----------------------------------------------------------------------------
(* Destroy, and DestroyContainer ("reap"), which leaves the workspace.     *)

\* nobody knows the id of an instance before its create has returned
Destroy(c, op, id) ==
    /\ calls[c] = NoCall /\ op \in setup.ops \cap {"destroy", "reap"} /\ Issued("create", id) = {}
    /\ Known(id) \/ disk[id] # NoRecord
    /\ calls' = [calls EXCEPT ![c] = [NoCall EXCEPT !.op = op, !.pc = "wait", !.id = id]]
    /\ UNCHANGED <<net, drv, eng, work, hist, disk, rootfs, marks>>

Destroying(c, pc) == calls[c].op \in {"destroy", "reap"} /\ calls[c].pc = pc

\* mutant: a launch in flight is torn down around
DestroyClaimAtOnce(c) ==
    LET id == Id(c)
    IN  /\ Destroying(c, "wait") /\ Known(id) /\ ~inst[id].destroying
        /\ inst' = [inst EXCEPT ![id].destroying = TRUE, ![id].slot = 0]
        /\ calls' = [calls EXCEPT ![c] = [@ EXCEPT !.pc = "stop", !.slot = inst[id].slot]]
        /\ UNCHANGED <<net, eng, work, hist, seq, disk, rootfs, marks>>

\* a resume hands its VM over first; one teardown at a time; a record only the disk has is torn down too
DestroyClaim(c) ==
    LET id == Id(c)
    IN  /\ Destroying(c, "wait") /\ ~inst[id].resuming
        /\ IF ~Known(id) THEN calls' = Goes(c, IF disk[id] = NoRecord THEN "workspace" ELSE "stop") /\ UNCHANGED inst
           ELSE IF inst[id].destroying THEN calls' = Returned(c) /\ UNCHANGED inst
           ELSE /\ inst' = [inst EXCEPT ![id].destroying = TRUE, ![id].slot = 0]
                /\ calls' = [calls EXCEPT ![c] = [@ EXCEPT !.pc = "stop", !.slot = inst[id].slot]]
        /\ UNCHANGED <<net, eng, work, hist, seq, disk, rootfs, marks>>

\* the slot goes only once the process is gone
DestroyVM(c) ==
    LET id == Id(c)
    IN  /\ Destroying(c, "stop")
        /\ \/ Gone(id) /\ calls' = Releases(c, calls[c].slot, "forget")
           \/ Lingers(id) /\ calls' = Goes(c, "keep")
        /\ UNCHANGED <<net, drv, work, disk, rootfs, marks>>

\* mutant: the slot of a VM that could not be stopped is dropped
DestroyKeepsNothing(c) ==
    /\ Destroying(c, "keep")
    /\ inst' = IF Known(Id(c)) THEN [inst EXCEPT ![Id(c)].destroying = FALSE] ELSE inst
    /\ calls' = Returned(c)
    /\ UNCHANGED <<net, eng, work, hist, seq, disk, rootfs, marks>>

\* it may still be running: the record keeps its slot
DestroyKeeps(c) ==
    LET id == Id(c)
    IN  /\ Destroying(c, "keep")
        /\ inst' = IF ~Known(id) THEN inst
                   ELSE [inst EXCEPT ![id].destroying = FALSE, ![id].slot = IF @ = 0 THEN calls[c].slot ELSE @]
        /\ calls' = Returned(c)
        /\ UNCHANGED <<net, eng, work, hist, seq, disk, rootfs, marks>>

DestroyForget(c) ==
    /\ Destroying(c, "forget")
    /\ inst' = [inst EXCEPT ![Id(c)] = NoInstance]
    /\ calls' = Goes(c, "remove")
    /\ UNCHANGED <<net, eng, work, hist, seq, disk, rootfs, marks>>

DestroyRemove(c) ==
    /\ Destroying(c, "remove")
    /\ rootfs' = rootfs \ {Id(c)}
    /\ disk' = [disk EXCEPT ![Id(c)] = NoRecord] /\ ev' = [ev EXCEPT ![Id(c)] = "none"]
    /\ calls' = Goes(c, "workspace")
    /\ UNCHANGED <<net, drv, vm, work, hist, marks>>

\* RemoveWorkspace: refused while an instance of the session occupies the host, or may
RemoveWorkspace(c) ==
    LET s == Session(c)
        owned == \E j \in Ids : SessionOf(j) = s /\ (inst[j].blocked \/ Occupies(inst[j]))
    IN  /\ Destroying(c, "workspace")
        /\ IF calls[c].op = "destroy" /\ ~owned
           THEN ws' = [ws EXCEPT ![s] = 0] /\ owed' = [owed EXCEPT ![s] = 0]
           ELSE UNCHANGED <<ws, owed>>
        /\ calls' = Returned(c)
        /\ UNCHANGED <<net, drv, eng, store, hist, disk, rootfs, marks>>

-----------------------------------------------------------------------------
(* Inspect, and ResumeStatus, which starts with one.                       *)

Inspect(c, op, id, gen) ==
    /\ calls[c] = NoCall /\ op \in setup.ops \cap {"inspect", "status"} /\ Known(id)
    /\ gen \in IF op = "status" THEN setup.gens \ {0} ELSE {0}
    /\ calls' = [calls EXCEPT ![c] = [NoCall EXCEPT !.op = op, !.pc = "ask", !.id = id, !.gen = gen, !.fresh = TRUE]]
    /\ UNCHANGED <<net, drv, eng, work, hist, disk, rootfs, marks>>

Asking(c, pc) == calls[c].op \in {"inspect", "status"} /\ calls[c].pc = pc

AskEngine(c) ==
    /\ Asking(c, "ask")
    /\ calls' = [calls EXCEPT ![c] = [@ EXCEPT !.pc = "fold", !.seen = State(Id(c))]]
    /\ UNCHANGED <<net, drv, eng, work, hist, disk, rootfs, marks>>

\* only if the record has not moved since, and no launch or teardown is moving it
Believes(c) ==
    LET r == inst[Id(c)]
    IN  Known(Id(c)) /\ calls[c].seen # "error" /\ calls[c].fresh /\ ~r.resuming /\ ~r.destroying

FoldState(c) ==
    LET id == Id(c)
        r == Reconciled(inst[id], calls[c].seen)
        idle == Idle(r) /\ r.slot # 0
        after == IF calls[c].op = "status" THEN "answer" ELSE "done"
    IN  /\ Asking(c, "fold")
        /\ IF Believes(c)
           THEN /\ inst' = [inst EXCEPT ![id] = IF idle THEN [r EXCEPT !.slot = 0, !.idx = 0] ELSE r]
                /\ calls' = Bumped(Releases(c, IF idle THEN r.slot ELSE 0, after), id)
           ELSE calls' = Goes(c, after) /\ UNCHANGED inst
        /\ UNCHANGED <<net, eng, work, hist, seq, disk, rootfs, marks>>

InspectDone(c) ==
    /\ Asking(c, "done")
    /\ calls' = Returned(c)
    /\ UNCHANGED <<net, drv, eng, work, hist, disk, rootfs, marks>>

\* a suspend at work holds an older copy of the record, or has saved one over an answer already given
Overlapped(c) ==
    \/ Issued("suspend", Id(c)) # {}
    \/ inst[Id(c)].gen = calls[c].gen /\ disk[Id(c)].gen # calls[c].gen

\* mutant: the generation is recorded in memory only
AnswersInMemory(c) ==
    LET id == Id(c)
        r == inst[id]
        asked == Known(id) /\ calls[c].gen >= r.gen /\ r.cold /\ ~r.resuming /\ ~r.blocked
    IN  /\ Asking(c, "answer")
        /\ inst' = IF asked THEN [inst EXCEPT ![id].gen = calls[c].gen] ELSE inst
        /\ settled' = IF asked /\ ~Overlapped(c) THEN [settled EXCEPT ![id] = @ \cup {calls[c].gen}] ELSE settled
        /\ calls' = Returned(c)
        /\ UNCHANGED <<net, eng, work, hist, seq, disk, rootfs, ran>>

\* a cold record answers for a generation only after recording it: the command that named it comes too late
AnswerStatus(c) ==
    LET id == Id(c)
        r == inst[id]
        asked == Known(id) /\ calls[c].gen >= r.gen /\ r.cold /\ ~r.resuming /\ ~r.blocked
        moved == [r EXCEPT !.gen = calls[c].gen]
    IN  /\ Asking(c, "answer")
        /\ inst' = IF asked THEN [inst EXCEPT ![id] = moved] ELSE inst
        /\ disk' = IF asked /\ r.gen # calls[c].gen THEN [disk EXCEPT ![id] = Persistable(moved)] ELSE disk
        /\ settled' = IF asked /\ ~Overlapped(c) THEN [settled EXCEPT ![id] = @ \cup {calls[c].gen}] ELSE settled
        /\ calls' = Returned(c)
        /\ UNCHANGED <<net, eng, work, hist, seq, rootfs, ran>>

-----------------------------------------------------------------------------
(* The guests, the host and the runner.                                    *)

GuestWrites(id) ==
    /\ vm[id].st = "running" /\ ws[SessionOf(id)] \in 1 .. MaxWrites - 1
    /\ ws' = [ws EXCEPT ![SessionOf(id)] = @ + 1]
    /\ UNCHANGED <<net, drv, eng, store, owed, hist, disk, rootfs, calls, marks>>

VMDies(id) ==
    /\ Alive(id) /\ Fault("die")
    /\ vm' = [vm EXCEPT ![id] = NoVM]
    /\ UNCHANGED <<net, drv, ev, work, disk, rootfs, calls, marks>>

\* the deep-dormant tier: the image of a parked session is not on this host any more
ImageGone(id) ==
    /\ inst[id].st = "suspended" /\ inst[id].cold /\ ~inst[id].resuming /\ ws[SessionOf(id)] # 0
    /\ Fault("image")
    /\ ws' = [ws EXCEPT ![SessionOf(id)] = 0]
    /\ UNCHANGED <<net, drv, eng, store, owed, disk, rootfs, calls, marks>>

\* launch evidence as a new runner reads it: without an identity it says nothing, until the host has booted
EvidenceAfter(e, reboot) ==
    IF e = "none" THEN "none" ELSE IF reboot THEN "past" ELSE IF e = "marker" THEN "untracked" ELSE e

\* recoverDiskInstances: an interrupted launch with no process left is a cold session
Recovered(d, state) ==
    LET r == [f \in DOMAIN NoInstance |-> IF f \in DOMAIN d THEN d[f] ELSE NoInstance[f]]
        settledLaunch == IF r.blocked /\ state = "gone" THEN [r EXCEPT !.cold = TRUE, !.blocked = FALSE] ELSE r
    IN  IF d = NoRecord THEN NoInstance ELSE IF state = "error" THEN r ELSE Reconciled(settledLaunch, state)

\* NewMicrovm: the records, the slots they hold, then whatever no record holds
Restarts(reboot) ==
    LET evidence == [id \in Ids |-> EvidenceAfter(ev[id], reboot)]
        state(id) == IF evidence[id] \in {"marker", "untracked"} THEN "error"
                     ELSE IF evidence[id] = "full" /\ Alive(id) THEN vm[id].st ELSE "gone"
        found == [id \in Ids |-> Recovered(disk[id], state(id))]
        claim == [id \in Ids |-> IF found[id].st = "running" \/ Warm(found[id]) THEN found[id].idx ELSE 0]
        held == Adopted(claim)
        slot(id) == IF claim[id] # 0 /\ held[claim[id]] = id THEN claim[id] ELSE 0
        standing == IF reboot THEN {} ELSE {i \in Slots : netns[i] # Nobody /\ held[i] = Nobody}
    IN  /\ vm' = IF reboot THEN [id \in Ids |-> NoVM] ELSE vm
        /\ ev' = evidence
        /\ inst' = [id \in Ids |-> [found[id] EXCEPT !.slot = slot(id), !.idx = slot(id)]]
        /\ seq' = Max({0} \cup {id \in Ids : disk[id] # NoRecord})
        /\ rootfs' = {id \in rootfs : disk[id] # NoRecord}
        /\ inUse' = held /\ foreign' = {}
        \* an index whose namespace could not be removed is leaked, unless the host could not even list them
        /\ \E failed \in IF "net" \in setup.faults THEN SUBSET standing ELSE {{}} :
             /\ netns' = IF reboot THEN [i \in Slots |-> Nobody] ELSE Reclaimed(held, failed)
             /\ leaked' = failed \/ (failed = standing /\ leaked' = {})
        /\ calls' = [c \in Callers |-> NoCall]
        /\ UNCHANGED <<work, disk, marks>>

Restart == Fault("restart") /\ Restarts(FALSE)
Reboot == Fault("reboot") /\ Restarts(TRUE)

-----------------------------------------------------------------------------
LaunchStep(c) ==
    TakeSlot(c) \/ BuildSlot(c) \/ ReleaseSlot(c) \/ TeardownSlot(c) \/ SaveRecord(c)
    \/ SaveIntent(c) \/ LaunchVM(c) \/ BootVM(c) \/ Refuse(c)

CallStep(c) ==
    \/ LaunchStep(c)
    \/ CreateDisks(c) \/ CreatePublish(c) \/ CommitSlot(c) \/ Unwind(c) \/ Unmake(c)
    \/ StreamWorkspace(c) \/ RecordCheckpoint(c) \/ CheckpointSaved(c) \/ Verify(c)
    \/ SuspendVM(c) \/ SuspendPark(c) \/ SuspendDiscard(c)
    \/ PrepareResume(c) \/ ThawVM(c) \/ ResumePublish(c) \/ Undo(c) \/ Unclone(c) \/ EndResume(c)
    \/ FreezeVM(c) \/ CopyRootfs(c) \/ UnfreezeVM(c) \/ EndSnapshot(c)
    \/ DestroyClaim(c) \/ DestroyVM(c) \/ DestroyKeeps(c) \/ DestroyForget(c) \/ DestroyRemove(c) \/ RemoveWorkspace(c)
    \/ AskEngine(c) \/ FoldState(c) \/ InspectDone(c) \/ AnswerStatus(c)

Issue(c) ==
    \/ Create(c)
    \/ \E id \in Ids :
         \/ \E cold \in BOOLEAN : Suspend(c, id, cold)
         \/ \E gen \in 0 .. MaxGen : Resume(c, id, gen) \/ \E op \in {"inspect", "status"} : Inspect(c, op, id, gen)
         \/ Snapshot(c, id)
         \/ \E op \in {"destroy", "reap"} : Destroy(c, op, id)

Environment == (\E id \in Ids : GuestWrites(id) \/ VMDies(id) \/ ImageGone(id)) \/ Restart \/ Reboot

\* goroutines are alike: whichever is free takes the next call
Free == {c \in Callers : calls[c] = NoCall}

Next ==
    \/ Free # {} /\ Issue(CHOOSE c \in Callers : c \in Free)
    \/ \E c \in Callers : CallStep(c)
    \/ Environment

Spec == Init /\ [][Next]_vars

\* a goroutine in a call goes on; the driver sets timeouts on the engine, the pool and the guest
FairSpec == Spec /\ \A c \in Callers : WF_vars(CallStep(c))

-----------------------------------------------------------------------------
(* Correctness.                                                            *)

RecordType == [st : {"none", "running", "suspended", "gone"}, cold : BOOLEAN, blocked : BOOLEAN,
               idx : 0 .. SlotCount, gen : 0 .. MaxGen, ck : 0 .. MaxCheckpoint]

(***************************************************************************)
(* The types; and what a record on disk or in memory says of a slot is an  *)
(* index of the pool, of a checkpoint is a generation of the store.        *)
(***************************************************************************)
TypeOK ==
    /\ PoolTypeOK
    /\ \A id \in Ids : Persistable(inst[id]) \in RecordType /\ disk[id] \in RecordType
    /\ \A id \in Ids : inst[id].slot \in 0 .. SlotCount
    /\ seq \in Ids \cup {0}
    /\ vm \in [Ids -> [st : {"none", "booting", "running", "paused"}, slot : 0 .. SlotCount]]
    /\ ev \in [Ids -> {"none", "marker", "full", "untracked", "past"}]
    /\ rootfs \subseteq Ids
    /\ ws \in [Sessions -> 0 .. MaxWrites] /\ owed \in [Sessions -> 0 .. MaxWrites]
    /\ store \in [Sessions -> [Generations -> -1 .. MaxWrites]]
    /\ \A c \in Callers : calls[c].slot \in 0 .. SlotCount /\ calls[c].id \in Ids \cup {0}
    /\ ran \subseteq Sessions /\ settled \in [Ids -> SUBSET (0 .. MaxGen)]

Called(id) == \E c \in Callers : calls[c].id = id

(***************************************************************************)
(* Nothing is pulled away from a VM: while its process lives, the          *)
(* namespace it was launched in stands and is its own, its root filesystem *)
(* and its workspace are there, and a record that keeps them, or a call    *)
(* that still answers for them, names it - across failed launches, failed  *)
(* stops and crashes of the runner (launch, resume, DestroyContainer,      *)
(* recoverDiskInstances, reclaimOrphanRootfs, netslot Release).            *)
(***************************************************************************)
NothingPulledAway ==
    \A id \in Ids : Alive(id) =>
        /\ netns[vm[id].slot] = id /\ inUse[vm[id].slot] = id
        /\ id \in rootfs /\ ws[SessionOf(id)] # 0
        /\ Called(id) \/ inst[id].blocked \/ inst[id].st = "running" \/ Warm(inst[id])

(***************************************************************************)
(* No slot is lost: when no call is in flight, an index in use is the slot *)
(* of the record that holds it (Suspend, resume, Destroy, Inspect and the  *)
(* pool each hand it on exactly once).                                     *)
(***************************************************************************)
NoSlotLost ==
    (\A c \in Callers : calls[c] = NoCall) =>
        \A i \in Slots : inUse[i] # Nobody => inUse[i] \in Ids /\ inst[inUse[i]].slot = i

(***************************************************************************)
(* The durability barrier: what a session had written when its cold        *)
(* suspend was asked for is in its workspace image, or in the checkpoint   *)
(* that its record names, in memory and on disk, as long as the session    *)
(* exists.                                                                 *)
(***************************************************************************)
WorkKept ==
    \A id \in Ids :
        LET s == SessionOf(id)
            kept(r) == r.ck \in Generations /\ store[s][r.ck] >= owed[s]
        IN  setup.ckpt /\ Known(id) /\ owed[s] # 0 /\ ws[s] < owed[s] => ws[s] = 0 /\ kept(inst[id]) /\ kept(disk[id])

(***************************************************************************)
(* A placement generation boots at most once: no cold resume launches      *)
(* under a generation that was launched before, or that ResumeStatus has   *)
(* reported as never launched, across a restart of the runner as well.     *)
(* Set apart (Overlapped): the driver answers while a suspend is still at  *)
(* work.  The suspend has copied the record already and saves it after the *)
(* answer, which takes the generation off the disk again (Microvm.Suspend, *)
(* saveRecord); asked again, the driver answers from memory and saves      *)
(* nothing, and after a restart the command boots what was answered for.   *)
(***************************************************************************)
GenerationBootsOnce ==
    [][\A c \in Callers : calls[c].op = "resume" /\ calls[c].gen # 0 /\ calls[c].pc = "launch" /\ calls'[c].pc = "boot"
                          => calls[c].gen \notin settled[calls[c].id]]_vars

(***************************************************************************)
(* Every call ends: a Destroy that waits for a resume is let through, and  *)
(* no claim outlives the call that made it (resumeDone, endSnapshot).      *)
(***************************************************************************)
CallsEnd == \A c \in Callers : []<>(calls[c] = NoCall)
=============================================================================
