-------------------------------- MODULE Exec --------------------------------
(***************************************************************************)
(* `rainier exec' on one session, end to end: the caller and the splice    *)
(* the attach plane holds for it, the hub and the sandbox connection they  *)
(* go over, the sandbox's exec runner with its processes, and what the     *)
(* runner is told of them: the live count that keeps the idle sweep away   *)
(* and the handshake that ends every command before the session freezes.   *)
(*                                                                         *)
(* A step is one critical section, one channel operation or one frame.     *)
(* Frames of one stream keep their order; control frames are routed on a   *)
(* goroutine each, so counts arrive in any order.  A sandbox that is       *)
(* frozen takes no step.                                                   *)
(*                                                                         *)
(* Simplified: a command is good or is refused, what it writes is one      *)
(* piece, its input is counted in pieces; a grandchild that holds the      *)
(* pipes, a panic and the terminal of --tty are left out; the row changes  *)
(* with the runner's answer.  A pid is not given out again before the      *)
(* waiter of the exec that held it has run.                                *)
(***************************************************************************)
EXTENDS Reaper, FiniteSets

CONSTANTS
    Execs,              \* the commands explored; each is asked for once
    Pids,               \* process ids the sandbox gives out
    MaxConcurrent,      \* MaxConcurrent: exec slots
    MaxDetached,        \* MaxDetached: slots a detached exec may hold
    OutQueue,           \* outQueue: messages an attachment holds
    StdinDepth,         \* stdinQueueDepth: pieces of input an attachment holds
    IdleStop,           \* --idle-stop, in ticks
    MaxNow,             \* bound on the clock
    MaxReg,             \* bound on registrations
    Setups              \* which of it happens together

ASSUME ExecAssumption ==
    /\ {MaxConcurrent, MaxDetached, OutQueue, StdinDepth, IdleStop, MaxNow, MaxReg} \subseteq Nat
    /\ MaxDetached <= MaxConcurrent
    /\ Pids \subseteq Nat \ {0}
    /\ IsFiniteSet(Execs) /\ Execs \cap {"orphan", "none", "evicted", "wait", "killed"} = {}
    /\ \A s \in Setups : s.execs \subseteq Execs /\ s.kinds \subseteq BOOLEAN /\ s.left \in Nat /\ s.orphans \in Nat

VARIABLES
    setup,      \* the member of Setups this behaviour is about
    call,       \* call[e]: the caller of e and its splice
    ex,         \* ex[e]: the sandbox's attachment of e, and its process
    box,        \* the rest of the exec runner and of sessiond
    reaped,     \* the reaper's table
    link,       \* the sandbox's connection to the runner
    wire,       \* exec_count frames the runner has still to apply
    ent,        \* the runner's registry entry
    op,         \* the warm suspend in flight
    world       \* the clock, the session's row, and what has been spent

vars == <<setup, call, ex, box, reaped, link, wire, ent, op, world>>

Orphan == "orphan"      \* an adopted grandchild, as the owner of an outcome

NoCall == [st |-> "idle", det |-> FALSE, started |-> FALSE, end |-> "none", of |-> "none", whole |-> FALSE, ran |-> FALSE]
NoExec == [st |-> "none", det |-> FALSE, proc |-> "none", pid |-> 0, mark |-> 0, slot |-> FALSE,
           closing |-> FALSE, outClosed |-> FALSE, killing |-> FALSE, bye |-> FALSE, out |-> <<>>,
           piece |-> "none", stdin |-> 0, stdinDone |-> FALSE, status |-> "none"]
NewBox == [up |-> TRUE, quiescing |-> FALSE, seq |-> 0, owed |-> {}, mail |-> {}, sweep |-> {}, suspending |-> FALSE]
NewEntry == [state |-> "running", boot |-> 1, exited |-> 0, attachments |-> 0, detachAt |-> 0,
             live |-> 0, seq |-> 0, reg |-> 0, stamped |-> 0, endedAt |-> 0]
NoLink == [reg |-> 0, boot |-> 0, restated |-> FALSE]
NoOp == [st |-> "none", clean |-> FALSE]

Can(o) == o \in setup.ops
Slots == {e \in Execs : ex[e].slot}
Frozen == world.frozen

Init ==
    /\ setup \in Setups
    /\ call = [e \in Execs |-> NoCall]
    /\ ex = [e \in Execs |-> NoExec]
    /\ box = NewBox
    /\ reaped = EmptyTable
    /\ link = [reg |-> 1, boot |-> 1, restated |-> FALSE]
    /\ wire = {}
    /\ ent = NewEntry
    /\ op = NoOp
    /\ world = [now |-> 0, row |-> "running", frozen |-> FALSE, regs |-> 1, left |-> setup.left, orphans |-> setup.orphans]

-----------------------------------------------------------------------------
(* The attachment: what its methods do to ex[e] = a.                       *)

Finish(a) == [a EXCEPT !.closing = TRUE, !.outClosed = TRUE]

EmitAlways(a, m) == IF a.outClosed THEN a ELSE [a EXCEPT !.out = Append(@, m)]

(* emit: nothing once the attachment is closing, whatever room there is.   *)
Emit(a, m) == IF a.closing \/ a.outClosed THEN a ELSE [a EXCEPT !.out = Append(@, m)]

Refuse(a, reason) == Finish(IF a.outClosed THEN a ELSE [a EXCEPT !.out = Append(@, reason)])

\* a.proc is installed by arm
Armed(a) == a.st \in {"armed", "running", "reaping", "exiting", "done"} /\ a.proc # "none"

(* kill: closing first; the process is ended once, and where there is none *)
(* yet the attachment is finished and arm ends what is spawned later.      *)
Kill(a) == IF Armed(a) THEN [a EXCEPT !.closing = TRUE, !.killing = TRUE] ELSE Finish(a)

(* Close: the caller of an attached exec takes it with it.  That an exec   *)
(* is detached is known once it has its slot.                              *)
Close(a) == IF a.st = "done" \/ (a.det /\ a.st # "opened") THEN a ELSE Kill(a)

Says(a) == Len(a.out) > 0

-----------------------------------------------------------------------------
(* The caller, the attach plane and the runner's end of the stream.        *)

Over(e, end) == [call EXCEPT ![e].st = "over", ![e].end = end]

(* The runner's attachment count ends with the stream; one that bridged    *)
(* the two moves the idle clock.                                           *)
AttachEnded(n) == [ent EXCEPT !.attachments = IF @ > n THEN @ - n ELSE 0, !.detachAt = IF n > 0 THEN world.now ELSE @]

\* a session takes commands while it runs, and only then
Ready == world.row = "running"

(* ExecCommand: the command's shape is checked before it leaves, and the   *)
(* exec is parked for a dial-back.                                         *)
Ask(e, d) ==
    /\ call[e].st = "idle"
    /\ IF Ready
       THEN \/ call' = [call EXCEPT ![e].st = "parked", ![e].det = d]
            \/ Can("refuse") /\ call' = Over(e, "refused")
       ELSE call' = Over(e, "conflict")
    /\ UNCHANGED <<setup, ex, box, reaped, link, wire, ent, op, world>>

(* dialAttachBack: the attachment is counted before anything else; with a  *)
(* hub the open frame follows.  Without one the plane reads nothing.       *)
DialBack(e) ==
    /\ call[e].st = "parked"
    /\ \/ /\ link.reg # 0
          /\ call' = [call EXCEPT ![e].st = "open"]
          /\ ex' = [ex EXCEPT ![e] = [NoExec EXCEPT !.st = "opened", !.det = call[e].det]]
          /\ ent' = [ent EXCEPT !.attachments = @ + 1]
       \/ /\ link.reg = 0
          /\ call' = Over(e, "no_answer")
          /\ UNCHANGED <<ex, ent>>
    /\ UNCHANGED <<setup, box, reaped, link, wire, op, world>>

(* The pairing's ttl wins over the dial-back.                              *)
NoDialBack(e) ==
    /\ call[e].st = "parked"
    /\ Can("slow")
    /\ call' = Over(e, "lost")
    /\ UNCHANGED <<setup, ex, box, reaped, link, wire, ent, op, world>>

(* Ending the splice from above: the frame that closes the attachment is   *)
(* on its way, behind the open.                                            *)
EndSplice(e, end) ==
    /\ call' = Over(e, end)
    /\ ex' = [ex EXCEPT ![e].bye = TRUE, ![e].out = <<>>]
    /\ ent' = AttachEnded(1)
    /\ UNCHANGED <<setup, box, reaped, link, wire, op, world>>

(* awaitExecStarted gives up on a sandbox that has said nothing.           *)
NoAnswer(e) ==
    /\ call[e].st = "open" /\ ~Says(ex[e])
    /\ Can("slow") \/ Frozen
    /\ EndSplice(e, "no_answer")

(* The caller goes away, a second interrupt among the reasons.             *)
HangUp(e) ==
    /\ call[e].st \in {"open", "live"}
    /\ Can("hangup")
    /\ EndSplice(e, "left")

(* One message reaches the caller.  The first has to be exec_started or an *)
(* error; an exit, an error and the pid of a detached exec are the last    *)
(* thing it reads, and the close that follows finds the exec in the        *)
(* sandbox unless the end of its own stream came first.                    *)
Deliver(e) ==
    LET a == ex[e]
        m == Head(a.out)
        started == m = "started"
        last == m # "piece" /\ (~started \/ a.det)
        exit == m = "exit"
    IN /\ call[e].st \in {"open", "live"}
       /\ Says(a)
       /\ call' = [call EXCEPT ![e].st = IF last THEN "over" ELSE "live",
                               ![e].started = @ \/ started,
                               ![e].of = IF exit THEN (IF a.proc = "killed" THEN "killed" ELSE a.status) ELSE @,
                               ![e].whole = exit /\ a.piece # "cut",
                               ![e].end = IF last /\ ~started THEN m ELSE @]
       /\ ex' = [ex EXCEPT ![e].out = IF last THEN <<>> ELSE Tail(@), ![e].bye = last]
       /\ ent' = IF last THEN AttachEnded(1) ELSE ent
       /\ UNCHANGED <<setup, box, reaped, link, wire, op, world>>

(* The attachment closed with nothing more to say: no exit status.  One    *)
(* that is killed closes once its process is gone or had its grace period. *)
StreamEnds(e) ==
    /\ call[e].st \in {"open", "live"}
    /\ ex[e].outClosed \/ ex[e].killing
    /\ ~Says(ex[e]) /\ ~Frozen
    /\ call' = Over(e, IF call[e].st = "open" THEN "no_answer" ELSE "lost")
    /\ ent' = AttachEnded(1)
    /\ UNCHANGED <<setup, ex, box, reaped, link, wire, op, world>>

(* ExitCodeFor: what the CLI makes of it.                                  *)
ExitCode(c) ==
    CASE c.end = "refused" -> 126
      [] c.end = "not_found" -> 127
      [] c.end \in {"session_ending", "too_many_execs", "too_many_detached", "no_answer", "stdin_overrun", "conflict"} -> 1
      [] c.end \in {"none", "exit", "left", "lost"} /\ ~c.started -> 1
      [] c.end = "left" /\ c.started -> 130
      [] c.end \in {"none", "lost"} /\ c.started -> IF c.det THEN 0 ELSE 125
      [] c.end = "exit" /\ c.started -> IF c.of = "evicted" THEN 125 ELSE IF c.of = "killed" THEN 143 ELSE 0

-----------------------------------------------------------------------------
(* The sandbox.  Awake: its process exists and is not frozen.              *)

Awake == box.up /\ ~Frozen

(* noteLive: the count as it is now, numbered under the lock that changed  *)
(* it, to be handed to the mailbox after the unlock; nothing if no         *)
(* observer was installed.                                                 *)
Noted(n) == IF ~Can("counts") THEN box ELSE [box EXCEPT !.seq = @ + 1, !.owed = @ \cup {[live |-> n, seq |-> box.seq + 1]}]

Only(e, a) == ex' = [ex EXCEPT ![e] = a]
Still == UNCHANGED <<setup, call, link, wire, ent, op, world>>

RefusalWithoutLatch(e) ==
    CASE Cardinality(Slots) >= MaxConcurrent -> "too_many_execs"
      [] OTHER -> IF ex[e].det /\ Cardinality({o \in Slots : ex[o].det}) >= MaxDetached THEN "too_many_detached" ELSE "none"

RefusalOf(e) ==
    CASE box.quiescing -> "session_ending"
      [] ~box.quiescing /\ Cardinality(Slots) >= MaxConcurrent -> "too_many_execs"
      [] OTHER -> IF ex[e].det /\ Cardinality({o \in Slots : ex[o].det}) >= MaxDetached THEN "too_many_detached" ELSE "none"

Reserve(e) ==
    LET reason == RefusalOf(e)
    IN /\ Awake /\ ex[e].st = "opened"
       /\ IF reason = "none"
          THEN Only(e, [ex[e] EXCEPT !.st = "reserved", !.slot = TRUE]) /\ box' = Noted(Cardinality(Slots) + 1)
          ELSE Only(e, Refuse([ex[e] EXCEPT !.st = "done"], reason)) /\ UNCHANGED box
       /\ Still /\ UNCHANGED reaped

(* release gives the slot back, and reports it if it was held.             *)
Release(e, a) ==
    /\ Only(e, [a EXCEPT !.slot = FALSE])
    /\ box' = Noted(Cardinality(Slots) - 1)

(* The slot comes back, and the caller is told why.                        *)
NotStarted(e, reason) ==
    /\ Awake /\ ex[e].st = "reserved"
    /\ Can("refuse")
    /\ Release(e, Refuse([ex[e] EXCEPT !.st = "done"], reason))
    /\ Still /\ UNCHANGED reaped

\* the directory, the environment or the log of the request is refused
BadRequest(e) == NotStarted(e, "refused")

\* there is no such command on the session's path
NotFound(e) == NotStarted(e, "not_found")

\* it was gone, or could not be run, by the time it was executed
SpawnFails(e) == \E reason \in {"refused", "not_found"} : NotStarted(e, reason)

\* pids held by a process, or by an outcome whose waiter has still to run
InUse == {ex[e].pid : e \in {o \in Execs : ex[o].status = "none"}}

FreePid == CHOOSE p \in Pids \ InUse : TRUE

(* Start: the mark is taken before the fork, which takes a pid that is     *)
(* free; where there is none it fails, as SpawnFails has it.               *)
Start(e) ==
    /\ Awake /\ ex[e].st = "reserved" /\ ~(Pids \subseteq InUse)
    /\ Only(e, [ex[e] EXCEPT !.st = "spawned", !.proc = "live", !.pid = FreePid, !.mark = Mark(reaped)])
    /\ call' = [call EXCEPT ![e].ran = TRUE]
    /\ UNCHANGED <<setup, link, wire, ent, op, world, box, reaped>>

(* arm: the process is installed under the lock kill takes; one of the two *)
(* sees the other.                                                         *)
Arm(e) ==
    /\ Awake /\ ex[e].st = "spawned"
    /\ Only(e, IF ex[e].closing THEN [ex[e] EXCEPT !.st = "reaping", !.killing = TRUE] ELSE [ex[e] EXCEPT !.st = "armed"])
    /\ Still /\ UNCHANGED <<box, reaped>>

(* exec_started; a detached exec is finished by it, and lives on.          *)
Announce(e) ==
    LET said == Emit(ex[e], "started")
    IN /\ Awake /\ ex[e].st = "armed"
       /\ Only(e, IF ex[e].det THEN Finish([said EXCEPT !.st = "reaping"]) ELSE [said EXCEPT !.st = "running"])
       /\ Still /\ UNCHANGED <<box, reaped>>

(* The child writes; the reader hands it over once exec_started is out,    *)
(* and stops when nobody takes it any more.                                *)
Write(e) ==
    /\ Awake /\ ex[e].proc = "live" /\ ~ex[e].det /\ ex[e].piece = "none"
    /\ Can("output")
    /\ Only(e, [ex[e] EXCEPT !.piece = "written"])
    /\ Still /\ UNCHANGED <<box, reaped>>

HandOver(e) ==
    LET a == ex[e]
    IN /\ Awake /\ a.piece = "written" /\ a.st \notin {"spawned", "armed"}
       /\ a.closing \/ Len(a.out) < OutQueue
       /\ Only(e, [Emit(a, "piece") EXCEPT !.piece = IF a.closing THEN "cut" ELSE "sent"])
       /\ Still /\ UNCHANGED <<box, reaped>>

(* The process ends, of itself or of the signals its group was sent; the   *)
(* reaper collects it.                                                     *)
Dies(e) ==
    /\ Awake /\ ex[e].proc = "live"
    /\ Only(e, [ex[e] EXCEPT !.proc = IF ex[e].killing THEN "killed" ELSE "ended"])
    /\ reaped' = Remember(reaped, ex[e].pid, e)
    /\ Still /\ UNCHANGED box

Exits(e) == ~ex[e].killing /\ Dies(e)
Killed(e) == ex[e].killing /\ Dies(e)

(* An orphan the sandbox adopted ends under a pid of its own.              *)
OrphanEnds(p) ==
    /\ Awake /\ world.orphans > 0 /\ p \notin InUse
    /\ reaped' = Remember(reaped, p, Orphan)
    /\ world' = [world EXCEPT !.orphans = @ - 1]
    /\ UNCHANGED <<setup, call, ex, box, link, wire, ent, op>>

(* reap: the waiter meets an outcome older than its child, and drops it.   *)
Discard(e) ==
    LET w == AwaitStatus(reaped, ex[e].pid, ex[e].mark)
    IN /\ Awake /\ ex[e].proc # "none" /\ ex[e].status = "none"
       /\ w.found = "wait" /\ w.table # reaped
       /\ reaped' = w.table
       /\ UNCHANGED ex
       /\ Still /\ UNCHANGED box

(* Wait returns once every byte has been handed over, with the outcome of  *)
(* its own child or the word that it was evicted, which cmd.Wait turns     *)
(* into no status: the slot comes back, and an attached exec goes on to    *)
(* say how it ended.                                                       *)
WaitReturns(e) ==
    LET w == AwaitStatus(reaped, ex[e].pid, ex[e].mark)
    IN /\ Awake /\ ex[e].st \in {"running", "reaping"} /\ ex[e].piece # "written"
       /\ w.found # "wait"
       /\ reaped' = w.table
       /\ Release(e, [ex[e] EXCEPT !.st = IF @ = "running" THEN "exiting" ELSE "done", !.status = w.found])
       /\ Still

EmitExit(e) ==
    /\ Awake /\ ex[e].st = "exiting"
    /\ ex[e].closing \/ Len(ex[e].out) < OutQueue
    /\ Only(e, Finish([Emit(ex[e], "exit") EXCEPT !.st = "done"]))
    /\ Still /\ UNCHANGED <<box, reaped>>

(* The close of a stream reaches the sandbox.                              *)
CloseExec(e) ==
    /\ Awake /\ ex[e].bye
    /\ Only(e, [Close(ex[e]) EXCEPT !.bye = FALSE])
    /\ Still /\ UNCHANGED <<box, reaped>>

(* One piece of input, never waited for: dropped when nothing drains the   *)
(* queue, and the end of the exec when the queue has no room.              *)
OfferStdin(e) ==
    LET a == ex[e]
    IN /\ Awake /\ Can("stdin") /\ world.left > 0 /\ call[e].st = "live" /\ a.st \in {"running", "exiting"}
       /\ ~a.stdinDone /\ a.stdin <= StdinDepth
       /\ Only(e, IF a.stdin = StdinDepth
                  THEN [Kill(Emit(a, "stdin_overrun")) EXCEPT !.stdin = @ + 1] ELSE [a EXCEPT !.stdin = @ + 1])
       /\ world' = [world EXCEPT !.left = @ - 1]
       /\ UNCHANGED <<setup, call, box, reaped, link, wire, ent, op>>

(* The pump writes a piece to the child, or finds it has closed its input. *)
PumpStdin(e) ==
    LET a == ex[e]
    IN /\ Awake /\ a.st = "running" /\ ~a.stdinDone
       /\ \/ a.stdin > 0 /\ a.stdin <= StdinDepth /\ Only(e, [a EXCEPT !.stdin = @ - 1])
          \/ (a.closing \/ Can("stdin")) /\ Only(e, [a EXCEPT !.stdinDone = TRUE])
       /\ Still /\ UNCHANGED <<box, reaped>>

-----------------------------------------------------------------------------
(* What the runner is told of them.                                        *)

OfferLater(r) ==
    /\ Awake /\ r \in box.owed
    /\ box' = [box EXCEPT !.owed = @ \ {r}, !.mail = {r}]
    /\ Still /\ UNCHANGED <<ex, reaped>>

(* offer: the slot keeps the newer report, not the later one.              *)
Offer(r) ==
    /\ Awake /\ r \in box.owed
    /\ box' = [box EXCEPT !.owed = @ \ {r},
                          !.mail = IF \E held \in @ : held.seq > r.seq THEN @ ELSE {r}]
    /\ Still /\ UNCHANGED <<ex, reaped>>

Frame(r) == [reg |-> link.reg, boot |-> link.boot, live |-> r.live, seq |-> r.seq]

(* serveConn: the count is restated before any report is sent.             *)
Restate ==
    /\ Awake /\ Can("counts") /\ link.reg # 0 /\ ~link.restated
    /\ wire' = wire \cup {Frame([live |-> Cardinality(Slots), seq |-> box.seq + 1])}
    /\ box' = [box EXCEPT !.seq = @ + 1]
    /\ link' = [link EXCEPT !.restated = TRUE]
    /\ UNCHANGED <<setup, call, ex, reaped, ent, op, world>>

SendCount ==
    /\ Awake /\ link.restated
    /\ \E r \in box.mail : wire' = wire \cup {Frame(r)}
    /\ box' = [box EXCEPT !.mail = {}]
    /\ UNCHANGED <<setup, call, ex, reaped, link, ent, op, world>>

AppliedUnnumbered(f) ==
    IF f.boot # ent.boot \/ f.reg < ent.reg THEN ent
    ELSE [ent EXCEPT !.reg = f.reg, !.seq = f.seq, !.live = f.live, !.endedAt = IF ent.live > 0 /\ f.live = 0 THEN world.now ELSE @]

(* execCount: a frame of another boot or of an older registration is       *)
(* dropped; a newer registration starts its numbers afresh; a report that  *)
(* was overtaken starts the idle clock, once per report applied, if it     *)
(* tells of work that is over.                                             *)
Applied(f) ==
    LET e == IF f.reg > ent.reg THEN [ent EXCEPT !.reg = f.reg, !.seq = 0, !.stamped = 0] ELSE ent
    IN CASE f.boot # ent.boot \/ f.reg < ent.reg -> ent
         [] f.boot = ent.boot /\ f.reg >= ent.reg /\ f.seq <= e.seq ->
                IF f.live > 0 /\ e.live = 0 /\ e.stamped # e.seq
                THEN [e EXCEPT !.stamped = e.seq, !.endedAt = world.now] ELSE e
         [] OTHER -> [e EXCEPT !.seq = f.seq, !.live = f.live,
                               !.endedAt = IF e.live > 0 /\ f.live = 0 THEN world.now ELSE @]

ExecCount(f) ==
    /\ f \in wire
    /\ wire' = wire \ {f}
    /\ ent' = Applied(f)
    /\ UNCHANGED <<setup, call, ex, box, reaped, link, op, world>>

(* The connection is lost: the hub ends every stream on it, and the        *)
(* sandbox's end closes every exec that was opened on it, if the frame     *)
(* that opens it ever arrived.                                             *)
Streaming == {e \in Execs : call[e].st \in {"open", "live"}}

CutStreams ==
    /\ call' = [e \in Execs |-> IF e \in Streaming
                                THEN [call[e] EXCEPT !.st = "over", !.end = IF call[e].st = "open" THEN "no_answer" ELSE "lost"]
                                ELSE call[e]]
    /\ ent' = AttachEnded(Cardinality(Streaming))

Spend == world.left > 0

LinkLost ==
    /\ Can("drop") /\ Spend /\ link.reg # 0
    /\ link' = NoLink
    /\ CutStreams
    /\ \E lost \in SUBSET {e \in Streaming : ex[e].st = "opened"} :
           ex' = [e \in Execs |-> CASE e \in lost -> NoExec
                                     [] e \in Streaming \ lost -> [ex[e] EXCEPT !.bye = TRUE, !.out = <<>>]
                                     [] OTHER -> ex[e]]
    /\ world' = [world EXCEPT !.left = @ - 1]
    /\ UNCHANGED <<setup, box, reaped, wire, op>>

(* dialLoop, and the registration: it reads the boot and mints its number. *)
Redial ==
    /\ Awake /\ link.reg = 0 /\ world.regs < MaxReg
    /\ link' = [reg |-> world.regs + 1, boot |-> ent.boot, restated |-> FALSE]
    /\ world' = [world EXCEPT !.regs = @ + 1]
    /\ UNCHANGED <<setup, call, ex, box, reaped, wire, ent, op>>

-----------------------------------------------------------------------------
(* The warm suspend: quiesceExecs at the runner and in the sandbox.        *)

Suspend ==
    /\ Can("suspend") /\ Spend
    /\ ent.state = "running" /\ op = NoOp
    /\ op' = [st |-> IF link.reg = 0 THEN "freeze" ELSE "noticed", clean |-> FALSE]
    /\ world' = [world EXCEPT !.left = @ - 1]
    /\ UNCHANGED <<setup, call, ex, box, reaped, link, wire, ent>>

(* The notice arrives: it is acknowledged, and KillAllAndWait latches the  *)
(* door shut and takes what is live under one lock.                        *)
HearNotice ==
    /\ Awake /\ op.st = "noticed" /\ ~box.suspending
    /\ op' = [op EXCEPT !.st = "acked"]
    /\ box' = [box EXCEPT !.suspending = TRUE, !.quiescing = TRUE, !.sweep = Slots]
    /\ UNCHANGED <<setup, call, ex, reaped, link, wire, ent, world>>

KillOne(e) ==
    /\ Awake /\ e \in box.sweep
    /\ Only(e, Kill(ex[e]))
    /\ box' = [box EXCEPT !.sweep = @ \ {e}]
    /\ Still /\ UNCHANGED reaped

(* The live set is empty, or the sandbox's budget for that is spent.       *)
AnswerReady ==
    /\ Awake /\ box.suspending /\ box.sweep = {}
    /\ Slots = {} \/ Can("slow")
    /\ box' = [box EXCEPT !.suspending = FALSE]
    /\ op' = IF op.st = "acked" THEN [st |-> "freeze", clean |-> Slots = {}] ELSE op
    /\ UNCHANGED <<setup, call, ex, reaped, link, wire, ent, world>>

(* Every way the wait can fail ends in pausing anyway.                     *)
GiveUpWaiting ==
    /\ op.st \in {"noticed", "acked"}
    /\ link.reg = 0 \/ Can("slow")
    /\ op' = [st |-> "freeze", clean |-> FALSE]
    /\ UNCHANGED <<setup, call, ex, box, reaped, link, wire, ent, world>>

Freeze ==
    /\ op.st = "freeze"
    /\ op' = [op EXCEPT !.st = "frozen"]
    /\ ent' = [ent EXCEPT !.state = "suspended"]
    /\ world' = [world EXCEPT !.frozen = TRUE, !.row = "suspended_warm"]
    /\ UNCHANGED <<setup, call, ex, box, reaped, link, wire>>

(* A warm resume restarts nothing, and resets nothing.                     *)
Thaw ==
    /\ op.st = "frozen"
    /\ op' = NoOp
    /\ ent' = [ent EXCEPT !.state = "running"]
    /\ world' = [world EXCEPT !.frozen = FALSE, !.row = "running"]
    /\ UNCHANGED <<setup, call, ex, box, reaped, link, wire>>

-----------------------------------------------------------------------------
(* The idle sweep, and sandboxes that are replaced.                        *)

Tick ==
    /\ Can("idle") /\ world.now < MaxNow
    /\ world' = [world EXCEPT !.now = @ + 1]
    /\ UNCHANGED <<setup, call, ex, box, reaped, link, wire, ent, op>>

Latest(S) == CHOOSE x \in S : \A y \in S : y <= x

(* idleFor: the agent has exited, nobody is attached, nothing runs.        *)
IdleFor ==
    IF ent.state = "running" /\ ent.attachments = 0 /\ ent.exited # -1 /\ ent.live = 0
    THEN world.now - Latest({ent.exited, ent.detachAt, ent.endedAt}) ELSE -1

ClaimIdle ==
    /\ Can("idle") /\ op = NoOp
    /\ IdleFor >= IdleStop
    /\ ent' = [ent EXCEPT !.state = "suspending"]
    /\ UNCHANGED <<setup, call, ex, box, reaped, link, wire, op, world>>

(* The container ends, and with it every process, stream and report.       *)
SandboxGone(b) ==
    /\ call' = [e \in Execs |-> IF e \in Streaming
                                THEN [call[e] EXCEPT !.st = "over", !.end = IF call[e].st = "open" THEN "no_answer" ELSE "lost"]
                                ELSE call[e]]
    /\ ex' = [e \in Execs |-> NoExec]
    /\ reaped' = EmptyTable
    /\ box' = b
    /\ link' = NoLink

StopContainer ==
    /\ ent.state = "suspending"
    /\ SandboxGone([NewBox EXCEPT !.up = FALSE])
    /\ ent' = [AttachEnded(Cardinality(Streaming)) EXCEPT !.state = "suspended"]
    /\ world' = [world EXCEPT !.row = "suspended_cold"]
    /\ UNCHANGED <<setup, wire, op>>

(* resumed, restarted: a new boot, and everything known of the old one     *)
(* cleared.                                                                *)
ColdResume ==
    /\ ~box.up
    /\ box' = NewBox
    /\ ent' = [NewEntry EXCEPT !.boot = ent.boot + 1, !.exited = -1, !.attachments = ent.attachments]
    /\ world' = [world EXCEPT !.row = "running"]
    /\ UNCHANGED <<setup, call, ex, reaped, link, wire, op>>

(* The sandbox's process is replaced under an entry that stays running.    *)
Replaced ==
    /\ Can("replace") /\ Spend /\ Awake /\ ent.state = "running" /\ op = NoOp
    /\ SandboxGone(NewBox)
    /\ ent' = AttachEnded(Cardinality(Streaming))
    /\ world' = [world EXCEPT !.left = @ - 1]
    /\ UNCHANGED <<setup, wire, op>>

-----------------------------------------------------------------------------
(* What has to happen: the code's own goroutines, timers and connections.  *)
Progress ==
    \/ \E e \in Execs :
           \/ DialBack(e) \/ NoAnswer(e) \/ Deliver(e) \/ StreamEnds(e)
           \/ Reserve(e) \/ Start(e) \/ Arm(e) \/ Announce(e) \/ HandOver(e)
           \/ Killed(e) \/ Discard(e) \/ WaitReturns(e) \/ EmitExit(e) \/ CloseExec(e)
           \/ PumpStdin(e) \/ KillOne(e)
    \/ \E r \in box.owed : Offer(r)
    \/ \E f \in wire : ExecCount(f)
    \/ Restate \/ SendCount \/ Redial
    \/ HearNotice \/ AnswerReady \/ GiveUpWaiting \/ Freeze
    \/ StopContainer \/ ColdResume

\* the commands are interchangeable until they are asked for
NextAsked == {e \in setup.execs : call[e].st = "idle"}

(* What may happen: callers, commands, operators, time and faults.         *)
Environment ==
    \/ \E e \in Execs :
           \/ NoDialBack(e) \/ HangUp(e) \/ BadRequest(e) \/ NotFound(e) \/ SpawnFails(e) \/ Write(e) \/ Exits(e) \/ OfferStdin(e)
    \/ \E d \in setup.kinds : NextAsked # {} /\ Ask(CHOOSE e \in NextAsked : TRUE, d)
    \/ \E p \in Pids : OrphanEnds(p)
    \/ LinkLost \/ Suspend \/ Thaw \/ Tick \/ ClaimIdle \/ Replaced

Next == Progress \/ Environment

Spec == Init /\ [][Next]_vars /\ WF_vars(Progress)

-----------------------------------------------------------------------------
Reports == [live : 0 .. Cardinality(Execs), seq : Nat]
Messages == {"started", "piece", "exit", "refused", "not_found", "session_ending", "too_many_execs", "too_many_detached", "stdin_overrun"}
Ends == {"none", "exit", "left", "lost", "no_answer", "conflict"} \cup (Messages \ {"started", "piece"})
Outcomes == Execs \cup {"none", "evicted"}

(***************************************************************************)
(* Types; the slots within their two bounds, and no attachment's outbox    *)
(* over its queue by more than the message that ends it (reserve, emit).   *)
(***************************************************************************)
TypeOK ==
    /\ call \in [Execs -> [st : {"idle", "parked", "open", "live", "over"}, det : BOOLEAN, started : BOOLEAN, end : Ends,
                           of : Outcomes \cup {"killed"}, whole : BOOLEAN, ran : BOOLEAN]]
    /\ \A e \in Execs :
           /\ ex[e].st \in {"none", "opened", "reserved", "spawned", "armed", "running", "reaping", "exiting", "done"}
           /\ ex[e].proc \in {"none", "live", "ended", "killed"}
           /\ ex[e].pid \in Pids \cup {0}
           /\ ex[e].status \in Outcomes
           /\ \A i \in 1 .. Len(ex[e].out) : ex[e].out[i] \in Messages
           /\ Len(ex[e].out) <= OutQueue + 1
    /\ Cardinality(Slots) <= MaxConcurrent
    /\ Cardinality({e \in Slots : ex[e].det}) <= MaxDetached
    /\ box.owed \subseteq Reports /\ box.mail \subseteq Reports /\ Cardinality(box.mail) <= 1
    /\ op.st \in {"none", "noticed", "acked", "freeze", "frozen"}
    /\ ent.attachments = Cardinality(Streaming)
    /\ IdleFor >= -1

(***************************************************************************)
(* A sandbox that said its execs are gone, and is frozen on its word, has  *)
(* no process and no slot: not of an exec opened during the sweep, nor of  *)
(* one that was between its slot and its process (KillAll, arm, reserve).  *)
(***************************************************************************)
ReadyMeansGone ==
    op.clean /\ op.st \in {"freeze", "frozen"} => \A e \in Execs : ~ex[e].slot /\ ex[e].proc # "live"

(***************************************************************************)
(* What a caller is told is so: a status is its own command's, never that  *)
(* of another process of the same pid nor the signal that Rainier killed   *)
(* it with, and all it wrote came before; a refusal means it never ran;    *)
(* success of a detached one means it did (run, emit, AwaitStatus, open).  *)
(***************************************************************************)
AnswerHonest ==
    \A e \in Execs :
        LET c == call[e]
        IN  /\ c.end = "exit" => c.of \in {e, "evicted"} /\ c.whole
            /\ c.end \in {"refused", "not_found", "session_ending", "too_many_execs", "too_many_detached", "conflict"} => ~c.ran
            /\ c.st = "over" /\ ExitCode(c) = 0 => c.ran

\* no report is on its way
Quiet == link.restated /\ box.owed = {} /\ box.mail = {} /\ \A f \in wire : f.reg < link.reg

(***************************************************************************)
(* With no report on its way the runner's count is the sandbox's, whatever *)
(* was reordered, overtaken in the mailbox or lost with a connection, and  *)
(* whichever process numbered it (execCount, offer, serveConn).            *)
(***************************************************************************)
QuietViewExact == Quiet => ent.live = Cardinality(Slots)

(***************************************************************************)
(* With no report on its way, the sweep claims no session in which an exec *)
(* holds a slot, whatever was lost with a connection, reordered, overtaken *)
(* or restated before (idleFor, execCount, claimIdle, serveConn).          *)
(***************************************************************************)
ClaimedAtRest == [][ent.state = "running" /\ ent'.state = "suspending" /\ Quiet => Slots = {}]_vars

(***************************************************************************)
(* Work comes to an end: every caller is told something and every slot     *)
(* comes back, unless the command runs on or the session is frozen, also   *)
(* when its outcome was evicted (AwaitStatus, finish, release).            *)
(***************************************************************************)
WorkSettles ==
    <>[](Frozen \/ \A e \in Execs :
            \/ ex[e].proc = "live" /\ ~ex[e].killing
            \/ call[e].st \in {"idle", "over"} /\ ~ex[e].slot)

(***************************************************************************)
(* docs/design/rainier-exec.md, of the refusal session_ending: the remedy  *)
(* is a `rainier resume'.  A session that is running, with no suspend in   *)
(* flight, does not refuse a command as ending (reserve, KillAll).         *)
(***************************************************************************)
ResumedTakesExecs ==
    [][\A e \in Execs : ex[e].st = "opened" /\ ex'[e].st = "done" /\ op = NoOp /\ ent.state = "running"
            => Head(ex'[e].out) # "session_ending"]_vars
=============================================================================
