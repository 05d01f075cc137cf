--------------------------- MODULE RunnerRegistry ---------------------------
(***************************************************************************)
(* The runner's registry of one session id, and the goroutines that move   *)
(* it: creates, warm and cold suspends, resumes, deletes, the idle sweep,  *)
(* and one monitor per sandbox connection (a hub).                         *)
(*                                                                         *)
(* Every access to the entry is one critical section under the registry    *)
(* lock, and every driver call happens outside it.  So a step is either a  *)
(* driver call or a critical section, and whatever a goroutine read before *)
(* its driver call may have moved by the time it takes the lock again.     *)
(*                                                                         *)
(* The driver is Docker: a container has a process tree, which `docker     *)
(* start` replaces and `docker unpause` does not.                          *)
(*                                                                         *)
(* Left out: attachments, commands and the idle timer (a session whose     *)
(* child is known to have exited may be swept at any time), the events to  *)
(* the control plane, and guests that reconnect by lease.                  *)
(***************************************************************************)
EXTENDS Integers, FiniteSets

CONSTANTS
    Ops,            \* goroutines serving creates, suspends, resumes and deletes, one at a time each
    Sweeper,        \* the goroutine of the idle sweep
    Handles,        \* containers the driver may create
    Hubs,           \* sandbox connections explored
    MaxRun,         \* bound on starts of a container
    MaxBoot,        \* bound on boot epochs
    MaxGen,         \* bound on placement generations
    MaxFaults       \* bound on faults in one behaviour, one of each kind at most

ASSUME RegistryAssumption ==
    /\ Sweeper \notin Ops /\ IsFiniteSet(Ops)
    /\ MaxRun \in Nat \ {0} /\ MaxBoot \in Nat \ {0} /\ MaxGen \in Nat /\ MaxFaults \in Nat
    /\ 0 \notin Handles /\ 0 \notin Hubs
    \* a restart mints a boot for every container it finds
    /\ IsFiniteSet(Handles) /\ Cardinality(Handles) <= MaxBoot

VARIABLES
    entry,          \* the registry's entry for the session id
    nextBoot,       \* the registry-wide boot counter
    ctr,            \* ctr[h]: the container behind handle h
    op,             \* op[o]: an operation's goroutine
    hub,            \* hub[n]: a sandbox connection and its monitor
    frames,         \* boots of the child_exited frames read and not yet routed
    faults          \* history: the kinds of fault that have happened

vars == <<entry, nextBoot, ctr, op, hub, frames, faults>>

Gens == 0 .. MaxGen
Goroutines == Ops \cup {Sweeper}

NoEntry == [state |-> "none", handle |-> 0, gen |-> 0, boot |-> 0, hub |-> 0, ops |-> 0,
            stops |-> 0, pending |-> FALSE, exited |-> FALSE]
NoContainer == [state |-> "none", run |-> 0, child |-> "none", stopping |-> FALSE]
NoOp == [kind |-> "none", pc |-> "idle", handle |-> 0, prev |-> "none", gen |-> 0, boot |-> 0, restarted |-> FALSE]
NoHub == [pc |-> "none", handle |-> 0, run |-> 0, boot |-> 0, up |-> FALSE]

Gone == [NoContainer EXCEPT !.state = "gone"]

\* 0 is the empty handle of an entry whose create has not returned: no container has that name
Init ==
    /\ entry = NoEntry
    /\ nextBoot = 0
    /\ ctr = [h \in Handles \cup {0} |-> IF h = 0 THEN Gone ELSE NoContainer]
    /\ op = [o \in Goroutines |-> NoOp]
    /\ hub = [n \in Hubs |-> NoHub]
    /\ frames = {}
    /\ faults = {}

EntryState == {"none", "starting", "running", "suspending", "suspended", "resuming", "destroying"}

EntryType == [state : EntryState, handle : Handles \cup {0}, gen : Gens, boot : 0 .. MaxBoot,
              hub : Hubs \cup {0}, ops : Nat, stops : Nat, pending : BOOLEAN, exited : BOOLEAN]

ContainerType == [state : {"none", "running", "paused", "exited", "gone"}, run : 0 .. MaxRun,
                  child : {"none", "running", "exited"}, stopping : BOOLEAN]

OpType == [kind : {"none", "create", "warm", "cold", "resume", "delete"},
           pc : {"idle", "driver", "handle", "state", "target", "pause", "park", "mark", "stop",
                 "land", "settle", "release", "report", "check", "boot", "start", "resumed",
                 "complete", "inspect", "failed", "unresolved", "destroy", "remove", "restore"},
           handle : Handles \cup {0}, prev : EntryState, gen : Gens, boot : 0 .. MaxBoot,
           restarted : BOOLEAN]

HubType == [pc : {"none", "dialing", "live", "inspect", "remove", "destroy"},
            handle : Handles \cup {0}, run : 0 .. MaxRun, boot : 0 .. MaxBoot, up : BOOLEAN]

(* Types of the variables; what a goroutine holds is what it read. *)
TypeOK ==
    /\ entry \in EntryType
    /\ nextBoot \in 0 .. MaxBoot
    /\ ctr \in [Handles \cup {0} -> ContainerType]
    /\ op \in [Goroutines -> OpType]
    /\ hub \in [Hubs -> HubType]
    /\ frames \subseteq 0 .. MaxBoot
    /\ faults \subseteq {"driver", "restart"}

-----------------------------------------------------------------------------
(* Critical sections.  Each leaves an absent entry alone.                  *)

Held == entry.state # "none"

\* setState
SetState(e, state) == IF e.state = "none" THEN e ELSE [e EXCEPT !.state = state]

\* endOp and endStop floor at zero: the entry may be gone, or recreated under the id
Less(n) == IF n = 0 THEN 0 ELSE n - 1
EndOp(e) == [e EXCEPT !.ops = Less(@)]
EndStop(e) == [e EXCEPT !.stops = Less(@)]

\* releaseColdSuspend and finishColdSuspend: only an entry still "suspending" moves
Land(e, state) == IF e.state = "suspending" THEN [e EXCEPT !.state = state] ELSE e

Step(o, pc) == op' = [op EXCEPT ![o].pc = pc]

Ends(o) == op' = [op EXCEPT ![o] = NoOp]

\* the operation's bracket closes with it
Returns(o, e) == Ends(o) /\ entry' = EndOp(e)

\* a driver call or a container fails, or the runner's process restarts
Fault(kind) ==
    /\ kind \notin faults /\ Cardinality(faults) < MaxFaults
    /\ faults' = faults \cup {kind}

\* a driver call returns an error: because of what the container is doing, or a fault
Refused(cause) == IF cause THEN UNCHANGED faults ELSE Fault("driver")

HubEnds(n) == hub' = [hub EXCEPT ![n] = NoHub]

\* a closed connection is told from the others by its monitor alone
CloseHub(n) == IF n \in Hubs THEN [hub EXCEPT ![n] = [NoHub EXCEPT !.pc = hub[n].pc]] ELSE hub

-----------------------------------------------------------------------------
(* createWithID.                                                           *)

\* putIfAbsent claims the id and mints its boot; an id already held is left alone.
\* Generations count from the one the create carried
CreateClaim(o) ==
    /\ op[o].pc = "idle" /\ ~Held /\ nextBoot < MaxBoot
    /\ entry' = [NoEntry EXCEPT !.state = "starting", !.boot = nextBoot + 1]
    /\ nextBoot' = nextBoot + 1
    /\ op' = [op EXCEPT ![o] = [NoOp EXCEPT !.kind = "create", !.pc = "driver"]]
    /\ UNCHANGED <<ctr, hub, frames, faults>>

\* pushEgress or the driver's Create fails, and the id is released; or the
\* container is up, and may dial in before its handle is recorded
CreateDriver(o) ==
    /\ op[o].pc = "driver"
    /\ \/ /\ Fault("driver")
          /\ entry' = NoEntry
          /\ Ends(o)
          /\ UNCHANGED ctr
       \/ \E h \in Handles :
            /\ ctr[h].state = "none"
            /\ ctr' = [ctr EXCEPT ![h] = [@ EXCEPT !.state = "running", !.run = 1, !.child = "running"]]
            /\ op' = [op EXCEPT ![o] = [@ EXCEPT !.pc = "handle", !.handle = h]]
            /\ UNCHANGED <<entry, faults>>
    /\ UNCHANGED <<nextBoot, hub, frames>>

CreateHandle(o) ==
    /\ op[o].pc = "handle"
    /\ entry' = IF Held THEN [entry EXCEPT !.handle = op[o].handle] ELSE entry
    /\ Step(o, "state")
    /\ UNCHANGED <<nextBoot, ctr, hub, frames, faults>>

CreateState(o) ==
    /\ op[o].pc = "state"
    /\ entry' = SetState(entry, "running")
    /\ Ends(o)
    /\ UNCHANGED <<nextBoot, ctr, hub, frames, faults>>

-----------------------------------------------------------------------------
(* opAtPlacement: every operation opens a bracket that keeps the sweep away. *)

\* beginOp comes before the handle is read: from here on the session is not idle
Begin(o) ==
    /\ op[o].pc = "idle" /\ Held
    /\ entry' = [entry EXCEPT !.ops = @ + 1]
    /\ \E k \in {<<"warm", 0>>, <<"cold", 0>>} \cup {<<"resume", g>> : g \in Gens} :
         op' = [op EXCEPT ![o] = [NoOp EXCEPT !.kind = k[1], !.pc = "target", !.gen = k[2]]]
    /\ UNCHANGED <<nextBoot, ctr, hub, frames, faults>>

\* opTarget: nothing to act on once the id is gone, or while its create has not returned
Targetable == Held /\ entry.state # "starting"

FirstStep == [warm |-> "pause", cold |-> "mark", resume |-> "check"]

Target(o) ==
    /\ op[o].pc = "target"
    /\ IF Targetable
       THEN /\ op' = [op EXCEPT ![o] = [@ EXCEPT !.pc = FirstStep[op[o].kind], !.handle = entry.handle]]
            /\ UNCHANGED entry
       ELSE Returns(o, entry)
    /\ UNCHANGED <<nextBoot, ctr, hub, frames, faults>>

\* docker pause, which only a running container takes
WarmPause(o) ==
    LET h == op[o].handle
    IN  /\ op[o].pc = "pause"
        /\ \/ /\ ctr[h].state = "running"
              /\ ctr' = [ctr EXCEPT ![h].state = "paused"]
              /\ Step(o, "park")
              /\ UNCHANGED <<entry, faults>>
           \/ /\ Refused(ctr[h].state # "running")
              /\ Returns(o, entry)
              /\ UNCHANGED ctr
        /\ UNCHANGED <<nextBoot, hub, frames>>

WarmPark(o) ==
    /\ op[o].pc = "park"
    /\ Returns(o, SetState(entry, "suspended"))
    /\ UNCHANGED <<nextBoot, ctr, hub, frames, faults>>

\* beginColdSuspend: a Delete's marker is left alone, the stop is counted anyway
ColdMark(o) ==
    /\ op[o].pc = "mark" /\ op[o].kind = "cold"
    /\ entry' = IF ~Held THEN entry
                ELSE [entry EXCEPT !.stops = @ + 1, !.state = IF @ = "destroying" THEN @ ELSE "suspending"]
    /\ Step(o, "stop")
    /\ UNCHANGED <<nextBoot, ctr, hub, frames, faults>>

\* claimIdle: the idle rule and the claim in one critical section
SweepClaim ==
    /\ op[Sweeper].pc = "idle"
    /\ entry.state = "running" /\ entry.exited /\ entry.ops = 0
    /\ entry' = [entry EXCEPT !.state = "suspending", !.stops = @ + 1]
    /\ op' = [op EXCEPT ![Sweeper] = [NoOp EXCEPT !.kind = "cold", !.pc = "stop", !.handle = entry.handle]]
    /\ UNCHANGED <<nextBoot, ctr, hub, frames, faults>>

Stopped(c) == [c EXCEPT !.state = "exited", !.child = "none", !.stopping = FALSE]

\* docker stop: done, or an error, which may leave the daemon still at it
Stop(o) ==
    LET h == op[o].handle
    IN  /\ op[o].pc = "stop"
        /\ \/ /\ ctr[h].state \in {"running", "paused", "exited"}
              /\ ctr' = [ctr EXCEPT ![h] = Stopped(@)]
              /\ Step(o, "land")
              /\ UNCHANGED faults
           \/ /\ ctr[h].state \in {"running", "paused"} /\ Fault("driver")
              /\ ctr' = [ctr EXCEPT ![h].stopping = TRUE]
              /\ Step(o, "settle")
           \/ /\ Refused(ctr[h].state = "gone")
              /\ Step(o, "settle")
              /\ UNCHANGED ctr
        /\ UNCHANGED <<entry, nextBoot, hub, frames>>

\* settleFailedColdSuspend asks what the container is doing; no answer changes nothing
Settle(o) ==
    /\ op[o].pc = "settle"
    /\ \/ Fault("driver") /\ Step(o, "report")
       \/ /\ Step(o, IF ctr[op[o].handle].state \in {"running", "gone"} THEN "release" ELSE "land")
          /\ UNCHANGED faults
    /\ UNCHANGED <<entry, nextBoot, ctr, hub, frames>>

StopLands(o) ==
    /\ \/ op[o].pc = "land" /\ entry' = Land(entry, "suspended")
       \/ op[o].pc = "release" /\ entry' = Land(entry, "running")
    /\ Step(o, "report")
    /\ UNCHANGED <<nextBoot, ctr, hub, frames, faults>>

\* mutant: the sweep returns without releasing its claim
StopReportedKeepsClaim(o) ==
    /\ op[o].pc = "report"
    /\ IF o = Sweeper THEN Ends(o) /\ UNCHANGED entry ELSE Returns(o, EndStop(entry))
    /\ UNCHANGED <<nextBoot, ctr, hub, frames, faults>>

\* the claim is released once the stop has been reported
StopReported(o) ==
    /\ op[o].pc = "report"
    /\ IF o = Sweeper THEN Ends(o) /\ entry' = EndStop(entry) ELSE Returns(o, EndStop(entry))
    /\ UNCHANGED <<nextBoot, ctr, hub, frames, faults>>

\* claimResumePlacement refuses all but a parked entry under an older generation
Claimable(o) ==
    /\ entry.handle = op[o].handle /\ op[o].gen > entry.gen /\ ~entry.pending
    /\ entry.state \in {"suspending", "suspended", "resuming"}

\* mutant: a resume does not ask whether a stop is in flight
ResumeCheckNoGuard(o) ==
    /\ op[o].pc = "check" /\ op[o].gen = 0
    /\ Step(o, "boot")
    /\ UNCHANGED <<entry, nextBoot, ctr, hub, frames, faults>>

\* refused while a stop is in flight; a placement claims its boot before the driver launches it
ResumeCheck(o) ==
    /\ op[o].pc = "check"
    /\ \/ /\ entry.stops > 0 \/ (op[o].gen # 0 /\ ~Claimable(o))
          /\ Returns(o, entry)
          /\ UNCHANGED <<nextBoot, hub, frames>>
       \/ /\ entry.stops = 0 /\ op[o].gen = 0
          /\ Step(o, "boot")
          /\ UNCHANGED <<entry, nextBoot, hub, frames>>
       \/ /\ entry.stops = 0 /\ op[o].gen # 0 /\ Claimable(o) /\ nextBoot < MaxBoot
          /\ entry' = [entry EXCEPT !.hub = 0, !.gen = op[o].gen, !.pending = TRUE, !.state = "resuming",
                                    !.boot = nextBoot + 1]
          /\ nextBoot' = nextBoot + 1
          /\ hub' = CloseHub(entry.hub)
          /\ op' = [op EXCEPT ![o] = [@ EXCEPT !.pc = "boot", !.boot = nextBoot + 1]]
    /\ UNCHANGED <<ctr, frames, faults>>

Started(c) == [c EXCEPT !.state = "running", !.run = @ + 1, !.child = "running"]

\* how a driver's success goes on: a placement must have been restarted
Booted(o, restarted) ==
    op' = [op EXCEPT ![o] = [@ EXCEPT !.restarted = restarted,
                                      !.pc = IF op[o].gen = 0 THEN "resumed" ELSE IF restarted THEN "complete" ELSE "inspect"]]

\* how its error does
BootError(o) ==
    IF op[o].gen = 0 THEN Returns(o, entry) ELSE Step(o, "inspect") /\ UNCHANGED entry

\* the driver asks for the status first, and unpauses or finds the container running
ResumeDriver(o) ==
    LET h == op[o].handle
    IN  /\ op[o].pc = "boot"
        /\ \/ /\ ctr[h].state = "exited" /\ Step(o, "start")
              /\ UNCHANGED <<entry, ctr, faults>>
           \/ /\ ctr[h].state \in {"running", "paused"}
              /\ ctr' = [ctr EXCEPT ![h].state = "running"]
              /\ Booted(o, FALSE)
              /\ UNCHANGED <<entry, faults>>
           \/ /\ Refused(ctr[h].state = "gone")
              /\ BootError(o)
              /\ UNCHANGED ctr
        /\ UNCHANGED <<nextBoot, hub, frames>>

\* `docker start` reports a restart even when another resume has made it
ResumeStart(o) ==
    LET h == op[o].handle
    IN  /\ op[o].pc = "start"
        /\ \/ /\ ctr[h].state = "exited" /\ ctr[h].run < MaxRun
              /\ ctr' = [ctr EXCEPT ![h] = Started(@)]
              /\ Booted(o, TRUE)
              /\ UNCHANGED <<entry, faults>>
           \/ /\ ctr[h].state = "running"
              /\ Booted(o, TRUE)
              /\ UNCHANGED <<entry, ctr, faults>>
           \/ /\ Refused(ctr[h].state \in {"paused", "gone"})
              /\ BootError(o)
              /\ UNCHANGED ctr
        /\ UNCHANGED <<nextBoot, hub, frames>>

\* resumedLocked: a restart of a parked entry opens a boot, unless its claim already has
Resumed(e, restarted, boot) ==
    IF restarted /\ e.state # "running"
    THEN [e EXCEPT !.state = "running", !.exited = FALSE, !.pending = FALSE,
                   !.boot = IF e.pending THEN @ ELSE boot]
    ELSE [e EXCEPT !.state = "running"]

ResumeDone(o) ==
    LET opens == Held /\ op[o].restarted /\ entry.state # "running" /\ ~entry.pending
    IN  /\ op[o].pc = "resumed" /\ (opens => nextBoot < MaxBoot)
        /\ Returns(o, IF Held THEN Resumed(entry, op[o].restarted, nextBoot + 1) ELSE entry)
        /\ nextBoot' = IF opens THEN nextBoot + 1 ELSE nextBoot
        /\ UNCHANGED <<ctr, hub, frames, faults>>

\* the entry is still the one this resume claimed
Claimed(o) == entry.handle = op[o].handle /\ entry.gen = op[o].gen /\ entry.boot = op[o].boot

\* completeResumePlacement: a Delete keeps the state
ResumeComplete(o) ==
    /\ op[o].pc = "complete"
    /\ Returns(o, IF ~(Held /\ Claimed(o) /\ entry.pending) THEN entry
                  ELSE IF entry.state # "resuming" THEN [entry EXCEPT !.pending = FALSE]
                  ELSE Resumed(entry, TRUE, 0))
    /\ UNCHANGED <<nextBoot, ctr, hub, frames, faults>>

\* failResumePlacement: only an observed suspension makes the boot retryable
ResumeInspect(o) ==
    /\ op[o].pc = "inspect"
    /\ \/ ctr[op[o].handle].state \in {"paused", "exited"} /\ Step(o, "failed") /\ UNCHANGED faults
       \/ Refused(ctr[op[o].handle].state \in {"running", "gone"}) /\ Step(o, "unresolved")
    /\ UNCHANGED <<entry, nextBoot, ctr, hub, frames>>

ResumeFailed(o) ==
    /\ op[o].pc \in {"failed", "unresolved"}
    /\ Returns(o, IF ~(Held /\ Claimed(o)) THEN entry
                  ELSE [entry EXCEPT !.pending = FALSE,
                                     !.state = IF @ = "resuming" /\ op[o].pc = "failed" THEN "suspended" ELSE @])
    /\ UNCHANGED <<nextBoot, ctr, hub, frames, faults>>

-----------------------------------------------------------------------------
(* Delete.                                                                 *)

DeleteTarget(o) ==
    /\ op[o].pc = "idle" /\ Targetable
    /\ op' = [op EXCEPT ![o] = [NoOp EXCEPT !.kind = "delete", !.pc = "mark", !.handle = entry.handle,
                                            !.prev = entry.state]]
    /\ UNCHANGED <<entry, nextBoot, ctr, hub, frames, faults>>

\* the marker goes on before the hub is closed
DeleteMark(o) ==
    /\ op[o].pc = "mark" /\ op[o].kind = "delete"
    /\ entry' = SetState(entry, "destroying")
    /\ hub' = CloseHub(entry.hub)
    /\ Step(o, "destroy")
    /\ UNCHANGED <<nextBoot, ctr, frames, faults>>

\* the container and then its volume; either removal may fail
DeleteDestroy(o) ==
    LET h == op[o].handle
    IN  /\ op[o].pc = "destroy"
        /\ \/ ctr' = [ctr EXCEPT ![h] = Gone] /\ Step(o, "remove") /\ UNCHANGED faults
           \/ Fault("driver") /\ ctr' \in {ctr, [ctr EXCEPT ![h] = Gone]} /\ Step(o, "restore")
        /\ UNCHANGED <<entry, nextBoot, hub, frames>>

DeleteDone(o) ==
    /\ \/ op[o].pc = "remove" /\ entry' = NoEntry
       \/ /\ op[o].pc = "restore"
          /\ entry' = IF entry.state = "destroying" THEN [entry EXCEPT !.state = op[o].prev] ELSE entry
    /\ Ends(o)
    /\ UNCHANGED <<nextBoot, ctr, hub, frames, faults>>

-----------------------------------------------------------------------------
(* A sandbox connection: serveSessionConn and monitorSessionHub.           *)

\* the far end is the process tree that dialled, and it is still there
Up(n) == /\ hub[n].up
         /\ ctr[hub[n].handle].state \in {"running", "paused"} /\ ctr[hub[n].handle].run = hub[n].run

\* the boot is read when the connection is accepted
Dial(n, h) ==
    /\ hub[n].pc = "none" /\ Held /\ ctr[h].state = "running"
    /\ \A m \in Hubs : ~(Up(m) /\ hub[m].handle = h)
    /\ hub' = [hub EXCEPT ![n] = [pc |-> "dialing", handle |-> h, run |-> ctr[h].run, boot |-> entry.boot,
                                  up |-> TRUE]]
    /\ UNCHANGED <<entry, nextBoot, ctr, op, frames, faults>>

\* setHub: the entry may be gone; a hub it displaces is closed after a grace
Install(n) ==
    /\ hub[n].pc = "dialing"
    /\ IF Held THEN entry' = [entry EXCEPT !.hub = n] /\ hub' = [hub EXCEPT ![n].pc = "live"]
               ELSE HubEnds(n) /\ UNCHANGED entry
    /\ UNCHANGED <<nextBoot, ctr, op, frames, faults>>

\* the network drops the connection, or the grace of a displaced one is over
LoseConn(n) ==
    /\ hub[n].pc = "live" /\ hub[n].up
    /\ hub' = CloseHub(n)
    /\ UNCHANGED <<entry, nextBoot, ctr, op, frames, faults>>

\* hubDied: only the hub still installed speaks for the entry, and a deliberate
\* stop or teardown is left to whoever began it
HubDied(n) ==
    /\ hub[n].pc = "live" /\ ~Up(n)
    /\ IF entry.hub = n
       THEN entry' = [entry EXCEPT !.hub = 0, !.state = IF @ = "suspending" THEN "suspended" ELSE @]
       ELSE UNCHANGED entry
    /\ IF entry.hub = n /\ entry.state \notin {"suspending", "suspended", "destroying"}
       THEN hub' = [hub EXCEPT ![n] = [NoHub EXCEPT !.pc = "inspect", !.handle = entry.handle]]
       ELSE HubEnds(n)
    /\ UNCHANGED <<nextBoot, ctr, op, frames, faults>>

\* only a container known not to run is given up
HubInspect(n) ==
    /\ hub[n].pc = "inspect"
    /\ \/ ctr[hub[n].handle].state # "running" /\ hub' = [hub EXCEPT ![n].pc = "remove"] /\ UNCHANGED faults
       \/ Refused(ctr[hub[n].handle].state = "running") /\ HubEnds(n)
    /\ UNCHANGED <<entry, nextBoot, ctr, op, frames>>

HubRemove(n) ==
    /\ hub[n].pc = "remove"
    /\ IF Held /\ entry.hub = 0 THEN entry' = NoEntry /\ hub' = [hub EXCEPT ![n].pc = "destroy"]
                                ELSE HubEnds(n) /\ UNCHANGED entry
    /\ UNCHANGED <<nextBoot, ctr, op, frames, faults>>

\* DestroyContainer keeps the workspace; then the session is reported dead
HubDestroy(n) ==
    /\ hub[n].pc = "destroy"
    /\ ctr' = [ctr EXCEPT ![hub[n].handle] = Gone]
    /\ HubEnds(n)
    /\ UNCHANGED <<entry, nextBoot, op, frames, faults>>

\* sessiond reports its child's exit over the connection it has
ReadExit(n) ==
    /\ hub[n].pc # "none" /\ Up(n) /\ ctr[hub[n].handle].child = "exited"
    /\ frames' = frames \cup {hub[n].boot}
    /\ UNCHANGED <<entry, nextBoot, ctr, op, hub, faults>>

\* childExited, on a goroutine of its own, however long after the frame was read
RouteExit(b) ==
    /\ b \in frames
    /\ entry' = IF Held /\ entry.boot = b THEN [entry EXCEPT !.exited = TRUE] ELSE entry
    /\ frames' = frames \ {b}
    /\ UNCHANGED <<nextBoot, ctr, op, hub, faults>>

-----------------------------------------------------------------------------
(* What containers do, and the runner's own process.                       *)

ChildExits(h) ==
    /\ ctr[h].state = "running" /\ ctr[h].child = "running"
    /\ ctr' = [ctr EXCEPT ![h].child = "exited"]
    /\ UNCHANGED <<entry, nextBoot, op, hub, frames, faults>>

\* the daemon finishes a stop its client gave up on
DaemonStops(h) ==
    /\ ctr[h].stopping
    /\ ctr' = [ctr EXCEPT ![h] = Stopped(@)]
    /\ UNCHANGED <<entry, nextBoot, op, hub, frames, faults>>

Crash(h) ==
    /\ ctr[h].state \in {"running", "paused"} /\ Fault("driver")
    /\ ctr' = [ctr EXCEPT ![h] = Stopped(@)]
    /\ UNCHANGED <<entry, nextBoot, op, hub, frames>>

\* the process dies with its goroutines and its registry; Recover rebuilds the
\* entry from a labelled container and knows nothing of its child
Restart ==
    /\ Fault("restart")
    /\ op' = [o \in Goroutines |-> NoOp]
    /\ hub' = [n \in Hubs |-> NoHub]
    /\ frames' = {}
    /\ LET kept == {h \in Handles : ctr[h].state \in {"running", "paused", "exited"}}
       IN  IF kept = {} THEN entry' = NoEntry /\ nextBoot' = 0
           ELSE /\ nextBoot' = Cardinality(kept)
                /\ \E h \in kept :
                     entry' = [NoEntry EXCEPT !.state = IF ctr[h].state = "running" THEN "running" ELSE "suspended",
                                              !.handle = h, !.boot = nextBoot']
    /\ UNCHANGED ctr

-----------------------------------------------------------------------------
Create(o) == CreateClaim(o) \/ CreateDriver(o) \/ CreateHandle(o) \/ CreateState(o)

StopRuns(o) == Stop(o) \/ Settle(o) \/ StopLands(o) \/ StopReported(o)

Suspend(o) == WarmPause(o) \/ WarmPark(o) \/ ColdMark(o) \/ StopRuns(o)

Resume(o) ==
    \/ ResumeCheck(o) \/ ResumeDriver(o) \/ ResumeStart(o) \/ ResumeDone(o)
    \/ ResumeComplete(o) \/ ResumeInspect(o) \/ ResumeFailed(o)

Delete(o) == DeleteTarget(o) \/ DeleteMark(o) \/ DeleteDestroy(o) \/ DeleteDone(o)

Monitor(n) == HubDied(n) \/ HubInspect(n) \/ HubRemove(n) \/ HubDestroy(n)

Conn(n) == Install(n) \/ LoseConn(n) \/ ReadExit(n) \/ \E h \in Handles : Dial(n, h)

Next ==
    \/ \E o \in Ops : Create(o) \/ Begin(o) \/ Target(o) \/ Suspend(o) \/ Resume(o) \/ Delete(o)
    \/ SweepClaim \/ StopRuns(Sweeper)
    \/ \E n \in Hubs : Conn(n) \/ Monitor(n)
    \/ \E h \in Handles : ChildExits(h) \/ DaemonStops(h) \/ Crash(h)
    \/ \E b \in frames : RouteExit(b)
    \/ Restart

Spec == Init /\ [][Next]_vars

-----------------------------------------------------------------------------
(* Properties.                                                             *)

\* goroutines between the claim of a stop and its release
Stopping == {o \in Goroutines : op[o].kind = "cold" /\ op[o].pc \in {"stop", "settle", "land", "release", "report"}}

\* goroutines between beginOp and endOp
Bracketed == {o \in Ops : op[o].kind \in {"warm", "cold", "resume"}}

\* beginOp/endOp, claimIdle/endStop: no count outlives the goroutine that took it,
\* however its operation failed and whatever deleted or recreated the entry
\* meanwhile.  A count left behind makes the session unresumable, or exempt from
\* the idle sweep, for the life of the runner.
CountsComeBack == entry.stops <= Cardinality(Stopping) /\ entry.ops <= Cardinality(Bracketed)

\* opAtPlacement, resume: "Against the SWEEP's stop the guard is total".  No resume
\* is at the driver with the container of an entry the sweep is stopping.
NoResumeOverSweep ==
    \A o \in Ops :
        (op[o].kind = "resume" /\ op[o].pc \in {"boot", "start"} /\ Held /\ op[o].handle = entry.handle)
            => ~(Sweeper \in Stopping /\ op[Sweeper].handle = op[o].handle)

Claims == op[Sweeper].pc = "idle" /\ op'[Sweeper].pc = "stop"

\* idlestop: "What it never does: stop a session whose child is still running".
\* resumedLocked forgets the old child's exit only if it finds the entry parked; of
\* two resumes at once, the one that found the container already started may land
\* first, and the one that restarted it then forgets nothing.
SweepsOnlyFinished ==
    [][Claims => ctr[entry.handle].child # "running"]_vars

=============================================================================
