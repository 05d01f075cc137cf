------------------------ MODULE RunnerRegistryProofs ------------------------
\* Theorems about RunnerRegistry for any number of API goroutines,
\* containers, connections and faults.
EXTENDS RunnerRegistry, FiniteSetTheorems, TLAPS

--------------------
\* Types.

\* a goroutine stands in a place of its own operation
Placed(r) ==
    \/ r.kind = "none" /\ r.pc = "idle"
    \/ r.kind = "create" /\ r.pc \in {"driver", "handle", "state"}
    \/ r.kind = "warm" /\ r.pc \in {"target", "pause", "park"}
    \/ r.kind = "cold" /\ r.pc \in {"target", "mark", "stop", "settle", "land", "release", "report"}
    \/ r.kind = "resume" /\ r.pc \in {"target", "check", "boot", "start", "resumed", "complete", "inspect",
                                      "failed", "unresolved"}
    \/ r.kind = "delete" /\ r.pc \in {"mark", "destroy", "remove", "restore"} /\ r.prev # "none"

\* the sweep's goroutine does nothing but stop
Sweeps(r) == r.kind \in {"none", "cold"} /\ r.pc \notin {"target", "mark"}

OpPlaces == (\A o \in Goroutines : Placed(op[o])) /\ Sweeps(op[Sweeper])

OpsOK == op \in [Goroutines -> OpType] /\ OpPlaces

WellFormed == TypeOK /\ OpPlaces

\* what a critical section may write to an entry
LEMMA EntryUpdate ==
    ASSUME NEW e \in EntryType
    PROVE  /\ \A s \in EntryState : [e EXCEPT !.state = s] \in EntryType
           /\ \A h \in Handles \cup {0} : [e EXCEPT !.handle = h] \in EntryType
           /\ \A g \in Gens : [e EXCEPT !.gen = g] \in EntryType
           /\ \A b \in 0 .. MaxBoot : [e EXCEPT !.boot = b] \in EntryType
           /\ \A n \in Hubs \cup {0} : [e EXCEPT !.hub = n] \in EntryType
           /\ \A k \in Nat : [e EXCEPT !.ops = k] \in EntryType /\ [e EXCEPT !.stops = k] \in EntryType
           /\ \A b \in BOOLEAN : [e EXCEPT !.pending = b] \in EntryType /\ [e EXCEPT !.exited = b] \in EntryType
  BY DEF EntryType

\* endOp, endStop, setState and the landing of a stop keep an entry an entry
LEMMA SectionTypes ==
    ASSUME NEW e \in EntryType
    PROVE  /\ EndOp(e) \in EntryType /\ EndStop(e) \in EntryType
           /\ \A s \in EntryState : SetState(e, s) \in EntryType /\ Land(e, s) \in EntryType
<1>1. \A n \in Nat : Less(n) \in Nat
  BY DEF Less
<1>2. e.ops \in Nat /\ e.stops \in Nat
  BY DEF EntryType
<1>3. EndOp(e) \in EntryType /\ EndStop(e) \in EntryType
  BY <1>1, <1>2, EntryUpdate DEF EndOp, EndStop
<1> QED
  BY <1>3, EntryUpdate DEF SetState, Land

\* the records a goroutine, a connection and an entry are reset to
LEMMA NullTypes ==
    /\ NoEntry \in EntryType /\ NoContainer \in ContainerType /\ Gone \in ContainerType
    /\ NoOp \in OpType /\ NoHub \in HubType
<1> USE RegistryAssumption DEF RegistryAssumption
<1>1. NoEntry \in EntryType
  BY DEF NoEntry, EntryType, EntryState, Gens
<1>2. NoContainer \in ContainerType
  BY DEF NoContainer, ContainerType
<1>3. Gone \in ContainerType
  BY <1>2 DEF Gone, ContainerType
<1>4. NoOp \in OpType
  BY DEF NoOp, OpType, EntryState, Gens
<1>5. NoHub \in HubType
  BY DEF NoHub, HubType
<1> QED
  BY <1>1, <1>2, <1>3, <1>4, <1>5

\* a goroutine is put in a place of its operation
LEMMA SetOp ==
    ASSUME OpsOK, NEW o \in Goroutines, NEW r \in OpType, Placed(r), o = Sweeper => Sweeps(r),
           op' = [op EXCEPT ![o] = r]
    PROVE  OpsOK'
<1>1. op' \in [Goroutines -> OpType]
  BY DEF OpsOK
<1>2. OpPlaces'
  <2>1. \A p \in Goroutines : op'[p] = IF p = o THEN r ELSE op[p]
    BY DEF OpsOK
  <2>2. Sweeper \in Goroutines
    BY DEF Goroutines
  <2> QED
    BY <2>1, <2>2 DEF OpsOK, OpPlaces
<1> QED
  BY <1>1, <1>2 DEF OpsOK

\* a goroutine goes on to another place of its operation
LEMMA StepOp ==
    ASSUME OpsOK, NEW o \in Goroutines, NEW pc, Step(o, pc),
           \A r \in OpType : r.kind = op[o].kind /\ r.pc = pc /\ r.prev = op[o].prev => Placed(r),
           pc \in {"idle", "driver", "handle", "state", "target", "pause", "park", "mark", "stop",
                 "land", "settle", "release", "report", "check", "boot", "start", "resumed",
                 "complete", "inspect", "failed", "unresolved", "destroy", "remove", "restore"},
           o = Sweeper => pc \notin {"target", "mark"}
    PROVE  OpsOK'
<1> DEFINE r == [op[o] EXCEPT !.pc = pc]
<1>1. op[o] \in OpType
  BY DEF OpsOK
<1>3. r \in OpType /\ r.pc = pc /\ r.kind = op[o].kind /\ r.prev = op[o].prev
  BY <1>1 DEF OpType
<1>4. op' = [op EXCEPT ![o] = r]
  BY DEF Step
<1>5. o = Sweeper => Sweeps(r)
  BY <1>3 DEF OpsOK, OpPlaces, Sweeps
<1> HIDE DEF r
<1> QED
  BY <1>3, <1>4, <1>5, SetOp

\* a goroutine's operation ends
LEMMA EndsOp ==
    ASSUME OpsOK, NEW o \in Goroutines, Ends(o)
    PROVE  OpsOK'
  BY SetOp, NullTypes DEF Ends, NoOp, Placed, Sweeps

\* the initial state
LEMMA WellFormedInit == Init => WellFormed
<1> SUFFICES ASSUME Init PROVE WellFormed
  OBVIOUS
<1>1. TypeOK
  BY RegistryAssumption, NullTypes DEF Init, TypeOK, RegistryAssumption
<1>2. OpPlaces
  BY DEF Init, OpPlaces, NoOp, Placed, Sweeps, Goroutines
<1> QED
  BY <1>1, <1>2 DEF WellFormed

\* creates
LEMMA CreateWellFormed ==
    ASSUME WellFormed, NEW o \in Ops, Create(o)
    PROVE  WellFormed'
<1> USE RegistryAssumption DEF RegistryAssumption
<1>a. o \in Goroutines /\ o # Sweeper /\ OpsOK /\ op[o] \in OpType /\ entry \in EntryType /\ Placed(op[o])
  BY DEF Goroutines, OpsOK, WellFormed, TypeOK, OpPlaces
<1>1. CASE CreateClaim(o)
  <2> DEFINE r == [NoOp EXCEPT !.kind = "create", !.pc = "driver"]
  <2>1. r \in OpType /\ r.pc = "driver" /\ r.kind = "create"
    BY NullTypes DEF OpType, NoOp
  <2>2. op' = [op EXCEPT ![o] = r]
    BY <1>1 DEF CreateClaim
  <2>3. Placed(r)
    BY <2>1 DEF Placed
  <2> HIDE DEF r
  <2>4. OpsOK'
    BY <1>a, <2>1, <2>2, <2>3, SetOp
  <2>5. nextBoot' \in 0 .. MaxBoot
    BY <1>1 DEF CreateClaim, WellFormed, TypeOK
  <2>6. entry' \in EntryType
    BY <1>1, <2>5, NullTypes DEF CreateClaim, EntryType, EntryState
  <2> QED
    BY <1>1, <2>4, <2>5, <2>6 DEF CreateClaim, WellFormed, TypeOK, OpsOK
<1>2. CASE CreateDriver(o)
  <2>1. CASE Fault("driver") /\ entry' = NoEntry /\ Ends(o) /\ UNCHANGED ctr
    BY <1>a, <1>2, <2>1, NullTypes, EndsOp DEF CreateDriver, WellFormed, TypeOK, OpsOK, Fault
  <2>2. ASSUME NEW h \in Handles, ctr[h].state = "none",
               ctr' = [ctr EXCEPT ![h] = [@ EXCEPT !.state = "running", !.run = 1, !.child = "running"]],
               op' = [op EXCEPT ![o] = [@ EXCEPT !.pc = "handle", !.handle = h]],
               UNCHANGED <<entry, faults>>
        PROVE  WellFormed'
    <3> DEFINE c == [ctr[h] EXCEPT !.state = "running", !.run = 1, !.child = "running"]
               r == [op[o] EXCEPT !.pc = "handle", !.handle = h]
    <3>1. c \in ContainerType
      <4>1. ctr[h] \in ContainerType
        BY DEF WellFormed, TypeOK
      <4>2. 1 \in 0 .. MaxRun
        OBVIOUS
      <4> HIDE RegistryAssumption
      <4> QED
        BY <4>1, <4>2 DEF ContainerType
    <3>2. op[o].kind = "create"
      BY <1>a, <1>2 DEF CreateDriver, Placed
    <3>3. r \in OpType /\ r.pc = "handle" /\ r.kind = "create"
      BY <1>a, <3>2 DEF OpType
    <3>4. ctr' = [ctr EXCEPT ![h] = c] /\ op' = [op EXCEPT ![o] = r]
      BY <2>2
    <3>5. Placed(r)
      BY <3>3 DEF Placed
    <3> HIDE DEF c, r
    <3>6. OpsOK'
      BY <1>a, <3>3, <3>4, <3>5, SetOp
    <3>7. ctr' \in [Handles \cup {0} -> ContainerType]
      BY <3>1, <3>4 DEF WellFormed, TypeOK
    <3> QED
      BY <1>2, <2>2, <3>6, <3>7 DEF CreateDriver, WellFormed, TypeOK, OpsOK
  <2> QED
    BY <1>2, <2>1, <2>2 DEF CreateDriver
<1>3. CASE CreateHandle(o)
  <2>1. op[o].kind = "create"
    BY <1>a, <1>3 DEF CreateHandle, Placed
  <2>2. OpsOK'
    BY <1>a, <1>3, <2>1, StepOp DEF CreateHandle, Placed
  <2>3. op[o].handle \in Handles \cup {0}
    BY <1>a DEF OpType
  <2>4. entry' \in EntryType
    BY <1>a, <1>3, <2>3, EntryUpdate DEF CreateHandle
  <2> QED
    BY <1>3, <2>2, <2>4 DEF CreateHandle, WellFormed, TypeOK, OpsOK
<1>4. CASE CreateState(o)
  <2>1. entry' \in EntryType
    BY <1>a, <1>4, SectionTypes DEF CreateState, EntryState
  <2> QED
    BY <1>a, <1>4, <2>1, EndsOp DEF CreateState, WellFormed, TypeOK, OpsOK
<1> QED
  BY <1>1, <1>2, <1>3, <1>4 DEF Create

\* the opening of an operation and the reading of its target
LEMMA BeginWellFormed ==
    ASSUME WellFormed, NEW o \in Ops, Begin(o) \/ Target(o)
    PROVE  WellFormed'
<1> USE RegistryAssumption DEF RegistryAssumption
<1>a. o \in Goroutines /\ o # Sweeper /\ OpsOK /\ op[o] \in OpType /\ entry \in EntryType /\ Placed(op[o])
  BY DEF Goroutines, OpsOK, WellFormed, TypeOK, OpPlaces
<1>1. CASE Begin(o)
  <2>1. PICK k \in {<<"warm", 0>>, <<"cold", 0>>} \cup {<<"resume", g>> : g \in Gens} :
               op' = [op EXCEPT ![o] = [NoOp EXCEPT !.kind = k[1], !.pc = "target", !.gen = k[2]]]
    BY <1>1 DEF Begin
  <2> DEFINE r == [NoOp EXCEPT !.kind = k[1], !.pc = "target", !.gen = k[2]]
  <2>2. k[1] \in {"warm", "cold", "resume"} /\ k[2] \in Gens
    BY DEF Gens
  <2>3. r \in OpType /\ r.kind = k[1] /\ r.pc = "target"
    BY <2>2, NullTypes DEF OpType, NoOp
  <2>4. Placed(r)
    BY <2>2, <2>3 DEF Placed
  <2> HIDE DEF r
  <2>5. OpsOK'
    BY <1>a, <2>1, <2>3, <2>4, SetOp DEF r
  <2>6. entry' \in EntryType
    <3>1. entry.ops + 1 \in Nat
      BY <1>a DEF EntryType
    <3> QED
      BY <1>1, <1>a, <3>1, EntryUpdate DEF Begin
  <2> QED
    BY <1>1, <2>5, <2>6 DEF Begin, WellFormed, TypeOK, OpsOK
<1>2. CASE Target(o)
  <2>1. CASE Targetable
    <3> DEFINE r == [op[o] EXCEPT !.pc = FirstStep[op[o].kind], !.handle = entry.handle]
    <3>1. \/ op[o].kind = "warm" /\ FirstStep[op[o].kind] = "pause"
          \/ op[o].kind = "cold" /\ FirstStep[op[o].kind] = "mark"
          \/ op[o].kind = "resume" /\ FirstStep[op[o].kind] = "check"
      BY <1>a, <1>2 DEF Target, Placed, FirstStep
    <3>2. entry.handle \in Handles \cup {0}
      BY <1>a DEF EntryType
    <3>3. r \in OpType /\ r.kind = op[o].kind /\ r.pc = FirstStep[op[o].kind]
      BY <1>a, <3>1, <3>2 DEF OpType
    <3>4. Placed(r)
      BY <3>1, <3>3 DEF Placed
    <3>5. op' = [op EXCEPT ![o] = r]
      BY <1>2, <2>1 DEF Target
    <3> HIDE DEF r
    <3>6. OpsOK'
      BY <1>a, <3>3, <3>4, <3>5, SetOp
    <3> QED
      BY <1>2, <2>1, <3>6 DEF Target, WellFormed, TypeOK, OpsOK
  <2>2. CASE ~Targetable
    <3>1. Ends(o) /\ entry' = EndOp(entry)
      BY <1>2, <2>2 DEF Target, Returns
    <3>2. entry' \in EntryType /\ OpsOK'
      BY <1>a, <3>1, SectionTypes, EndsOp
    <3> QED
      BY <1>2, <3>2 DEF Target, WellFormed, TypeOK, OpsOK
  <2> QED
    BY <2>1, <2>2
<1> QED
  BY <1>1, <1>2

\* a fault is recorded by its kind, and a driver's refusal is one of the driver
LEMMA FaultTypes ==
    ASSUME faults \subseteq {"driver", "restart"}
    PROVE  /\ \A k \in {"driver", "restart"} : Fault(k) => faults' \subseteq {"driver", "restart"}
           /\ \A c \in BOOLEAN : Refused(c) => faults' \subseteq {"driver", "restart"}
  BY DEF Fault, Refused

\* what the daemon may do to a container
LEMMA ContainerUpdate ==
    ASSUME NEW c \in ContainerType
    PROVE  /\ Stopped(c) \in ContainerType
           /\ \A s \in {"none", "running", "paused", "exited", "gone"} : [c EXCEPT !.state = s] \in ContainerType
           /\ [c EXCEPT !.stopping = TRUE] \in ContainerType
           /\ [c EXCEPT !.child = "exited"] \in ContainerType
           /\ c.run < MaxRun => Started(c) \in ContainerType
<1>1. Stopped(c) \in ContainerType
  BY DEF ContainerType, Stopped
<1>2. \A s \in {"none", "running", "paused", "exited", "gone"} : [c EXCEPT !.state = s] \in ContainerType
  BY DEF ContainerType
<1>3. [c EXCEPT !.stopping = TRUE] \in ContainerType /\ [c EXCEPT !.child = "exited"] \in ContainerType
  BY DEF ContainerType
<1>4. ASSUME c.run < MaxRun PROVE Started(c) \in ContainerType
  <2>1. c.run + 1 \in 0 .. MaxRun
    BY <1>4, RegistryAssumption DEF ContainerType, RegistryAssumption
  <2> QED
    BY <2>1 DEF ContainerType, Started
<1> QED
  BY <1>1, <1>2, <1>3, <1>4

\* one container changes
LEMMA SetContainer ==
    ASSUME WellFormed, NEW h \in Handles \cup {0}, NEW c \in ContainerType, ctr' = [ctr EXCEPT ![h] = c]
    PROVE  ctr' \in [Handles \cup {0} -> ContainerType]
  BY DEF WellFormed, TypeOK

\* the run of a stop, the sweep's or a cold suspend's
LEMMA StopRunsWellFormed ==
    ASSUME WellFormed, NEW o \in Goroutines, op[o].pc = "report" => op[o].kind = "cold", StopRuns(o)
    PROVE  WellFormed'
<1>a. OpsOK /\ op[o] \in OpType /\ entry \in EntryType /\ Placed(op[o])
  BY DEF OpsOK, WellFormed, TypeOK, OpPlaces
<1>b. op[o].kind = "cold"
  BY <1>a DEF StopRuns, Stop, Settle, StopLands, StopReported, Placed
<1>c. op[o].handle \in Handles \cup {0} /\ ctr[op[o].handle] \in ContainerType
  BY <1>a DEF OpType, WellFormed, TypeOK
<1>d. \A pc \in {"land", "settle", "release", "report"} : Step(o, pc) => OpsOK'
  BY <1>a, <1>b, StepOp DEF Placed
<1>1. CASE Stop(o)
  <2>1. OpsOK'
    BY <1>1, <1>d DEF Stop
  <2>2. ctr' \in [Handles \cup {0} -> ContainerType]
    <3>1. CASE ctr' = [ctr EXCEPT ![op[o].handle] = Stopped(@)]
      BY <3>1, <1>c, ContainerUpdate, SetContainer
    <3>2. CASE ctr' = [ctr EXCEPT ![op[o].handle].stopping = TRUE]
      <4>1. ctr' = [ctr EXCEPT ![op[o].handle] = [ctr[op[o].handle] EXCEPT !.stopping = TRUE]]
        BY <3>2
      <4> QED
        BY <4>1, <1>c, ContainerUpdate, SetContainer
    <3>3. CASE UNCHANGED ctr
      BY <3>3 DEF WellFormed, TypeOK
    <3> QED
      BY <1>1, <3>1, <3>2, <3>3 DEF Stop
  <2>3. faults' \subseteq {"driver", "restart"}
    BY <1>1 DEF Stop, Fault, Refused, WellFormed, TypeOK
  <2> QED
    BY <1>1, <2>1, <2>2, <2>3 DEF Stop, WellFormed, TypeOK, OpsOK
<1>2. CASE Settle(o)
  <2>1. OpsOK'
    BY <1>2, <1>d DEF Settle
  <2>2. faults' \subseteq {"driver", "restart"}
    BY <1>2 DEF Settle, Fault, WellFormed, TypeOK
  <2> QED
    BY <1>2, <2>1, <2>2 DEF Settle, WellFormed, TypeOK, OpsOK
<1>3. CASE StopLands(o)
  <2>1. OpsOK'
    BY <1>3, <1>d DEF StopLands
  <2>2. entry' \in EntryType
    BY <1>a, <1>3, SectionTypes DEF StopLands, EntryState
  <2> QED
    BY <1>3, <2>1, <2>2 DEF StopLands, WellFormed, TypeOK, OpsOK
<1>4. CASE StopReported(o)
  <2>1. Ends(o) /\ entry' \in {EndStop(entry), EndOp(EndStop(entry))}
    BY <1>4 DEF StopReported, Returns
  <2>2. OpsOK' /\ entry' \in EntryType
    BY <1>a, <2>1, SectionTypes, EndsOp
  <2> QED
    BY <1>4, <2>2 DEF StopReported, WellFormed, TypeOK, OpsOK
<1> QED
  BY <1>1, <1>2, <1>3, <1>4 DEF StopRuns

\* warm and cold suspends
LEMMA SuspendWellFormed ==
    ASSUME WellFormed, NEW o \in Ops, Suspend(o)
    PROVE  WellFormed'
<1>a. o \in Goroutines /\ o # Sweeper /\ OpsOK /\ op[o] \in OpType /\ entry \in EntryType /\ Placed(op[o])
  BY RegistryAssumption DEF RegistryAssumption, Goroutines, OpsOK, WellFormed, TypeOK, OpPlaces
<1>c. op[o].handle \in Handles \cup {0} /\ ctr[op[o].handle] \in ContainerType
  BY <1>a DEF OpType, WellFormed, TypeOK
<1>1. CASE WarmPause(o)
  <2>1. op[o].kind = "warm"
    BY <1>1, <1>a DEF WarmPause, Placed
  <2>2. CASE ctr' = [ctr EXCEPT ![op[o].handle].state = "paused"] /\ Step(o, "park") /\ UNCHANGED <<entry, faults>>
    <3>1. ctr' = [ctr EXCEPT ![op[o].handle] = [ctr[op[o].handle] EXCEPT !.state = "paused"]]
      BY <2>2
    <3>2. ctr' \in [Handles \cup {0} -> ContainerType]
      BY <3>1, <1>c, ContainerUpdate, SetContainer
    <3>3. OpsOK'
      BY <1>a, <2>1, <2>2, StepOp DEF Placed
    <3> QED
      BY <1>1, <2>2, <3>2, <3>3 DEF WarmPause, WellFormed, TypeOK, OpsOK
  <2>3. CASE Refused(ctr[op[o].handle].state # "running") /\ Returns(o, entry) /\ UNCHANGED ctr
    <3>1. OpsOK' /\ entry' \in EntryType
      BY <1>a, <2>3, SectionTypes, EndsOp DEF Returns
    <3>2. faults' \subseteq {"driver", "restart"}
      BY <2>3 DEF Fault, Refused, WellFormed, TypeOK
    <3> QED
      BY <1>1, <2>3, <3>1, <3>2 DEF WarmPause, WellFormed, TypeOK, OpsOK
  <2> QED
    BY <1>1, <2>2, <2>3 DEF WarmPause
<1>2. CASE WarmPark(o)
  <2>1. OpsOK' /\ entry' \in EntryType
    <3>1. SetState(entry, "suspended") \in EntryType
      BY <1>a, SectionTypes DEF EntryState
    <3> QED
      BY <1>a, <1>2, <3>1, SectionTypes, EndsOp DEF WarmPark, Returns
  <2> QED
    BY <1>2, <2>1 DEF WarmPark, WellFormed, TypeOK, OpsOK
<1>3. CASE ColdMark(o)
  <2>1. OpsOK'
    BY <1>a, <1>3, StepOp DEF ColdMark, Placed
  <2>2. entry' \in EntryType
    <3>1. entry.stops + 1 \in Nat /\ entry.state \in EntryState
      BY <1>a DEF EntryType
    <3>2. (IF entry.state = "destroying" THEN entry.state ELSE "suspending") \in EntryState
      BY <3>1 DEF EntryState
    <3> QED
      BY <1>3, <1>a, <3>1, <3>2 DEF ColdMark, EntryType
  <2> QED
    BY <1>3, <2>1, <2>2 DEF ColdMark, WellFormed, TypeOK, OpsOK
<1>4. CASE StopRuns(o)
  BY <1>a, <1>4, StopRunsWellFormed DEF Placed
<1> QED
  BY <1>1, <1>2, <1>3, <1>4 DEF Suspend

\* the sweep's claim
LEMMA SweepWellFormed ==
    ASSUME WellFormed, SweepClaim
    PROVE  WellFormed'
<1> DEFINE r == [NoOp EXCEPT !.kind = "cold", !.pc = "stop", !.handle = entry.handle]
<1>1. Sweeper \in Goroutines /\ OpsOK /\ entry \in EntryType
  BY DEF Goroutines, OpsOK, WellFormed, TypeOK
<1>2. entry.handle \in Handles \cup {0} /\ entry.stops + 1 \in Nat
  BY <1>1 DEF EntryType
<1>3. r \in OpType /\ r.kind = "cold" /\ r.pc = "stop"
  BY <1>2, NullTypes DEF OpType, NoOp
<1>4. Placed(r) /\ Sweeps(r)
  BY <1>3 DEF Placed, Sweeps
<1>5. op' = [op EXCEPT ![Sweeper] = r]
  BY DEF SweepClaim
<1> HIDE DEF r
<1>6. OpsOK'
  BY <1>1, <1>3, <1>4, <1>5, SetOp
<1>7. entry' \in EntryType
  BY <1>1, <1>2 DEF SweepClaim, EntryType, EntryState
<1> QED
  BY <1>6, <1>7 DEF SweepClaim, WellFormed, TypeOK, OpsOK

\* resumes
LEMMA ResumeWellFormed ==
    ASSUME WellFormed, NEW o \in Ops, Resume(o)
    PROVE  WellFormed'
<1>a. o \in Goroutines /\ o # Sweeper /\ OpsOK /\ op[o] \in OpType /\ entry \in EntryType /\ Placed(op[o])
  BY RegistryAssumption DEF RegistryAssumption, Goroutines, OpsOK, WellFormed, TypeOK, OpPlaces
<1>b. op[o].kind = "resume"
  BY <1>a DEF Placed, Resume, ResumeCheck, ResumeDriver, ResumeStart, ResumeDone, ResumeComplete, ResumeInspect,
        ResumeFailed
<1>c. op[o].handle \in Handles \cup {0} /\ ctr[op[o].handle] \in ContainerType
  BY <1>a DEF OpType, WellFormed, TypeOK
<1>d. \A pc \in {"boot", "start", "inspect", "failed", "unresolved"} : Step(o, pc) => OpsOK'
  BY <1>a, <1>b, StepOp DEF Placed
<1>e. \A e \in EntryType : Returns(o, e) => OpsOK' /\ entry' \in EntryType
  BY <1>a, SectionTypes, EndsOp DEF Returns
<1>f. \A b \in BOOLEAN : Booted(o, b) => OpsOK'
  <2> SUFFICES ASSUME NEW b \in BOOLEAN, Booted(o, b) PROVE OpsOK'
    OBVIOUS
  <2> DEFINE r == [op[o] EXCEPT !.restarted = b,
                        !.pc = IF op[o].gen = 0 THEN "resumed" ELSE IF b THEN "complete" ELSE "inspect"]
  <2>1. r \in OpType /\ r.kind = "resume" /\ r.pc \in {"resumed", "complete", "inspect"}
    BY <1>a, <1>b DEF OpType
  <2>2. op' = [op EXCEPT ![o] = r]
    BY DEF Booted
  <2>3. Placed(r)
    BY <2>1 DEF Placed
  <2> HIDE DEF r
  <2> QED
    BY <1>a, <2>1, <2>2, <2>3, SetOp
<1>g. BootError(o) => OpsOK' /\ entry' \in EntryType
  BY <1>a, <1>d, <1>e DEF BootError
<1>h. nextBoot \in 0 .. MaxBoot /\ MaxBoot \in Nat
  BY RegistryAssumption DEF WellFormed, TypeOK, RegistryAssumption
<1>1. CASE ResumeCheck(o)
  <2>1. CASE Returns(o, entry) /\ UNCHANGED <<nextBoot, hub, frames>>
    BY <1>1, <1>a, <1>e, <2>1 DEF ResumeCheck, WellFormed, TypeOK, OpsOK
  <2>2. CASE Step(o, "boot") /\ UNCHANGED <<entry, nextBoot, hub, frames>>
    BY <1>1, <1>d, <2>2 DEF ResumeCheck, WellFormed, TypeOK, OpsOK
  <2>3. CASE /\ nextBoot < MaxBoot
             /\ entry' = [entry EXCEPT !.hub = 0, !.gen = op[o].gen, !.pending = TRUE, !.state = "resuming",
                                       !.boot = nextBoot + 1]
             /\ nextBoot' = nextBoot + 1
             /\ hub' = CloseHub(entry.hub)
             /\ op' = [op EXCEPT ![o] = [@ EXCEPT !.pc = "boot", !.boot = nextBoot + 1]]
    <3> DEFINE r == [op[o] EXCEPT !.pc = "boot", !.boot = nextBoot + 1]
    <3>1. nextBoot + 1 \in 0 .. MaxBoot /\ op[o].gen \in Gens
      BY <1>a, <1>h, <2>3 DEF OpType
    <3>2. r \in OpType /\ r.kind = "resume" /\ r.pc = "boot"
      BY <1>a, <1>b, <3>1 DEF OpType
    <3>3. Placed(r)
      BY <3>2 DEF Placed
    <3>4. op' = [op EXCEPT ![o] = r]
      BY <2>3
    <3> HIDE DEF r
    <3>5. OpsOK'
      BY <1>a, <3>2, <3>3, <3>4, SetOp
    <3>6. entry' \in EntryType
      BY <1>a, <2>3, <3>1 DEF EntryType, EntryState
    <3>7. hub' \in [Hubs -> HubType]
      BY <2>3, NullTypes DEF CloseHub, WellFormed, TypeOK, HubType
    <3> QED
      BY <1>1, <2>3, <3>1, <3>5, <3>6, <3>7 DEF ResumeCheck, WellFormed, TypeOK, OpsOK
  <2> QED
    BY <1>1, <2>1, <2>2, <2>3 DEF ResumeCheck
<1>2. CASE ResumeDriver(o)
  <2>1. OpsOK' /\ entry' \in EntryType
    BY <1>2, <1>a, <1>d, <1>f, <1>g DEF ResumeDriver
  <2>2. ctr' \in [Handles \cup {0} -> ContainerType]
    <3>1. CASE ctr' = [ctr EXCEPT ![op[o].handle].state = "running"]
      <4>1. ctr' = [ctr EXCEPT ![op[o].handle] = [ctr[op[o].handle] EXCEPT !.state = "running"]]
        BY <3>1
      <4> QED
        BY <4>1, <1>c, ContainerUpdate, SetContainer
    <3>2. CASE UNCHANGED ctr
      BY <3>2 DEF WellFormed, TypeOK
    <3> QED
      BY <1>2, <3>1, <3>2 DEF ResumeDriver
  <2>3. faults' \subseteq {"driver", "restart"}
    BY <1>2 DEF ResumeDriver, Fault, Refused, WellFormed, TypeOK
  <2> QED
    BY <1>2, <2>1, <2>2, <2>3 DEF ResumeDriver, WellFormed, TypeOK, OpsOK
<1>3. CASE ResumeStart(o)
  <2>1. OpsOK' /\ entry' \in EntryType
    BY <1>3, <1>a, <1>d, <1>f, <1>g DEF ResumeStart
  <2>2. ctr' \in [Handles \cup {0} -> ContainerType]
    <3>1. CASE ctr[op[o].handle].run < MaxRun /\ ctr' = [ctr EXCEPT ![op[o].handle] = Started(@)]
      BY <3>1, <1>c, ContainerUpdate, SetContainer
    <3>2. CASE UNCHANGED ctr
      BY <3>2 DEF WellFormed, TypeOK
    <3> QED
      BY <1>3, <3>1, <3>2 DEF ResumeStart
  <2>3. faults' \subseteq {"driver", "restart"}
    BY <1>3 DEF ResumeStart, Fault, Refused, WellFormed, TypeOK
  <2> QED
    BY <1>3, <2>1, <2>2, <2>3 DEF ResumeStart, WellFormed, TypeOK, OpsOK
<1>4. CASE ResumeDone(o)
  <2> DEFINE opens == Held /\ op[o].restarted /\ entry.state # "running" /\ ~entry.pending
             e == IF Held THEN Resumed(entry, op[o].restarted, nextBoot + 1) ELSE entry
  <2>1. nextBoot' \in 0 .. MaxBoot /\ (opens => nextBoot + 1 \in 0 .. MaxBoot)
    BY <1>4, <1>h DEF ResumeDone
  <2>2. op[o].restarted \in BOOLEAN /\ entry.pending \in BOOLEAN
    BY <1>a DEF OpType, EntryType
  <2>3. e \in EntryType
    <3>1. CASE ~Held
      BY <3>1, <1>a
    <3>2. CASE Held /\ op[o].restarted /\ entry.state # "running"
      <4>1. (IF entry.pending THEN entry.boot ELSE nextBoot + 1) \in 0 .. MaxBoot
        BY <1>a, <2>1, <2>2, <3>2 DEF EntryType
      <4> QED
        BY <4>1, <1>a, <3>2 DEF Resumed, EntryType, EntryState
    <3>3. CASE Held /\ ~(op[o].restarted /\ entry.state # "running")
      BY <3>3, <1>a, EntryUpdate DEF Resumed, EntryState
    <3> QED
      BY <3>1, <3>2, <3>3
  <2>4. OpsOK' /\ entry' \in EntryType
    BY <1>4, <1>e, <2>3 DEF ResumeDone
  <2> QED
    BY <1>4, <2>1, <2>4 DEF ResumeDone, WellFormed, TypeOK, OpsOK
<1>5. CASE ResumeComplete(o)
  <2>1. [entry EXCEPT !.pending = FALSE] \in EntryType
    BY <1>a, EntryUpdate
  <2>2. ASSUME entry.pending PROVE Resumed(entry, TRUE, 0) \in EntryType
    BY <1>a, <2>2 DEF Resumed, EntryType, EntryState
  <2>3. OpsOK' /\ entry' \in EntryType
    BY <1>5, <1>a, <1>e, <2>1, <2>2 DEF ResumeComplete
  <2> QED
    BY <1>5, <2>3 DEF ResumeComplete, WellFormed, TypeOK, OpsOK
<1>6. CASE ResumeInspect(o)
  <2>1. OpsOK'
    BY <1>6, <1>d DEF ResumeInspect
  <2>2. faults' \subseteq {"driver", "restart"}
    BY <1>6 DEF ResumeInspect, Fault, Refused, WellFormed, TypeOK
  <2> QED
    BY <1>6, <2>1, <2>2 DEF ResumeInspect, WellFormed, TypeOK, OpsOK
<1>7. CASE ResumeFailed(o)
  <2> DEFINE s == IF entry.state = "resuming" /\ op[o].pc = "failed" THEN "suspended" ELSE entry.state
  <2>1. s \in EntryState
    BY <1>a DEF EntryType, EntryState
  <2>2. [entry EXCEPT !.pending = FALSE, !.state = s] \in EntryType
    BY <1>a, <2>1 DEF EntryType
  <2>3. OpsOK' /\ entry' \in EntryType
    BY <1>7, <1>a, <1>e, <2>2 DEF ResumeFailed
  <2> QED
    BY <1>7, <2>3 DEF ResumeFailed, WellFormed, TypeOK, OpsOK
<1> QED
  BY <1>1, <1>2, <1>3, <1>4, <1>5, <1>6, <1>7 DEF Resume

\* deletes
LEMMA DeleteWellFormed ==
    ASSUME WellFormed, NEW o \in Ops, Delete(o)
    PROVE  WellFormed'
<1>a. o \in Goroutines /\ o # Sweeper /\ OpsOK /\ op[o] \in OpType /\ entry \in EntryType /\ Placed(op[o])
  BY RegistryAssumption DEF RegistryAssumption, Goroutines, OpsOK, WellFormed, TypeOK, OpPlaces
<1>c. op[o].handle \in Handles \cup {0} /\ op[o].prev \in EntryState
  BY <1>a DEF OpType
<1>1. CASE DeleteTarget(o)
  <2> DEFINE r == [NoOp EXCEPT !.kind = "delete", !.pc = "mark", !.handle = entry.handle, !.prev = entry.state]
  <2>1. entry.handle \in Handles \cup {0} /\ entry.state \in EntryState
    BY <1>a DEF EntryType
  <2>2. r \in OpType /\ r.kind = "delete" /\ r.pc = "mark" /\ r.prev # "none"
    BY <1>1, <2>1, NullTypes DEF OpType, NoOp, DeleteTarget, Targetable, Held
  <2>3. Placed(r)
    BY <2>2 DEF Placed
  <2>4. op' = [op EXCEPT ![o] = r]
    BY <1>1 DEF DeleteTarget
  <2> HIDE DEF r
  <2>5. OpsOK'
    BY <1>a, <2>2, <2>3, <2>4, SetOp
  <2> QED
    BY <1>1, <2>5 DEF DeleteTarget, WellFormed, TypeOK, OpsOK
<1>2. CASE DeleteMark(o)
  <2>1. OpsOK'
    BY <1>a, <1>2, StepOp DEF DeleteMark, Placed
  <2>2. entry' \in EntryType
    BY <1>a, <1>2, SectionTypes DEF DeleteMark, EntryState
  <2>3. hub' \in [Hubs -> HubType]
    BY <1>2, NullTypes DEF DeleteMark, CloseHub, WellFormed, TypeOK, HubType
  <2> QED
    BY <1>2, <2>1, <2>2, <2>3 DEF DeleteMark, WellFormed, TypeOK, OpsOK
<1>3. CASE DeleteDestroy(o)
  <2>1. op[o].kind = "delete"
    BY <1>a, <1>3 DEF DeleteDestroy, Placed
  <2>2. OpsOK'
    BY <1>a, <1>3, <2>1, StepOp DEF DeleteDestroy, Placed
  <2>3. ctr' \in [Handles \cup {0} -> ContainerType]
    BY <1>3, <1>c, NullTypes, SetContainer DEF DeleteDestroy, WellFormed, TypeOK
  <2>4. faults' \subseteq {"driver", "restart"}
    BY <1>3 DEF DeleteDestroy, Fault, WellFormed, TypeOK
  <2> QED
    BY <1>3, <2>2, <2>3, <2>4 DEF DeleteDestroy, WellFormed, TypeOK, OpsOK
<1>4. CASE DeleteDone(o)
  <2>1. entry' \in EntryType
    BY <1>a, <1>c, <1>4, EntryUpdate, NullTypes DEF DeleteDone
  <2>2. OpsOK'
    BY <1>a, <1>4, EndsOp DEF DeleteDone
  <2> QED
    BY <1>4, <2>1, <2>2 DEF DeleteDone, WellFormed, TypeOK, OpsOK
<1> QED
  BY <1>1, <1>2, <1>3, <1>4 DEF Delete

\* a sandbox connection
LEMMA ConnWellFormed ==
    ASSUME WellFormed, NEW n \in Hubs, Conn(n)
    PROVE  WellFormed'
<1>a. hub[n] \in HubType /\ entry \in EntryType
  BY DEF WellFormed, TypeOK
<1>b. \A pc \in {"live", "inspect", "remove", "destroy"} : [hub EXCEPT ![n].pc = pc] \in [Hubs -> HubType]
  BY DEF WellFormed, TypeOK, HubType
<1>c. [hub EXCEPT ![n] = NoHub] \in [Hubs -> HubType]
  BY NullTypes DEF WellFormed, TypeOK
<1>1. CASE Install(n)
  <2>1. entry' \in EntryType
    BY <1>1, <1>a, EntryUpdate DEF Install
  <2>2. hub' \in [Hubs -> HubType]
    BY <1>1, <1>b, <1>c DEF Install, HubEnds
  <2> QED
    BY <1>1, <2>1, <2>2 DEF Install, WellFormed, TypeOK, OpPlaces
<1>2. CASE LoseConn(n)
  <2>1. hub' \in [Hubs -> HubType]
    BY <1>2, NullTypes DEF LoseConn, CloseHub, WellFormed, TypeOK, HubType
  <2> QED
    BY <1>2, <2>1 DEF LoseConn, WellFormed, TypeOK, OpPlaces
<1>3. CASE ReadExit(n)
  <2>1. hub[n].boot \in 0 .. MaxBoot
    BY <1>a DEF HubType
  <2> QED
    BY <1>3, <2>1 DEF ReadExit, WellFormed, TypeOK, OpPlaces
<1>4. ASSUME NEW h \in Handles, Dial(n, h) PROVE WellFormed'
  <2>1. ctr[h].run \in 0 .. MaxRun /\ entry.boot \in 0 .. MaxBoot
    BY <1>a DEF WellFormed, TypeOK, ContainerType, EntryType
  <2>2. [pc |-> "dialing", handle |-> h, run |-> ctr[h].run, boot |-> entry.boot, up |-> TRUE] \in HubType
    BY <2>1 DEF HubType
  <2>3. hub' \in [Hubs -> HubType]
    BY <1>4, <2>2 DEF Dial, WellFormed, TypeOK
  <2> QED
    BY <1>4, <2>3 DEF Dial, WellFormed, TypeOK, OpPlaces
<1> QED
  BY <1>1, <1>2, <1>3, <1>4 DEF Conn

\* the monitor of a connection
LEMMA MonitorWellFormed ==
    ASSUME WellFormed, NEW n \in Hubs, Monitor(n)
    PROVE  WellFormed'
<1>a. hub[n] \in HubType /\ entry \in EntryType /\ entry.handle \in Handles \cup {0}
  BY DEF WellFormed, TypeOK, EntryType
<1>b. \A pc \in {"live", "inspect", "remove", "destroy"} : [hub EXCEPT ![n].pc = pc] \in [Hubs -> HubType]
  BY DEF WellFormed, TypeOK, HubType
<1>c. [hub EXCEPT ![n] = NoHub] \in [Hubs -> HubType]
  BY NullTypes DEF WellFormed, TypeOK
<1>1. CASE HubDied(n)
  <2>1. entry' \in EntryType
    BY <1>1, <1>a DEF HubDied, EntryType, EntryState
  <2>2. [NoHub EXCEPT !.pc = "inspect", !.handle = entry.handle] \in HubType
    BY <1>a, NullTypes DEF HubType
  <2>3. hub' \in [Hubs -> HubType]
    BY <1>1, <1>c, <2>2 DEF HubDied, HubEnds, WellFormed, TypeOK
  <2> QED
    BY <1>1, <2>1, <2>3 DEF HubDied, WellFormed, TypeOK, OpPlaces
<1>2. CASE HubInspect(n)
  <2>1. hub' \in [Hubs -> HubType]
    BY <1>2, <1>b, <1>c DEF HubInspect, HubEnds
  <2>2. faults' \subseteq {"driver", "restart"}
    BY <1>2 DEF HubInspect, Fault, Refused, WellFormed, TypeOK
  <2> QED
    BY <1>2, <2>1, <2>2 DEF HubInspect, WellFormed, TypeOK, OpPlaces
<1>3. CASE HubRemove(n)
  <2>1. hub' \in [Hubs -> HubType] /\ entry' \in EntryType
    BY <1>3, <1>a, <1>b, <1>c, NullTypes DEF HubRemove, HubEnds
  <2> QED
    BY <1>3, <2>1 DEF HubRemove, WellFormed, TypeOK, OpPlaces
<1>4. CASE HubDestroy(n)
  <2>1. hub[n].handle \in Handles \cup {0}
    BY <1>a DEF HubType
  <2>2. ctr' \in [Handles \cup {0} -> ContainerType]
    BY <1>4, <2>1, NullTypes, SetContainer DEF HubDestroy
  <2> QED
    BY <1>4, <1>c, <2>2 DEF HubDestroy, HubEnds, WellFormed, TypeOK, OpPlaces
<1> QED
  BY <1>1, <1>2, <1>3, <1>4 DEF Monitor

\* what containers do by themselves, and the frames of their exits
LEMMA ContainerWellFormed ==
    ASSUME WellFormed,
           \/ \E h \in Handles : ChildExits(h) \/ DaemonStops(h) \/ Crash(h)
           \/ \E b \in frames : RouteExit(b)
    PROVE  WellFormed'
<1>1. ASSUME NEW h \in Handles, ChildExits(h) \/ DaemonStops(h) \/ Crash(h) PROVE WellFormed'
  <2>1. ctr[h] \in ContainerType
    BY DEF WellFormed, TypeOK
  <2>2. ctr' = [ctr EXCEPT ![h] = Stopped(ctr[h])] \/ ctr' = [ctr EXCEPT ![h] = [ctr[h] EXCEPT !.child = "exited"]]
    BY <1>1 DEF ChildExits, DaemonStops, Crash
  <2>3. ctr' \in [Handles \cup {0} -> ContainerType]
    BY <2>1, <2>2, ContainerUpdate, SetContainer
  <2>4. faults' \subseteq {"driver", "restart"}
    BY <1>1 DEF ChildExits, DaemonStops, Crash, Fault, WellFormed, TypeOK
  <2> QED
    BY <1>1, <2>3, <2>4 DEF ChildExits, DaemonStops, Crash, WellFormed, TypeOK, OpPlaces
<1>2. ASSUME NEW b \in frames, RouteExit(b) PROVE WellFormed'
  <2>1. entry' \in EntryType
    BY <1>2, EntryUpdate DEF RouteExit, WellFormed, TypeOK
  <2> QED
    BY <1>2, <2>1 DEF RouteExit, WellFormed, TypeOK, OpPlaces
<1> QED
  BY <1>1, <1>2

\* the runner's restart: the boots minted for the containers it finds fit the counter
LEMMA RestartWellFormed ==
    ASSUME WellFormed, Restart
    PROVE  WellFormed'
<1> DEFINE kept == {h \in Handles : ctr[h].state \in {"running", "paused", "exited"}}
<1>1. IsFiniteSet(kept) /\ Cardinality(kept) \in Nat /\ Cardinality(kept) <= Cardinality(Handles)
  BY RegistryAssumption, FS_Subset, FS_CardinalityType DEF RegistryAssumption
<1>2. Cardinality(Handles) \in Nat
  BY RegistryAssumption, FS_CardinalityType DEF RegistryAssumption
<1>3. Cardinality(kept) \in 0 .. MaxBoot /\ 0 \in 0 .. MaxBoot
  BY <1>1, <1>2, RegistryAssumption DEF RegistryAssumption
<1>4. nextBoot' \in 0 .. MaxBoot
  BY <1>3 DEF Restart
<1>5. entry' \in EntryType
  <2>1. CASE entry' = NoEntry
    BY <2>1, NullTypes
  <2>2. ASSUME NEW h \in kept,
               entry' = [NoEntry EXCEPT !.state = IF ctr[h].state = "running" THEN "running" ELSE "suspended",
                                        !.handle = h, !.boot = nextBoot']
        PROVE  entry' \in EntryType
    BY <1>4, <2>2, NullTypes DEF EntryType, EntryState
  <2> QED
    BY <2>1, <2>2 DEF Restart
<1>6. OpsOK'
  BY NullTypes DEF Restart, OpsOK, OpPlaces, Placed, Sweeps, NoOp, Goroutines
<1>7. hub' \in [Hubs -> HubType] /\ frames' = {} /\ UNCHANGED ctr /\ faults' \subseteq {"driver", "restart"}
  BY NullTypes DEF Restart, Fault, WellFormed, TypeOK
<1> QED
  BY <1>4, <1>5, <1>6, <1>7 DEF WellFormed, TypeOK, OpsOK

\* every step
LEMMA NextWellFormed ==
    ASSUME WellFormed, [Next]_vars
    PROVE  WellFormed'
<1>1. CASE \E o \in Ops : Create(o) \/ Begin(o) \/ Target(o) \/ Suspend(o) \/ Resume(o) \/ Delete(o)
  BY <1>1, CreateWellFormed, BeginWellFormed, SuspendWellFormed, ResumeWellFormed, DeleteWellFormed
<1>2. CASE SweepClaim
  BY <1>2, SweepWellFormed
<1>3. CASE StopRuns(Sweeper)
  <2>1. Sweeper \in Goroutines
    BY DEF Goroutines
  <2>2. op[Sweeper].pc = "report" => op[Sweeper].kind = "cold"
    BY <2>1 DEF WellFormed, OpPlaces, Placed
  <2> QED
    BY <1>3, <2>1, <2>2, StopRunsWellFormed
<1>4. CASE \E n \in Hubs : Conn(n) \/ Monitor(n)
  BY <1>4, ConnWellFormed, MonitorWellFormed
<1>5. CASE \/ \E h \in Handles : ChildExits(h) \/ DaemonStops(h) \/ Crash(h)
           \/ \E b \in frames : RouteExit(b)
  BY <1>5, ContainerWellFormed
<1>6. CASE Restart
  BY <1>6, RestartWellFormed
<1>7. CASE UNCHANGED vars
  BY <1>7 DEF vars, WellFormed, TypeOK, OpPlaces
<1> QED
  BY <1>1, <1>2, <1>3, <1>4, <1>5, <1>6, <1>7 DEF Next

\* Every goroutine stands in a place of its own operation.
LEMMA AlwaysWellFormed == Spec => []WellFormed
  BY WellFormedInit, NextWellFormed, PTL DEF Spec

\* The registry entry, the containers, goroutines and connections keep their
\* types, and every boot minted, over restarts too, fits the boot counter.
THEOREM TypeCorrect == Spec => []TypeOK
<1>1. WellFormed => TypeOK
  BY DEF WellFormed
<1> QED
  BY <1>1, AlwaysWellFormed, PTL

--------------------
\* The counts of operations and stops.

\* only the goroutine o moves
Alone(o) == \A p \in Goroutines \ {o} : op'[p] = op[p]

\* a count follows the goroutine's way into and out of the set it counts
Follows(in, out, n, m) ==
    \/ (in <=> out) /\ m = n
    \/ ~in /\ out /\ m = IF Held THEN n + 1 ELSE n
    \/ in /\ ~out /\ m = Less(n)

\* what a step of the goroutine o does to the counts: the entry goes or comes with
\* none, or each count follows the goroutine
Accounts(o) ==
    /\ Alone(o)
    /\ \/ /\ entry'.stops = 0 /\ entry'.ops = 0 /\ (Held' => ~Held)
          /\ o \in Stopping' <=> o \in Stopping
          /\ o \in Bracketed' <=> o \in Bracketed
       \/ /\ Held' <=> Held
          /\ Follows(o \in Stopping, o \in Stopping', entry.stops, entry'.stops)
          /\ Follows(o \in Bracketed, o \in Bracketed', entry.ops, entry'.ops)

\* a step that moves no goroutine: the entry goes, or keeps its counts
Idle ==
    /\ UNCHANGED op
    /\ \/ entry' = NoEntry
       \/ (Held' <=> Held) /\ entry'.stops = entry.stops /\ entry'.ops = entry.ops

\* the sizes of the counted sets are numbers
LEMMA CountTypes ==
    /\ IsFiniteSet(Stopping) /\ IsFiniteSet(Bracketed)
    /\ Cardinality(Stopping) \in Nat /\ Cardinality(Bracketed) \in Nat
<1>1. IsFiniteSet(Goroutines)
  BY RegistryAssumption, FS_AddElement DEF RegistryAssumption, Goroutines
<1>2. IsFiniteSet(Stopping) /\ IsFiniteSet(Bracketed)
  BY <1>1, RegistryAssumption, FS_Subset DEF Stopping, Bracketed, RegistryAssumption
<1> QED
  BY <1>2, FS_CardinalityType

\* a set that one member may enter or leave grows or shrinks by one
LEMMA OneMember ==
    ASSUME NEW S, NEW T, NEW o, IsFiniteSet(S), T = IF o \in T THEN S \cup {o} ELSE S \ {o}
    PROVE  Cardinality(T) = IF o \in S THEN IF o \in T THEN Cardinality(S) ELSE Cardinality(S) - 1
                                       ELSE IF o \in T THEN Cardinality(S) + 1 ELSE Cardinality(S)
<1>1. CASE o \in T
  BY <1>1, FS_AddElement
<1>2. CASE o \notin T
  BY <1>2, FS_RemoveElement
<1> QED
  BY <1>1, <1>2

\* a step of o alone changes the counted sets by o at most
LEMMA SetsFollow ==
    ASSUME NEW o \in Goroutines, Alone(o)
    PROVE  /\ Stopping' = IF o \in Stopping' THEN Stopping \cup {o} ELSE Stopping \ {o}
           /\ Bracketed' = IF o \in Bracketed' THEN Bracketed \cup {o} ELSE Bracketed \ {o}
  BY DEF Alone, Stopping, Bracketed, Goroutines

\* Less on numbers
LEMMA LessNat == \A n \in Nat : Less(n) = (IF n = 0 THEN 0 ELSE n - 1) /\ Less(n) \in Nat
  BY DEF Less

\* a member of a set makes it non-empty
LEMMA MemberCounts ==
    ASSUME NEW S, IsFiniteSet(S)
    PROVE  Cardinality(S) \in Nat /\ (Cardinality(S) = 0 <=> S = {})
  BY FS_CardinalityType, FS_EmptySet

\* the counts stay within their sets
LEMMA AccountsBound ==
    ASSUME WellFormed, CountsComeBack, NEW o \in Goroutines, Accounts(o)
    PROVE  CountsComeBack'
<1>1. entry.stops \in Nat /\ entry.ops \in Nat
  BY DEF WellFormed, TypeOK, EntryType
<1>2. /\ Cardinality(Stopping)' = IF o \in Stopping THEN IF o \in Stopping' THEN Cardinality(Stopping) ELSE Cardinality(Stopping) - 1
                                  ELSE IF o \in Stopping' THEN Cardinality(Stopping) + 1 ELSE Cardinality(Stopping)
      /\ Cardinality(Bracketed)' = IF o \in Bracketed THEN IF o \in Bracketed' THEN Cardinality(Bracketed) ELSE Cardinality(Bracketed) - 1
                                  ELSE IF o \in Bracketed' THEN Cardinality(Bracketed) + 1 ELSE Cardinality(Bracketed)
  BY CountTypes, OneMember, SetsFollow DEF Accounts
<1>3. Cardinality(Stopping) \in Nat /\ Cardinality(Bracketed) \in Nat
  BY CountTypes
<1>4. /\ o \in Stopping => Cardinality(Stopping) # 0
      /\ o \in Bracketed => Cardinality(Bracketed) # 0
  BY CountTypes, MemberCounts
<1>5. entry.stops <= Cardinality(Stopping) /\ entry.ops <= Cardinality(Bracketed)
  BY DEF CountsComeBack
<1>6. entry'.stops <= Cardinality(Stopping)'
  BY <1>1, <1>2, <1>3, <1>4, <1>5 DEF Accounts, Follows, Less
<1>7. entry'.ops <= Cardinality(Bracketed)'
  BY <1>1, <1>2, <1>3, <1>4, <1>5 DEF Accounts, Follows, Less
<1> QED
  BY <1>6, <1>7 DEF CountsComeBack

\* the counts of a held entry are the sizes of their sets
CountsExact == Held => entry.stops = Cardinality(Stopping) /\ entry.ops = Cardinality(Bracketed)

\* what a create anew leaves the counts exact: nothing of the earlier entry is in flight
QuietCreate == (~Held /\ Held') => (Stopping \cup Bracketed)' = {}

\* the counts stay exact
LEMMA AccountsExact ==
    ASSUME WellFormed, CountsExact, QuietCreate, NEW o \in Goroutines, Accounts(o)
    PROVE  CountsExact'
<1> SUFFICES ASSUME Held' PROVE entry'.stops = Cardinality(Stopping)' /\ entry'.ops = Cardinality(Bracketed)'
  BY DEF CountsExact
<1>1. CASE ~Held
  <2>1. Stopping' = {} /\ Bracketed' = {}
    BY <1>1 DEF QuietCreate
  <2>2. Cardinality(Stopping)' = 0 /\ Cardinality(Bracketed)' = 0
    BY <2>1, FS_EmptySet
  <2> QED
    BY <1>1, <2>2 DEF Accounts
<1>2. CASE Held
  <2>1. entry.stops \in Nat /\ entry.ops \in Nat
    BY DEF WellFormed, TypeOK, EntryType
  <2>2. /\ Cardinality(Stopping)' = IF o \in Stopping THEN IF o \in Stopping' THEN Cardinality(Stopping) ELSE Cardinality(Stopping) - 1
                                    ELSE IF o \in Stopping' THEN Cardinality(Stopping) + 1 ELSE Cardinality(Stopping)
        /\ Cardinality(Bracketed)' = IF o \in Bracketed THEN IF o \in Bracketed' THEN Cardinality(Bracketed) ELSE Cardinality(Bracketed) - 1
                                    ELSE IF o \in Bracketed' THEN Cardinality(Bracketed) + 1 ELSE Cardinality(Bracketed)
    BY CountTypes, OneMember, SetsFollow DEF Accounts
  <2>3. /\ o \in Stopping => Cardinality(Stopping) # 0
        /\ o \in Bracketed => Cardinality(Bracketed) # 0
    BY CountTypes, MemberCounts
  <2>4. entry.stops = Cardinality(Stopping) /\ entry.ops = Cardinality(Bracketed)
    BY <1>2 DEF CountsExact
  <2>5. entry'.stops = Cardinality(Stopping)'
    BY <1>2, <2>1, <2>2, <2>3, <2>4 DEF Accounts, Follows, Less
  <2>6. entry'.ops = Cardinality(Bracketed)'
    BY <1>2, <2>1, <2>2, <2>3, <2>4 DEF Accounts, Follows, Less
  <2> QED
    BY <2>5, <2>6
<1> QED
  BY <1>1, <1>2

\* membership of the counted sets, read off a goroutine's record
LEMMA Counted ==
    ASSUME NEW o \in Goroutines
    PROVE  /\ o \in Stopping <=> op[o].kind = "cold" /\ op[o].pc \in {"stop", "settle", "land", "release", "report"}
           /\ o \in Stopping' <=> op'[o].kind = "cold" /\ op'[o].pc \in {"stop", "settle", "land", "release", "report"}
           /\ o \in Bracketed <=> o \in Ops /\ op[o].kind \in {"warm", "cold", "resume"}
           /\ o \in Bracketed' <=> o \in Ops /\ op'[o].kind \in {"warm", "cold", "resume"}
  BY DEF Stopping, Bracketed, Goroutines

\* one goroutine's record is replaced
LEMMA MovesAlone ==
    ASSUME WellFormed, NEW o \in Goroutines
    PROVE  /\ \A pc : Step(o, pc) => Alone(o) /\ op'[o].kind = op[o].kind /\ op'[o].pc = pc
           /\ Ends(o) => Alone(o) /\ op'[o].kind = "none"
<1>1. op \in [Goroutines -> OpType]
  BY DEF WellFormed, TypeOK
<1>2. op[o] \in OpType
  BY <1>1
<1>4. ASSUME NEW pc, Step(o, pc) PROVE Alone(o) /\ op'[o].kind = op[o].kind /\ op'[o].pc = pc
  <2>1. op' = [op EXCEPT ![o] = [op[o] EXCEPT !.pc = pc]]
    BY <1>4 DEF Step
  <2>2. op'[o] = [op[o] EXCEPT !.pc = pc] /\ Alone(o)
    BY <2>1, <1>1 DEF Alone
  <2> QED
    BY <1>2, <2>2 DEF OpType
<1>5. Ends(o) => Alone(o) /\ op'[o].kind = "none"
  BY <1>1 DEF Ends, NoOp, Alone
<1> QED
  BY <1>4, <1>5

\* a step of o on which the entry keeps its counts, and o its brackets
LEMMA SteadyAccounts ==
    ASSUME NEW o \in Goroutines, Alone(o), Held' <=> Held,
           entry'.stops = entry.stops, entry'.ops = entry.ops,
           o \in Stopping' <=> o \in Stopping, o \in Bracketed' <=> o \in Bracketed
    PROVE  Accounts(o)
  BY DEF Accounts, Follows

\* a goroutine that stops nothing returns: its bracket closes
LEMMA ReturnsAccounts ==
    ASSUME WellFormed, NEW o \in Ops, o \in Bracketed, o \notin Stopping,
           NEW e \in EntryType, e.stops = entry.stops, e.ops = entry.ops, e.state # "none" <=> Held, Returns(o, e)
    PROVE  Accounts(o)
<1>1. o \in Goroutines
  BY DEF Goroutines
<1>2. Alone(o) /\ op'[o].kind = "none"
  BY <1>1, MovesAlone DEF Returns
<1>3. o \notin Stopping' /\ o \notin Bracketed'
  BY <1>1, <1>2, Counted
<1>4. entry'.stops = entry.stops /\ entry'.ops = Less(entry.ops) /\ (Held' <=> Held)
  BY DEF Returns, EndOp, EntryType, Held
<1> QED
  BY <1>2, <1>3, <1>4 DEF Accounts, Follows

\* creates open no bracket
LEMMA CreateAccounts ==
    ASSUME WellFormed, NEW o \in Ops, Create(o)
    PROVE  Accounts(o)
<1>a. o \in Goroutines /\ op \in [Goroutines -> OpType] /\ op[o] \in OpType /\ entry \in EntryType /\ Placed(op[o])
  BY DEF Goroutines, WellFormed, TypeOK, OpPlaces
<1>b. op[o].kind \in {"none", "create"}
  BY <1>a DEF Placed, Create, CreateClaim, CreateDriver, CreateHandle, CreateState
<1>c. o \notin Stopping /\ o \notin Bracketed
  BY <1>a, <1>b, Counted
<1>1. CASE CreateClaim(o)
  <2> DEFINE r == [NoOp EXCEPT !.kind = "create", !.pc = "driver"]
  <2>1. r.kind = "create"
    BY DEF NoOp
  <2>2. op' = [op EXCEPT ![o] = r]
    BY <1>1 DEF CreateClaim
  <2> HIDE DEF r
  <2>a. Alone(o) /\ op'[o] = r
    BY <1>a, <2>2 DEF Alone
  <2>3. Alone(o) /\ o \notin Stopping' /\ o \notin Bracketed'
    BY <1>a, <2>1, <2>a, Counted
  <2>4. entry'.stops = 0 /\ entry'.ops = 0 /\ ~Held
    BY <1>1 DEF CreateClaim, NoEntry
  <2> QED
    BY <1>c, <2>3, <2>4 DEF Accounts
<1>2. CASE CreateDriver(o)
  <2>1. CASE entry' = NoEntry /\ Ends(o)
    <3>1. Alone(o) /\ o \notin Stopping' /\ o \notin Bracketed'
      BY <1>a, <2>1, MovesAlone, Counted
    <3>2. entry'.stops = 0 /\ entry'.ops = 0 /\ ~Held'
      BY <2>1 DEF NoEntry, Held
    <3> QED
      BY <1>c, <3>1, <3>2 DEF Accounts
  <2>2. ASSUME NEW h \in Handles, UNCHANGED entry,
               op' = [op EXCEPT ![o] = [@ EXCEPT !.pc = "handle", !.handle = h]]
        PROVE  Accounts(o)
    <3> DEFINE r == [op[o] EXCEPT !.pc = "handle", !.handle = h]
    <3>1. r.kind = op[o].kind
      BY <1>a DEF OpType
    <3>2. op' = [op EXCEPT ![o] = r]
      BY <2>2
    <3> HIDE DEF r
    <3>3. Alone(o) /\ o \notin Stopping' /\ o \notin Bracketed'
      <4>1. Alone(o) /\ op'[o] = r
        BY <1>a, <3>2 DEF Alone
      <4> QED
        BY <1>a, <1>b, <3>1, <4>1, Counted
    <3> QED
      BY <1>a, <1>c, <2>2, <3>3, SteadyAccounts DEF Held
  <2> QED
    BY <1>2, <2>1, <2>2 DEF CreateDriver
<1>3. CASE CreateHandle(o)
  <2>1. Alone(o) /\ o \notin Stopping' /\ o \notin Bracketed'
    BY <1>a, <1>b, <1>3, MovesAlone, Counted DEF CreateHandle
  <2>2. entry'.stops = entry.stops /\ entry'.ops = entry.ops /\ (Held' <=> Held)
    BY <1>a, <1>3 DEF CreateHandle, EntryType, Held
  <2> QED
    BY <1>a, <1>c, <2>1, <2>2, SteadyAccounts
<1>4. CASE CreateState(o)
  <2>1. Alone(o) /\ o \notin Stopping' /\ o \notin Bracketed'
    BY <1>a, <1>4, MovesAlone, Counted DEF CreateState
  <2>2. entry'.stops = entry.stops /\ entry'.ops = entry.ops /\ (Held' <=> Held)
    BY <1>a, <1>4 DEF CreateState, SetState, EntryType, Held
  <2> QED
    BY <1>a, <1>c, <2>1, <2>2, SteadyAccounts
<1> QED
  BY <1>1, <1>2, <1>3, <1>4 DEF Create

\* beginOp opens the bracket; an operation with no target closes it
LEMMA BeginAccounts ==
    ASSUME WellFormed, NEW o \in Ops, Begin(o) \/ Target(o)
    PROVE  Accounts(o)
<1>a. o \in Goroutines /\ op \in [Goroutines -> OpType] /\ op[o] \in OpType /\ entry \in EntryType /\ Placed(op[o])
  BY DEF Goroutines, WellFormed, TypeOK, OpPlaces
<1>1. CASE Begin(o)
  <2>1. PICK k \in {<<"warm", 0>>, <<"cold", 0>>} \cup {<<"resume", g>> : g \in Gens} :
               op' = [op EXCEPT ![o] = [NoOp EXCEPT !.kind = k[1], !.pc = "target", !.gen = k[2]]]
    BY <1>1 DEF Begin
  <2> DEFINE r == [NoOp EXCEPT !.kind = k[1], !.pc = "target", !.gen = k[2]]
  <2>2. r.kind \in {"warm", "cold", "resume"} /\ r.pc = "target"
    BY DEF NoOp
  <2>3. op[o].kind = "none"
    BY <1>1, <1>a DEF Begin, Placed
  <2> HIDE DEF r
  <2>4. Alone(o) /\ op'[o] = r
    BY <1>a, <2>1 DEF r, Alone
  <2>5. o \notin Stopping /\ o \notin Bracketed /\ o \notin Stopping' /\ o \in Bracketed'
    BY <1>a, <2>2, <2>3, <2>4, Counted
  <2>6. entry'.stops = entry.stops /\ entry'.ops = entry.ops + 1 /\ Held /\ Held'
    BY <1>a, <1>1 DEF Begin, EntryType, Held
  <2> QED
    BY <2>4, <2>5, <2>6 DEF Accounts, Follows
<1>2. CASE Target(o)
  <2>1. op[o].kind \in {"warm", "cold", "resume"} /\ op[o].pc = "target"
    BY <1>2, <1>a DEF Target, Placed
  <2>2. o \notin Stopping /\ o \in Bracketed
    BY <1>a, <2>1, Counted
  <2>3. CASE Targetable
    <3> DEFINE r == [op[o] EXCEPT !.pc = FirstStep[op[o].kind], !.handle = entry.handle]
    <3>1. FirstStep[op[o].kind] \in {"pause", "mark", "check"}
      BY <2>1 DEF FirstStep
    <3>2. r.kind = op[o].kind /\ r.pc = FirstStep[op[o].kind]
      BY <1>a DEF OpType
    <3>3. op' = [op EXCEPT ![o] = r] /\ UNCHANGED entry
      BY <1>2, <2>3 DEF Target
    <3> HIDE DEF r
    <3>4. Alone(o) /\ o \notin Stopping' /\ o \in Bracketed'
      <4>1. Alone(o) /\ op'[o] = r
        BY <1>a, <3>3 DEF Alone
      <4> QED
        BY <1>a, <2>1, <3>1, <3>2, <4>1, Counted
    <3> QED
      BY <1>a, <2>2, <3>3, <3>4, SteadyAccounts DEF Held
  <2>4. CASE ~Targetable
    BY <1>2, <1>a, <2>2, <2>4, ReturnsAccounts DEF Target, Held
  <2> QED
    BY <2>3, <2>4
<1> QED
  BY <1>1, <1>2

\* a stop is counted until it has been reported
LEMMA StopRunsAccounts ==
    ASSUME WellFormed, NEW o \in Goroutines, StopRuns(o)
    PROVE  Accounts(o)
<1>a. op[o] \in OpType /\ entry \in EntryType /\ Placed(op[o])
  BY DEF WellFormed, TypeOK, OpPlaces
<1>b. op[o].kind = "cold" /\ op[o].pc \in {"stop", "settle", "land", "release", "report"}
  BY <1>a DEF StopRuns, Stop, Settle, StopLands, StopReported, Placed
<1>c. o \in Stopping /\ (o \in Bracketed <=> o \in Ops)
  BY <1>b, Counted
<1>d. \A pc \in {"settle", "land", "release", "report"} :
         Step(o, pc) => Alone(o) /\ o \in Stopping' /\ (o \in Bracketed' <=> o \in Ops)
  BY <1>b, MovesAlone, Counted
<1>1. CASE Stop(o) \/ Settle(o)
  <2>1. Alone(o) /\ o \in Stopping' /\ (o \in Bracketed' <=> o \in Ops) /\ UNCHANGED entry
    BY <1>1, <1>d DEF Stop, Settle
  <2> QED
    BY <1>c, <2>1, SteadyAccounts DEF Held
<1>2. CASE StopLands(o)
  <2>1. Alone(o) /\ o \in Stopping' /\ (o \in Bracketed' <=> o \in Ops)
    BY <1>2, <1>d DEF StopLands
  <2>2. entry'.stops = entry.stops /\ entry'.ops = entry.ops /\ (Held' <=> Held)
    BY <1>a, <1>2 DEF StopLands, Land, EntryType, Held
  <2> QED
    BY <1>c, <2>1, <2>2, SteadyAccounts
<1>3. CASE StopReported(o)
  <2>1. Alone(o) /\ o \notin Stopping' /\ o \notin Bracketed'
    BY <1>3, MovesAlone, Counted DEF StopReported, Returns
  <2>2. entry'.stops = Less(entry.stops) /\ (Held' <=> Held)
    BY <1>a, <1>3 DEF StopReported, Returns, EndStop, EndOp, EntryType, Held
  <2>3. entry'.ops = IF o = Sweeper THEN entry.ops ELSE Less(entry.ops)
    BY <1>a, <1>3 DEF StopReported, Returns, EndStop, EndOp, EntryType
  <2>4. o \in Ops <=> o # Sweeper
    BY RegistryAssumption DEF RegistryAssumption, Goroutines
  <2> QED
    BY <1>c, <2>1, <2>2, <2>3, <2>4 DEF Accounts, Follows
<1> QED
  BY <1>1, <1>2, <1>3 DEF StopRuns

\* suspends
LEMMA SuspendAccounts ==
    ASSUME WellFormed, NEW o \in Ops, Suspend(o)
    PROVE  Accounts(o)
<1>a. o \in Goroutines /\ op \in [Goroutines -> OpType] /\ op[o] \in OpType /\ entry \in EntryType /\ Placed(op[o])
  BY DEF Goroutines, WellFormed, TypeOK, OpPlaces
<1>1. CASE WarmPause(o)
  <2>1. op[o].kind = "warm"
    BY <1>1, <1>a DEF WarmPause, Placed
  <2>2. o \notin Stopping /\ o \in Bracketed
    BY <1>a, <2>1, Counted
  <2>3. CASE Step(o, "park") /\ UNCHANGED entry
    BY <1>a, <2>1, <2>2, <2>3, MovesAlone, Counted, SteadyAccounts DEF Held
  <2>4. CASE Returns(o, entry)
    BY <1>a, <2>2, <2>4, ReturnsAccounts DEF Held
  <2> QED
    BY <1>1, <2>3, <2>4 DEF WarmPause
<1>2. CASE WarmPark(o)
  <2>1. op[o].kind = "warm"
    BY <1>2, <1>a DEF WarmPark, Placed
  <2>2. o \notin Stopping /\ o \in Bracketed
    BY <1>a, <2>1, Counted
  <2> DEFINE e == SetState(entry, "suspended")
  <2>3. e \in EntryType /\ e.stops = entry.stops /\ e.ops = entry.ops /\ (e.state # "none" <=> Held)
    BY <1>a DEF SetState, EntryType, EntryState, Held
  <2> HIDE DEF e
  <2> QED
    BY <1>2, <2>2, <2>3, ReturnsAccounts DEF WarmPark, e
<1>3. CASE ColdMark(o)
  <2>1. op[o].kind = "cold" /\ op[o].pc = "mark"
    BY <1>3 DEF ColdMark
  <2>2. Alone(o) /\ o \notin Stopping /\ o \in Bracketed /\ o \in Stopping' /\ o \in Bracketed'
    BY <1>3, <1>a, <2>1, MovesAlone, Counted DEF ColdMark
  <2>3. entry'.stops = (IF Held THEN entry.stops + 1 ELSE entry.stops) /\ entry'.ops = entry.ops /\ (Held' <=> Held)
    BY <1>a, <1>3 DEF ColdMark, EntryType, Held
  <2> QED
    BY <2>2, <2>3 DEF Accounts, Follows
<1>4. CASE StopRuns(o)
  BY <1>a, <1>4, StopRunsAccounts
<1> QED
  BY <1>1, <1>2, <1>3, <1>4 DEF Suspend

\* the sweep's claim counts a stop
LEMMA SweepAccounts ==
    ASSUME WellFormed, SweepClaim
    PROVE  Accounts(Sweeper)
<1> DEFINE r == [NoOp EXCEPT !.kind = "cold", !.pc = "stop", !.handle = entry.handle]
<1>a. Sweeper \in Goroutines /\ Sweeper \notin Ops /\ op \in [Goroutines -> OpType] /\ entry \in EntryType /\ Placed(op[Sweeper])
  BY RegistryAssumption DEF RegistryAssumption, Goroutines, WellFormed, TypeOK, OpPlaces
<1>1. r.kind = "cold" /\ r.pc = "stop"
  BY DEF NoOp
<1>2. op' = [op EXCEPT ![Sweeper] = r]
  BY DEF SweepClaim
<1>3. op[Sweeper].kind = "none"
  BY <1>a DEF SweepClaim, Placed
<1> HIDE DEF r
<1>4. /\ Alone(Sweeper) /\ Sweeper \notin Stopping /\ Sweeper \in Stopping'
      /\ Sweeper \notin Bracketed /\ Sweeper \notin Bracketed'
  <2>1. Alone(Sweeper) /\ op'[Sweeper] = r
    BY <1>a, <1>2 DEF Alone
  <2> QED
    BY <1>a, <1>1, <1>3, <2>1, Counted
<1>5. entry'.stops = entry.stops + 1 /\ entry'.ops = entry.ops /\ Held /\ Held'
  BY <1>a DEF SweepClaim, EntryType, Held
<1> QED
  BY <1>4, <1>5 DEF Accounts, Follows

\* resumes
LEMMA ResumeAccounts ==
    ASSUME WellFormed, NEW o \in Ops, Resume(o)
    PROVE  Accounts(o)
<1>a. o \in Goroutines /\ op \in [Goroutines -> OpType] /\ op[o] \in OpType /\ entry \in EntryType /\ Placed(op[o])
  BY DEF Goroutines, WellFormed, TypeOK, OpPlaces
<1>b. op[o].kind = "resume"
  BY <1>a DEF Placed, Resume, ResumeCheck, ResumeDriver, ResumeStart, ResumeDone, ResumeComplete, ResumeInspect,
        ResumeFailed
<1>c. o \notin Stopping /\ o \in Bracketed
  BY <1>a, <1>b, Counted
<1>d. \A pc : Step(o, pc) /\ UNCHANGED entry => Accounts(o)
  BY <1>a, <1>b, <1>c, MovesAlone, Counted, SteadyAccounts DEF Held
<1>e. Returns(o, entry) => Accounts(o)
  BY <1>a, <1>c, ReturnsAccounts DEF Held
<1>f. \A b : Booted(o, b) /\ UNCHANGED entry => Accounts(o)
  <2> SUFFICES ASSUME NEW b, Booted(o, b), UNCHANGED entry PROVE Accounts(o)
    OBVIOUS
  <2> DEFINE r == [op[o] EXCEPT !.restarted = b,
                        !.pc = IF op[o].gen = 0 THEN "resumed" ELSE IF b THEN "complete" ELSE "inspect"]
  <2>1. r.kind = "resume"
    BY <1>a, <1>b DEF OpType
  <2>2. op' = [op EXCEPT ![o] = r]
    BY DEF Booted
  <2> HIDE DEF r
  <2>3. Alone(o) /\ op'[o] = r
    BY <1>a, <2>2 DEF Alone
  <2> QED
    BY <1>a, <1>c, <2>1, <2>2, <2>3, Counted, SteadyAccounts DEF Held
<1>g. BootError(o) => Accounts(o)
  BY <1>d, <1>e DEF BootError
<1>h. \A e \in EntryType : e.stops = entry.stops /\ e.ops = entry.ops /\ (e.state # "none" <=> Held) /\ Returns(o, e)
          => Accounts(o)
  BY <1>c, ReturnsAccounts
<1>1. CASE ResumeCheck(o)
  <2>1. CASE /\ entry' = [entry EXCEPT !.hub = 0, !.gen = op[o].gen, !.pending = TRUE, !.state = "resuming",
                                       !.boot = nextBoot + 1]
             /\ op' = [op EXCEPT ![o] = [@ EXCEPT !.pc = "boot", !.boot = nextBoot + 1]]
             /\ Claimable(o)
    <3> DEFINE r == [op[o] EXCEPT !.pc = "boot", !.boot = nextBoot + 1]
    <3>1. r.kind = "resume"
      BY <1>a, <1>b DEF OpType
    <3>2. op' = [op EXCEPT ![o] = r]
      BY <2>1
    <3> HIDE DEF r
    <3>3. Alone(o) /\ o \notin Stopping' /\ o \in Bracketed'
      <4>1. Alone(o) /\ op'[o] = r
        BY <1>a, <3>2 DEF Alone
      <4> QED
        BY <1>a, <3>1, <4>1, Counted
    <3>4. entry'.stops = entry.stops /\ entry'.ops = entry.ops /\ Held' /\ Held
      BY <1>a, <2>1 DEF EntryType, Held, Claimable
    <3> QED
      BY <1>a, <1>c, <3>3, <3>4, SteadyAccounts
  <2> QED
    BY <1>1, <1>d, <1>e, <2>1 DEF ResumeCheck
<1>2. CASE ResumeDriver(o)
  BY <1>2, <1>d, <1>f, <1>g DEF ResumeDriver
<1>3. CASE ResumeStart(o)
  BY <1>3, <1>f, <1>g DEF ResumeStart
<1>4. CASE ResumeDone(o)
  <2> DEFINE e == IF Held THEN Resumed(entry, op[o].restarted, nextBoot + 1) ELSE entry
  <2>1. e.stops = entry.stops /\ e.ops = entry.ops /\ (e.state # "none" <=> Held)
    BY <1>a DEF Resumed, EntryType, Held
  <2>2. Returns(o, e)
    BY <1>4 DEF ResumeDone
  <2> HIDE DEF e
  <2>3. entry'.stops = entry.stops /\ entry'.ops = Less(entry.ops) /\ (Held' <=> Held)
    <3>1. CASE ~Held
      BY <1>a, <2>2, <3>1 DEF Returns, EndOp, EntryType, Held, e
    <3>2. CASE Held
      BY <1>a, <2>2, <3>2 DEF Returns, EndOp, EntryType, Held, e, Resumed
    <3> QED
      BY <3>1, <3>2
  <2>4. Alone(o) /\ o \notin Stopping' /\ o \notin Bracketed'
    BY <1>a, <2>2, MovesAlone, Counted DEF Returns
  <2> QED
    BY <1>c, <2>3, <2>4 DEF Accounts, Follows
<1>5. CASE ResumeComplete(o)
  <2>1. [entry EXCEPT !.pending = FALSE] \in EntryType
    BY <1>a, EntryUpdate
  <2>2. ASSUME entry.pending PROVE Resumed(entry, TRUE, 0) \in EntryType
    BY <1>a, <2>2 DEF Resumed, EntryType, EntryState
  <2> DEFINE e == IF ~(Held /\ Claimed(o) /\ entry.pending) THEN entry
                  ELSE IF entry.state # "resuming" THEN [entry EXCEPT !.pending = FALSE]
                  ELSE Resumed(entry, TRUE, 0)
  <2>3. e \in EntryType
    BY <1>a, <2>1, <2>2
  <2>4. e.stops = entry.stops /\ e.ops = entry.ops /\ (e.state # "none" <=> Held)
    BY <1>a DEF Resumed, EntryType, Held
  <2>5. Returns(o, e)
    BY <1>5 DEF ResumeComplete
  <2> HIDE DEF e
  <2> QED
    BY <1>h, <2>3, <2>4, <2>5
<1>6. CASE ResumeInspect(o)
  BY <1>6, <1>d DEF ResumeInspect
<1>7. CASE ResumeFailed(o)
  <2> DEFINE s == IF entry.state = "resuming" /\ op[o].pc = "failed" THEN "suspended" ELSE entry.state
             e == IF ~(Held /\ Claimed(o)) THEN entry ELSE [entry EXCEPT !.pending = FALSE, !.state = s]
  <2>1. s \in EntryState /\ (s # "none" <=> Held)
    BY <1>a DEF EntryType, EntryState, Held
  <2> HIDE DEF s
  <2>2. e \in EntryType
    BY <1>a, <2>1 DEF EntryType
  <2>3. e.stops = entry.stops /\ e.ops = entry.ops /\ (e.state # "none" <=> Held)
    BY <1>a, <2>1 DEF EntryType, Held
  <2>4. Returns(o, e)
    BY <1>7 DEF ResumeFailed, s
  <2> HIDE DEF e
  <2> QED
    BY <1>h, <2>2, <2>3, <2>4
<1> QED
  BY <1>1, <1>2, <1>3, <1>4, <1>5, <1>6, <1>7 DEF Resume

\* deletes open no bracket
LEMMA DeleteAccounts ==
    ASSUME WellFormed, NEW o \in Ops, Delete(o)
    PROVE  Accounts(o)
<1>a. o \in Goroutines /\ op \in [Goroutines -> OpType] /\ op[o] \in OpType /\ entry \in EntryType /\ Placed(op[o])
  BY DEF Goroutines, WellFormed, TypeOK, OpPlaces
<1>b. op[o].kind \in {"none", "delete"}
  BY <1>a DEF Placed, Delete, DeleteTarget, DeleteMark, DeleteDestroy, DeleteDone
<1>c. o \notin Stopping /\ o \notin Bracketed
  BY <1>a, <1>b, Counted
<1>d. \A pc : Step(o, pc) => Alone(o) /\ o \notin Stopping' /\ o \notin Bracketed'
  BY <1>a, <1>b, MovesAlone, Counted
<1>1. CASE DeleteTarget(o)
  <2> DEFINE r == [NoOp EXCEPT !.kind = "delete", !.pc = "mark", !.handle = entry.handle, !.prev = entry.state]
  <2>1. r.kind = "delete"
    BY DEF NoOp
  <2>2. op' = [op EXCEPT ![o] = r] /\ UNCHANGED entry
    BY <1>1 DEF DeleteTarget
  <2> HIDE DEF r
  <2>3. Alone(o) /\ op'[o] = r
    BY <1>a, <2>2 DEF Alone
  <2> QED
    BY <1>a, <1>c, <2>1, <2>2, <2>3, Counted, SteadyAccounts DEF Held
<1>2. CASE DeleteMark(o)
  <2>1. entry'.stops = entry.stops /\ entry'.ops = entry.ops /\ (Held' <=> Held)
    BY <1>a, <1>2 DEF DeleteMark, SetState, EntryType, Held
  <2> QED
    BY <1>2, <1>a, <1>c, <1>d, <2>1, SteadyAccounts DEF DeleteMark
<1>3. CASE DeleteDestroy(o)
  <2>1. Alone(o) /\ o \notin Stopping' /\ o \notin Bracketed' /\ UNCHANGED entry
    BY <1>3, <1>d DEF DeleteDestroy
  <2> QED
    BY <1>a, <1>c, <2>1, SteadyAccounts DEF Held
<1>4. CASE DeleteDone(o)
  <2>1. Alone(o) /\ o \notin Stopping' /\ o \notin Bracketed'
    BY <1>4, <1>a, MovesAlone, Counted DEF DeleteDone
  <2>2. CASE entry' = NoEntry
    BY <1>c, <2>1, <2>2 DEF Accounts, NoEntry, Held
  <2>3. CASE op[o].pc = "restore" /\ entry' = IF entry.state = "destroying" THEN [entry EXCEPT !.state = op[o].prev] ELSE entry
    <3>1. op[o].prev # "none"
      BY <1>a, <2>3 DEF Placed
    <3>2. entry'.stops = entry.stops /\ entry'.ops = entry.ops /\ (Held' <=> Held)
      BY <1>a, <2>3, <3>1 DEF EntryType, Held
    <3> QED
      BY <1>a, <1>c, <2>1, <3>2, SteadyAccounts
  <2> QED
    BY <1>4, <2>2, <2>3 DEF DeleteDone
<1> QED
  BY <1>1, <1>2, <1>3, <1>4 DEF Delete

\* connections, monitors, containers and frames leave the goroutines and their counts alone
LEMMA OthersIdle ==
    ASSUME WellFormed,
           \/ \E n \in Hubs : Conn(n) \/ Monitor(n)
           \/ \E h \in Handles : ChildExits(h) \/ DaemonStops(h) \/ Crash(h)
           \/ \E b \in frames : RouteExit(b)
    PROVE  Idle
<1>a. entry \in EntryType
  BY DEF WellFormed, TypeOK
<1>b. UNCHANGED <<op, entry>> => Idle
  BY DEF Idle, Held
<1>1. ASSUME NEW n \in Hubs, Conn(n) PROVE Idle
  <2>1. CASE Install(n)
    BY <1>a, <2>1 DEF Install, Idle, Held, EntryType
  <2>2. CASE ~Install(n)
    BY <1>1, <1>b, <2>2 DEF Conn, LoseConn, ReadExit, Dial
  <2> QED
    BY <2>1, <2>2
<1>2. ASSUME NEW n \in Hubs, Monitor(n) PROVE Idle
  <2>1. CASE HubDied(n)
    BY <1>a, <2>1 DEF HubDied, Idle, Held, EntryType
  <2>2. CASE HubRemove(n)
    BY <1>b, <2>2 DEF HubRemove, Idle
  <2>3. CASE HubInspect(n) \/ HubDestroy(n)
    BY <1>b, <2>3 DEF HubInspect, HubDestroy
  <2> QED
    BY <1>2, <2>1, <2>2, <2>3 DEF Monitor
<1>3. ASSUME NEW h \in Handles, ChildExits(h) \/ DaemonStops(h) \/ Crash(h) PROVE Idle
  BY <1>b, <1>3 DEF ChildExits, DaemonStops, Crash
<1>4. ASSUME NEW b \in frames, RouteExit(b) PROVE Idle
  BY <1>a, <1>4 DEF RouteExit, Idle, Held, EntryType
<1> QED
  BY <1>1, <1>2, <1>3, <1>4

\* a restart finds no goroutine, and an entry with no counts
LEMMA RestartCounts ==
    ASSUME Restart
    PROVE  entry'.stops = 0 /\ entry'.ops = 0 /\ Stopping' = {} /\ Bracketed' = {}
<1>1. Stopping' = {} /\ Bracketed' = {}
  BY DEF Restart, Stopping, Bracketed, NoOp, Goroutines
<1>2. entry' = NoEntry \/ \E h \in Handles, s \in {"running", "suspended"}, b \in {nextBoot'} :
                               entry' = [NoEntry EXCEPT !.state = s, !.handle = h, !.boot = b]
  BY DEF Restart
<1>3. entry'.stops = 0 /\ entry'.ops = 0
  <2>1. CASE entry' = NoEntry
    BY <2>1 DEF NoEntry
  <2>2. CASE entry' # NoEntry
    <3>1. PICK h \in Handles, s \in {"running", "suspended"}, b \in {nextBoot'} :
                  entry' = [NoEntry EXCEPT !.state = s, !.handle = h, !.boot = b]
      BY <1>2, <2>2
    <3> QED
      BY <3>1 DEF NoEntry
  <2> QED
    BY <2>1, <2>2
<1> QED
  BY <1>1, <1>3

\* the steps, by what they do to the counts
LEMMA StepKinds ==
    ASSUME WellFormed, [Next]_vars
    PROVE  (\E o \in Goroutines : Accounts(o)) \/ Idle \/ Restart
<1>1. CASE \E o \in Ops : Create(o) \/ Begin(o) \/ Target(o) \/ Suspend(o) \/ Resume(o) \/ Delete(o)
  BY <1>1, CreateAccounts, BeginAccounts, SuspendAccounts, ResumeAccounts, DeleteAccounts DEF Goroutines
<1>2. CASE SweepClaim \/ StopRuns(Sweeper)
  BY <1>2, SweepAccounts, StopRunsAccounts DEF Goroutines
<1>3. CASE \/ \E n \in Hubs : Conn(n) \/ Monitor(n)
           \/ \E h \in Handles : ChildExits(h) \/ DaemonStops(h) \/ Crash(h)
           \/ \E b \in frames : RouteExit(b)
  BY <1>3, OthersIdle
<1>4. CASE UNCHANGED vars
  BY <1>4 DEF vars, Idle, Held
<1> QED
  BY <1>1, <1>2, <1>3, <1>4 DEF Next

\* a step that moves no goroutine leaves the counted sets as they are
LEMMA IdleSets ==
    ASSUME Idle
    PROVE  Stopping' = Stopping /\ Bracketed' = Bracketed
  BY DEF Idle, Stopping, Bracketed

\* beginOp/endOp and claimIdle/endStop: in every reachable state, with any number
\* of goroutines, containers, restarts and failures, the entry counts no stop and
\* no operation beyond the goroutines that are still in one.
THEOREM NoCountLeftBehind == Spec => []CountsComeBack
<1>1. Init => CountsComeBack
  <2> SUFFICES ASSUME Init PROVE CountsComeBack
    OBVIOUS
  <2>1. entry.stops = 0 /\ entry.ops = 0
    BY DEF Init, NoEntry
  <2> QED
    BY <2>1, CountTypes DEF CountsComeBack
<1>2. WellFormed /\ CountsComeBack /\ [Next]_vars => CountsComeBack'
  <2> SUFFICES ASSUME WellFormed, CountsComeBack, [Next]_vars PROVE CountsComeBack'
    OBVIOUS
  <2>1. CASE \E o \in Goroutines : Accounts(o)
    BY <2>1, AccountsBound
  <2>2. CASE Idle
    <3>1. entry'.stops \in {0, entry.stops} /\ entry'.ops \in {0, entry.ops}
      BY <2>2 DEF Idle, NoEntry
    <3>2. Cardinality(Stopping)' = Cardinality(Stopping) /\ Cardinality(Bracketed)' = Cardinality(Bracketed)
      BY <2>2, IdleSets
    <3> QED
      BY <3>1, <3>2, CountTypes DEF CountsComeBack
  <2>3. CASE Restart
    <3>1. Cardinality(Stopping)' = 0 /\ Cardinality(Bracketed)' = 0
      BY <2>3, RestartCounts, FS_EmptySet
    <3> QED
      BY <2>3, <3>1, RestartCounts DEF CountsComeBack
  <2> QED
    BY <2>1, <2>2, <2>3, StepKinds
<1> QED
  BY <1>1, <1>2, AlwaysWellFormed, PTL DEF Spec

--------------------
\* The sweep against resumes.

\* a resume between its check and its driver calls
AtDriver(r) == r.kind = "resume" /\ r.pc \in {"boot", "start"}

\* while the id is held, the sweep and a resume's driver calls exclude each other
Excluded == Held => ~(Sweeper \in Stopping /\ \E o \in Ops : AtDriver(op[o]))

\* no step begins a resume's driver calls but its check
LEMMA DriverFromCheck ==
    ASSUME WellFormed, [Next]_vars, NEW p \in Ops, AtDriver(op'[p]), ~AtDriver(op[p])
    PROVE  entry.stops = 0
<1>a. /\ op \in [Goroutines -> OpType] /\ p \in Goroutines /\ p # Sweeper
      /\ op[p] \in OpType /\ Placed(op[p]) /\ Sweeper \in Goroutines
  BY RegistryAssumption DEF WellFormed, TypeOK, Goroutines, OpPlaces, RegistryAssumption
<1>b. op'[p] # op[p] /\ op'[p].kind = "resume" /\ op'[p].pc \in {"boot", "start"}
  BY DEF AtDriver
<1>1. ASSUME NEW o \in Goroutines, Accounts(o) PROVE o = p
  BY <1>1, <1>a, <1>b DEF Alone, Accounts
<1>2. CASE \E o \in Ops : Create(o) \/ Begin(o) \/ Target(o) \/ Suspend(o) \/ Resume(o) \/ Delete(o)
  <2>1. PICK o \in Ops : Create(o) \/ Begin(o) \/ Target(o) \/ Suspend(o) \/ Resume(o) \/ Delete(o)
    BY <1>2
  <2>2. Accounts(o) /\ o \in Goroutines
    BY <2>1, CreateAccounts, BeginAccounts, SuspendAccounts, ResumeAccounts, DeleteAccounts DEF Goroutines
  <2>3. o = p
    BY <1>1, <2>2
  <2>4. ~Ends(p) /\ \A pc \in {"handle", "state", "driver", "park", "stop", "land", "settle", "release", "report",
                               "inspect", "failed", "unresolved", "destroy", "remove", "restore"} : ~Step(p, pc)
    BY <1>a, <1>b, MovesAlone
  <2>5. ~Create(p)
    <3>1. ~CreateClaim(p)
      BY <1>a, <1>b DEF CreateClaim, NoOp
    <3>2. ~CreateDriver(p)
      <4>1. ASSUME NEW h \in Handles, op' = [op EXCEPT ![p] = [@ EXCEPT !.pc = "handle", !.handle = h]]
            PROVE  FALSE
        BY <1>a, <1>b, <4>1 DEF OpType
      <4> QED
        BY <2>4, <4>1 DEF CreateDriver
    <3> QED
      BY <2>4, <3>1, <3>2 DEF Create, CreateHandle, CreateState
  <2>6. ~Begin(p)
    BY <1>a, <1>b DEF Begin, NoOp
  <2>7. ~Target(p)
    <3>1. op[p].pc = "target" => FirstStep[op[p].kind] \in {"pause", "mark", "check"}
      BY <1>a DEF Placed, FirstStep
    <3> QED
      BY <1>a, <1>b, <2>4, <3>1 DEF Target, Returns, OpType
  <2>8. ~Suspend(p)
    BY <2>4 DEF Suspend, WarmPause, WarmPark, ColdMark, StopRuns, Stop, Settle, StopLands, StopReported, Returns
  <2>9. ~Delete(p)
    <3>1. ~DeleteTarget(p)
      BY <1>a, <1>b DEF DeleteTarget, NoOp
    <3> QED
      BY <2>4, <3>1 DEF Delete, DeleteMark, DeleteDestroy, DeleteDone
  <2>10. Resume(p)
    BY <2>1, <2>3, <2>5, <2>6, <2>7, <2>8, <2>9
  <2>11. ~ResumeDriver(p) /\ ~ResumeStart(p)
    BY <1>a DEF ResumeDriver, ResumeStart, Placed, AtDriver
  <2>12. ResumeCheck(p)
    BY <2>4, <2>10, <2>11 DEF Resume, ResumeDone, ResumeComplete, ResumeInspect, ResumeFailed, Returns
  <2> QED
    BY <2>4, <2>12 DEF ResumeCheck, Returns
<1>3. CASE SweepClaim \/ StopRuns(Sweeper)
  BY <1>1, <1>3, <1>a, SweepAccounts, StopRunsAccounts
<1>4. CASE \/ \E n \in Hubs : Conn(n) \/ Monitor(n)
           \/ \E h \in Handles : ChildExits(h) \/ DaemonStops(h) \/ Crash(h)
           \/ \E b \in frames : RouteExit(b)
  BY <1>b, <1>4, OthersIdle DEF Idle
<1>5. CASE Restart
  BY <1>a, <1>b, <1>5 DEF Restart, NoOp
<1>6. CASE UNCHANGED vars
  BY <1>b, <1>6 DEF vars
<1> QED
  BY <1>2, <1>3, <1>4, <1>5, <1>6 DEF Next

\* no step begins the sweep's stop but its claim, of an entry with no operation
LEMMA SweepFromClaim ==
    ASSUME WellFormed, [Next]_vars, Sweeper \in Stopping', Sweeper \notin Stopping
    PROVE  entry.ops = 0 /\ Held /\ \A p \in Ops : op'[p] = op[p]
<1>a. Sweeper \in Goroutines /\ Sweeper \notin Ops
  BY RegistryAssumption DEF Goroutines, RegistryAssumption
<1>1. ASSUME NEW o \in Goroutines, Accounts(o) PROVE o = Sweeper
  BY <1>1, <1>a, SetsFollow DEF Accounts
<1>2. ASSUME NEW o \in Ops PROVE ~(Create(o) \/ Begin(o) \/ Target(o) \/ Suspend(o) \/ Resume(o) \/ Delete(o))
  BY <1>1, <1>2, <1>a, CreateAccounts, BeginAccounts, SuspendAccounts, ResumeAccounts, DeleteAccounts DEF Goroutines
<1>3. ~StopRuns(Sweeper)
  BY <1>a, Counted DEF WellFormed, OpPlaces, Placed, StopRuns, Stop, Settle, StopLands, StopReported
<1>4. ~Idle /\ ~Restart
  BY IdleSets, RestartCounts
<1>5. ~ UNCHANGED vars
  BY <1>4 DEF vars, Idle, Held
<1>6. SweepClaim
  BY <1>2, <1>3, <1>4, <1>5, OthersIdle DEF Next
<1> QED
  BY <1>6, <1>a DEF SweepClaim, Held, WellFormed, TypeOK, Goroutines

\* the sweep and a resume's driver calls go on excluding each other
LEMMA ExcludedStep ==
    ASSUME WellFormed, CountsExact, Excluded, QuietCreate, [Next]_vars
    PROVE  Excluded'
<1> SUFFICES ASSUME Held', Sweeper \in Stopping', NEW p \in Ops, AtDriver(op'[p]) PROVE FALSE
  BY DEF Excluded
<1>1. Held
  BY DEF QuietCreate
<1>3. CASE Sweeper \in Stopping
  <2>1. ~AtDriver(op[p])
    BY <1>1, <1>3 DEF Excluded
  <2>2. Cardinality(Stopping) = 0
    BY <1>1, <2>1, DriverFromCheck DEF CountsExact
  <2> QED
    BY <1>3, <2>2, CountTypes, MemberCounts
<1>4. CASE Sweeper \notin Stopping
  <2>1. Cardinality(Bracketed) = 0
    BY <1>1, <1>4, SweepFromClaim DEF CountsExact
  <2>2. Bracketed = {}
    BY <2>1, CountTypes, MemberCounts
  <2>3. AtDriver(op[p])
    BY <1>4, SweepFromClaim
  <2> QED
    BY <2>2, <2>3 DEF Bracketed, AtDriver
<1> QED
  BY <1>3, <1>4

\* the counts stay exact over every step that creates quietly
LEMMA ExactStep ==
    ASSUME WellFormed, CountsExact, QuietCreate, [Next]_vars
    PROVE  CountsExact'
<1>1. CASE \E o \in Goroutines : Accounts(o)
  BY <1>1, AccountsExact
<1>2. CASE Idle
  <2>1. Cardinality(Stopping)' = Cardinality(Stopping) /\ Cardinality(Bracketed)' = Cardinality(Bracketed)
    BY <1>2, IdleSets
  <2> QED
    BY <1>2, <2>1 DEF Idle, CountsExact, NoEntry, Held
<1>3. CASE Restart
  <2>1. Cardinality(Stopping)' = 0 /\ Cardinality(Bracketed)' = 0
    BY <1>3, RestartCounts, FS_EmptySet
  <2> QED
    BY <1>3, <2>1, RestartCounts DEF CountsExact
<1> QED
  BY <1>1, <1>2, <1>3, StepKinds

\* no id is created anew while an operation or a stop of its earlier entry is in flight
QuietCreates == [][QuietCreate]_vars

\* opAtPlacement, resume: the guard against the sweep's stop is total, for any
\* number of goroutines and over restarts and failures of every kind, as long as
\* no id is created anew under operations still in flight.  Without that
\* condition it is not: endOp and endStop of the old entry's operations count
\* down the new entry's, and the sweep finds it idle.
THEOREM SweepGuardTotal == Spec /\ QuietCreates => []NoResumeOverSweep
<1>1. Init => CountsExact /\ Excluded
  BY DEF Init, CountsExact, Excluded, Held, NoEntry
<1>2. WellFormed /\ CountsExact /\ Excluded /\ [Next]_vars /\ [QuietCreate]_vars => (CountsExact /\ Excluded)'
  <2> SUFFICES ASSUME WellFormed, CountsExact, Excluded, [Next]_vars, [QuietCreate]_vars
               PROVE  CountsExact' /\ Excluded'
    OBVIOUS
  <2>1. QuietCreate
    BY DEF QuietCreate, vars, Held
  <2> QED
    BY <2>1, ExactStep, ExcludedStep
<1>3. Excluded => NoResumeOverSweep
  BY DEF Excluded, NoResumeOverSweep, AtDriver
<1> QED
  BY <1>1, <1>2, <1>3, AlwaysWellFormed, PTL DEF Spec, QuietCreates
=============================================================================
