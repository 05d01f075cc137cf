--------------------------- MODULE MicroVMProofs ---------------------------
\* Theorems about the microVM driver.
EXTENDS MicroVM, FiniteSetTheorems, WellFoundedInduction, TLAPS

--------------------
\* Least and greatest.

LEMMA LeastIs ==
  ASSUME NEW S \in SUBSET Nat, S # {}
  PROVE Min(S) \in S /\ \A y \in S : Min(S) <= y
<1> DEFINE R == {p \in Nat \X Nat : p[1] < p[2]}
<1>1. IsWellFoundedOn(R, Nat)
  BY NatLessThanWellFounded DEF OpToRel
<1>2. PICK x \in S : \A y \in S : ~(<<y, x>> \in R)
  <2> HIDE DEF R
  <2> QED
    BY <1>1, WFMin, Zenon
<1>3. \A y \in S : x <= y
  <2> TAKE y \in S
  <2>1. y \in Nat /\ x \in Nat
    OBVIOUS
  <2>2. y < x => <<y, x>> \in R
    BY <2>1
  <2> QED
    BY <1>2, <2>1, <2>2
<1> HIDE DEF R
<1> QED
  BY <1>3 DEF Min

LEMMA GreatestIs ==
  ASSUME NEW S \in SUBSET Nat, NEW n \in Nat, S # {}, \A x \in S : x <= n
  PROVE Max(S) \in S /\ \A y \in S : y <= Max(S)
<1> DEFINE T == {n - x : x \in S}
<1>1. T \in SUBSET Nat /\ T # {}
  <2>1. ASSUME NEW x \in S PROVE n - x \in Nat
    <3>1. x \in Nat /\ x <= n
      OBVIOUS
    <3> QED
      BY <3>1
  <2> QED
    BY <2>1
<1>2. Min(T) \in T /\ \A y \in T : Min(T) <= y
  BY <1>1, LeastIs, Zenon
<1>3. PICK m \in S : Min(T) = n - m
  BY <1>2
<1>4. ASSUME NEW y \in S PROVE m >= y
  <2>1. n - y \in T /\ y \in Nat /\ m \in Nat
    OBVIOUS
  <2>2. Min(T) <= n - y
    BY <1>2, <2>1, Zenon
  <2> QED
    BY <1>3, <2>1, <2>2
<1> QED
  BY <1>4 DEF Max

--------------------
\* Types.

Instances == [st : {"none", "running", "suspended", "gone"}, cold : BOOLEAN, blocked : BOOLEAN,
              idx : 0 .. SlotCount, gen : 0 .. MaxGen, ck : 0 .. MaxCheckpoint, slot : 0 .. SlotCount,
              live : BOOLEAN, resuming : BOOLEAN, destroying : BOOLEAN, snapshotting : BOOLEAN, checkpointing : BOOLEAN]
Machines == [st : {"none", "booting", "running", "paused"}, slot : 0 .. SlotCount]

\* where each kind of call may be
Places == {"idle", "none", "disks", "take", "build", "intent", "launch", "boot", "refuse", "publish",
           "commit", "unwind", "unmake", "release", "teardown", "stream", "record", "recorded", "verify",
           "stop", "park", "discard", "save", "thaw", "prepare", "undo", "unclone", "end", "freeze",
           "copy", "unfreeze", "wait", "keep", "forget", "remove", "workspace", "ask", "fold", "done",
           "answer"}
Giving == {"release", "teardown"}

Kinds == {"none", "create", "suspend", "resume", "snapshot", "destroy", "reap", "inspect", "status"}
CallType == [op : {"none", "create", "suspend", "resume", "snapshot", "destroy", "reap", "inspect", "status"}, pc : Places,
             id : Ids \cup {0}, gen : Nat, slot : 0 .. SlotCount, next : Places, cold : BOOLEAN, fresh : BOOLEAN,
             seen : {"none", "error", "gone", "running", "paused"}, made : BOOLEAN, owed : 0 .. MaxWrites, rec : RecordType]

\* what the place of a call says of the call itself
Stands(r) ==
    /\ r.op = "none" <=> r.id = 0
    /\ r.op = "none" => r.pc = "idle" /\ r.slot = 0
    /\ r.pc \in {"build", "intent", "launch", "boot", "refuse", "commit"} \cup Giving => r.slot # 0
    /\ r.op = "create" => /\ r.pc \in {"disks", "take", "build", "intent", "launch", "boot", "refuse", "publish",
                                       "commit", "unwind", "unmake", "release", "teardown"} /\ r.gen = 1
                          /\ r.pc \in Giving => r.next = "unmake"
                          /\ r.pc = "disks" => r.slot = 0
                          /\ r.pc = "publish" => r.slot # 0
    /\ r.op = "suspend" => /\ r.pc \in {"stream", "record", "recorded", "verify", "stop", "park", "discard", "save",
                                        "release", "teardown"}
                           /\ r.pc \in Giving => r.next = "save"
                           /\ r.pc \in {"stream", "record", "recorded", "verify", "stop", "park"} => r.slot = 0
                           /\ r.pc \in {"record", "recorded", "verify"} => r.gen \in Generations
                           /\ r.pc \in {"recorded", "save", "discard"} \cup Giving => r.rec.st # "none"
    /\ r.op = "resume" => /\ r.pc \in {"thaw", "prepare", "take", "build", "intent", "launch", "boot", "refuse",
                                       "publish", "save", "undo", "unclone", "end", "release", "teardown"} /\ r.gen <= MaxGen
                          /\ r.pc \in Giving => r.next \in {"prepare", "unclone"}
                          /\ ~r.cold => r.slot = 0 /\ r.pc \in {"thaw", "publish", "save", "end"}
                          /\ r.pc = "thaw" => ~r.cold
                          /\ r.cold /\ r.pc = "publish" => r.slot # 0
                          /\ r.pc = "save" => r.rec.st # "none"
    /\ r.op = "snapshot" => r.pc \in {"freeze", "copy", "unfreeze", "end"}
    /\ r.op \in {"destroy", "reap"} => /\ r.pc \in {"wait", "stop", "keep", "forget", "remove", "workspace",
                                                    "release", "teardown"}
                                       /\ r.pc \in Giving => r.next = "forget"
                                       /\ r.pc = "wait" => r.slot = 0
    /\ r.op \in {"inspect", "status"} => /\ r.pc \in {"ask", "fold", "done", "answer", "release", "teardown"} /\ r.gen <= MaxGen
                                         /\ r.pc \in Giving => r.next = IF r.op = "status" THEN "answer" ELSE "done"
                                         /\ r.pc \in {"ask", "fold"} => r.slot = 0
                                         /\ r.pc = "fold" => r.seen # "none"

\* a process is in the state of its evidence
Identified(id) == ev[id] = "full" /\ Alive(id) => vm[id].st \in {"running", "paused"}

RecordsFine ==
    /\ inst \in [Ids -> Instances] /\ disk \in [Ids -> RecordType]
    /\ \A id \in Ids : /\ inst[id].st = "none" => inst[id] = NoInstance
                       /\ disk[id].st = "none" => disk[id] = NoRecord

EngineFine ==
    /\ vm \in [Ids -> Machines] /\ ev \in [Ids -> {"none", "marker", "full", "untracked", "past"}]
    /\ \A id \in Ids : Identified(id) /\ (Alive(id) => vm[id].st # "none")

WorkFine ==
    /\ seq \in Ids \cup {0} /\ rootfs \subseteq Ids
    /\ ws \in [Sessions -> 0 .. MaxWrites] /\ owed \in [Sessions -> 0 .. MaxWrites]
    /\ store \in [Sessions -> [Generations -> -1 .. MaxWrites]]
    /\ ran \subseteq Sessions /\ settled \in [Ids -> SUBSET (0 .. MaxGen)]

CallFine(r) == r \in CallType /\ Stands(r)
CallsFine == calls \in [Callers -> CallType] /\ \A c \in Callers : Stands(calls[c])

Types == PoolTypeOK /\ RecordsFine /\ EngineFine /\ WorkFine /\ CallsFine

--------------------
\* Claims: what a call may rely on while it goes on.

\* a call that holds a slot of its own
HoldingPlaces == {"build", "intent", "launch", "boot", "refuse", "publish", "commit", "unwind", "undo", "discard", "stop", "keep"}
                 \cup Giving
Holds(r) == r.slot # 0 /\ r.pc \in HoldingPlaces

\* a teardown past its claim
Torn(r) == r.op \in {"destroy", "reap"} /\ r.pc \notin {"wait", "workspace"}

\* what a call says of the record it is about
Fits(r, v) ==
    /\ r.op = "create" => v = NoInstance
    /\ r.op = "resume" => v.st # "none" /\ v.resuming /\ ~v.destroying /\ (r.cold /\ r.pc \notin {"save", "end"} => v.slot = 0)
    /\ Torn(r) => v.st = "none" \/ (v.destroying /\ v.slot = 0 /\ r.pc # "remove")
    /\ Torn(r) /\ Holds(r) => v.st # "none"

Claims ==
    /\ \A id \in Ids : Known(id) \/ disk[id] # NoRecord => id <= seq
    /\ \A c \in Callers : Id(c) <= seq /\ (Id(c) # 0 => Fits(calls[c], inst[Id(c)]))
    /\ \A c, d \in Callers : c # d /\ Id(c) = Id(d) /\ Id(c) # 0 =>
         /\ calls[c].op # "create"
         /\ ~(calls[c].op = "resume" /\ calls[d].op = "resume")
         /\ ~(Torn(calls[c]) /\ Torn(calls[d]) /\ Known(Id(c)))

--------------------
\* Slots: every index that is in use is held by one record or one call.

Holder(r) == IF r.pc = "build" THEN Taken ELSE r.id

SlotsHeld ==
    /\ \A id \in Ids : inst[id].slot # 0 => inUse[inst[id].slot] = id
    /\ \A c \in Callers : Holds(calls[c]) => /\ inUse[calls[c].slot] = Holder(calls[c])
                                             /\ inst[Id(c)].slot # calls[c].slot
    /\ \A c, d \in Callers : c # d /\ Holds(calls[c]) /\ Holds(calls[d]) => calls[c].slot # calls[d].slot
    /\ \A i \in Slots : inUse[i] # Nobody => \/ inUse[i] \in Ids /\ inst[inUse[i]].slot = i
                                             \/ \E c \in Callers : Holds(calls[c]) /\ calls[c].slot = i
--------------------
\* The types are kept.  Each action has one lemma, on the parts it writes.

LEMMA Numbers ==
  /\ Ids \subseteq Nat \ {0} /\ IsFiniteSet(Ids) /\ Ids = 1 .. Cardinality(Ids) /\ Cardinality(Ids) \in Nat
  /\ SlotCount \in Nat \ {0} /\ MaxGen \in Nat \ {0} /\ MaxCheckpoint \in Nat /\ MaxWrites \in Nat \ {0}
<1>1. IsFiniteSet(Keys) /\ Keys = 1 .. Cardinality(Keys) /\ Keys \subseteq Nat \ {0}
  BY DriverAssumption, PoolAssumption
<1> QED
  BY <1>1, DriverAssumption, PoolAssumption, FS_CardinalityType DEF Ids

LEMMA PlaceIs ==
  /\ "idle" \in Places /\ "none" \in Places /\ "disks" \in Places /\ "take" \in Places
  /\ "build" \in Places /\ "intent" \in Places /\ "launch" \in Places /\ "boot" \in Places
  /\ "refuse" \in Places /\ "publish" \in Places /\ "commit" \in Places /\ "unwind" \in Places
  /\ "unmake" \in Places /\ "release" \in Places /\ "teardown" \in Places /\ "stream" \in Places
  /\ "record" \in Places /\ "recorded" \in Places /\ "verify" \in Places /\ "stop" \in Places
  /\ "park" \in Places /\ "discard" \in Places /\ "save" \in Places /\ "thaw" \in Places
  /\ "prepare" \in Places /\ "undo" \in Places /\ "unclone" \in Places /\ "end" \in Places
  /\ "freeze" \in Places /\ "copy" \in Places /\ "unfreeze" \in Places /\ "wait" \in Places
  /\ "keep" \in Places /\ "forget" \in Places /\ "remove" \in Places /\ "workspace" \in Places
  /\ "ask" \in Places /\ "fold" \in Places /\ "done" \in Places /\ "answer" \in Places
  BY DEF Places

LEMMA PoolKept == PoolTypeOK /\ UNCHANGED net => PoolTypeOK'
  BY DEF PoolTypeOK, net
LEMMA RecordsKept == RecordsFine /\ UNCHANGED <<inst, disk>> => RecordsFine'
  BY DEF RecordsFine
LEMMA EngineKept == EngineFine /\ UNCHANGED eng => EngineFine'
  BY DEF EngineFine, eng, Identified, Alive
LEMMA WorkKeptFine == WorkFine /\ UNCHANGED <<seq, rootfs, work, marks>> => WorkFine'
  BY DEF WorkFine, work, marks
LEMMA CallsKept == CallsFine /\ UNCHANGED calls => CallsFine'
  BY DEF CallsFine

LEMMA CallFacts ==
  ASSUME CallsFine, NEW c \in Callers
  PROVE  /\ calls[c] \in CallType /\ Stands(calls[c])
         /\ calls[c].op # "none" => Id(c) \in Ids /\ Session(c) \in Sessions
<1>1. calls[c] \in CallType /\ Stands(calls[c])
  BY DEF CallsFine
<1>2. calls[c].op # "none" => Id(c) \in Ids
  BY <1>1 DEF CallType, Stands, Id
<1> QED
  BY <1>1, <1>2 DEF Session, Sessions, Id

\* a record that is not fresh any more is as good as it was
LEMMA Stale1 ==
  ASSUME NEW r, CallFine(r)
  PROVE  CallFine([r EXCEPT !.fresh = FALSE])
<1> DEFINE q == [r EXCEPT !.fresh = FALSE]
<1>1. /\ q \in CallType /\ q.op = r.op /\ q.pc = r.pc /\ q.id = r.id /\ q.gen = r.gen /\ q.slot = r.slot /\ q.next = r.next
      /\ q.cold = r.cold /\ q.seen = r.seen /\ q.rec = r.rec
  BY DEF CallFine, CallType
<1>3. Stands(r)
  BY DEF CallFine
<1> HIDE DEF q
<1>4. Stands(q)
  BY <1>1, <1>3 DEF Stands
<1>5. CallFine(q)
  BY <1>1, <1>4 DEF CallFine
<1> QED
  BY <1>5 DEF q

\* where a call may go to when nothing else of it changes
Leads(r, p) ==
    \/ r.op \in {"resume", "snapshot"} /\ p = "end"
    \/ r.pc = "build" /\ p \in {"intent", "take"}
    \/ r.pc = "intent" /\ p = "launch"
    \/ r.pc = "launch" /\ p \in {"boot", "refuse"}
    \/ r.pc = "boot" /\ p \in {"publish", "refuse"}
    \/ r.pc \in {"intent", "refuse"} /\ p = IF r.op = "create" THEN "unwind" ELSE "undo"
    \/ r.pc = "release" /\ p = "teardown"
    \/ r.op = "create" /\ r.pc = "publish" /\ p \in {"commit", "refuse"}
    \/ r.op = "suspend" /\ <<r.pc, p>> \in {<<"recorded", "verify">>, <<"verify", "stop">>, <<"stop", "park">>}
    \/ r.op = "resume" /\ <<r.pc, p>> \in {<<"prepare", "take">>, <<"thaw", "publish">>}
    \/ r.op = "snapshot" /\ <<r.pc, p>> \in {<<"freeze", "copy">>, <<"copy", "unfreeze">>}
    \/ r.op \in {"destroy", "reap"} /\ <<r.pc, p>> \in {<<"wait", "workspace">>, <<"wait", "stop">>, <<"stop", "keep">>,
                                                        <<"forget", "remove">>, <<"remove", "workspace">>}
    \/ r.op \in {"inspect", "status"} /\ r.pc = "fold" /\ p \in {"answer", "done"}

LEMMA MovesOn ==
  ASSUME NEW r \in CallType, Stands(r), NEW p \in Places, Leads(r, p)
  PROVE  CallFine([r EXCEPT !.pc = p])
<1> DEFINE q == [r EXCEPT !.pc = p]
<1>1. /\ q \in CallType
      /\ q.op = r.op /\ q.id = r.id /\ q.gen = r.gen /\ q.slot = r.slot /\ q.next = r.next /\ q.cold = r.cold
      /\ q.seen = r.seen /\ q.rec = r.rec /\ q.pc = p
  BY DEF CallType
<1>2. r.op \in Kinds
  BY DEF CallType, Kinds
<1>3. Stands(q)
  <2> HIDE DEF q
  <2>1. CASE r.op = "none"
    BY <1>1, <2>1 DEF Stands, Leads, Giving
  <2>2. CASE r.op = "create"
    BY <1>1, <2>2 DEF Stands, Leads, Giving
  <2>3. CASE r.op = "suspend"
    BY <1>1, <2>3 DEF Stands, Leads, Giving
  <2>4. CASE r.op = "resume"
    BY <1>1, <2>4 DEF Stands, Leads, Giving
  <2>5. CASE r.op = "snapshot"
    BY <1>1, <2>5 DEF Stands, Leads, Giving
  <2>6. CASE r.op \in {"destroy", "reap"}
    BY <1>1, <2>6 DEF Stands, Leads, Giving
  <2>7. CASE r.op \in {"inspect", "status"}
    BY <1>1, <2>7 DEF Stands, Leads, Giving
  <2> QED
    BY <1>2, <2>1, <2>2, <2>3, <2>4, <2>5, <2>6, <2>7 DEF Kinds
<1> QED
  BY <1>1, <1>3 DEF CallFine

LEMMA CallMoves ==
  ASSUME CallsFine, NEW c \in Callers, NEW r, CallFine(r), NEW id,
         calls' = [calls EXCEPT ![c] = r] \/ calls' = Bumped([calls EXCEPT ![c] = r], id)
  PROVE  CallsFine'
<1>1. [calls EXCEPT ![c] = r] \in [Callers -> CallType]
  BY DEF CallsFine, CallFine
<1>2. \A d \in Callers : CallFine([calls EXCEPT ![c] = r][d])
  BY DEF CallsFine, CallFine
<1>3. CASE calls' = [calls EXCEPT ![c] = r]
  BY <1>1, <1>2, <1>3 DEF CallsFine, CallFine
<1>4. CASE calls' = Bumped([calls EXCEPT ![c] = r], id)
  <2> DEFINE cs == [calls EXCEPT ![c] = r]
  <2>1. \A d \in Callers : CallFine(IF cs[d].id = id THEN [cs[d] EXCEPT !.fresh = FALSE] ELSE cs[d])
    <3> TAKE d \in Callers
    <3>1. CallFine(cs[d])
      BY <1>2
    <3> QED
      BY <3>1, Stale1
  <2>2. calls' = [d \in Callers |-> IF cs[d].id = id THEN [cs[d] EXCEPT !.fresh = FALSE] ELSE cs[d]]
    BY <1>4 DEF Bumped
  <2> HIDE DEF cs
  <2> QED
    BY <2>1, <2>2 DEF CallsFine, CallFine
<1> QED
  BY <1>3, <1>4

LEMMA NoCallFine == CallFine(NoCall)
<1>1. NoRecord \in RecordType
  BY Numbers DEF RecordType, NoRecord
<1>2. 0 \in 0 .. SlotCount /\ 0 \in 0 .. MaxWrites
  BY Numbers
<1>3. NoCall \in CallType
  BY <1>1, <1>2, PlaceIs DEF CallType, NoCall
<1>4. Stands(NoCall)
  BY DEF Stands, NoCall, Giving
<1> QED
  BY <1>3, <1>4 DEF CallFine

LEMMA CallReturns == ASSUME CallsFine, NEW c \in Callers, calls' = Returned(c) PROVE CallsFine'
  BY NoCallFine, CallMoves DEF Returned

LEMMA CandidateIs ==
  ASSUME PoolTypeOK, Candidate # 0
  PROVE  Candidate \in Slots /\ inUse[Candidate] = Nobody
<1> DEFINE clean == {i \in Slots \ (leaked \cup foreign) : inUse[i] = Nobody}
           dirty == {i \in leaked : inUse[i] = Nobody}
<1>1. clean \in SUBSET Nat /\ dirty \in SUBSET Nat /\ dirty \subseteq Slots
  <2>1. leaked \subseteq Slots /\ Slots \subseteq Nat
    BY DEF PoolTypeOK, Slots
  <2> QED
    BY <2>1
<1>2. CASE clean # {}
  <2>1. Min(clean) \in clean
    BY <1>1, <1>2, LeastIs
  <2> QED
    BY <1>2, <2>1 DEF Candidate
<1>3. CASE clean = {}
  <2>1. dirty # {}
    BY <1>3 DEF Candidate
  <2>2. Min(dirty) \in dirty
    BY <1>1, <2>1, LeastIs
  <2> QED
    BY <1>1, <1>3, <2>1, <2>2 DEF Candidate
<1> QED
  BY <1>2, <1>3

--------------------
\* What is written is of its type.

RecordOk(d) == d \in RecordType /\ d.st # "none"
InstOk(v) == v \in Instances /\ v.st # "none"

LEMMA RecordsWritten ==
  ASSUME RecordsFine, NEW id \in Ids, NEW v, NEW d,
         inst' = inst \/ (inst' = [inst EXCEPT ![id] = v] /\ (InstOk(v) \/ v = NoInstance)),
         disk' = disk \/ (disk' = [disk EXCEPT ![id] = d] /\ (RecordOk(d) \/ d = NoRecord))
  PROVE  RecordsFine'
<1>1. NoInstance \in Instances /\ NoRecord \in RecordType
  BY Numbers DEF Instances, NoInstance, RecordType, NoRecord
<1>2. inst' \in [Ids -> Instances] /\ \A j \in Ids : inst'[j].st = "none" => inst'[j] = NoInstance
  BY <1>1 DEF RecordsFine, InstOk
<1>3. disk' \in [Ids -> RecordType] /\ \A j \in Ids : disk'[j].st = "none" => disk'[j] = NoRecord
  BY <1>1 DEF RecordsFine, RecordOk
<1> QED
  BY <1>2, <1>3 DEF RecordsFine

LEMMA DiskWritten ==
  ASSUME RecordsFine, UNCHANGED inst, NEW id \in Ids, NEW d, RecordOk(d) \/ d = NoRecord,
         disk' = disk \/ disk' = [disk EXCEPT ![id] = d]
  PROVE  RecordsFine'
<1>1. NoInstance = NoInstance
  OBVIOUS
<1> QED
  BY <1>1, RecordsWritten

LEMMA InstWritten ==
  ASSUME RecordsFine, UNCHANGED disk, NEW id \in Ids, NEW v, InstOk(v) \/ v = NoInstance,
         inst' = inst \/ inst' = [inst EXCEPT ![id] = v]
  PROVE  RecordsFine'
<1>1. NoRecord = NoRecord
  OBVIOUS
<1> QED
  BY <1>1, RecordsWritten

LEMMA Persisted ==
  ASSUME NEW v \in Instances
  PROVE  /\ Persistable(v) \in RecordType
         /\ Persistable(v).st = v.st /\ Persistable(v).cold = v.cold /\ Persistable(v).blocked = v.blocked
         /\ Persistable(v).idx = v.idx /\ Persistable(v).gen = v.gen /\ Persistable(v).ck = v.ck
<1>1. Persistable(v) = [st |-> v.st, cold |-> v.cold, blocked |-> v.blocked, idx |-> v.idx, gen |-> v.gen, ck |-> v.ck]
  BY DEF Persistable, NoRecord, Instances
<1> QED
  BY <1>1 DEF RecordType, Instances

LEMMA EngineWritten ==
  ASSUME EngineFine, NEW id \in Ids, NEW m \in Machines, NEW e \in {"none", "marker", "full", "untracked", "past"},
         vm' = [vm EXCEPT ![id] = m], ev' = [ev EXCEPT ![id] = e],
         m # NoVM => m.st # "none", e = "full" /\ m # NoVM => m.st \in {"running", "paused"}
  PROVE  EngineFine'
  BY DEF EngineFine, Identified, Alive

LEMMA NoVMIs == NoVM \in Machines
  BY Numbers DEF NoVM, Machines

LEMMA TakeSlotTypes ==
  ASSUME Types, NEW c \in Callers, TakeSlot(c)
  PROVE  Types'
<1>1. /\ PoolTypeOK /\ RecordsFine /\ EngineFine /\ WorkFine /\ CallsFine
      /\ UNCHANGED <<inst, disk, eng, seq, rootfs, work, marks>>
  BY DEF Types, TakeSlot, drv
<1>2. RecordsFine' /\ EngineFine' /\ WorkFine'
  BY <1>1, RecordsKept, EngineKept, WorkKeptFine
<1>3. calls[c] \in CallType /\ Stands(calls[c]) /\ calls[c].pc = "take" /\ 0 \in 0 .. SlotCount
  BY <1>1, CallFacts, Numbers DEF TakeSlot, At, Destroying, Asking
<1>4. CASE Candidate = 0
  <2>1. calls' = [calls EXCEPT ![c] = [calls[c] EXCEPT !.pc = Undoing(c), !.slot = 0]] /\ UNCHANGED net
    BY <1>4 DEF TakeSlot
  <2>2. Undoing(c) \in Places
    BY PlaceIs DEF Undoing
  <2>3. CallFine([calls[c] EXCEPT !.pc = Undoing(c), !.slot = 0])
    <3> DEFINE r == calls[c]
               q == [r EXCEPT !.pc = Undoing(c), !.slot = 0]
    <3>1. /\ q \in CallType
          /\ q.op = r.op /\ q.id = r.id /\ q.gen = r.gen /\ q.next = r.next /\ q.cold = r.cold /\ q.seen = r.seen
          /\ q.rec = r.rec /\ q.pc = Undoing(c) /\ q.slot = 0
      BY <1>3, <2>2, PlaceIs DEF CallType
    <3>2. r \in CallType /\ Stands(r) /\ r.op \in Kinds
      BY <1>3 DEF CallType, Kinds
    <3>3. Stands(q)
      <4> HIDE DEF q
      <4> QED
        BY <3>1, <3>2, <1>3, <2>2 DEF Stands, Giving, Undoing
    <3> QED
      BY <3>1, <3>3 DEF CallFine
  <2> QED
    BY <1>1, <1>2, <2>1, <2>3, PoolKept, CallMoves DEF Types
<1>5. CASE Candidate # 0
  <2>1. Candidate \in Slots /\ Candidate \in 0 .. SlotCount /\ Candidate # 0
    BY <1>1, <1>5, CandidateIs, Numbers DEF Slots
  <2>2. Take(Candidate) /\ calls' = [calls EXCEPT ![c] = [calls[c] EXCEPT !.pc = "build", !.slot = Candidate]]
    BY <1>5 DEF TakeSlot
  <2>3. CallFine([calls[c] EXCEPT !.pc = "build", !.slot = Candidate])
    <3> DEFINE r == calls[c]
               q == [r EXCEPT !.pc = "build", !.slot = Candidate]
    <3>1. /\ q \in CallType
          /\ q.op = r.op /\ q.id = r.id /\ q.gen = r.gen /\ q.next = r.next /\ q.cold = r.cold /\ q.seen = r.seen
          /\ q.rec = r.rec /\ q.pc = "build" /\ q.slot = Candidate
      BY <1>3, <2>1, PlaceIs DEF CallType
    <3>2. r \in CallType /\ Stands(r) /\ r.op \in Kinds
      BY <1>3 DEF CallType, Kinds
    <3>3. Stands(q)
      <4> HIDE DEF q
      <4> QED
        BY <3>1, <3>2, <1>3, <2>1 DEF Stands, Giving
    <3> QED
      BY <3>1, <3>3 DEF CallFine
  <2>4. PoolTypeOK'
    BY <1>1, <2>1, <2>2 DEF PoolTypeOK, Take
  <2> QED
    BY <1>1, <1>2, <2>2, <2>3, <2>4, CallMoves DEF Types
<1> QED
  BY <1>4, <1>5

LEMMA BuildSlotTypes ==
  ASSUME Types, NEW c \in Callers, BuildSlot(c)
  PROVE  Types'
<1>1. /\ PoolTypeOK /\ RecordsFine /\ EngineFine /\ WorkFine /\ CallsFine
      /\ UNCHANGED <<inst, disk, eng, seq, rootfs, work, marks>>
  BY DEF Types, BuildSlot, drv
<1>2. RecordsFine' /\ EngineFine' /\ WorkFine'
  BY <1>1, RecordsKept, EngineKept, WorkKeptFine
<1>3. calls[c] \in CallType /\ Stands(calls[c]) /\ calls[c].pc = "build" /\ 0 \in 0 .. SlotCount
  BY <1>1, CallFacts, Numbers DEF BuildSlot, At, Destroying, Asking
<1>4. Id(c) \in Ids /\ calls[c].slot \in Slots
  BY <1>1, <1>3, CallFacts DEF Stands, CallType, Slots
<1>5. PoolTypeOK'
  <2>1. Id(c) \in Keys
    BY <1>4 DEF Ids
  <2> DEFINE i == calls[c].slot
  <2>2. Built(i, Id(c)) \/ Retired(i) \/ BuildFails(i, Id(c))
    BY DEF BuildSlot
  <2> HIDE DEF i
  <2>3. CASE Built(i, Id(c))
    BY <1>1, <2>1, <2>3 DEF PoolTypeOK, Built
  <2>4. CASE Retired(i)
    BY <1>1, <1>4, <2>4 DEF PoolTypeOK, Retired, i
  <2>5. CASE BuildFails(i, Id(c))
    BY <1>1, <1>4, <2>1, <2>5 DEF PoolTypeOK, BuildFails, GiveBack, Teardown, i
  <2> QED
    BY <2>2, <2>3, <2>4, <2>5
<1>6. Undoing(c) \in Places
  BY PlaceIs DEF Undoing
<1>7. CallFine([calls[c] EXCEPT !.pc = "intent"])
  BY <1>3, PlaceIs, MovesOn DEF Leads
<1>8. CallFine([calls[c] EXCEPT !.pc = "take"])
  BY <1>3, PlaceIs, MovesOn DEF Leads
<1>9. CallFine([calls[c] EXCEPT !.pc = Undoing(c), !.slot = 0])
  <2> DEFINE r == calls[c]
             q == [r EXCEPT !.pc = Undoing(c), !.slot = 0]
  <2>1. /\ q \in CallType
        /\ q.op = r.op /\ q.id = r.id /\ q.gen = r.gen /\ q.next = r.next /\ q.cold = r.cold /\ q.seen = r.seen
        /\ q.rec = r.rec /\ q.pc = Undoing(c) /\ q.slot = 0
    BY <1>3, <1>6, PlaceIs DEF CallType
  <2>2. r \in CallType /\ Stands(r) /\ r.op \in Kinds
    BY <1>3 DEF CallType, Kinds
  <2>3. Stands(q)
    <3> HIDE DEF q
    <3> QED
      BY <2>1, <2>2, <1>3, <1>6 DEF Stands, Giving, Undoing
  <2> QED
    BY <2>1, <2>3 DEF CallFine
<1>10. \/ calls' = [calls EXCEPT ![c] = [calls[c] EXCEPT !.pc = "intent"]]
       \/ calls' = [calls EXCEPT ![c] = [calls[c] EXCEPT !.pc = "take"]]
       \/ calls' = [calls EXCEPT ![c] = [calls[c] EXCEPT !.pc = Undoing(c), !.slot = 0]]
  BY DEF BuildSlot, Goes
<1> QED
  BY <1>1, <1>2, <1>5, <1>7, <1>8, <1>9, <1>10, CallMoves DEF Types

LEMMA ReleaseSlotTypes ==
  ASSUME Types, NEW c \in Callers, ReleaseSlot(c)
  PROVE  Types'
<1>1. /\ PoolTypeOK /\ RecordsFine /\ EngineFine /\ WorkFine /\ CallsFine
      /\ UNCHANGED <<net, inst, disk, eng, seq, rootfs, work, marks>>
  BY DEF Types, ReleaseSlot, drv
<1>2. PoolTypeOK' /\ RecordsFine' /\ EngineFine' /\ WorkFine'
  BY <1>1, PoolKept, RecordsKept, EngineKept, WorkKeptFine
<1>3. calls[c] \in CallType /\ Stands(calls[c]) /\ calls[c].pc = "release" /\ 0 \in 0 .. SlotCount
  BY <1>1, CallFacts, Numbers DEF ReleaseSlot, At, Destroying, Asking
<1>4. calls[c].next \in Places
  BY <1>3 DEF CallType
<1>5. CallFine([calls[c] EXCEPT !.pc = "teardown"])
  BY <1>3, PlaceIs, MovesOn DEF Leads
<1>6. CallFine([calls[c] EXCEPT !.pc = calls[c].next, !.slot = 0])
  <2> DEFINE r == calls[c]
             q == [r EXCEPT !.pc = calls[c].next, !.slot = 0]
  <2>1. /\ q \in CallType
        /\ q.op = r.op /\ q.id = r.id /\ q.gen = r.gen /\ q.next = r.next /\ q.cold = r.cold /\ q.seen = r.seen
        /\ q.rec = r.rec /\ q.pc = calls[c].next /\ q.slot = 0
    BY <1>3, <1>4, PlaceIs DEF CallType
  <2>2. r \in CallType /\ Stands(r) /\ r.op \in Kinds
    BY <1>3 DEF CallType, Kinds
  <2>3. Stands(q)
    <3> HIDE DEF q
    <3>1. CASE r.op \in {"none", "snapshot"}
      BY <2>1, <2>2, <1>3, <1>4, <3>1 DEF Stands, Giving
    <3>2. CASE r.op = "create"
      BY <2>1, <2>2, <1>3, <1>4, <3>2 DEF Stands, Giving
    <3>3. CASE r.op = "suspend"
      BY <2>1, <2>2, <1>3, <1>4, <3>3 DEF Stands, Giving
    <3>4. CASE r.op = "resume"
      BY <2>1, <2>2, <1>3, <1>4, <3>4 DEF Stands, Giving
    <3>5. CASE r.op \in {"destroy", "reap"}
      BY <2>1, <2>2, <1>3, <1>4, <3>5 DEF Stands, Giving
    <3>6. CASE r.op \in {"inspect", "status"}
      BY <2>1, <2>2, <1>3, <1>4, <3>6 DEF Stands, Giving
    <3> QED
      BY <2>2, <3>1, <3>2, <3>3, <3>4, <3>5, <3>6 DEF Kinds
  <2> QED
    BY <2>1, <2>3 DEF CallFine
<1>7. \/ calls' = [calls EXCEPT ![c] = [calls[c] EXCEPT !.pc = "teardown"]]
      \/ calls' = [calls EXCEPT ![c] = [calls[c] EXCEPT !.pc = calls[c].next, !.slot = 0]]
  BY DEF ReleaseSlot, Goes
<1> QED
  BY <1>1, <1>2, <1>5, <1>6, <1>7, CallMoves DEF Types

LEMMA TeardownSlotTypes ==
  ASSUME Types, NEW c \in Callers, TeardownSlot(c)
  PROVE  Types'
<1>1. /\ PoolTypeOK /\ RecordsFine /\ EngineFine /\ WorkFine /\ CallsFine
      /\ UNCHANGED <<inst, disk, eng, seq, rootfs, work, marks>>
  BY DEF Types, TeardownSlot, drv
<1>2. RecordsFine' /\ EngineFine' /\ WorkFine'
  BY <1>1, RecordsKept, EngineKept, WorkKeptFine
<1>3. calls[c] \in CallType /\ Stands(calls[c]) /\ calls[c].pc = "teardown" /\ 0 \in 0 .. SlotCount
  BY <1>1, CallFacts, Numbers DEF TeardownSlot, At, Destroying, Asking
<1>4. calls[c].next \in Places /\ calls[c].slot \in Slots
  BY <1>3, Numbers DEF CallType, Slots, Stands, Giving
<1>5. CallFine([calls[c] EXCEPT !.pc = calls[c].next, !.slot = 0])
  <2> DEFINE r == calls[c]
             q == [r EXCEPT !.pc = calls[c].next, !.slot = 0]
  <2>1. /\ q \in CallType
        /\ q.op = r.op /\ q.id = r.id /\ q.gen = r.gen /\ q.next = r.next /\ q.cold = r.cold /\ q.seen = r.seen
        /\ q.rec = r.rec /\ q.pc = calls[c].next /\ q.slot = 0
    BY <1>3, <1>4, PlaceIs DEF CallType
  <2>2. r \in CallType /\ Stands(r) /\ r.op \in Kinds
    BY <1>3 DEF CallType, Kinds
  <2>3. Stands(q)
    <3> HIDE DEF q
    <3>1. CASE r.op \in {"none", "snapshot"}
      BY <2>1, <2>2, <1>3, <1>4, <3>1 DEF Stands, Giving
    <3>2. CASE r.op = "create"
      BY <2>1, <2>2, <1>3, <1>4, <3>2 DEF Stands, Giving
    <3>3. CASE r.op = "suspend"
      BY <2>1, <2>2, <1>3, <1>4, <3>3 DEF Stands, Giving
    <3>4. CASE r.op = "resume"
      BY <2>1, <2>2, <1>3, <1>4, <3>4 DEF Stands, Giving
    <3>5. CASE r.op \in {"destroy", "reap"}
      BY <2>1, <2>2, <1>3, <1>4, <3>5 DEF Stands, Giving
    <3>6. CASE r.op \in {"inspect", "status"}
      BY <2>1, <2>2, <1>3, <1>4, <3>6 DEF Stands, Giving
    <3> QED
      BY <2>2, <3>1, <3>2, <3>3, <3>4, <3>5, <3>6 DEF Kinds
  <2> QED
    BY <2>1, <2>3 DEF CallFine
<1>6. calls' = [calls EXCEPT ![c] = [calls[c] EXCEPT !.pc = calls[c].next, !.slot = 0]]
  BY DEF TeardownSlot
<1>7. PoolTypeOK'
  BY <1>1, <1>4 DEF PoolTypeOK, TeardownSlot, TornDown, TeardownFails, GiveBack, Teardown
<1> QED
  BY <1>1, <1>2, <1>5, <1>6, <1>7, CallMoves DEF Types

LEMMA SaveRecordTypes ==
  ASSUME Types, NEW c \in Callers, SaveRecord(c)
  PROVE  Types'
<1>1. /\ PoolTypeOK /\ RecordsFine /\ EngineFine /\ WorkFine /\ CallsFine
      /\ UNCHANGED <<net, eng, seq, rootfs, work, marks>>
  BY DEF Types, SaveRecord, drv
<1>2. PoolTypeOK' /\ EngineFine' /\ WorkFine'
  BY <1>1, PoolKept, EngineKept, WorkKeptFine
<1>3. calls[c] \in CallType /\ Stands(calls[c]) /\ calls[c].pc = "save" /\ 0 \in 0 .. SlotCount
  BY <1>1, CallFacts, Numbers DEF SaveRecord, At, Destroying, Asking
<1>4. calls[c].op \in {"suspend", "resume"}
  BY <1>3 DEF Stands, CallType, Giving
<1>5. Id(c) \in Ids /\ RecordOk(calls[c].rec)
  BY <1>1, <1>3, <1>4, CallFacts DEF Stands, CallType, RecordOk
<1>6. calls[c].op = "resume" => CallFine([calls[c] EXCEPT !.pc = "end"])
  BY <1>3, PlaceIs, MovesOn DEF Leads
<1>7. CallFine(NoCall)
  BY NoCallFine
<1>8. RecordsFine'
  <2>1. UNCHANGED inst /\ (disk' = disk \/ disk' = [disk EXCEPT ![Id(c)] = calls[c].rec])
    BY DEF SaveRecord, drv
  <2> QED
    BY <1>1, <1>5, <2>1, DiskWritten
<1>9. \/ calls' = [calls EXCEPT ![c] = NoCall]
      \/ calls[c].op = "resume" /\ calls' = [calls EXCEPT ![c] = [calls[c] EXCEPT !.pc = "end"]]
  BY DEF SaveRecord, Goes, Returned
<1> QED
  BY <1>1, <1>2, <1>6, <1>7, <1>8, <1>9, CallMoves DEF Types

LEMMA Launching ==
  ASSUME CallsFine, NEW c \in Callers, calls[c].pc \in {"take", "build", "intent", "launch", "boot", "refuse"}
  PROVE  /\ calls[c].op \in {"create", "resume"} /\ Id(c) \in Ids /\ calls[c].slot \in 0 .. SlotCount
         /\ calls[c].gen \in 0 .. MaxGen /\ (calls[c].op = "resume" => calls[c].cold)
<1>1. calls[c] \in CallType /\ Stands(calls[c])
  BY CallFacts
<1>2. calls[c].op \in {"create", "resume"}
  BY <1>1 DEF Stands, CallType
<1>3. calls[c].gen \in 0 .. MaxGen
  BY <1>1, <1>2, Numbers DEF Stands, CallType
<1> QED
  BY <1>1, <1>2, <1>3, CallFacts DEF Stands, CallType

LEMMA IntendedIs ==
  ASSUME Types, NEW c \in Callers, calls[c].pc \in {"take", "build", "intent", "launch", "boot", "refuse", "publish"},
         calls[c].op \in {"create", "resume"}
  PROVE  /\ RecordOk(Intended(c)) /\ Intended(c).st = "running" /\ ~Intended(c).cold /\ Intended(c).blocked
         /\ Intended(c).idx = calls[c].slot
         /\ calls[c].op = "resume" => Intended(c).ck = inst[Id(c)].ck
<1>1. calls[c] \in CallType /\ Stands(calls[c]) /\ Id(c) \in Ids
  BY CallFacts DEF Types
<1>2. calls[c].slot \in 0 .. SlotCount
  BY <1>1 DEF CallType
<1>3. CASE calls[c].op = "create"
  <2>1. calls[c].gen \in 0 .. MaxGen /\ 0 \in 0 .. MaxCheckpoint
    BY <1>1, <1>3, Numbers DEF Stands
  <2>2. Intended(c) = [NoRecord EXCEPT !.st = "running", !.blocked = TRUE, !.idx = calls[c].slot, !.gen = calls[c].gen]
    BY <1>3 DEF Intended
  <2> QED
    BY <1>2, <1>3, <2>1, <2>2 DEF RecordOk, RecordType, NoRecord
<1>4. CASE calls[c].op = "resume"
  <2>1. inst[Id(c)] \in Instances
    BY <1>1 DEF Types, RecordsFine
  <2> DEFINE p == Persistable(inst[Id(c)])
  <2>2. p \in RecordType /\ p.ck = inst[Id(c)].ck
    BY <2>1, Persisted
  <2>3. Intended(c) = [p EXCEPT !.st = "running", !.cold = FALSE, !.blocked = TRUE, !.idx = calls[c].slot]
    BY <1>4 DEF Intended
  <2> HIDE DEF p
  <2> QED
    BY <1>2, <2>2, <2>3 DEF RecordOk, RecordType
<1> QED
  BY <1>3, <1>4

LEMMA SaveIntentTypes ==
  ASSUME Types, NEW c \in Callers, SaveIntent(c)
  PROVE  Types'
<1>1. /\ PoolTypeOK /\ RecordsFine /\ EngineFine /\ WorkFine /\ CallsFine
      /\ UNCHANGED <<net, eng, seq, rootfs, work, marks>>
  BY DEF Types, SaveIntent, drv
<1>2. PoolTypeOK' /\ EngineFine' /\ WorkFine'
  BY <1>1, PoolKept, EngineKept, WorkKeptFine
<1>3. calls[c] \in CallType /\ Stands(calls[c]) /\ calls[c].pc = "intent" /\ 0 \in 0 .. SlotCount
  BY <1>1, CallFacts, Numbers DEF SaveIntent, At, Destroying, Asking
<1>4. Id(c) \in Ids /\ RecordOk(Intended(c))
  BY <1>1, <1>3, Launching, IntendedIs
<1>5. RecordsFine'
  <2>1. UNCHANGED inst /\ (disk' = disk \/ disk' = [disk EXCEPT ![Id(c)] = Intended(c)])
    BY DEF SaveIntent, drv
  <2> QED
    BY <1>1, <1>4, <2>1, DiskWritten
<1>6. Undoing(c) \in Places
  BY PlaceIs DEF Undoing
<1>7. CallFine([calls[c] EXCEPT !.pc = "launch"])
  BY <1>3, PlaceIs, MovesOn DEF Leads
<1>8. CallFine([calls[c] EXCEPT !.pc = Undoing(c)])
  BY <1>3, <1>6, PlaceIs, MovesOn DEF Leads, Undoing
<1>9. \/ calls' = [calls EXCEPT ![c] = [calls[c] EXCEPT !.pc = "launch"]]
      \/ calls' = [calls EXCEPT ![c] = [calls[c] EXCEPT !.pc = Undoing(c)]]
  BY DEF SaveIntent, Goes
<1> QED
  BY <1>1, <1>2, <1>5, <1>7, <1>8, <1>9, CallMoves DEF Types

LEMMA LaunchVMTypes ==
  ASSUME Types, NEW c \in Callers, LaunchVM(c)
  PROVE  Types'
<1>1. /\ PoolTypeOK /\ RecordsFine /\ EngineFine /\ WorkFine /\ CallsFine
      /\ UNCHANGED <<net, inst, disk, seq, rootfs, work, ran>>
  BY DEF Types, LaunchVM, drv
<1>2. PoolTypeOK' /\ RecordsFine'
  BY <1>1, PoolKept, RecordsKept
<1>3. calls[c] \in CallType /\ Stands(calls[c]) /\ calls[c].pc = "launch" /\ 0 \in 0 .. SlotCount
  BY <1>1, CallFacts, Numbers DEF LaunchVM
<1>4. Id(c) \in Ids /\ calls[c].slot \in 0 .. SlotCount /\ calls[c].gen \in 0 .. MaxGen
  BY <1>1, <1>3, Launching
<1>5. CallFine([calls[c] EXCEPT !.pc = "boot"])
  BY <1>3, PlaceIs, MovesOn DEF Leads
<1>6. CallFine([calls[c] EXCEPT !.pc = "refuse"])
  BY <1>3, PlaceIs, MovesOn DEF Leads
<1>7. CASE UNCHANGED <<eng, settled>> /\ calls' = Goes(c, "refuse")
  <2>1. EngineFine' /\ WorkFine'
    BY <1>1, <1>7, EngineKept, WorkKeptFine DEF marks
  <2>2. CallsFine'
    BY <1>1, <1>6, <1>7, CallMoves DEF Goes
  <2> QED
    BY <1>2, <2>1, <2>2 DEF Types
<1>8. CASE /\ ev' = [ev EXCEPT ![Id(c)] = "marker"]
           /\ vm' = [vm EXCEPT ![Id(c)] = [st |-> "booting", slot |-> calls[c].slot]]
           /\ settled' = [settled EXCEPT ![Id(c)] = @ \cup ({calls[c].gen} \ {0})]
           /\ calls' = Goes(c, "boot")
  <2>1. [st |-> "booting", slot |-> calls[c].slot] \in Machines
    BY <1>4 DEF Machines
  <2>2. EngineFine'
    BY <1>1, <1>4, <1>8, <2>1, EngineWritten
  <2>3. settled' \in [Ids -> SUBSET (0 .. MaxGen)]
    BY <1>1, <1>4, <1>8 DEF WorkFine
  <2>4. WorkFine'
    BY <1>1, <2>3 DEF WorkFine, work
  <2>5. CallsFine'
    BY <1>1, <1>5, <1>8, CallMoves DEF Goes
  <2> QED
    BY <1>2, <2>2, <2>4, <2>5 DEF Types
<1> QED
  BY <1>7, <1>8 DEF LaunchVM

LEMMA MachineMoves ==
  ASSUME EngineFine, NEW id \in Ids, NEW s \in {"running", "paused"}
  PROVE  [vm[id] EXCEPT !.st = s] \in Machines
  BY DEF EngineFine, Machines

LEMMA BootVMTypes ==
  ASSUME Types, NEW c \in Callers, BootVM(c)
  PROVE  Types'
<1>1. /\ PoolTypeOK /\ RecordsFine /\ EngineFine /\ WorkFine /\ CallsFine
      /\ UNCHANGED <<net, inst, disk, seq, rootfs, work, marks>>
  BY DEF Types, BootVM, drv
<1>2. PoolTypeOK' /\ RecordsFine' /\ WorkFine'
  BY <1>1, PoolKept, RecordsKept, WorkKeptFine
<1>3. calls[c] \in CallType /\ Stands(calls[c]) /\ calls[c].pc = "boot" /\ 0 \in 0 .. SlotCount
  BY <1>1, CallFacts, Numbers DEF BootVM, At, Destroying, Asking
<1>4. Id(c) \in Ids
  BY <1>1, <1>3, Launching
<1>5. EngineFine'
  <2> DEFINE id == Id(c)
  <2>1. \/ vm' = [vm EXCEPT ![id] = [vm[id] EXCEPT !.st = "running"]] /\ ev' = [ev EXCEPT ![id] = "full"]
        \/ vm' = [vm EXCEPT ![id] = NoVM] /\ ev' = [ev EXCEPT ![id] = "none"]
        \/ UNCHANGED eng
    BY DEF BootVM
  <2>2. [vm[id] EXCEPT !.st = "running"] \in Machines /\ [vm[id] EXCEPT !.st = "running"].st = "running"
    BY <1>1, <1>4, MachineMoves DEF EngineFine, Machines
  <2> HIDE DEF id
  <2>3. CASE vm' = [vm EXCEPT ![id] = [vm[id] EXCEPT !.st = "running"]] /\ ev' = [ev EXCEPT ![id] = "full"]
    BY <1>1, <1>4, <2>2, <2>3, EngineWritten DEF id
  <2>4. CASE vm' = [vm EXCEPT ![id] = NoVM] /\ ev' = [ev EXCEPT ![id] = "none"]
    BY <1>1, <1>4, <2>4, EngineWritten, NoVMIs DEF id
  <2> QED
    BY <1>1, <2>1, <2>3, <2>4, EngineKept
<1>6. CallFine([calls[c] EXCEPT !.pc = "publish"])
  BY <1>3, PlaceIs, MovesOn DEF Leads
<1>7. CallFine([calls[c] EXCEPT !.pc = "refuse"])
  BY <1>3, PlaceIs, MovesOn DEF Leads
<1>8. \/ calls' = [calls EXCEPT ![c] = [calls[c] EXCEPT !.pc = "publish"]]
      \/ calls' = [calls EXCEPT ![c] = [calls[c] EXCEPT !.pc = "refuse"]]
  BY DEF BootVM, Goes
<1> QED
  BY <1>1, <1>2, <1>5, <1>6, <1>7, <1>8, CallMoves DEF Types

\* the engine after a stop
LEMMA StopFine ==
  ASSUME EngineFine, NEW id \in Ids, Gone(id) \/ Lingers(id)
  PROVE  EngineFine'
<1>1. CASE Stopped(id)
  BY <1>1, EngineWritten, NoVMIs DEF Stopped
<1>2. CASE Littered(id)
  <2>1. vm' = [vm EXCEPT ![id] = NoVM] /\ (ev' = ev \/ ev' = [ev EXCEPT ![id] = "none"])
    BY <1>2 DEF Littered
  <2> QED
    BY <2>1, NoVMIs DEF EngineFine, Identified, Alive
<1>3. CASE Lingers(id)
  BY <1>3, EngineKept DEF Lingers
<1> QED
  BY <1>1, <1>2, <1>3 DEF Gone

LEMMA RetainedIs ==
  ASSUME Types, NEW c \in Callers, calls[c].pc = "refuse"
  PROVE  /\ InstOk(Retained(c)) /\ Retained(c).st = "running" /\ ~Retained(c).cold /\ Retained(c).blocked
         /\ Retained(c).slot = calls[c].slot /\ Retained(c).idx = calls[c].slot
         /\ calls[c].op = "resume" => /\ Retained(c).resuming = inst[Id(c)].resuming
                                      /\ Retained(c).destroying = inst[Id(c)].destroying
                                      /\ Retained(c).ck = inst[Id(c)].ck
         /\ calls[c].op = "create" => ~Retained(c).resuming /\ ~Retained(c).destroying
<1>1. /\ calls[c].op \in {"create", "resume"} /\ Id(c) \in Ids /\ calls[c].slot \in 0 .. SlotCount
      /\ calls[c].gen \in 0 .. MaxGen
  BY Launching DEF Types
<1>2. CASE calls[c].op = "create"
  <2>1. Retained(c) = [NoInstance EXCEPT !.gen = calls[c].gen, !.st = "running", !.cold = FALSE, !.blocked = TRUE, !.live = TRUE,
                                         !.slot = calls[c].slot, !.idx = calls[c].slot]
    BY <1>2 DEF Retained, NoInstance
  <2>2. 0 \in 0 .. MaxCheckpoint /\ 0 \in 0 .. SlotCount
    BY Numbers
  <2> QED
    BY <1>1, <1>2, <2>1, <2>2 DEF InstOk, Instances, NoInstance
<1>3. CASE calls[c].op = "resume"
  <2> DEFINE v == inst[Id(c)]
  <2>1. v \in Instances
    BY <1>1 DEF Types, RecordsFine
  <2>2. Retained(c) = [v EXCEPT !.st = "running", !.cold = FALSE, !.blocked = TRUE, !.live = v.live \/ FALSE,
                                !.slot = calls[c].slot, !.idx = calls[c].slot]
    BY <1>3 DEF Retained
  <2> HIDE DEF v
  <2>3. Retained(c) \in Instances
    BY <1>1, <2>1, <2>2 DEF Instances
  <2> QED
    BY <1>1, <1>3, <2>1, <2>2, <2>3 DEF InstOk, Instances, v
<1> QED
  BY <1>1, <1>2, <1>3

LEMMA RefuseTypes ==
  ASSUME Types, NEW c \in Callers, Refuse(c)
  PROVE  Types'
<1>1. /\ PoolTypeOK /\ RecordsFine /\ EngineFine /\ WorkFine /\ CallsFine
      /\ UNCHANGED <<net, seq, rootfs, work, marks>>
  BY DEF Types, Refuse, drv
<1>2. PoolTypeOK' /\ WorkFine'
  BY <1>1, PoolKept, WorkKeptFine
<1>3. calls[c] \in CallType /\ Stands(calls[c]) /\ calls[c].pc = "refuse" /\ 0 \in 0 .. SlotCount
  BY <1>1, CallFacts, Numbers DEF Refuse, At, Destroying, Asking
<1>4. Id(c) \in Ids /\ InstOk(Retained(c)) /\ calls[c].op \in {"create", "resume"}
  BY <1>1, <1>3, Launching, RetainedIs
<1>5. RecordOk(Persistable(Retained(c)))
  BY <1>4, Persisted DEF RecordOk, InstOk
<1>6. RecordsFine'
  <2>1. \/ UNCHANGED <<inst, disk>>
        \/ inst' = [inst EXCEPT ![Id(c)] = Retained(c)] /\ disk' = [disk EXCEPT ![Id(c)] = Persistable(Retained(c))]
    BY DEF Refuse
  <2> QED
    BY <1>1, <1>4, <1>5, <2>1, RecordsWritten, RecordsKept
<1>7. EngineFine'
  BY <1>1, <1>4, StopFine DEF Refuse
<1>8. Undoing(c) \in Places
  BY PlaceIs DEF Undoing
<1>9. CallFine([calls[c] EXCEPT !.pc = Undoing(c)])
  BY <1>3, <1>8, PlaceIs, MovesOn DEF Leads, Undoing
<1>10. calls[c].op = "resume" => CallFine([calls[c] EXCEPT !.pc = "end"])
  BY <1>3, PlaceIs, MovesOn DEF Leads
<1>11. CallFine(NoCall)
  BY NoCallFine
<1>12. \/ calls' = [calls EXCEPT ![c] = [calls[c] EXCEPT !.pc = Undoing(c)]]
       \/ calls' = Bumped([calls EXCEPT ![c] = NoCall], Id(c))
       \/ calls[c].op = "resume" /\ calls' = Bumped([calls EXCEPT ![c] = [calls[c] EXCEPT !.pc = "end"]], Id(c))
  BY <1>4 DEF Refuse, Goes, Returned
<1> QED
  BY <1>1, <1>2, <1>6, <1>7, <1>9, <1>10, <1>11, <1>12, CallMoves DEF Types

LEMMA CreateDisksTypes ==
  ASSUME Types, NEW c \in Callers, CreateDisks(c)
  PROVE  Types'
<1>1. /\ PoolTypeOK /\ RecordsFine /\ EngineFine /\ WorkFine /\ CallsFine
      /\ UNCHANGED <<net, inst, disk, eng>>
  BY DEF Types, CreateDisks, drv
<1>2. PoolTypeOK' /\ RecordsFine' /\ EngineFine'
  BY <1>1, PoolKept, RecordsKept, EngineKept
<1>3. calls[c] \in CallType /\ Stands(calls[c]) /\ calls[c].op = "create" /\ calls[c].pc = "disks" /\ 0 \in 0 .. SlotCount
  BY <1>1, CallFacts, Numbers DEF CreateDisks, At, Destroying, Asking
<1>4. Id(c) \in Ids /\ Session(c) \in Sessions
  BY <1>1, <1>3, CallFacts
<1>5. WorkFine'
  <2>1. UNCHANGED <<seq, store, owed, ran, settled>>
    BY DEF CreateDisks, drv, marks
  <2>2. 1 \in 0 .. MaxWrites
    BY Numbers
  <2>3. \/ ws' = [ws EXCEPT ![Session(c)] = IF @ = 0 THEN 1 ELSE @] /\ rootfs' = rootfs \cup {Id(c)}
        \/ UNCHANGED <<ws, rootfs>>
    BY DEF CreateDisks
  <2>4. ws' \in [Sessions -> 0 .. MaxWrites]
    BY <1>1, <1>4, <2>2, <2>3 DEF WorkFine
  <2>5. rootfs' \subseteq Ids
    BY <1>1, <1>4, <2>3 DEF WorkFine
  <2> QED
    BY <1>1, <2>1, <2>4, <2>5 DEF WorkFine
<1>6. (ws[Session(c)] = 0) \in BOOLEAN
  OBVIOUS
<1>7. CallFine([calls[c] EXCEPT !.pc = "take", !.made = ws[Session(c)] = 0])
  <2> DEFINE r == calls[c]
             q == [r EXCEPT !.pc = "take", !.made = ws[Session(c)] = 0]
  <2>1. /\ q \in CallType
        /\ q.op = r.op /\ q.id = r.id /\ q.gen = r.gen /\ q.slot = r.slot /\ q.next = r.next /\ q.cold = r.cold
        /\ q.seen = r.seen /\ q.rec = r.rec /\ q.pc = "take"
    BY <1>3, <1>6, PlaceIs DEF CallType
  <2>2. r \in CallType /\ Stands(r) /\ r.op \in Kinds
    BY <1>3 DEF CallType, Kinds
  <2>3. Stands(q)
    <3> HIDE DEF q
    <3> QED
      BY <2>1, <2>2, <1>3, <1>6 DEF Stands, Giving
  <2> QED
    BY <2>1, <2>3 DEF CallFine
<1>8. CallFine(NoCall)
  BY NoCallFine
<1>9. \/ calls' = [calls EXCEPT ![c] = [calls[c] EXCEPT !.pc = "take", !.made = ws[Session(c)] = 0]]
      \/ calls' = [calls EXCEPT ![c] = NoCall]
  BY DEF CreateDisks, Returned
<1> QED
  BY <1>1, <1>2, <1>5, <1>7, <1>8, <1>9, CallMoves DEF Types

LEMMA CreatePublishTypes ==
  ASSUME Types, NEW c \in Callers, CreatePublish(c)
  PROVE  Types'
<1>1. /\ PoolTypeOK /\ RecordsFine /\ EngineFine /\ WorkFine /\ CallsFine
      /\ UNCHANGED <<net, eng, seq, rootfs, work, marks>>
  BY DEF Types, CreatePublish, drv
<1>2. PoolTypeOK' /\ EngineFine' /\ WorkFine'
  BY <1>1, PoolKept, EngineKept, WorkKeptFine
<1>3. calls[c] \in CallType /\ Stands(calls[c]) /\ calls[c].op = "create" /\ calls[c].pc = "publish" /\ 0 \in 0 .. SlotCount
  BY <1>1, CallFacts, Numbers DEF CreatePublish, At, Destroying, Asking
<1>4. Id(c) \in Ids /\ RecordOk(Intended(c)) /\ calls[c].slot # 0
  BY <1>1, <1>3, CallFacts, IntendedIs DEF Stands
<1>5. RecordOk([Intended(c) EXCEPT !.blocked = FALSE])
  BY <1>4 DEF RecordOk, RecordType
<1>6. RecordsFine'
  <2>1. UNCHANGED inst /\ (disk' = disk \/ disk' = [disk EXCEPT ![Id(c)] = [Intended(c) EXCEPT !.blocked = FALSE]])
    BY DEF CreatePublish, drv
  <2> QED
    BY <1>1, <1>4, <1>5, <2>1, DiskWritten
<1>7. CallFine([calls[c] EXCEPT !.pc = "commit"])
  BY <1>3, <1>4, PlaceIs, MovesOn DEF Leads
<1>8. CallFine([calls[c] EXCEPT !.pc = "refuse"])
  BY <1>3, <1>4, PlaceIs, MovesOn DEF Leads
<1>9. \/ calls' = [calls EXCEPT ![c] = [calls[c] EXCEPT !.pc = "commit"]]
      \/ calls' = [calls EXCEPT ![c] = [calls[c] EXCEPT !.pc = "refuse"]]
  BY DEF CreatePublish, Goes
<1> QED
  BY <1>1, <1>2, <1>6, <1>7, <1>8, <1>9, CallMoves DEF Types

LEMMA CommittedIs ==
  ASSUME CallsFine, NEW c \in Callers, At(c, "create", "commit")
  PROVE  InstOk([NoInstance EXCEPT !.st = "running", !.idx = calls[c].slot, !.gen = calls[c].gen, !.slot = calls[c].slot, !.live = TRUE])
<1>1. calls[c] \in CallType /\ Stands(calls[c]) /\ calls[c].op = "create"
  BY CallFacts DEF At
<1>2. calls[c].slot \in 0 .. SlotCount /\ calls[c].gen \in 0 .. MaxGen /\ 0 \in 0 .. MaxCheckpoint
  BY <1>1, Numbers DEF CallType, Stands
<1> QED
  BY <1>2 DEF InstOk, Instances, NoInstance

LEMMA CommitSlotTypes ==
  ASSUME Types, NEW c \in Callers, CommitSlot(c)
  PROVE  Types'
<1>1. /\ PoolTypeOK /\ RecordsFine /\ EngineFine /\ WorkFine /\ CallsFine
      /\ UNCHANGED <<net, eng, disk, seq, rootfs, work, settled>>
  BY DEF Types, CommitSlot
<1>2. PoolTypeOK' /\ EngineFine'
  BY <1>1, PoolKept, EngineKept
<1>3. Id(c) \in Ids /\ Session(c) \in Sessions
  BY <1>1, CallFacts DEF CommitSlot, At
<1>4. RecordsFine'
  <2>1. inst' = [inst EXCEPT ![Id(c)] = [NoInstance EXCEPT !.st = "running", !.idx = calls[c].slot, !.gen = calls[c].gen,
                                                           !.slot = calls[c].slot, !.live = TRUE]]
    BY DEF CommitSlot
  <2> QED
    BY <1>1, <1>3, <2>1, InstWritten, CommittedIs DEF CommitSlot
<1>5. WorkFine'
  BY <1>1, <1>3 DEF WorkFine, CommitSlot, work
<1>6. CallsFine'
  BY <1>1, CallReturns DEF CommitSlot
<1> QED
  BY <1>2, <1>4, <1>5, <1>6 DEF Types

\* a call that gives its slot back first
LEMMA ReleasesFine ==
  ASSUME CallsFine, NEW c \in Callers, NEW slot \in 0 .. SlotCount, NEW next \in Places, NEW id,
         \/ calls[c].op = "create" /\ next = "unmake"
         \/ calls[c].op = "suspend" /\ next = "save" /\ calls[c].rec.st # "none"
         \/ calls[c].op = "resume" /\ calls[c].cold /\ next = "unclone"
         \/ calls[c].op \in {"destroy", "reap"} /\ next = "forget"
         \/ calls[c].op \in {"inspect", "status"} /\ next = IF calls[c].op = "status" THEN "answer" ELSE "done",
         calls' = Releases(c, slot, next) \/ calls' = Bumped(Releases(c, slot, next), id)
  PROVE  CallsFine'
<1> DEFINE pc == IF slot = 0 THEN next ELSE "release"
<1>1. calls[c] \in CallType /\ Stands(calls[c])
  BY CallFacts
<1>2. pc \in Places
  BY PlaceIs
<1>3. CallFine([calls[c] EXCEPT !.pc = pc, !.slot = slot, !.next = next])
  <2> DEFINE r == calls[c]
             q == [r EXCEPT !.pc = pc, !.slot = slot, !.next = next]
  <2>1. /\ q \in CallType
        /\ q.op = r.op /\ q.id = r.id /\ q.gen = r.gen /\ q.cold = r.cold /\ q.seen = r.seen /\ q.rec = r.rec
        /\ q.pc = pc /\ q.slot = slot /\ q.next = next
    BY <1>1, <1>2, PlaceIs DEF CallType
  <2>2. r \in CallType /\ Stands(r) /\ r.op \in Kinds
    BY <1>1 DEF CallType, Kinds
  <2>3. Stands(q)
    <3> HIDE DEF q
    <3> QED
      BY <2>1, <2>2, <1>1, <1>2 DEF Stands, Giving
  <2> QED
    BY <2>1, <2>3 DEF CallFine
<1>4. Releases(c, slot, next) = [calls EXCEPT ![c] = [calls[c] EXCEPT !.pc = pc, !.slot = slot, !.next = next]]
  BY DEF Releases
<1> HIDE DEF pc
<1> QED
  BY <1>3, <1>4, CallMoves

LEMMA UnwindTypes ==
  ASSUME Types, NEW c \in Callers, Unwind(c)
  PROVE  Types'
<1>1. /\ PoolTypeOK /\ RecordsFine /\ EngineFine /\ WorkFine /\ CallsFine
      /\ UNCHANGED <<net, inst, disk, eng, seq, rootfs, work, marks>>
  BY DEF Types, Unwind, drv
<1>2. PoolTypeOK' /\ RecordsFine' /\ EngineFine' /\ WorkFine'
  BY <1>1, PoolKept, RecordsKept, EngineKept, WorkKeptFine
<1>3. calls[c] \in CallType /\ Stands(calls[c]) /\ calls[c].op = "create" /\ 0 \in 0 .. SlotCount
  BY <1>1, CallFacts, Numbers DEF Unwind, At, Destroying, Asking
<1>4. calls[c].slot \in 0 .. SlotCount /\ "unmake" \in Places /\ calls' = Releases(c, calls[c].slot, "unmake")
  BY <1>3, PlaceIs DEF CallType, Unwind
<1>5. CallsFine'
  BY <1>1, <1>3, <1>4, ReleasesFine
<1> QED
  BY <1>1, <1>2, <1>5 DEF Types

LEMMA UnmakeTypes ==
  ASSUME Types, NEW c \in Callers, Unmake(c)
  PROVE  Types'
<1>1. /\ PoolTypeOK /\ RecordsFine /\ EngineFine /\ WorkFine /\ CallsFine
      /\ UNCHANGED <<net, inst, vm, seq, store, owed, ran, settled>>
  BY DEF Types, Unmake, drv, marks
<1>2. PoolTypeOK'
  BY <1>1, PoolKept
<1>3. Id(c) \in Ids /\ Session(c) \in Sessions
  BY <1>1, CallFacts DEF Unmake, At
<1>4. RecordsFine'
  <2>1. disk' = [disk EXCEPT ![Id(c)] = NoRecord]
    BY DEF Unmake
  <2> QED
    BY <1>1, <1>3, <2>1, DiskWritten
<1>5. EngineFine'
  <2>1. ev' = [ev EXCEPT ![Id(c)] = "none"] /\ vm' = vm
    BY DEF Unmake
  <2> QED
    BY <1>1, <1>3, <2>1 DEF EngineFine, Identified, Alive
<1>6. WorkFine'
  <2>1. rootfs' \subseteq Ids
    BY <1>1 DEF WorkFine, Unmake
  <2>2. ws' \in [Sessions -> 0 .. MaxWrites]
    BY <1>1, <1>3, Numbers DEF WorkFine, Unmake
  <2> QED
    BY <1>1, <2>1, <2>2 DEF WorkFine
<1>7. CallsFine'
  BY <1>1, CallReturns DEF Unmake
<1> QED
  BY <1>2, <1>4, <1>5, <1>6, <1>7 DEF Types

--------------------
\* The types, over the calls that are issued.

LEMMA NoCallIs ==
  /\ NoCall \in CallType /\ Stands(NoCall) /\ NoCall.op = "none" /\ NoCall.pc = "idle" /\ NoCall.id = 0 /\ NoCall.gen = 0
  /\ NoCall.slot = 0 /\ NoCall.cold = FALSE /\ NoCall.fresh = FALSE /\ NoCall.seen = "none" /\ NoCall.owed = 0
  BY NoCallFine DEF CallFine, NoCall

LEMMA CreateTypes ==
  ASSUME Types, NEW c \in Callers, Create(c)
  PROVE  Types'
<1>1. /\ PoolTypeOK /\ RecordsFine /\ EngineFine /\ WorkFine /\ CallsFine
      /\ UNCHANGED <<net, inst, disk, eng, work, rootfs, ran>>
  BY DEF Types, Create
<1>2. PoolTypeOK' /\ RecordsFine' /\ EngineFine'
  BY <1>1, PoolKept, RecordsKept, EngineKept
<1>3. NoCall \in CallType /\ Stands(NoCall) /\ NoCall.slot = 0
  BY NoCallIs
<1> DEFINE id == seq + 1
<1>4. id \in Ids /\ id # 0
  BY Numbers DEF Create
<1>5. CallFine([NoCall EXCEPT !.op = "create", !.pc = "disks", !.id = id, !.gen = 1])
  <2> DEFINE r == NoCall
             q == [r EXCEPT !.op = "create", !.pc = "disks", !.id = id, !.gen = 1]
  <2>1. /\ q \in CallType
        /\ q.slot = r.slot /\ q.next = r.next /\ q.cold = r.cold /\ q.seen = r.seen /\ q.rec = r.rec /\ q.op = "create"
        /\ q.pc = "disks" /\ q.id = id /\ q.gen = 1
    BY <1>3, <1>4, PlaceIs DEF CallType
  <2>2. r \in CallType /\ Stands(r) /\ r.op \in Kinds
    BY <1>3 DEF CallType, Kinds
  <2>3. Stands(q)
    <3> HIDE DEF q
    <3> QED
      BY <2>1, <2>2, <1>3, <1>4 DEF Stands, Giving
  <2> QED
    BY <2>1, <2>3 DEF CallFine
<1>6. CallsFine'
  <2>1. calls' = [calls EXCEPT ![c] = [NoCall EXCEPT !.op = "create", !.pc = "disks", !.id = id, !.gen = 1]]
    BY DEF Create
  <2> HIDE DEF id
  <2> QED
    BY <1>1, <1>5, <2>1, CallMoves
<1>7. WorkFine'
  <2>1. seq' = id /\ settled' = [settled EXCEPT ![id] = {}]
    BY DEF Create
  <2> HIDE DEF id
  <2> QED
    BY <1>1, <1>4, <2>1 DEF WorkFine, work
<1> QED
  BY <1>2, <1>6, <1>7 DEF Types

LEMMA SuspendTypes ==
  ASSUME Types, NEW c \in Callers, NEW id \in Ids, NEW cold \in BOOLEAN, Suspend(c, id, cold)
  PROVE  Types'
<1>1. /\ PoolTypeOK /\ RecordsFine /\ EngineFine /\ WorkFine /\ CallsFine
      /\ UNCHANGED <<net, disk, eng, seq, rootfs, work, marks>>
  BY DEF Types, Suspend
<1>2. PoolTypeOK' /\ EngineFine' /\ WorkFine'
  BY <1>1, PoolKept, EngineKept, WorkKeptFine
<1>3. NoCall \in CallType /\ Stands(NoCall) /\ NoCall.slot = 0
  BY NoCallIs
<1>4. InstOk(inst[id]) /\ inst[id].ck + 1 \in Nat /\ ws[SessionOf(id)] \in 0 .. MaxWrites /\ id # 0
  <2>1. inst[id] \in Instances /\ inst[id].st # "none"
    BY <1>1 DEF RecordsFine, Suspend, Known
  <2>2. ws[SessionOf(id)] \in 0 .. MaxWrites
    BY <1>1 DEF WorkFine, Sessions
  <2> QED
    BY <2>1, <2>2, Numbers DEF InstOk, Instances
<1> DEFINE pc == IF cold /\ setup.ckpt THEN "stream" ELSE "stop"
<1>5. pc \in Places /\ pc \in {"stream", "stop"}
  BY PlaceIs
<1>6. CallFine([NoCall EXCEPT !.op = "suspend", !.pc = pc, !.id = id, !.cold = cold, !.gen = inst[id].ck + 1, !.owed = ws[SessionOf(id)]])
  <2> DEFINE r == NoCall
             q == [r EXCEPT !.op = "suspend", !.pc = pc, !.id = id, !.cold = cold, !.gen = inst[id].ck + 1, !.owed = ws[SessionOf(id)]]
  <2>1. /\ q \in CallType
        /\ q.slot = r.slot /\ q.next = r.next /\ q.seen = r.seen /\ q.rec = r.rec /\ q.op = "suspend" /\ q.pc = pc
        /\ q.id = id /\ q.cold = cold /\ q.gen = (inst[id].ck + 1)
    BY <1>3, <1>4, <1>5, PlaceIs, ZenonT(60) DEF CallType
  <2>2. r \in CallType /\ Stands(r) /\ r.op \in Kinds
    BY <1>3 DEF CallType, Kinds
  <2>3. Stands(q)
    <3> HIDE DEF q
    <3> QED
      BY <2>1, <2>2, <1>3, <1>4, <1>5 DEF Stands, Giving
  <2> QED
    BY <2>1, <2>3 DEF CallFine
<1>7. CallsFine'
  <2>1. calls' = [calls EXCEPT ![c] = [NoCall EXCEPT !.op = "suspend", !.pc = pc, !.id = id, !.cold = cold,
                                                     !.gen = inst[id].ck + 1, !.owed = ws[SessionOf(id)]]]
    BY DEF Suspend
  <2> HIDE DEF pc
  <2> QED
    BY <1>1, <1>6, <2>1, CallMoves
<1>8. RecordsFine'
  <2>1. InstOk([inst[id] EXCEPT !.checkpointing = TRUE])
    BY <1>4 DEF InstOk, Instances
  <2>2. inst' = inst \/ inst' = [inst EXCEPT ![id] = [inst[id] EXCEPT !.checkpointing = TRUE]]
    BY DEF Suspend
  <2> QED
    BY <1>1, <2>1, <2>2, InstWritten
<1> QED
  BY <1>2, <1>7, <1>8 DEF Types

\* the record a resume names, and claims
LEMMA NamedIs ==
  ASSUME RecordsFine, NEW id \in Ids, Known(id), NEW gen \in 0 .. MaxGen, NEW slot \in 0 .. SlotCount
  PROVE  LET named == IF gen = 0 THEN inst[id] ELSE [inst[id] EXCEPT !.gen = gen]
         IN  /\ InstOk(named) /\ named.st = inst[id].st /\ named.cold = inst[id].cold /\ named.slot = inst[id].slot
             /\ named.destroying = inst[id].destroying /\ named.resuming = inst[id].resuming /\ named.ck = inst[id].ck
             /\ named.blocked = inst[id].blocked /\ named.idx = inst[id].idx
             /\ InstOk([named EXCEPT !.resuming = TRUE, !.slot = slot])
  BY ZenonT(60) DEF RecordsFine, Known, InstOk, Instances

LEMMA ResumeTypes ==
  ASSUME Types, NEW c \in Callers, NEW id \in Ids, NEW gen \in 0 .. MaxGen, Resume(c, id, gen)
  PROVE  Types'
<1>1. /\ PoolTypeOK /\ RecordsFine /\ EngineFine /\ WorkFine /\ CallsFine
      /\ UNCHANGED <<net, eng, seq, rootfs, work, marks>>
  BY DEF Types, Resume
<1>2. PoolTypeOK' /\ EngineFine' /\ WorkFine'
  BY <1>1, PoolKept, EngineKept, WorkKeptFine
<1>3. NoCall \in CallType /\ Stands(NoCall) /\ NoCall.slot = 0
  BY NoCallIs
<1> DEFINE v == inst[id]
           named == IF gen = 0 THEN v ELSE [v EXCEPT !.gen = gen]
           slot == IF v.cold THEN v.slot ELSE 0
           left == IF v.cold THEN 0 ELSE named.slot
           pc == IF ~v.cold THEN "thaw" ELSE IF v.slot # 0 THEN "release" ELSE "prepare"
           claimed == [named EXCEPT !.resuming = TRUE, !.slot = left]
<1>4. v \in Instances /\ Known(id) /\ id # 0
  BY <1>1, Numbers DEF RecordsFine, Resume
<1>5. named.slot = v.slot
  BY <1>4 DEF Instances
<1>5a. v.slot \in 0 .. SlotCount /\ slot \in 0 .. SlotCount /\ left \in 0 .. SlotCount /\ v.cold \in BOOLEAN /\ gen \in Nat /\ gen <= MaxGen
  BY <1>4, <1>5, Numbers DEF Instances
<1>6. pc \in Places /\ "prepare" \in Places
  BY PlaceIs
<1>7. \/ pc = "thaw" /\ ~v.cold /\ slot = 0
      \/ pc = "release" /\ v.cold /\ slot # 0
      \/ pc = "prepare" /\ v.cold /\ slot = 0
  BY <1>5a
<1>8. calls' = calls \/ calls' = [calls EXCEPT ![c] = [NoCall EXCEPT !.op = "resume", !.id = id, !.gen = gen, !.cold = v.cold,
                                                                  !.slot = slot, !.next = "prepare", !.pc = pc]]
  BY DEF Resume
<1>9. /\ inst' = [inst EXCEPT ![id] = named] \/ inst' = [inst EXCEPT ![id] = claimed]
      /\ disk' = disk \/ disk' = [disk EXCEPT ![id] = Persistable(named)]
  BY DEF Resume
<1>10. InstOk(named) /\ InstOk(claimed)
  BY <1>1, <1>4, <1>5a, NamedIs
<1> HIDE DEF v, named, slot, left, pc, claimed
<1>11. RecordOk(Persistable(named))
  BY <1>10, Persisted DEF RecordOk, InstOk
<1>12. RecordsFine'
  BY <1>1, <1>9, <1>10, <1>11, RecordsWritten
<1>13. CallFine([NoCall EXCEPT !.op = "resume", !.id = id, !.gen = gen, !.cold = v.cold, !.slot = slot, !.next = "prepare", !.pc = pc])
  <2> DEFINE r == NoCall
             q == [r EXCEPT !.op = "resume", !.id = id, !.gen = gen, !.cold = v.cold, !.slot = slot, !.next = "prepare", !.pc = pc]
  <2>1. /\ q \in CallType
        /\ q.seen = r.seen /\ q.rec = r.rec /\ q.op = "resume" /\ q.id = id /\ q.gen = gen /\ q.cold = v.cold
        /\ q.slot = slot /\ q.next = "prepare" /\ q.pc = pc
    BY <1>3, <1>4, <1>5a, <1>6, <1>7, PlaceIs DEF CallType
  <2>2. r \in CallType /\ Stands(r) /\ r.op \in Kinds
    BY <1>3 DEF CallType, Kinds
  <2>3. Stands(q)
    <3> HIDE DEF q
    <3> QED
      BY <2>1, <2>2, <1>3, <1>4, <1>5a, <1>6, <1>7 DEF Stands, Giving
  <2> QED
    BY <2>1, <2>3 DEF CallFine
<1>14. CallsFine'
  BY <1>1, <1>8, <1>13, CallMoves, CallsKept
<1> QED
  BY <1>2, <1>12, <1>14 DEF Types

LEMMA SnapshotTypes ==
  ASSUME Types, NEW c \in Callers, NEW id \in Ids, Snapshot(c, id)
  PROVE  Types'
<1>1. /\ PoolTypeOK /\ RecordsFine /\ EngineFine /\ WorkFine /\ CallsFine
      /\ UNCHANGED <<net, disk, eng, seq, rootfs, work, marks>>
  BY DEF Types, Snapshot
<1>2. PoolTypeOK' /\ EngineFine' /\ WorkFine'
  BY <1>1, PoolKept, EngineKept, WorkKeptFine
<1>3. NoCall \in CallType /\ Stands(NoCall) /\ NoCall.slot = 0
  BY NoCallIs
<1>4. id # 0
  BY Numbers
<1>5. CallFine([NoCall EXCEPT !.op = "snapshot", !.pc = "freeze", !.id = id])
  <2> DEFINE r == NoCall
             q == [r EXCEPT !.op = "snapshot", !.pc = "freeze", !.id = id]
  <2>1. /\ q \in CallType
        /\ q.gen = r.gen /\ q.slot = r.slot /\ q.next = r.next /\ q.cold = r.cold /\ q.seen = r.seen /\ q.rec = r.rec
        /\ q.op = "snapshot" /\ q.pc = "freeze" /\ q.id = id
    BY <1>3, <1>4, PlaceIs DEF CallType
  <2>2. r \in CallType /\ Stands(r) /\ r.op \in Kinds
    BY <1>3 DEF CallType, Kinds
  <2>3. Stands(q)
    <3> HIDE DEF q
    <3> QED
      BY <2>1, <2>2, <1>3, <1>4 DEF Stands, Giving
  <2> QED
    BY <2>1, <2>3 DEF CallFine
<1>6. CallsFine'
  BY <1>1, <1>5, CallMoves DEF Snapshot
<1>7. InstOk([inst[id] EXCEPT !.snapshotting = TRUE])
  BY <1>1 DEF Snapshot, RecordsFine, InstOk, Instances
<1>8. RecordsFine'
  BY <1>1, <1>7, InstWritten DEF Snapshot
<1> QED
  BY <1>2, <1>6, <1>8 DEF Types

LEMMA DestroyTypes ==
  ASSUME Types, NEW c \in Callers, NEW op \in {"destroy", "reap"}, NEW id \in Ids, Destroy(c, op, id)
  PROVE  Types'
<1>1. /\ PoolTypeOK /\ RecordsFine /\ EngineFine /\ WorkFine /\ CallsFine
      /\ UNCHANGED <<net, inst, disk, eng, seq, rootfs, work, marks>>
  BY DEF Types, Destroy, drv
<1>2. PoolTypeOK' /\ RecordsFine' /\ EngineFine' /\ WorkFine'
  BY <1>1, PoolKept, RecordsKept, EngineKept, WorkKeptFine
<1>3. NoCall \in CallType /\ Stands(NoCall) /\ NoCall.slot = 0
  BY NoCallIs
<1>4. id # 0
  BY Numbers
<1>5. CallFine([NoCall EXCEPT !.op = op, !.pc = "wait", !.id = id])
  <2> DEFINE r == NoCall
             q == [r EXCEPT !.op = op, !.pc = "wait", !.id = id]
  <2>1. /\ q \in CallType
        /\ q.gen = r.gen /\ q.slot = r.slot /\ q.next = r.next /\ q.cold = r.cold /\ q.seen = r.seen /\ q.rec = r.rec
        /\ q.op = op /\ q.pc = "wait" /\ q.id = id
    BY <1>3, <1>4, PlaceIs DEF CallType
  <2>2. r \in CallType /\ Stands(r) /\ r.op \in Kinds
    BY <1>3 DEF CallType, Kinds
  <2>3. Stands(q)
    <3> HIDE DEF q
    <3> QED
      BY <2>1, <2>2, <1>3, <1>4 DEF Stands, Giving
  <2> QED
    BY <2>1, <2>3 DEF CallFine
<1>6. CallsFine'
  BY <1>1, <1>5, CallMoves DEF Destroy
<1> QED
  BY <1>2, <1>6 DEF Types

LEMMA InspectTypes ==
  ASSUME Types, NEW c \in Callers, NEW op \in {"inspect", "status"}, NEW id \in Ids, NEW gen \in 0 .. MaxGen, Inspect(c, op, id, gen)
  PROVE  Types'
<1>1. /\ PoolTypeOK /\ RecordsFine /\ EngineFine /\ WorkFine /\ CallsFine
      /\ UNCHANGED <<net, inst, disk, eng, seq, rootfs, work, marks>>
  BY DEF Types, Inspect, drv
<1>2. PoolTypeOK' /\ RecordsFine' /\ EngineFine' /\ WorkFine'
  BY <1>1, PoolKept, RecordsKept, EngineKept, WorkKeptFine
<1>3. NoCall \in CallType /\ Stands(NoCall) /\ NoCall.slot = 0
  BY NoCallIs
<1>4. id # 0 /\ gen \in Nat /\ gen <= MaxGen
  BY Numbers
<1>5. CallFine([NoCall EXCEPT !.op = op, !.pc = "ask", !.id = id, !.gen = gen, !.fresh = TRUE])
  <2> DEFINE r == NoCall
             q == [r EXCEPT !.op = op, !.pc = "ask", !.id = id, !.gen = gen, !.fresh = TRUE]
  <2>1. /\ q \in CallType
        /\ q.slot = r.slot /\ q.next = r.next /\ q.cold = r.cold /\ q.seen = r.seen /\ q.rec = r.rec /\ q.op = op
        /\ q.pc = "ask" /\ q.id = id /\ q.gen = gen
    BY <1>3, <1>4, PlaceIs DEF CallType
  <2>2. r \in CallType /\ Stands(r) /\ r.op \in Kinds
    BY <1>3 DEF CallType, Kinds
  <2>3. Stands(q)
    <3> HIDE DEF q
    <3> QED
      BY <2>1, <2>2, <1>3, <1>4 DEF Stands, Giving
  <2> QED
    BY <2>1, <2>3 DEF CallFine
<1>6. CallsFine'
  BY <1>1, <1>5, CallMoves DEF Inspect
<1> QED
  BY <1>2, <1>6 DEF Types

--------------------
\* The types, over the steps of a suspend.

LEMMA UnclaimedIs ==
  ASSUME RecordsFine, NEW id \in Ids, UNCHANGED disk, inst' = inst \/ inst' = Unclaimed(id)
  PROVE  RecordsFine'
<1>1. CASE Known(id) /\ inst' = [inst EXCEPT ![id].checkpointing = FALSE]
  <2>1. InstOk([inst[id] EXCEPT !.checkpointing = FALSE])
    BY <1>1, ZenonT(60) DEF RecordsFine, Known, InstOk, Instances
  <2> QED
    BY <1>1, <2>1, InstWritten
<1>2. CASE inst' = inst
  BY <1>2, RecordsKept
<1> QED
  BY <1>1, <1>2 DEF Unclaimed

LEMMA StreamWorkspaceTypes ==
  ASSUME Types, NEW c \in Callers, StreamWorkspace(c)
  PROVE  Types'
<1>1. /\ PoolTypeOK /\ RecordsFine /\ EngineFine /\ WorkFine /\ CallsFine
      /\ UNCHANGED <<net, eng>>
  BY DEF Types, StreamWorkspace, drv
<1>2. PoolTypeOK' /\ EngineFine'
  BY <1>1, PoolKept, EngineKept
<1>3. calls[c] \in CallType /\ Stands(calls[c]) /\ calls[c].op = "suspend" /\ calls[c].pc = "stream" /\ 0 \in 0 .. SlotCount
  BY <1>1, CallFacts, Numbers DEF StreamWorkspace, At, Destroying, Asking
<1>4. Id(c) \in Ids /\ Session(c) \in Sessions
  BY <1>1, <1>3, CallFacts
<1>5. RecordsFine'
  <2>1. UNCHANGED disk /\ (inst' = inst \/ inst' = Unclaimed(Id(c)))
    BY DEF StreamWorkspace
  <2> QED
    BY <1>1, <1>4, <2>1, UnclaimedIs
<1> DEFINE free == FreeGenerations(c)
           g == Min(free)
<1>6. CASE UNCHANGED store /\ calls' = Returned(c)
  <2>1. WorkFine'
    BY <1>1, <1>6 DEF StreamWorkspace, WorkFine, marks
  <2> QED
    BY <1>1, <1>2, <1>5, <1>6, <2>1, CallReturns DEF Types
<1>7. CASE /\ free # {} /\ store' = [store EXCEPT ![Session(c)][g] = ws[Session(c)]]
           /\ calls' = [calls EXCEPT ![c] = [calls[c] EXCEPT !.pc = "record", !.gen = g]]
  <2>1. free \in SUBSET Nat /\ free \subseteq Generations
    BY DEF FreeGenerations, Generations
  <2>2. g \in Generations /\ g \in Nat
    BY <1>7, <2>1, LeastIs
  <2> HIDE DEF g, free
  <2>3. ws[Session(c)] \in -1 .. MaxWrites
    BY <1>1, <1>4, Numbers DEF WorkFine
  <2>4. store' \in [Sessions -> [Generations -> -1 .. MaxWrites]]
    BY <1>1, <1>4, <1>7, <2>2, <2>3 DEF WorkFine
  <2>5. WorkFine'
    BY <1>1, <2>4 DEF StreamWorkspace, WorkFine, marks
  <2>6. CallFine([calls[c] EXCEPT !.pc = "record", !.gen = g])
    <3> DEFINE r == calls[c]
               q == [r EXCEPT !.pc = "record", !.gen = g]
    <3>1. /\ q \in CallType
          /\ q.op = r.op /\ q.id = r.id /\ q.slot = r.slot /\ q.next = r.next /\ q.cold = r.cold /\ q.seen = r.seen
          /\ q.rec = r.rec /\ q.pc = "record" /\ q.gen = g
      BY <1>3, <2>2, PlaceIs DEF CallType
    <3>2. r \in CallType /\ Stands(r) /\ r.op \in Kinds
      BY <1>3 DEF CallType, Kinds
    <3>3. Stands(q)
      <4> HIDE DEF q
      <4> QED
        BY <3>1, <3>2, <1>3, <2>2 DEF Stands, Giving
    <3> QED
      BY <3>1, <3>3 DEF CallFine
  <2> QED
    BY <1>1, <1>2, <1>5, <1>7, <2>5, <2>6, CallMoves DEF Types
<1> QED
  BY <1>6, <1>7 DEF StreamWorkspace

LEMMA RecordCheckpointTypes ==
  ASSUME Types, NEW c \in Callers, RecordCheckpoint(c)
  PROVE  Types'
<1>1. /\ PoolTypeOK /\ RecordsFine /\ EngineFine /\ WorkFine /\ CallsFine
      /\ UNCHANGED <<net, eng, seq, rootfs, work, marks>>
  BY DEF Types, RecordCheckpoint, drv
<1>2. PoolTypeOK' /\ EngineFine' /\ WorkFine'
  BY <1>1, PoolKept, EngineKept, WorkKeptFine
<1>3. calls[c] \in CallType /\ Stands(calls[c]) /\ calls[c].op = "suspend" /\ calls[c].pc = "record" /\ 0 \in 0 .. SlotCount
  BY <1>1, CallFacts, Numbers DEF RecordCheckpoint, At, Destroying, Asking
<1>4. Id(c) \in Ids /\ calls[c].gen \in 0 .. MaxCheckpoint
  BY <1>1, <1>3, CallFacts DEF Stands, Generations
<1>5. CASE ~Known(Id(c))
  <2>1. UNCHANGED <<inst, disk>> /\ calls' = Returned(c)
    BY <1>5 DEF RecordCheckpoint
  <2> QED
    BY <1>1, <1>2, <2>1, CallReturns, RecordsKept DEF Types
<1>6. CASE Known(Id(c))
  <2> DEFINE v == [inst[Id(c)] EXCEPT !.ck = calls[c].gen]
             p == Persistable(v)
  <2>1. UNCHANGED disk /\ inst' = [inst EXCEPT ![Id(c)] = v]
        /\ calls' = Bumped([calls EXCEPT ![c] = [calls[c] EXCEPT !.pc = "recorded", !.rec = p]], Id(c))
    BY <1>6 DEF RecordCheckpoint
  <2>2. InstOk(v)
    BY <1>1, <1>4, <1>6 DEF RecordsFine, Known, InstOk, Instances
  <2>3. RecordOk(p)
    BY <2>2, Persisted DEF RecordOk, InstOk
  <2> HIDE DEF v, p
  <2>4. RecordsFine'
    BY <1>1, <1>4, <2>1, <2>2, InstWritten
  <2>5. p \in RecordType /\ p.st # "none"
    BY <2>3 DEF RecordOk
  <2>6. CallFine([calls[c] EXCEPT !.pc = "recorded", !.rec = p])
    <3> DEFINE r == calls[c]
               q == [r EXCEPT !.pc = "recorded", !.rec = p]
    <3>1. /\ q \in CallType
          /\ q.op = r.op /\ q.id = r.id /\ q.gen = r.gen /\ q.slot = r.slot /\ q.next = r.next /\ q.cold = r.cold
          /\ q.seen = r.seen /\ q.pc = "recorded" /\ q.rec = p
      BY <1>3, <2>5, PlaceIs DEF CallType
    <3>2. r \in CallType /\ Stands(r) /\ r.op \in Kinds
      BY <1>3 DEF CallType, Kinds
    <3>3. Stands(q)
      <4> HIDE DEF q
      <4> QED
        BY <3>1, <3>2, <1>3, <2>5 DEF Stands, Giving
    <3> QED
      BY <3>1, <3>3 DEF CallFine
  <2> QED
    BY <1>1, <1>2, <2>1, <2>4, <2>6, CallMoves DEF Types
<1> QED
  BY <1>5, <1>6

LEMMA CheckpointSavedTypes ==
  ASSUME Types, NEW c \in Callers, CheckpointSaved(c)
  PROVE  Types'
<1>1. /\ PoolTypeOK /\ RecordsFine /\ EngineFine /\ WorkFine /\ CallsFine
      /\ UNCHANGED <<net, eng, seq, rootfs, work, marks>>
  BY DEF Types, CheckpointSaved, drv
<1>2. PoolTypeOK' /\ EngineFine' /\ WorkFine'
  BY <1>1, PoolKept, EngineKept, WorkKeptFine
<1>3. calls[c] \in CallType /\ Stands(calls[c]) /\ calls[c].op = "suspend" /\ calls[c].pc = "recorded" /\ 0 \in 0 .. SlotCount
  BY <1>1, CallFacts, Numbers DEF CheckpointSaved, At, Destroying, Asking
<1>4. Id(c) \in Ids /\ RecordOk(calls[c].rec)
  BY <1>1, <1>3, CallFacts DEF Stands, CallType, RecordOk
<1>5. CallFine([calls[c] EXCEPT !.pc = "verify"])
  BY <1>3, PlaceIs, MovesOn DEF Leads
<1>6. RecordsFine'
  <2>1. \/ UNCHANGED inst /\ disk' = [disk EXCEPT ![Id(c)] = calls[c].rec]
        \/ UNCHANGED disk /\ inst' = Unclaimed(Id(c))
    BY DEF CheckpointSaved
  <2>2. CASE UNCHANGED inst /\ disk' = [disk EXCEPT ![Id(c)] = calls[c].rec]
    BY <1>1, <1>4, <2>2, DiskWritten
  <2>3. CASE UNCHANGED disk /\ inst' = Unclaimed(Id(c))
    BY <1>1, <1>4, <2>3, UnclaimedIs
  <2> QED
    BY <2>1, <2>2, <2>3
<1>7. CallsFine'
  BY <1>1, <1>5, CallMoves, CallReturns DEF CheckpointSaved, Goes
<1> QED
  BY <1>2, <1>6, <1>7 DEF Types

LEMMA VerifyTypes ==
  ASSUME Types, NEW c \in Callers, Verify(c)
  PROVE  Types'
<1>1. /\ PoolTypeOK /\ RecordsFine /\ EngineFine /\ WorkFine /\ CallsFine
      /\ UNCHANGED <<net, eng>>
  BY DEF Types, Verify, drv
<1>2. PoolTypeOK' /\ EngineFine'
  BY <1>1, PoolKept, EngineKept
<1>3. calls[c] \in CallType /\ Stands(calls[c]) /\ calls[c].op = "suspend" /\ calls[c].pc = "verify" /\ 0 \in 0 .. SlotCount
  BY <1>1, CallFacts, Numbers DEF Verify, At, Destroying, Asking
<1>4. Id(c) \in Ids /\ Session(c) \in Sessions /\ calls[c].gen \in Generations
  BY <1>1, <1>3, CallFacts DEF Stands
<1>5. RecordsFine'
  <2>1. UNCHANGED disk /\ inst' = Unclaimed(Id(c))
    BY DEF Verify
  <2> QED
    BY <1>1, <1>4, <2>1, UnclaimedIs
<1>6. WorkFine'
  <2>1. -1 \in -1 .. MaxWrites
    BY Numbers
  <2>2. store' = store \/ store' = [store EXCEPT ![Session(c)][calls[c].gen] = -1]
    BY DEF Verify
  <2>3. store' \in [Sessions -> [Generations -> -1 .. MaxWrites]]
    BY <1>1, <1>4, <2>1, <2>2 DEF WorkFine
  <2> QED
    BY <1>1, <2>3 DEF Verify, WorkFine, marks
<1>7. CallFine([calls[c] EXCEPT !.pc = "stop"])
  BY <1>3, PlaceIs, MovesOn DEF Leads
<1>8. CallsFine'
  BY <1>1, <1>7, CallMoves, CallReturns DEF Verify, Goes
<1> QED
  BY <1>2, <1>5, <1>6, <1>8 DEF Types

LEMMA SuspendVMTypes ==
  ASSUME Types, NEW c \in Callers, SuspendVM(c)
  PROVE  Types'
<1>1. /\ PoolTypeOK /\ RecordsFine /\ EngineFine /\ WorkFine /\ CallsFine
      /\ UNCHANGED <<net, inst, disk, seq, rootfs, work, marks>>
  BY DEF Types, SuspendVM, drv
<1>2. PoolTypeOK' /\ RecordsFine' /\ WorkFine'
  BY <1>1, PoolKept, RecordsKept, WorkKeptFine
<1>3. calls[c] \in CallType /\ Stands(calls[c]) /\ calls[c].op = "suspend" /\ calls[c].pc = "stop" /\ 0 \in 0 .. SlotCount
  BY <1>1, CallFacts, Numbers DEF SuspendVM, At, Destroying, Asking
<1>4. Id(c) \in Ids
  BY <1>1, <1>3, CallFacts
<1>5. EngineFine'
  <2>1. \/ Gone(Id(c)) \/ Lingers(Id(c))
        \/ vm' = [vm EXCEPT ![Id(c)] = [vm[Id(c)] EXCEPT !.st = "paused"]] /\ UNCHANGED ev
        \/ UNCHANGED eng
    BY DEF SuspendVM, Gone
  <2>2. CASE vm' = [vm EXCEPT ![Id(c)] = [vm[Id(c)] EXCEPT !.st = "paused"]] /\ UNCHANGED ev
    <3>1. [vm[Id(c)] EXCEPT !.st = "paused"] \in Machines /\ [vm[Id(c)] EXCEPT !.st = "paused"].st = "paused"
      BY <1>1, <1>4, MachineMoves DEF EngineFine, Machines
    <3> QED
      BY <1>1, <1>4, <2>2, <3>1 DEF EngineFine, Identified, Alive
  <2> QED
    BY <1>1, <1>4, <2>1, <2>2, StopFine, EngineKept
<1>6. CallFine([calls[c] EXCEPT !.pc = "park"])
  BY <1>3, PlaceIs, MovesOn DEF Leads
<1>7. CallsFine'
  BY <1>1, <1>6, CallMoves, CallReturns DEF SuspendVM, Goes
<1> QED
  BY <1>1, <1>2, <1>5, <1>7 DEF Types

LEMMA ParkedIs ==
  ASSUME NEW v \in Instances, NEW cold \in BOOLEAN
  PROVE  /\ Parked(v, cold) \in Instances /\ Parked(v, cold).st = "suspended"
         /\ Parked(v, cold).slot = (IF cold THEN 0 ELSE v.slot) /\ Parked(v, cold).cold = cold
         /\ Parked(v, cold).resuming = v.resuming /\ Parked(v, cold).destroying = v.destroying /\ Parked(v, cold).ck = v.ck
<1>1. CASE cold
  <2>1. Parked(v, cold) = [v EXCEPT !.st = "suspended", !.cold = TRUE, !.slot = 0, !.idx = 0]
    BY <1>1 DEF Parked
  <2>2. 0 \in 0 .. SlotCount
    BY Numbers
  <2> QED
    BY <1>1, <2>1, <2>2, ZenonT(60) DEF Instances
<1>2. CASE ~cold
  <2>1. Parked(v, cold) = [v EXCEPT !.st = "suspended", !.cold = FALSE]
    BY <1>2 DEF Parked
  <2> QED
    BY <1>2, <2>1 DEF Instances
<1> QED
  BY <1>1, <1>2

LEMMA SuspendParkTypes ==
  ASSUME Types, NEW c \in Callers, SuspendPark(c)
  PROVE  Types'
<1>1. /\ PoolTypeOK /\ RecordsFine /\ EngineFine /\ WorkFine /\ CallsFine
      /\ UNCHANGED <<net, eng, seq, ws, store, disk, rootfs, marks>>
  BY DEF Types, SuspendPark
<1>2. PoolTypeOK' /\ EngineFine'
  BY <1>1, PoolKept, EngineKept
<1>3. calls[c] \in CallType /\ Stands(calls[c]) /\ calls[c].op = "suspend" /\ calls[c].pc = "park"
  BY <1>1, CallFacts DEF SuspendPark, At
<1>4. Id(c) \in Ids /\ Session(c) \in Sessions /\ calls[c].owed \in 0 .. MaxWrites /\ calls[c].cold \in BOOLEAN
  BY <1>1, <1>3, CallFacts DEF CallType
<1>5. WorkFine'
  <2>1. owed' = owed \/ owed' = [owed EXCEPT ![Session(c)] = calls[c].owed]
    BY DEF SuspendPark
  <2> QED
    BY <1>1, <1>4, <2>1 DEF WorkFine, marks
<1>6. CASE ~Known(Id(c))
  <2>1. UNCHANGED <<inst, disk>> /\ calls' = Returned(c)
    BY <1>6 DEF SuspendPark
  <2> QED
    BY <1>1, <1>2, <1>5, <2>1, CallReturns, RecordsKept DEF Types
<1>7. CASE Known(Id(c))
  <2> DEFINE v == Parked(inst[Id(c)], calls[c].cold)
             p == Persistable(v)
             pc == IF calls[c].cold THEN "discard" ELSE "save"
             slot == inst[Id(c)].slot
  <2>1. /\ UNCHANGED disk /\ inst' = [inst EXCEPT ![Id(c)] = v]
        /\ calls' = Bumped([calls EXCEPT ![c] = [calls[c] EXCEPT !.pc = pc, !.rec = p, !.slot = slot]], Id(c))
    BY <1>7 DEF SuspendPark
  <2>2. inst[Id(c)] \in Instances
    BY <1>1, <1>4 DEF RecordsFine
  <2>3. slot \in 0 .. SlotCount
    BY <2>2 DEF Instances
  <2>4. pc \in Places /\ pc \in {"discard", "save"}
    BY PlaceIs
  <2>5. v \in Instances /\ v.st # "none"
    BY <1>4, <2>2, ParkedIs
  <2>6. p \in RecordType /\ p.st # "none"
    BY <2>5, Persisted
  <2> HIDE DEF v, p, pc, slot
  <2>7. RecordsFine'
    BY <1>1, <1>4, <2>1, <2>5, InstWritten DEF InstOk
  <2>8. CallFine([calls[c] EXCEPT !.pc = pc, !.rec = p, !.slot = slot])
    <3> DEFINE r == calls[c]
               q == [r EXCEPT !.pc = pc, !.rec = p, !.slot = slot]
    <3>1. /\ q \in CallType
          /\ q.op = r.op /\ q.id = r.id /\ q.gen = r.gen /\ q.next = r.next /\ q.cold = r.cold /\ q.seen = r.seen
          /\ q.pc = pc /\ q.rec = p /\ q.slot = slot
      BY <1>3, <2>3, <2>4, <2>6, PlaceIs DEF CallType
    <3>2. r \in CallType /\ Stands(r) /\ r.op \in Kinds
      BY <1>3 DEF CallType, Kinds
    <3>3. Stands(q)
      <4> HIDE DEF q
      <4> QED
        BY <3>1, <3>2, <1>3, <2>3, <2>4, <2>6 DEF Stands, Giving
    <3> QED
      BY <3>1, <3>3 DEF CallFine
  <2> QED
    BY <1>1, <1>2, <1>5, <2>1, <2>7, <2>8, CallMoves DEF Types
<1> QED
  BY <1>6, <1>7

LEMMA SuspendDiscardTypes ==
  ASSUME Types, NEW c \in Callers, SuspendDiscard(c)
  PROVE  Types'
<1>1. /\ PoolTypeOK /\ RecordsFine /\ EngineFine /\ WorkFine /\ CallsFine
      /\ UNCHANGED <<net, inst, disk, eng>>
  BY DEF Types, SuspendDiscard, drv
<1>2. PoolTypeOK' /\ RecordsFine' /\ EngineFine'
  BY <1>1, PoolKept, RecordsKept, EngineKept
<1>3. calls[c] \in CallType /\ Stands(calls[c]) /\ calls[c].op = "suspend" /\ calls[c].pc = "discard" /\ 0 \in 0 .. SlotCount
  BY <1>1, CallFacts, Numbers DEF SuspendDiscard, At, Destroying, Asking
<1>4. calls[c].slot \in 0 .. SlotCount /\ "save" \in Places /\ calls[c].rec.st # "none" /\ calls' = Releases(c, calls[c].slot, "save")
  BY <1>3, PlaceIs DEF CallType, SuspendDiscard, Stands
<1>5. CallsFine'
  BY <1>1, <1>3, <1>4, ReleasesFine
<1>6. WorkFine'
  BY <1>1 DEF SuspendDiscard, WorkFine, work, marks, drv
<1> QED
  BY <1>1, <1>2, <1>5, <1>6 DEF Types

--------------------
\* The types, over the steps of a resume and of a snapshot.

LEMMA ImageFine == ASSUME WorkFine, NEW id \in Ids PROVE WorkspaceForResume(id) \in 0 .. MaxWrites
<1>1. SessionOf(id) \in Sessions
  BY DEF Sessions
<1>2. ws[SessionOf(id)] \in 0 .. MaxWrites /\ 0 \in 0 .. MaxWrites
  BY <1>1, Numbers DEF WorkFine
<1>3. inst[id].ck \in Generations => store[SessionOf(id)][inst[id].ck] \in -1 .. MaxWrites
  BY <1>1 DEF WorkFine
<1> QED
  BY <1>2, <1>3, Numbers DEF WorkspaceForResume

LEMMA PrepareResumeTypes ==
  ASSUME Types, NEW c \in Callers, PrepareResume(c)
  PROVE  Types'
<1>1. /\ PoolTypeOK /\ RecordsFine /\ EngineFine /\ WorkFine /\ CallsFine
      /\ UNCHANGED <<net, inst, disk, eng>>
  BY DEF Types, PrepareResume, drv
<1>2. PoolTypeOK' /\ RecordsFine' /\ EngineFine'
  BY <1>1, PoolKept, RecordsKept, EngineKept
<1>3. calls[c] \in CallType /\ Stands(calls[c]) /\ calls[c].op = "resume" /\ calls[c].pc = "prepare" /\ 0 \in 0 .. SlotCount
  BY <1>1, CallFacts, Numbers DEF PrepareResume, At, Destroying, Asking
<1>4. Id(c) \in Ids /\ Session(c) \in Sessions
  BY <1>1, <1>3, CallFacts
<1>5. WorkFine'
  <2>1. ws' = ws \/ ws' = [ws EXCEPT ![Session(c)] = WorkspaceForResume(Id(c))]
    BY DEF PrepareResume
  <2>2. WorkspaceForResume(Id(c)) \in 0 .. MaxWrites
    BY <1>1, <1>4, ImageFine
  <2>3. ws' \in [Sessions -> 0 .. MaxWrites]
    BY <1>1, <2>1, <2>2 DEF WorkFine
  <2>4. rootfs' \subseteq Ids
    BY <1>1, <1>4 DEF PrepareResume, WorkFine
  <2> QED
    BY <1>1, <2>3, <2>4 DEF PrepareResume, WorkFine, marks, drv
<1>6. calls[c].cold
  BY <1>3 DEF Stands
<1>7. CallFine([calls[c] EXCEPT !.pc = "take"])
  BY <1>3, <1>6, PlaceIs, MovesOn DEF Leads
<1>8. CallFine([calls[c] EXCEPT !.pc = "end"])
  BY <1>3, <1>6, PlaceIs, MovesOn DEF Leads
<1>9. CallsFine'
  BY <1>1, <1>7, <1>8, CallMoves DEF PrepareResume, Goes
<1> QED
  BY <1>2, <1>5, <1>9 DEF Types

\* a VM that is paused, or runs again
LEMMA TurnsFine ==
  ASSUME EngineFine, NEW id \in Ids, NEW s \in {"running", "paused"}, UNCHANGED ev,
         vm' = vm \/ vm' = [vm EXCEPT ![id].st = s]
  PROVE  EngineFine'
<1>1. CASE vm' = vm
  BY <1>1, EngineKept DEF eng
<1>2. CASE vm' = [vm EXCEPT ![id] = [vm[id] EXCEPT !.st = s]]
  <2>1. [vm[id] EXCEPT !.st = s] \in Machines /\ [vm[id] EXCEPT !.st = s].st = s
    BY MachineMoves DEF EngineFine, Machines
  <2> QED
    BY <1>2, <2>1 DEF EngineFine, Identified, Alive
<1> QED
  BY <1>1, <1>2

LEMMA ThawVMTypes ==
  ASSUME Types, NEW c \in Callers, ThawVM(c)
  PROVE  Types'
<1>1. /\ PoolTypeOK /\ RecordsFine /\ EngineFine /\ WorkFine /\ CallsFine
      /\ UNCHANGED <<net, inst, disk, seq, rootfs, work, marks>>
  BY DEF Types, ThawVM, drv
<1>2. PoolTypeOK' /\ RecordsFine' /\ WorkFine'
  BY <1>1, PoolKept, RecordsKept, WorkKeptFine
<1>3. calls[c] \in CallType /\ Stands(calls[c]) /\ calls[c].op = "resume" /\ calls[c].pc = "thaw" /\ 0 \in 0 .. SlotCount
  BY <1>1, CallFacts, Numbers DEF ThawVM, At, Destroying, Asking
<1>4. Id(c) \in Ids /\ ~calls[c].cold
  BY <1>1, <1>3, CallFacts DEF Stands
<1>5. EngineFine'
  <2>1. UNCHANGED ev /\ (vm' = vm \/ vm' = [vm EXCEPT ![Id(c)].st = "running"])
    BY DEF ThawVM
  <2> QED
    BY <1>1, <1>4, <2>1, TurnsFine
<1>6. CallFine([calls[c] EXCEPT !.pc = "publish"])
  BY <1>3, <1>4, PlaceIs, MovesOn DEF Leads
<1>7. CallFine([calls[c] EXCEPT !.pc = "end"])
  BY <1>3, <1>4, PlaceIs, MovesOn DEF Leads
<1>8. CallsFine'
  BY <1>1, <1>6, <1>7, CallMoves DEF ThawVM, Goes
<1> QED
  BY <1>2, <1>5, <1>8 DEF Types

\* the record a resume publishes
Published(c) ==
    LET r == [inst[Id(c)] EXCEPT !.st = "running", !.cold = FALSE, !.blocked = FALSE]
    IN  IF calls[c].cold THEN [r EXCEPT !.live = TRUE, !.slot = calls[c].slot, !.idx = calls[c].slot] ELSE r

LEMMA PublishedIs ==
  ASSUME RecordsFine, CallsFine, NEW c \in Callers, Id(c) \in Ids
  PROVE  /\ Published(c) \in Instances /\ Published(c).st = "running" /\ ~Published(c).cold
         /\ Published(c).slot = (IF calls[c].cold THEN calls[c].slot ELSE inst[Id(c)].slot)
         /\ Published(c).resuming = inst[Id(c)].resuming /\ Published(c).destroying = inst[Id(c)].destroying
         /\ Published(c).ck = inst[Id(c)].ck
<1> DEFINE v == inst[Id(c)]
<1>1. v \in Instances /\ calls[c].slot \in 0 .. SlotCount
  BY CallFacts DEF RecordsFine, CallType
<1>2. CASE calls[c].cold
  <2>1. Published(c) = [v EXCEPT !.st = "running", !.cold = FALSE, !.blocked = FALSE,
                                 !.live = TRUE, !.slot = calls[c].slot, !.idx = calls[c].slot]
    BY <1>2 DEF Published
  <2> HIDE DEF v
  <2>2. Published(c) \in Instances
    BY <1>1, <2>1 DEF Instances
  <2> QED
    BY <1>1, <1>2, <2>1, <2>2 DEF Instances, v
<1>3. CASE ~calls[c].cold
  <2>1. Published(c) = [v EXCEPT !.st = "running", !.cold = FALSE, !.blocked = FALSE]
    BY <1>3 DEF Published
  <2> HIDE DEF v
  <2>2. Published(c) \in Instances
    BY <1>1, <2>1 DEF Instances
  <2> QED
    BY <1>1, <1>3, <2>1, <2>2 DEF Instances, v
<1> QED
  BY <1>2, <1>3

LEMMA ResumePublishTypes ==
  ASSUME Types, NEW c \in Callers, ResumePublish(c)
  PROVE  Types'
<1>1. /\ PoolTypeOK /\ RecordsFine /\ EngineFine /\ WorkFine /\ CallsFine
      /\ UNCHANGED <<net, eng, seq, work, disk, rootfs, marks>>
  BY DEF Types, ResumePublish
<1>2. PoolTypeOK' /\ EngineFine' /\ WorkFine'
  BY <1>1, PoolKept, EngineKept, WorkKeptFine
<1>3. calls[c] \in CallType /\ Stands(calls[c]) /\ calls[c].op = "resume" /\ calls[c].pc = "publish" /\ 0 \in 0 .. SlotCount
  BY <1>1, CallFacts, Numbers DEF ResumePublish, At
<1>4. Id(c) \in Ids
  BY <1>1, <1>3, CallFacts
<1> DEFINE v == Published(c)
           p == Persistable(v)
<1>5. /\ inst' = [inst EXCEPT ![Id(c)] = v]
      /\ calls' = Bumped([calls EXCEPT ![c] = [calls[c] EXCEPT !.pc = "save", !.slot = 0, !.rec = p]], Id(c))
  BY DEF ResumePublish, Published
<1>6. InstOk(v)
  BY <1>1, <1>4, PublishedIs DEF InstOk
<1>7. p \in RecordType /\ p.st # "none"
  BY <1>6, Persisted DEF InstOk
<1> HIDE DEF v, p
<1>8. RecordsFine'
  BY <1>1, <1>4, <1>5, <1>6, InstWritten
<1>9. CallFine([calls[c] EXCEPT !.pc = "save", !.slot = 0, !.rec = p])
  <2> DEFINE r == calls[c]
             q == [r EXCEPT !.pc = "save", !.slot = 0, !.rec = p]
  <2>1. /\ q \in CallType
        /\ q.op = r.op /\ q.id = r.id /\ q.gen = r.gen /\ q.next = r.next /\ q.cold = r.cold /\ q.seen = r.seen
        /\ q.pc = "save" /\ q.slot = 0 /\ q.rec = p
    BY <1>3, <1>7, PlaceIs DEF CallType
  <2>2. r \in CallType /\ Stands(r) /\ r.op \in Kinds
    BY <1>3 DEF CallType, Kinds
  <2>3. Stands(q)
    <3> HIDE DEF q
    <3> QED
      BY <2>1, <2>2, <1>3, <1>7 DEF Stands, Giving
  <2> QED
    BY <2>1, <2>3 DEF CallFine
<1> QED
  BY <1>1, <1>2, <1>5, <1>8, <1>9, CallMoves DEF Types

LEMMA ResumedKnown == ASSUME CallsFine, Claims, NEW c \in Callers, calls[c].op = "resume" PROVE Known(Id(c)) /\ Id(c) \in Ids
<1>1. Id(c) \in Ids /\ Id(c) # 0
  BY CallFacts, Numbers
<1> QED
  BY <1>1 DEF Claims, Fits, Known

LEMMA UndoTypes ==
  ASSUME Types, Claims, NEW c \in Callers, Undo(c)
  PROVE  Types'
<1>1. /\ PoolTypeOK /\ RecordsFine /\ EngineFine /\ WorkFine /\ CallsFine
      /\ UNCHANGED <<net, inst, eng, seq, rootfs, work, marks>>
  BY DEF Types, Undo, drv
<1>2. PoolTypeOK' /\ EngineFine' /\ WorkFine'
  BY <1>1, PoolKept, EngineKept, WorkKeptFine
<1>3. calls[c] \in CallType /\ Stands(calls[c]) /\ calls[c].op = "resume" /\ calls[c].pc = "undo"
  BY <1>1, CallFacts DEF Undo, At
<1>4. Id(c) \in Ids /\ Known(Id(c)) /\ calls[c].slot \in 0 .. SlotCount /\ calls[c].cold /\ "unclone" \in Places
  BY <1>1, <1>3, ResumedKnown, PlaceIs DEF Stands, CallType
<1>5. CallsFine'
  BY <1>1, <1>3, <1>4, ReleasesFine DEF Undo
<1>6. RecordsFine'
  <2>1. inst[Id(c)] \in Instances
    BY <1>1, <1>4 DEF RecordsFine
  <2>2. RecordOk(Persistable(inst[Id(c)]))
    BY <1>4, <2>1, Persisted DEF RecordOk, Known
  <2>3. disk' = disk \/ disk' = [disk EXCEPT ![Id(c)] = Persistable(inst[Id(c)])]
    BY DEF Undo
  <2> QED
    BY <1>1, <1>4, <2>2, <2>3, DiskWritten
<1> QED
  BY <1>2, <1>5, <1>6 DEF Types

LEMMA UncloneTypes ==
  ASSUME Types, NEW c \in Callers, Unclone(c)
  PROVE  Types'
<1>1. /\ PoolTypeOK /\ RecordsFine /\ EngineFine /\ WorkFine /\ CallsFine
      /\ UNCHANGED <<net, eng, seq, work, inst, disk, marks>>
  BY DEF Types, Unclone, drv
<1>2. PoolTypeOK' /\ RecordsFine' /\ EngineFine'
  BY <1>1, PoolKept, RecordsKept, EngineKept
<1>3. calls[c] \in CallType /\ Stands(calls[c]) /\ calls[c].op = "resume" /\ calls[c].pc = "unclone" /\ calls[c].cold
  BY <1>1, CallFacts DEF Unclone, At, Stands
<1>4. WorkFine'
  BY <1>1 DEF WorkFine, Unclone, work, marks
<1>5. CallFine([calls[c] EXCEPT !.pc = "end"])
  BY <1>3, PlaceIs, MovesOn DEF Leads
<1>6. CallsFine'
  BY <1>1, <1>5, CallMoves DEF Unclone, Goes
<1> QED
  BY <1>2, <1>4, <1>6 DEF Types

LEMMA EndResumeTypes ==
  ASSUME Types, Claims, NEW c \in Callers, EndResume(c)
  PROVE  Types'
<1>1. /\ PoolTypeOK /\ RecordsFine /\ EngineFine /\ WorkFine /\ CallsFine
      /\ UNCHANGED <<net, eng, seq, work, disk, rootfs, marks>>
  BY DEF Types, EndResume
<1>2. PoolTypeOK' /\ EngineFine' /\ WorkFine'
  BY <1>1, PoolKept, EngineKept, WorkKeptFine
<1>3. Id(c) \in Ids /\ calls[c].op = "resume"
  BY <1>1, CallFacts DEF EndResume, At
<1>4. Known(Id(c))
  BY <1>1, <1>3, ResumedKnown
<1>5. InstOk([inst[Id(c)] EXCEPT !.resuming = FALSE])
  BY <1>1, <1>3, <1>4, ZenonT(60) DEF RecordsFine, Known, InstOk, Instances
<1>6. RecordsFine'
  BY <1>1, <1>3, <1>5, InstWritten DEF EndResume
<1>7. CallsFine'
  BY <1>1, CallReturns DEF EndResume
<1> QED
  BY <1>2, <1>6, <1>7 DEF Types

LEMMA FreezeVMTypes ==
  ASSUME Types, NEW c \in Callers, FreezeVM(c)
  PROVE  Types'
<1>1. /\ PoolTypeOK /\ RecordsFine /\ EngineFine /\ WorkFine /\ CallsFine
      /\ UNCHANGED <<net, inst, disk, seq, rootfs, work, marks>>
  BY DEF Types, FreezeVM, drv
<1>2. PoolTypeOK' /\ RecordsFine' /\ WorkFine'
  BY <1>1, PoolKept, RecordsKept, WorkKeptFine
<1>3. calls[c] \in CallType /\ Stands(calls[c]) /\ calls[c].op = "snapshot" /\ calls[c].pc = "freeze" /\ 0 \in 0 .. SlotCount
  BY <1>1, CallFacts, Numbers DEF FreezeVM, At, Destroying, Asking
<1>4. Id(c) \in Ids
  BY <1>1, <1>3, CallFacts
<1>5. EngineFine'
  <2>1. UNCHANGED ev /\ (vm' = vm \/ vm' = [vm EXCEPT ![Id(c)].st = "paused"])
    BY DEF FreezeVM
  <2> QED
    BY <1>1, <1>4, <2>1, TurnsFine
<1>6. CallFine([calls[c] EXCEPT !.pc = "copy"])
  BY <1>3, PlaceIs, MovesOn DEF Leads
<1>7. CallFine([calls[c] EXCEPT !.pc = "end"])
  BY <1>3, PlaceIs, MovesOn DEF Leads
<1>8. CallsFine'
  BY <1>1, <1>6, <1>7, CallMoves DEF FreezeVM, Goes
<1> QED
  BY <1>2, <1>5, <1>8 DEF Types

LEMMA CopyRootfsTypes ==
  ASSUME Types, NEW c \in Callers, CopyRootfs(c)
  PROVE  Types'
<1>1. /\ PoolTypeOK /\ RecordsFine /\ EngineFine /\ WorkFine /\ CallsFine
      /\ UNCHANGED <<net, inst, disk, eng, seq, rootfs, work, marks>>
  BY DEF Types, CopyRootfs, drv
<1>2. PoolTypeOK' /\ RecordsFine' /\ EngineFine' /\ WorkFine'
  BY <1>1, PoolKept, RecordsKept, EngineKept, WorkKeptFine
<1>3. calls[c] \in CallType /\ Stands(calls[c]) /\ calls[c].op = "snapshot" /\ calls[c].pc = "copy" /\ 0 \in 0 .. SlotCount
  BY <1>1, CallFacts, Numbers DEF CopyRootfs, At, Destroying, Asking
<1>4. CallFine([calls[c] EXCEPT !.pc = "unfreeze"])
  BY <1>3, PlaceIs, MovesOn DEF Leads
<1>5. CallFine([calls[c] EXCEPT !.pc = "end"])
  BY <1>3, PlaceIs, MovesOn DEF Leads
<1>6. CallsFine'
  BY <1>1, <1>4, <1>5, CallMoves DEF CopyRootfs, Goes
<1> QED
  BY <1>2, <1>6 DEF Types

LEMMA UnfreezeVMTypes ==
  ASSUME Types, NEW c \in Callers, UnfreezeVM(c)
  PROVE  Types'
<1>1. /\ PoolTypeOK /\ RecordsFine /\ EngineFine /\ WorkFine /\ CallsFine
      /\ UNCHANGED <<net, inst, disk, seq, rootfs, work, marks>>
  BY DEF Types, UnfreezeVM, drv
<1>2. PoolTypeOK' /\ RecordsFine' /\ WorkFine'
  BY <1>1, PoolKept, RecordsKept, WorkKeptFine
<1>3. calls[c] \in CallType /\ Stands(calls[c]) /\ calls[c].op = "snapshot" /\ calls[c].pc = "unfreeze" /\ 0 \in 0 .. SlotCount
  BY <1>1, CallFacts, Numbers DEF UnfreezeVM, At, Destroying, Asking
<1>4. Id(c) \in Ids
  BY <1>1, <1>3, CallFacts
<1>5. EngineFine'
  <2>1. UNCHANGED ev /\ (vm' = vm \/ vm' = [vm EXCEPT ![Id(c)].st = "running"])
    BY DEF UnfreezeVM
  <2> QED
    BY <1>1, <1>4, <2>1, TurnsFine
<1>6. CallFine([calls[c] EXCEPT !.pc = "end"])
  BY <1>3, PlaceIs, MovesOn DEF Leads
<1>7. CallsFine'
  BY <1>1, <1>6, CallMoves DEF UnfreezeVM, Goes
<1> QED
  BY <1>2, <1>5, <1>7 DEF Types

LEMMA EndSnapshotTypes ==
  ASSUME Types, NEW c \in Callers, EndSnapshot(c)
  PROVE  Types'
<1>1. /\ PoolTypeOK /\ RecordsFine /\ EngineFine /\ WorkFine /\ CallsFine
      /\ UNCHANGED <<net, eng, seq, work, disk, rootfs, marks>>
  BY DEF Types, EndSnapshot
<1>2. PoolTypeOK' /\ EngineFine' /\ WorkFine'
  BY <1>1, PoolKept, EngineKept, WorkKeptFine
<1>3. Id(c) \in Ids
  BY <1>1, CallFacts DEF EndSnapshot, At
<1>4. RecordsFine'
  <2>1. CASE Known(Id(c))
    <3>1. InstOk([inst[Id(c)] EXCEPT !.snapshotting = FALSE])
      BY <1>1, <1>3, <2>1, ZenonT(60) DEF RecordsFine, Known, InstOk, Instances
    <3> QED
      BY <1>1, <1>3, <2>1, <3>1, InstWritten DEF EndSnapshot
  <2>2. CASE ~Known(Id(c))
    BY <1>1, <2>2, RecordsKept DEF EndSnapshot
  <2> QED
    BY <2>1, <2>2
<1>5. CallsFine'
  BY <1>1, CallReturns DEF EndSnapshot
<1> QED
  BY <1>2, <1>4, <1>5 DEF Types

--------------------
\* The types, over the steps of a teardown and of a query.

LEMMA TearsWritten ==
  ASSUME RecordsFine, UNCHANGED disk, NEW id \in Ids, Known(id), NEW d \in BOOLEAN, NEW slot \in 0 .. SlotCount,
         inst' = [inst EXCEPT ![id].destroying = d, ![id].slot = slot]
  PROVE  RecordsFine'
<1> DEFINE v == [inst[id] EXCEPT !.destroying = d, !.slot = slot]
<1>1. inst' = [inst EXCEPT ![id] = v] /\ v \in Instances /\ v.st = inst[id].st
  <2>1. inst' = [inst EXCEPT ![id] = v]
    <3>1. [inst EXCEPT ![id].destroying = d, ![id].slot = slot] = [inst EXCEPT ![id] = v]
      BY DEF RecordsFine
    <3> HIDE DEF v
    <3> QED
      BY <3>1
  <2>2. v \in Instances /\ v.st = inst[id].st
    BY ZenonT(60) DEF RecordsFine, Instances
  <2> QED
    BY <2>1, <2>2
<1> HIDE DEF v
<1> QED
  BY <1>1, InstWritten DEF InstOk, Known

LEMMA DestroyClaimTypes ==
  ASSUME Types, NEW c \in Callers, DestroyClaim(c)
  PROVE  Types'
<1>1. /\ PoolTypeOK /\ RecordsFine /\ EngineFine /\ WorkFine /\ CallsFine
      /\ UNCHANGED <<net, eng, seq, rootfs, work, marks>>
  BY DEF Types, DestroyClaim, drv
<1>2. PoolTypeOK' /\ EngineFine' /\ WorkFine'
  BY <1>1, PoolKept, EngineKept, WorkKeptFine
<1>3. calls[c] \in CallType /\ Stands(calls[c]) /\ calls[c].op \in {"destroy", "reap"} /\ calls[c].pc = "wait" /\ 0 \in 0 .. SlotCount
  BY <1>1, CallFacts, Numbers DEF DestroyClaim, At, Destroying, Asking
<1>4. Id(c) \in Ids
  BY <1>1, <1>3, CallFacts
<1>5. CASE inst' = inst
  <2>1. \/ calls' = Returned(c) \/ calls' = Goes(c, "workspace") \/ calls' = Goes(c, "stop")
        \/ calls' = [calls EXCEPT ![c] = [@ EXCEPT !.pc = "stop", !.slot = inst[Id(c)].slot]]
    BY DEF DestroyClaim
  <2>2. inst[Id(c)].slot \in 0 .. SlotCount
    BY <1>1, <1>4 DEF RecordsFine, Instances
  <2>3. CallFine([calls[c] EXCEPT !.pc = "workspace"])
    BY <1>3, PlaceIs, MovesOn DEF Leads
  <2>4. CallFine([calls[c] EXCEPT !.pc = "stop"])
    BY <1>3, PlaceIs, MovesOn DEF Leads
  <2>5. CallFine([calls[c] EXCEPT !.pc = "stop", !.slot = inst[Id(c)].slot])
    <3> DEFINE r == calls[c]
               q == [r EXCEPT !.pc = "stop", !.slot = inst[Id(c)].slot]
    <3>1. /\ q \in CallType
          /\ q.op = r.op /\ q.id = r.id /\ q.gen = r.gen /\ q.next = r.next /\ q.cold = r.cold /\ q.seen = r.seen
          /\ q.rec = r.rec /\ q.pc = "stop" /\ q.slot = inst[Id(c)].slot
      BY <1>3, <2>2, PlaceIs DEF CallType
    <3>2. r \in CallType /\ Stands(r) /\ r.op \in Kinds
      BY <1>3 DEF CallType, Kinds
    <3>3. Stands(q)
      <4> HIDE DEF q
      <4> QED
        BY <3>1, <3>2, <1>3, <2>2 DEF Stands, Giving
    <3> QED
      BY <3>1, <3>3 DEF CallFine
  <2>6. CallsFine'
    BY <1>1, <2>1, <2>3, <2>4, <2>5, CallMoves, CallReturns DEF Goes
  <2>7. RecordsFine'
    BY <1>1, <1>5, RecordsKept DEF DestroyClaim
  <2> QED
    BY <1>2, <2>6, <2>7 DEF Types
<1>6. CASE /\ Known(Id(c)) /\ inst' = [inst EXCEPT ![Id(c)].destroying = TRUE, ![Id(c)].slot = 0]
           /\ calls' = [calls EXCEPT ![c] = [@ EXCEPT !.pc = "stop", !.slot = inst[Id(c)].slot]]
  <2>2. inst[Id(c)].slot \in 0 .. SlotCount
    BY <1>1, <1>4 DEF RecordsFine, Instances
  <2>3. CallFine([calls[c] EXCEPT !.pc = "stop", !.slot = inst[Id(c)].slot])
    <3> DEFINE r == calls[c]
               q == [r EXCEPT !.pc = "stop", !.slot = inst[Id(c)].slot]
    <3>1. /\ q \in CallType
          /\ q.op = r.op /\ q.id = r.id /\ q.gen = r.gen /\ q.next = r.next /\ q.cold = r.cold /\ q.seen = r.seen
          /\ q.rec = r.rec /\ q.pc = "stop" /\ q.slot = inst[Id(c)].slot
      BY <1>3, <2>2, PlaceIs DEF CallType
    <3>2. r \in CallType /\ Stands(r) /\ r.op \in Kinds
      BY <1>3 DEF CallType, Kinds
    <3>3. Stands(q)
      <4> HIDE DEF q
      <4> QED
        BY <3>1, <3>2, <1>3, <2>2 DEF Stands, Giving
    <3> QED
      BY <3>1, <3>3 DEF CallFine
  <2>4. CallsFine'
    BY <1>1, <1>6, <2>3, CallMoves
  <2>5. RecordsFine'
    BY <1>1, <1>3, <1>4, <1>6, TearsWritten DEF DestroyClaim
  <2> QED
    BY <1>2, <2>4, <2>5 DEF Types
<1> QED
  BY <1>5, <1>6 DEF DestroyClaim

LEMMA DestroyVMTypes ==
  ASSUME Types, NEW c \in Callers, DestroyVM(c)
  PROVE  Types'
<1>1. /\ PoolTypeOK /\ RecordsFine /\ EngineFine /\ WorkFine /\ CallsFine
      /\ UNCHANGED <<net, inst, disk, seq, rootfs, work, marks>>
  BY DEF Types, DestroyVM, drv
<1>2. PoolTypeOK' /\ RecordsFine' /\ WorkFine'
  BY <1>1, PoolKept, RecordsKept, WorkKeptFine
<1>3. calls[c] \in CallType /\ Stands(calls[c]) /\ calls[c].op \in {"destroy", "reap"} /\ calls[c].pc = "stop" /\ 0 \in 0 .. SlotCount
  BY <1>1, CallFacts, Numbers DEF DestroyVM, At, Destroying, Asking
<1>4. Id(c) \in Ids /\ calls[c].slot \in 0 .. SlotCount /\ "forget" \in Places
  BY <1>1, <1>3, CallFacts, PlaceIs DEF CallType
<1>5. EngineFine'
  BY <1>1, <1>4, StopFine DEF DestroyVM
<1>6. CallFine([calls[c] EXCEPT !.pc = "keep"])
  BY <1>3, PlaceIs, MovesOn DEF Leads
<1>7. CASE calls' = Goes(c, "keep")
  BY <1>1, <1>2, <1>5, <1>6, <1>7, CallMoves DEF Goes, Types
<1>8. CASE calls' = Releases(c, calls[c].slot, "forget")
  <2>1. CallsFine'
    BY <1>1, <1>3, <1>4, <1>8, ReleasesFine
  <2> QED
    BY <1>2, <1>5, <2>1 DEF Types
<1> QED
  BY <1>7, <1>8 DEF DestroyVM

LEMMA DestroyKeepsTypes ==
  ASSUME Types, NEW c \in Callers, DestroyKeeps(c)
  PROVE  Types'
<1>1. /\ PoolTypeOK /\ RecordsFine /\ EngineFine /\ WorkFine /\ CallsFine
      /\ UNCHANGED <<net, eng, seq, work, disk, rootfs, marks>>
  BY DEF Types, DestroyKeeps
<1>2. PoolTypeOK' /\ EngineFine' /\ WorkFine'
  BY <1>1, PoolKept, EngineKept, WorkKeptFine
<1>3. Id(c) \in Ids /\ calls[c].slot \in 0 .. SlotCount
  BY <1>1, CallFacts DEF DestroyKeeps, Destroying, CallType
<1>4. RecordsFine'
  <2>1. CASE Known(Id(c))
    <3> DEFINE slot == IF inst[Id(c)].slot = 0 THEN calls[c].slot ELSE inst[Id(c)].slot
    <3>1. slot \in 0 .. SlotCount
      BY <1>1, <1>3 DEF RecordsFine, Instances
    <3>2. inst' = [inst EXCEPT ![Id(c)].destroying = FALSE, ![Id(c)].slot = slot]
      <4>1. inst' = [inst EXCEPT ![Id(c)].destroying = FALSE, ![Id(c)].slot = IF @ = 0 THEN calls[c].slot ELSE @]
        BY <2>1 DEF DestroyKeeps
      <4>2. inst \in [Ids -> Instances] /\ inst[Id(c)] \in Instances
        BY <1>1, <1>3 DEF RecordsFine
      <4> QED
        BY <1>3, <4>1, <4>2 DEF Instances
    <3> HIDE DEF slot
    <3> QED
      BY <1>1, <1>3, <2>1, <3>1, <3>2, TearsWritten
  <2>2. CASE ~Known(Id(c))
    BY <1>1, <2>2, RecordsKept DEF DestroyKeeps
  <2> QED
    BY <2>1, <2>2
<1>5. CallsFine'
  BY <1>1, CallReturns DEF DestroyKeeps
<1> QED
  BY <1>2, <1>4, <1>5 DEF Types

LEMMA DestroyForgetTypes ==
  ASSUME Types, NEW c \in Callers, DestroyForget(c)
  PROVE  Types'
<1>1. /\ PoolTypeOK /\ RecordsFine /\ EngineFine /\ WorkFine /\ CallsFine
      /\ UNCHANGED <<net, eng, seq, rootfs, work, marks>>
  BY DEF Types, DestroyForget, drv
<1>2. PoolTypeOK' /\ EngineFine' /\ WorkFine'
  BY <1>1, PoolKept, EngineKept, WorkKeptFine
<1>3. calls[c] \in CallType /\ Stands(calls[c]) /\ calls[c].op \in {"destroy", "reap"} /\ calls[c].pc = "forget" /\ 0 \in 0 .. SlotCount
  BY <1>1, CallFacts, Numbers DEF DestroyForget, At, Destroying, Asking
<1>4. Id(c) \in Ids
  BY <1>1, <1>3, CallFacts
<1>5. RecordsFine'
  BY <1>1, <1>4, InstWritten DEF DestroyForget
<1>6. CallFine([calls[c] EXCEPT !.pc = "remove"])
  BY <1>3, PlaceIs, MovesOn DEF Leads
<1>7. CallsFine'
  BY <1>1, <1>6, CallMoves DEF DestroyForget, Goes
<1> QED
  BY <1>2, <1>5, <1>7 DEF Types

LEMMA DestroyRemoveTypes ==
  ASSUME Types, NEW c \in Callers, DestroyRemove(c)
  PROVE  Types'
<1>1. /\ PoolTypeOK /\ RecordsFine /\ EngineFine /\ WorkFine /\ CallsFine
      /\ UNCHANGED <<net, inst, seq, vm, work, marks>>
  BY DEF Types, DestroyRemove, drv
<1>2. PoolTypeOK'
  BY <1>1, PoolKept
<1>3. calls[c] \in CallType /\ Stands(calls[c]) /\ calls[c].op \in {"destroy", "reap"} /\ calls[c].pc = "remove" /\ Id(c) \in Ids
  BY <1>1, CallFacts DEF DestroyRemove, Destroying
<1>4. RecordsFine'
  BY <1>1, <1>3, DiskWritten DEF DestroyRemove
<1>5. EngineFine'
  <2>1. ev' = [ev EXCEPT ![Id(c)] = "none"] /\ vm' = vm
    BY <1>1 DEF DestroyRemove
  <2> QED
    BY <1>1, <1>3, <2>1 DEF EngineFine, Identified, Alive
<1>6. WorkFine'
  BY <1>1 DEF WorkFine, DestroyRemove, work, marks
<1>7. CallFine([calls[c] EXCEPT !.pc = "workspace"])
  BY <1>3, PlaceIs, MovesOn DEF Leads
<1>8. CallsFine'
  BY <1>1, <1>7, CallMoves DEF DestroyRemove, Goes
<1> QED
  BY <1>2, <1>4, <1>5, <1>6, <1>8 DEF Types

LEMMA RemoveWorkspaceTypes ==
  ASSUME Types, NEW c \in Callers, RemoveWorkspace(c)
  PROVE  Types'
<1>1. /\ PoolTypeOK /\ RecordsFine /\ EngineFine /\ WorkFine /\ CallsFine
      /\ UNCHANGED <<net, inst, disk, eng, seq, store, rootfs, marks>>
  BY DEF Types, RemoveWorkspace, drv
<1>2. PoolTypeOK' /\ RecordsFine' /\ EngineFine'
  BY <1>1, PoolKept, RecordsKept, EngineKept
<1>3. Session(c) \in Sessions
  BY <1>1, CallFacts DEF RemoveWorkspace, Destroying
<1>4. ws' \in [Sessions -> 0 .. MaxWrites] /\ owed' \in [Sessions -> 0 .. MaxWrites]
  <2>1. \/ ws' = [ws EXCEPT ![Session(c)] = 0] /\ owed' = [owed EXCEPT ![Session(c)] = 0]
        \/ ws' = ws /\ owed' = owed
    BY DEF RemoveWorkspace
  <2>2. 0 \in 0 .. MaxWrites
    BY Numbers
  <2> QED
    BY <1>1, <1>3, <2>1, <2>2 DEF WorkFine
<1>5. CallsFine'
  BY <1>1, CallReturns DEF RemoveWorkspace
<1> QED
  BY <1>1, <1>2, <1>4, <1>5 DEF Types, WorkFine, marks

LEMMA StateIs == ASSUME EngineFine, NEW id \in Ids PROVE State(id) \in {"error", "gone", "running", "paused"}
  BY DEF EngineFine, Identified, State

LEMMA AskEngineTypes ==
  ASSUME Types, NEW c \in Callers, AskEngine(c)
  PROVE  Types'
<1>1. /\ PoolTypeOK /\ RecordsFine /\ EngineFine /\ WorkFine /\ CallsFine
      /\ UNCHANGED <<net, inst, disk, eng, seq, rootfs, work, marks>>
  BY DEF Types, AskEngine, drv
<1>2. PoolTypeOK' /\ RecordsFine' /\ EngineFine' /\ WorkFine'
  BY <1>1, PoolKept, RecordsKept, EngineKept, WorkKeptFine
<1>3. calls[c] \in CallType /\ Stands(calls[c]) /\ calls[c].op \in {"inspect", "status"} /\ calls[c].pc = "ask" /\ 0 \in 0 .. SlotCount
  BY <1>1, CallFacts, Numbers DEF AskEngine, At, Destroying, Asking
<1>4. State(Id(c)) \in {"error", "gone", "running", "paused"}
  BY <1>1, <1>3, CallFacts, StateIs
<1>5. CallFine([calls[c] EXCEPT !.pc = "fold", !.seen = State(Id(c))])
  <2> DEFINE r == calls[c]
             q == [r EXCEPT !.pc = "fold", !.seen = State(Id(c))]
  <2>1. /\ q \in CallType
        /\ q.op = r.op /\ q.id = r.id /\ q.gen = r.gen /\ q.slot = r.slot /\ q.next = r.next /\ q.cold = r.cold
        /\ q.rec = r.rec /\ q.pc = "fold" /\ q.seen = State(Id(c))
    BY <1>3, <1>4, PlaceIs DEF CallType
  <2>2. r \in CallType /\ Stands(r) /\ r.op \in Kinds
    BY <1>3 DEF CallType, Kinds
  <2>3. Stands(q)
    <3> HIDE DEF q
    <3> QED
      BY <2>1, <2>2, <1>3, <1>4 DEF Stands, Giving
  <2> QED
    BY <2>1, <2>3 DEF CallFine
<1>6. CallsFine'
  BY <1>1, <1>5, CallMoves DEF AskEngine
<1> QED
  BY <1>2, <1>6 DEF Types

\* a record, as the state of its process makes it
LEMMA ReconciledIs ==
  ASSUME NEW v \in Instances, v.st # "none", NEW s \in {"gone", "running", "paused"}
  PROVE  /\ Reconciled(v, s) \in Instances /\ Reconciled(v, s).st # "none"
         /\ Reconciled(v, s).slot = v.slot /\ Reconciled(v, s).resuming = v.resuming
         /\ Reconciled(v, s).destroying = v.destroying /\ Reconciled(v, s).ck = v.ck
         /\ Reconciled(v, s).blocked = v.blocked
<1>1. CASE s = "paused" /\ v.snapshotting
  BY <1>1 DEF Reconciled
<1>2. CASE s = "running"
  <2>1. Reconciled(v, s) = [v EXCEPT !.st = "running", !.cold = FALSE]
    BY <1>2 DEF Reconciled
  <2> QED
    BY <2>1 DEF Instances
<1>3. CASE s = "paused" /\ ~v.snapshotting
  <2>1. Reconciled(v, s) = [v EXCEPT !.st = "suspended", !.cold = FALSE]
    BY <1>3 DEF Reconciled
  <2> QED
    BY <2>1 DEF Instances
<1>4. CASE s = "gone"
  <2>1. Reconciled(v, s) = [v EXCEPT !.st = IF v.cold THEN "suspended" ELSE "gone"]
    BY <1>4 DEF Reconciled
  <2>2. (IF v.cold THEN "suspended" ELSE "gone") \in {"suspended", "gone"}
    OBVIOUS
  <2> QED
    BY <2>1, <2>2 DEF Instances
<1> QED
  BY <1>1, <1>2, <1>3, <1>4 DEF Instances

\* the record a query leaves
Folded(c) ==
    LET r == Reconciled(inst[Id(c)], calls[c].seen)
    IN  IF Idle(r) /\ r.slot # 0 THEN [r EXCEPT !.slot = 0, !.idx = 0] ELSE r
FoldedSlot(c) ==
    LET r == Reconciled(inst[Id(c)], calls[c].seen) IN IF Idle(r) /\ r.slot # 0 THEN r.slot ELSE 0

LEMMA FoldedIs ==
  ASSUME RecordsFine, CallsFine, NEW c \in Callers, Asking(c, "fold"), Believes(c)
  PROVE  /\ InstOk(Folded(c)) /\ Folded(c).resuming = inst[Id(c)].resuming /\ Folded(c).destroying = inst[Id(c)].destroying
         /\ Folded(c).ck = inst[Id(c)].ck /\ FoldedSlot(c) \in 0 .. SlotCount
         /\ \/ FoldedSlot(c) = 0 /\ Folded(c).slot = inst[Id(c)].slot
            \/ FoldedSlot(c) = inst[Id(c)].slot /\ Folded(c).slot = 0
         /\ Id(c) \in Ids
<1>1. Id(c) \in Ids /\ calls[c] \in CallType /\ Stands(calls[c]) /\ calls[c].op \in {"inspect", "status"} /\ calls[c].pc = "fold"
  BY CallFacts DEF Asking
<1>2. calls[c].seen \in {"gone", "running", "paused"}
  BY <1>1 DEF Believes, CallType, Stands
<1>3. inst[Id(c)] \in Instances /\ inst[Id(c)].st # "none"
  BY <1>1 DEF RecordsFine, Believes, Known
<1> DEFINE v == Reconciled(inst[Id(c)], calls[c].seen)
<1>4. v \in Instances /\ v.st # "none" /\ v.slot = inst[Id(c)].slot /\ v.resuming = inst[Id(c)].resuming
      /\ v.destroying = inst[Id(c)].destroying /\ v.ck = inst[Id(c)].ck
  BY <1>2, <1>3, ReconciledIs
<1>5. CASE Idle(v) /\ v.slot # 0
  <2>1. Folded(c) = [v EXCEPT !.slot = 0, !.idx = 0] /\ FoldedSlot(c) = v.slot
    BY <1>5 DEF Folded, FoldedSlot
  <2>2. 0 \in 0 .. SlotCount
    BY Numbers
  <2> HIDE DEF v
  <2> QED
    BY <1>1, <1>4, <2>1, <2>2 DEF InstOk, Instances
<1>6. CASE ~(Idle(v) /\ v.slot # 0)
  <2>1. Folded(c) = v /\ FoldedSlot(c) = 0
    BY <1>6 DEF Folded, FoldedSlot
  <2>2. 0 \in 0 .. SlotCount
    BY Numbers
  <2> HIDE DEF v
  <2> QED
    BY <1>1, <1>4, <2>1, <2>2 DEF InstOk
<1> QED
  BY <1>5, <1>6

LEMMA FoldStateTypes ==
  ASSUME Types, NEW c \in Callers, FoldState(c)
  PROVE  Types'
<1>1. /\ PoolTypeOK /\ RecordsFine /\ EngineFine /\ WorkFine /\ CallsFine
      /\ UNCHANGED <<net, eng, seq, rootfs, work, marks>>
  BY DEF Types, FoldState, drv
<1>2. PoolTypeOK' /\ EngineFine' /\ WorkFine'
  BY <1>1, PoolKept, EngineKept, WorkKeptFine
<1>3. calls[c] \in CallType /\ Stands(calls[c]) /\ calls[c].op \in {"inspect", "status"} /\ calls[c].pc = "fold" /\ 0 \in 0 .. SlotCount
  BY <1>1, CallFacts, Numbers DEF FoldState, At, Destroying, Asking
<1> DEFINE after == IF calls[c].op = "status" THEN "answer" ELSE "done"
<1>4. after \in Places /\ after \in {"answer", "done"}
  BY PlaceIs
<1>5. CASE Believes(c)
  <2>1. /\ UNCHANGED disk /\ inst' = [inst EXCEPT ![Id(c)] = Folded(c)]
        /\ calls' = Bumped(Releases(c, FoldedSlot(c), after), Id(c))
    BY <1>5 DEF FoldState, Folded, FoldedSlot
  <2>2. InstOk(Folded(c)) /\ FoldedSlot(c) \in 0 .. SlotCount /\ Id(c) \in Ids
    BY <1>1, <1>5, FoldedIs DEF FoldState
  <2>3. after = IF calls[c].op = "status" THEN "answer" ELSE "done"
    OBVIOUS
  <2> HIDE DEF after
  <2>4. CallsFine'
    BY <1>1, <1>3, <1>4, <2>1, <2>2, <2>3, ReleasesFine
  <2>5. RecordsFine'
    BY <1>1, <2>1, <2>2, InstWritten
  <2> QED
    BY <1>2, <2>4, <2>5 DEF Types
<1>6. CASE ~Believes(c)
  <2>1. UNCHANGED <<inst, disk>> /\ calls' = [calls EXCEPT ![c] = [calls[c] EXCEPT !.pc = after]]
    BY <1>6 DEF FoldState, Goes
  <2>2. RecordsFine'
    BY <1>1, <2>1, RecordsKept
  <2> HIDE DEF after
  <2>3. CallFine([calls[c] EXCEPT !.pc = after])
    BY <1>3, <1>4, PlaceIs, MovesOn DEF Leads
  <2>4. CallsFine'
    BY <1>1, <2>1, <2>3, CallMoves
  <2> QED
    BY <1>2, <2>2, <2>4 DEF Types
<1> QED
  BY <1>5, <1>6

LEMMA InspectDoneTypes ==
  ASSUME Types, NEW c \in Callers, InspectDone(c)
  PROVE  Types'
<1>1. /\ PoolTypeOK /\ RecordsFine /\ EngineFine /\ WorkFine /\ CallsFine
      /\ UNCHANGED <<net, inst, disk, eng, seq, rootfs, work, marks>>
  BY DEF Types, InspectDone, drv
<1>2. PoolTypeOK' /\ RecordsFine' /\ EngineFine' /\ WorkFine'
  BY <1>1, PoolKept, RecordsKept, EngineKept, WorkKeptFine
<1>3. calls[c] \in CallType /\ Stands(calls[c]) /\ calls[c].op \in {"inspect", "status"} /\ 0 \in 0 .. SlotCount
  BY <1>1, CallFacts, Numbers DEF InspectDone, At, Destroying, Asking
<1>4. CallsFine'
  BY <1>1, CallReturns DEF InspectDone
<1> QED
  BY <1>2, <1>4 DEF Types

LEMMA AnswerStatusTypes ==
  ASSUME Types, NEW c \in Callers, AnswerStatus(c)
  PROVE  Types'
<1>1. /\ PoolTypeOK /\ RecordsFine /\ EngineFine /\ WorkFine /\ CallsFine
      /\ UNCHANGED <<net, eng, work, seq, rootfs, ran>>
  BY DEF Types, AnswerStatus
<1>2. PoolTypeOK' /\ EngineFine'
  BY <1>1, PoolKept, EngineKept
<1>3. Id(c) \in Ids /\ calls[c].gen \in 0 .. MaxGen
  BY <1>1, CallFacts, Numbers DEF AnswerStatus, Asking, Stands, CallType
<1>4. WorkFine'
  <2>1. settled' = settled \/ settled' = [settled EXCEPT ![Id(c)] = @ \cup {calls[c].gen}]
    BY DEF AnswerStatus
  <2>2. settled' \in [Ids -> SUBSET (0 .. MaxGen)]
    BY <1>1, <1>3, <2>1 DEF WorkFine
  <2> QED
    BY <1>1, <2>2 DEF WorkFine, work
<1>5. RecordsFine'
  <2> DEFINE v == [inst[Id(c)] EXCEPT !.gen = calls[c].gen]
  <2>1. CASE Known(Id(c))
    <3>1. /\ inst' = inst \/ inst' = [inst EXCEPT ![Id(c)] = v]
          /\ disk' = disk \/ disk' = [disk EXCEPT ![Id(c)] = Persistable(v)]
      BY DEF AnswerStatus
    <3>2. InstOk(v)
      BY <1>1, <1>3, <2>1 DEF RecordsFine, Known, InstOk, Instances
    <3> HIDE DEF v
    <3>3. RecordOk(Persistable(v))
      BY <3>2, Persisted DEF RecordOk, InstOk
    <3> QED
      BY <1>1, <1>3, <3>1, <3>2, <3>3, RecordsWritten
  <2>2. CASE ~Known(Id(c))
    <3>1. UNCHANGED <<inst, disk>>
      BY <2>2 DEF AnswerStatus
    <3> QED
      BY <1>1, <3>1, RecordsKept
  <2> QED
    BY <2>1, <2>2
<1>6. CallsFine'
  BY <1>1, CallReturns DEF AnswerStatus
<1> QED
  BY <1>2, <1>4, <1>5, <1>6 DEF Types

--------------------
\* The types, over the guests, the host and a new runner.

LEMMA GuestWritesTypes == ASSUME Types, NEW id \in Ids, GuestWrites(id) PROVE Types'
<1>1. /\ PoolTypeOK /\ RecordsFine /\ EngineFine /\ WorkFine /\ CallsFine
      /\ UNCHANGED <<net, inst, disk, eng, calls, seq, rootfs, marks, store, owed>>
  BY DEF Types, GuestWrites, drv
<1>2. SessionOf(id) \in Sessions
  BY DEF Sessions
<1>3. ws' \in [Sessions -> 0 .. MaxWrites]
  BY <1>1, <1>2, Numbers DEF GuestWrites, WorkFine
<1> QED
  BY <1>1, <1>3, PoolKept, RecordsKept, EngineKept, CallsKept DEF Types, WorkFine, marks

LEMMA VMDiesTypes == ASSUME Types, NEW id \in Ids, VMDies(id) PROVE Types'
<1>1. /\ PoolTypeOK /\ RecordsFine /\ EngineFine /\ WorkFine /\ CallsFine
      /\ UNCHANGED <<net, inst, disk, calls, seq, rootfs, work, marks>> /\ vm' = [vm EXCEPT ![id] = NoVM] /\ ev' = ev
  BY DEF Types, VMDies, drv
<1>2. EngineFine'
  BY <1>1, NoVMIs DEF EngineFine, Identified, Alive
<1> QED
  BY <1>1, <1>2, PoolKept, RecordsKept, WorkKeptFine, CallsKept DEF Types

LEMMA ImageGoneTypes == ASSUME Types, NEW id \in Ids, ImageGone(id) PROVE Types'
<1>1. /\ PoolTypeOK /\ RecordsFine /\ EngineFine /\ WorkFine /\ CallsFine
      /\ UNCHANGED <<net, inst, disk, eng, calls, seq, rootfs, marks, store, owed>>
  BY DEF Types, ImageGone, drv
<1>2. SessionOf(id) \in Sessions /\ 0 \in 0 .. MaxWrites
  BY Numbers DEF Sessions
<1>3. ws' \in [Sessions -> 0 .. MaxWrites]
  BY <1>1, <1>2 DEF ImageGone, WorkFine
<1> QED
  BY <1>1, <1>3, PoolKept, RecordsKept, EngineKept, CallsKept DEF Types, WorkFine, marks

\* a record as a new runner reads it, before it looks at the process
Plain(d) == [st |-> d.st, cold |-> d.cold, blocked |-> d.blocked, idx |-> d.idx, gen |-> d.gen, ck |-> d.ck,
             slot |-> 0, live |-> FALSE, resuming |-> FALSE, destroying |-> FALSE, snapshotting |-> FALSE, checkpointing |-> FALSE]

LEMMA PlainIs ==
  ASSUME NEW d \in RecordType
  PROVE  [f \in DOMAIN NoInstance |-> IF f \in DOMAIN d THEN d[f] ELSE NoInstance[f]] = Plain(d)
<1> DEFINE D == {"st", "cold", "blocked", "idx", "gen", "ck"}
     E == D \cup {"slot", "live", "resuming", "destroying", "snapshotting", "checkpointing"}
<1>1. DOMAIN d = D
  BY DEF RecordType
<1>2. DOMAIN NoInstance = E
  BY DEF NoInstance
<1>3. [f \in DOMAIN NoInstance |-> IF f \in DOMAIN d THEN d[f] ELSE NoInstance[f]] = [f \in E |-> IF f \in D THEN d[f] ELSE NoInstance[f]]
  BY <1>1, <1>2
<1>4. \A f \in E : (IF f \in D THEN d[f] ELSE NoInstance[f]) = Plain(d)[f]
  <2> TAKE f \in E
  <2>1. CASE f \in D
    <3>1. Plain(d)[f] = d[f]
      BY <2>1 DEF Plain
    <3> QED
      BY <2>1, <3>1
  <2>2. CASE f \notin D
    <3>1. Plain(d)[f] = NoInstance[f]
      <4>1. f \in {"slot", "live", "resuming", "destroying", "snapshotting", "checkpointing"}
        BY <2>2
      <4>2. CASE f = "slot"
        BY <4>2 DEF Plain, NoInstance
      <4>3. CASE f = "live"
        BY <4>3 DEF Plain, NoInstance
      <4>4. CASE f = "resuming"
        BY <4>4 DEF Plain, NoInstance
      <4>5. CASE f = "destroying"
        BY <4>5 DEF Plain, NoInstance
      <4>6. CASE f = "snapshotting"
        BY <4>6 DEF Plain, NoInstance
      <4>7. CASE f = "checkpointing"
        BY <4>7 DEF Plain, NoInstance
      <4> QED
        BY <4>1, <4>2, <4>3, <4>4, <4>5, <4>6, <4>7
    <3> QED
      BY <2>2, <3>1
  <2> QED
    BY <2>1, <2>2
<1>5. Plain(d) = [f \in E |-> Plain(d)[f]]
  BY DEF Plain
<1> QED
  BY <1>3, <1>4, <1>5

LEMMA RecoveredIs ==
  ASSUME NEW d \in RecordType, d.st = "none" => d = NoRecord, NEW s \in {"error", "gone", "running", "paused"}
  PROVE  /\ Recovered(d, s) \in Instances
         /\ d = NoRecord => Recovered(d, s) = NoInstance
         /\ d # NoRecord => Recovered(d, s).st # "none"
         /\ Recovered(d, s).slot = 0 /\ ~Recovered(d, s).resuming /\ ~Recovered(d, s).destroying
<1> DEFINE r == [f \in DOMAIN NoInstance |-> IF f \in DOMAIN d THEN d[f] ELSE NoInstance[f]]
           m == IF r.blocked /\ s = "gone" THEN [r EXCEPT !.cold = TRUE, !.blocked = FALSE] ELSE r
<1>1. r = Plain(d)
  BY PlainIs
<1>2. Recovered(d, s) = IF d = NoRecord THEN NoInstance ELSE IF s = "error" THEN r ELSE Reconciled(m, s)
  BY DEF Recovered
<1>3. CASE d = NoRecord
  <2>1. NoInstance \in Instances /\ NoInstance.slot = 0 /\ ~NoInstance.resuming /\ ~NoInstance.destroying
    BY Numbers DEF NoInstance, Instances
  <2> QED
    BY <1>2, <1>3, <2>1
<1>4. CASE d # NoRecord
  <2>1. r \in Instances /\ r.st # "none" /\ r.slot = 0 /\ ~r.resuming /\ ~r.destroying
    <3> HIDE DEF r
    <3> QED
      BY <1>1, <1>4, Numbers DEF Plain, RecordType, Instances
  <2>2. m \in Instances /\ m.st # "none" /\ m.slot = 0 /\ ~m.resuming /\ ~m.destroying
    <3> HIDE DEF r
    <3> QED
      BY <2>1 DEF Instances
  <2> HIDE DEF r, m
  <2>3. CASE s = "error"
    BY <1>2, <1>4, <2>1, <2>3
  <2>4. CASE s # "error"
    BY <1>2, <1>4, <2>2, <2>4, ReconciledIs
  <2> QED
    BY <2>3, <2>4
<1> QED
  BY <1>3, <1>4

\* what a new runner finds, and what it holds
EvidenceOf(reboot) == [id \in Ids |-> EvidenceAfter(ev[id], reboot)]
StateOf(id, reboot) ==
    LET evidence == EvidenceOf(reboot)
    IN  IF evidence[id] \in {"marker", "untracked"} THEN "error"
        ELSE IF evidence[id] = "full" /\ Alive(id) THEN vm[id].st ELSE "gone"
FoundOf(reboot) == [id \in Ids |-> Recovered(disk[id], StateOf(id, reboot))]
ClaimOf(reboot) == LET found == FoundOf(reboot) IN [id \in Ids |-> IF found[id].st = "running" \/ Warm(found[id]) THEN found[id].idx ELSE 0]
HeldOf(reboot) == Adopted(ClaimOf(reboot))
SlotOf(id, reboot) == IF ClaimOf(reboot)[id] # 0 /\ HeldOf(reboot)[ClaimOf(reboot)[id]] = id THEN ClaimOf(reboot)[id] ELSE 0
StandingOf(reboot) == IF reboot THEN {} ELSE {i \in Slots : netns[i] # Nobody /\ HeldOf(reboot)[i] = Nobody}

LEMMA RestartsIs ==
  ASSUME NEW reboot \in BOOLEAN, Restarts(reboot)
  PROVE  /\ vm' = (IF reboot THEN [id \in Ids |-> NoVM] ELSE vm) /\ ev' = EvidenceOf(reboot)
         /\ inst' = [id \in Ids |-> [FoundOf(reboot)[id] EXCEPT !.slot = SlotOf(id, reboot), !.idx = SlotOf(id, reboot)]]
         /\ seq' = Max({0} \cup {id \in Ids : disk[id] # NoRecord})
         /\ rootfs' = {id \in rootfs : disk[id] # NoRecord}
         /\ inUse' = HeldOf(reboot) /\ foreign' = {}
         /\ \E failed \in SUBSET StandingOf(reboot) :
              /\ netns' = IF reboot THEN [i \in Slots |-> Nobody] ELSE Reclaimed(HeldOf(reboot), failed)
              /\ leaked' = failed \/ (failed = StandingOf(reboot) /\ leaked' = {})
         /\ calls' = [c \in Callers |-> NoCall]
         /\ UNCHANGED <<work, disk, marks>>
  BY Zenon DEF Restarts, EvidenceOf, StateOf, FoundOf, ClaimOf, HeldOf, SlotOf, StandingOf

LEMMA StateOfIs ==
  ASSUME EngineFine, NEW id \in Ids, NEW reboot \in BOOLEAN
  PROVE  StateOf(id, reboot) \in {"error", "gone", "running", "paused"}
<1>1. EvidenceOf(reboot)[id] = "full" => ev[id] = "full"
  BY DEF EvidenceOf, EvidenceAfter, EngineFine
<1> QED
  BY <1>1 DEF StateOf, EngineFine, Identified

LEMMA FoundIs ==
  ASSUME RecordsFine, EngineFine, NEW reboot \in BOOLEAN, NEW id \in Ids
  PROVE  /\ FoundOf(reboot)[id] \in Instances
         /\ disk[id] = NoRecord => FoundOf(reboot)[id] = NoInstance
         /\ disk[id] # NoRecord => FoundOf(reboot)[id].st # "none"
         /\ ~FoundOf(reboot)[id].resuming /\ ~FoundOf(reboot)[id].destroying
         /\ ClaimOf(reboot)[id] \in 0 .. SlotCount
         /\ FoundOf(reboot)[id].st = "none" => ClaimOf(reboot)[id] = 0
<1> DEFINE v == FoundOf(reboot)[id]
           s == StateOf(id, reboot)
<1>1. v = Recovered(disk[id], s)
  BY DEF FoundOf
<1>2. s \in {"error", "gone", "running", "paused"} /\ disk[id] \in RecordType /\ (disk[id].st = "none" => disk[id] = NoRecord)
  BY StateOfIs DEF RecordsFine
<1>3. ClaimOf(reboot)[id] = IF v.st = "running" \/ Warm(v) THEN v.idx ELSE 0
  BY DEF ClaimOf
<1>4. 0 \in 0 .. SlotCount
  BY Numbers
<1> HIDE DEF v, s
<1>5. v \in Instances /\ (disk[id] = NoRecord => v = NoInstance) /\ (disk[id] # NoRecord => v.st # "none") /\ ~v.resuming /\ ~v.destroying
  BY <1>1, <1>2, RecoveredIs
<1>6. v.idx \in 0 .. SlotCount
  BY <1>5 DEF Instances
<1>7. ClaimOf(reboot)[id] \in 0 .. SlotCount /\ (v.st = "none" => ClaimOf(reboot)[id] = 0)
  BY <1>3, <1>4, <1>6 DEF Warm
<1> QED
  BY <1>5, <1>7 DEF v

LEMMA HeldIs ==
  ASSUME RecordsFine, EngineFine, NEW reboot \in BOOLEAN, NEW i \in Slots
  PROVE  /\ HeldOf(reboot)[i] \in Ids \cup {Nobody}
         /\ HeldOf(reboot)[i] # Nobody => ClaimOf(reboot)[HeldOf(reboot)[i]] = i
<1> DEFINE ks == {k \in Keys : ClaimOf(reboot)[k] = i}
<1>1. HeldOf(reboot)[i] = IF ks = {} THEN Nobody ELSE Min(ks)
  BY DEF HeldOf, Adopted
<1>2. ks \in SUBSET Nat
  BY Numbers DEF Ids
<1>3. ks # {} => Min(ks) \in ks
  BY <1>2, LeastIs
<1> QED
  BY <1>1, <1>3 DEF Ids

LEMMA SlotOfIs ==
  ASSUME RecordsFine, EngineFine, NEW reboot \in BOOLEAN, NEW id \in Ids
  PROVE  /\ SlotOf(id, reboot) \in 0 .. SlotCount
         /\ SlotOf(id, reboot) # 0 => SlotOf(id, reboot) \in Slots /\ HeldOf(reboot)[SlotOf(id, reboot)] = id
         /\ FoundOf(reboot)[id].st = "none" => SlotOf(id, reboot) = 0
  BY FoundIs, Numbers DEF SlotOf, Slots

LEMMA AfterIs ==
  ASSUME RecordsFine, EngineFine, NEW reboot \in BOOLEAN, Restarts(reboot), NEW id \in Ids
  PROVE  /\ inst'[id] \in Instances /\ (inst'[id].st = "none" => inst'[id] = NoInstance)
         /\ inst'[id].slot = SlotOf(id, reboot)
         /\ inst'[id].st # "none" => disk[id] # NoRecord
         /\ ~inst'[id].resuming /\ ~inst'[id].destroying
<1> DEFINE v == FoundOf(reboot)[id]
           slot == SlotOf(id, reboot)
<1>1. inst'[id] = [v EXCEPT !.slot = slot, !.idx = slot]
  BY RestartsIs
<1>2. slot \in 0 .. SlotCount /\ (v.st = "none" => slot = 0)
  BY SlotOfIs
<1>3. v \in Instances /\ (disk[id] = NoRecord => v = NoInstance) /\ (disk[id] # NoRecord => v.st # "none") /\ ~v.resuming /\ ~v.destroying
  BY FoundIs
<1> HIDE DEF v, slot
<1>4. inst'[id] \in Instances /\ inst'[id].st = v.st /\ inst'[id].slot = slot /\ inst'[id].resuming = v.resuming /\ inst'[id].destroying = v.destroying
  BY <1>1, <1>2, <1>3 DEF Instances
<1>5. v.st = "none" => inst'[id] = NoInstance
  <2>1. NoInstance.st = "none" /\ [NoInstance EXCEPT !.slot = 0] = NoInstance /\ [NoInstance EXCEPT !.idx = 0] = NoInstance
    BY DEF NoInstance
  <2> QED
    BY <1>1, <1>2, <1>3, <2>1
<1>6. v.st # "none" => disk[id] # NoRecord
  BY <1>3 DEF NoInstance
<1> QED
  BY <1>3, <1>4, <1>5, <1>6 DEF slot

LEMMA SeqAfterIs ==
  ASSUME NEW reboot \in BOOLEAN, Restarts(reboot)
  PROVE  seq' \in Ids \cup {0} /\ \A id \in Ids : disk[id] # NoRecord => id <= seq'
<1> DEFINE S == {0} \cup {id \in Ids : disk[id] # NoRecord}
<1>1. S \in SUBSET Nat /\ S # {} /\ Cardinality(Ids) \in Nat
  BY Numbers
<1>2. \A x \in S : x <= Cardinality(Ids)
  BY Numbers
<1>3. seq' = Max(S)
  BY RestartsIs
<1> HIDE DEF S
<1>4. Max(S) \in S /\ \A y \in S : y <= Max(S)
  BY <1>1, <1>2, GreatestIs
<1> QED
  BY <1>3, <1>4 DEF S

LEMMA RestartsTypes == ASSUME Types, NEW reboot \in BOOLEAN, Restarts(reboot) PROVE Types'
<1>1. PoolTypeOK /\ RecordsFine /\ EngineFine /\ WorkFine /\ CallsFine
  BY DEF Types
<1>2. PoolTypeOK'
  <2>1. inUse' \in [Slots -> Keys \cup {Nobody, Taken}]
    <3>1. inUse' = HeldOf(reboot)
      BY RestartsIs
    <3>2. HeldOf(reboot) = [i \in Slots |-> HeldOf(reboot)[i]]
      BY DEF HeldOf, Adopted
    <3>3. \A i \in Slots : HeldOf(reboot)[i] \in Keys \cup {Nobody, Taken}
      BY <1>1, HeldIs DEF Ids
    <3> QED
      BY <3>1, <3>2, <3>3
  <2>2. PICK failed \in SUBSET StandingOf(reboot) :
           /\ netns' = IF reboot THEN [i \in Slots |-> Nobody] ELSE Reclaimed(HeldOf(reboot), failed)
           /\ leaked' = failed \/ (failed = StandingOf(reboot) /\ leaked' = {})
    BY RestartsIs
  <2>3. StandingOf(reboot) \subseteq Slots
    BY DEF StandingOf
  <2>4. netns' \in [Slots -> Keys \cup {Nobody}]
    BY <1>1, <2>2 DEF PoolTypeOK, Reclaimed
  <2>5. foreign' = {}
    BY RestartsIs
  <2> QED
    BY <2>1, <2>2, <2>3, <2>4, <2>5 DEF PoolTypeOK
<1>3. RecordsFine'
  <2>1. inst' = [id \in Ids |-> inst'[id]]
    BY RestartsIs
  <2>2. \A id \in Ids : inst'[id] \in Instances /\ (inst'[id].st = "none" => inst'[id] = NoInstance)
    BY <1>1, AfterIs
  <2>3. disk' = disk
    BY RestartsIs
  <2> QED
    BY <1>1, <2>1, <2>2, <2>3 DEF RecordsFine
<1>4. EngineFine'
  <2>1. ev' = EvidenceOf(reboot) /\ vm' = IF reboot THEN [id \in Ids |-> NoVM] ELSE vm
    BY RestartsIs
  <2>2. ev' \in [Ids -> {"none", "marker", "full", "untracked", "past"}]
    BY <1>1, <2>1 DEF EngineFine, EvidenceOf, EvidenceAfter
  <2>3. vm' \in [Ids -> Machines]
    BY <1>1, <2>1, NoVMIs DEF EngineFine
  <2>4. \A id \in Ids : ev'[id] = "full" => ev[id] = "full"
    BY <1>1, <2>1 DEF EvidenceOf, EvidenceAfter, EngineFine
  <2>5. \A id \in Ids : vm'[id] = NoVM \/ vm'[id] = vm[id]
    BY <2>1
  <2> QED
    BY <1>1, <2>2, <2>3, <2>4, <2>5 DEF EngineFine, Identified, Alive
<1>5. WorkFine'
  <2>1. UNCHANGED <<work, marks>> /\ rootfs' \subseteq rootfs
    BY RestartsIs
  <2>2. seq' \in Ids \cup {0}
    BY SeqAfterIs
  <2> QED
    BY <1>1, <2>1, <2>2 DEF WorkFine, work, marks
<1>6. CallsFine'
  <2>1. calls' = [c \in Callers |-> NoCall]
    BY RestartsIs
  <2> QED
    BY <2>1, NoCallFine DEF CallsFine, CallFine
<1> QED
  BY <1>2, <1>3, <1>4, <1>5, <1>6 DEF Types

LEMMA InitTypes == ASSUME Init PROVE Types
<1>1. PoolTypeOK
  BY DEF Init, InitPool, PoolTypeOK
<1>2. RecordsFine
  <2>1. NoInstance \in Instances /\ NoRecord \in RecordType
    BY Numbers DEF Instances, NoInstance, RecordType, NoRecord
  <2> QED
    BY <2>1 DEF Init, RecordsFine
<1>3. EngineFine
  BY NoVMIs DEF Init, EngineFine, Identified, Alive
<1>4. WorkFine
  <2>1. 0 \in 0 .. MaxWrites /\ 0 \in -1 .. MaxWrites
    BY Numbers
  <2> QED
    BY <2>1 DEF Init, WorkFine
<1>5. CallsFine
  BY NoCallFine DEF Init, CallsFine, CallFine
<1> QED
  BY <1>1, <1>2, <1>3, <1>4, <1>5 DEF Types

--------------------
\* One step of one call, as claims and slots see it: the call becomes q,
\* the record of one instance changes, and so may what is on disk of it.

HeldBy(r) == IF Holds(r) THEN r.slot ELSE 0
Alike(r, s) == r.op = s.op /\ r.pc = s.pc /\ r.id = s.id /\ r.slot = s.slot /\ r.cold = s.cold
Moved(c, q) == \A d \in Callers : Alike(calls'[d], IF d = c THEN q ELSE calls[d])
Elsewhere(id) == \A j \in Ids \ {id} : inst'[j] = inst[j] /\ disk'[j] = disk[j]

\* a record that is as good a claim as before
Mild(v, w) == /\ v.st = "none" <=> w.st = "none"
              /\ v = NoInstance => w = NoInstance
              /\ w.resuming = v.resuming /\ w.destroying = v.destroying /\ w.slot \in {v.slot, 0}

\* a call that claims nothing, and the calls besides c about an instance
Quiet(r) == r.op \notin {"create", "resume"} /\ ~Torn(r)
AllQuiet(c, id) == \A d \in Callers \ {c} : Id(d) = id => Quiet(calls[d])

LEMMA MovedIs ==
  ASSUME CallsFine, NEW c \in Callers, NEW q \in CallType, NEW id,
         calls' = [calls EXCEPT ![c] = q] \/ calls' = Bumped([calls EXCEPT ![c] = q], id)
  PROVE  Moved(c, q)
<1> DEFINE cs == [calls EXCEPT ![c] = q]
<1>1. cs \in [Callers -> CallType] /\ \A d \in Callers : cs[d] = IF d = c THEN q ELSE calls[d]
  BY DEF CallsFine
<1>2. CASE calls' = cs
  BY <1>1, <1>2 DEF Moved, Alike
<1>3. CASE calls' = Bumped(cs, id)
  <2>1. \A d \in Callers : calls'[d] = IF cs[d].id = id THEN [cs[d] EXCEPT !.fresh = FALSE] ELSE cs[d]
    BY <1>3 DEF Bumped
  <2> HIDE DEF cs
  <2>2. \A d \in Callers : Alike(calls'[d], cs[d])
    <3> TAKE d \in Callers
    <3>1. cs[d] \in CallType
      BY <1>1
    <3>2. Alike([cs[d] EXCEPT !.fresh = FALSE], cs[d])
      BY <3>1 DEF Alike, CallType
    <3>3. Alike(cs[d], cs[d])
      BY DEF Alike
    <3> QED
      BY <2>1, <3>2, <3>3
  <2> QED
    BY <1>1, <2>2 DEF Moved
<1> QED
  BY <1>2, <1>3

LEMMA FitsAlike == ASSUME NEW r, NEW s, NEW v, Alike(r, s) PROVE Fits(r, v) <=> Fits(s, v)
  BY DEF Alike, Fits, Torn, Holds

LEMMA FitsMild ==
  ASSUME NEW r, NEW v, NEW w, Fits(r, v), Mild(v, w) \/ Quiet(r)
  PROVE  Fits(r, w)
  BY DEF Fits, Mild, Quiet, Torn

\* who claims an instance is alone with it
LEMMA Alone ==
  ASSUME Claims, NEW c \in Callers, Id(c) # 0, calls[c].op \in {"create", "resume"} \/ (Torn(calls[c]) /\ Known(Id(c)))
  PROVE  AllQuiet(c, Id(c))
<1> SUFFICES ASSUME NEW d \in Callers, d # c, Id(d) = Id(c) PROVE Quiet(calls[d])
  BY DEF AllQuiet
<1>1. Fits(calls[c], inst[Id(c)]) /\ Fits(calls[d], inst[Id(c)])
  BY DEF Claims
<1>2. /\ calls[c].op # "create" /\ calls[d].op # "create"
      /\ ~(calls[c].op = "resume" /\ calls[d].op = "resume")
      /\ ~(Torn(calls[c]) /\ Torn(calls[d]) /\ Known(Id(c)))
  BY DEF Claims
<1> QED
  BY <1>1, <1>2 DEF Fits, Quiet, Known, Torn

\* the calls about an instance beside each other
Beside(r, s, known) ==
    /\ r.op # "create" /\ s.op # "create"
    /\ ~(r.op = "resume" /\ s.op = "resume")
    /\ ~(Torn(r) /\ Torn(s) /\ known)
Apart(c, q, id) == \A d \in Callers \ {c} : Id(d) = id => Beside(q, calls[d], Known(id)')

LEMMA ApartSame ==
  ASSUME Claims, NEW c \in Callers, NEW id \in Ids, Id(c) = id, id # 0,
         NEW q, q.op = calls[c].op, Torn(q) => Torn(calls[c]), Known(id)' => Known(id)
  PROVE  Apart(c, q, id)
  BY DEF Claims, Apart, Beside

LEMMA ApartQuiet ==
  ASSUME NEW c \in Callers, NEW id, AllQuiet(c, id), NEW q, q.op # "create"
  PROVE  Apart(c, q, id)
  BY DEF Apart, Beside, AllQuiet, Quiet

LEMMA ClaimsStep ==
  ASSUME Types, Claims, NEW c \in Callers, NEW id \in Ids, NEW q, Moved(c, q), Elsewhere(id), UNCHANGED seq, id <= seq,
         Mild(inst[id], inst'[id]) \/ AllQuiet(c, id),
         q.id \in {0, id},
         q.id = id => Fits(q, inst'[id]) /\ Apart(c, q, id)
  PROVE  Claims'
<1> USE Numbers
<1>0. /\ \A d \in Callers : calls'[d].id = IF d = c THEN q.id ELSE calls[d].id
      /\ \A d \in Callers : Id(d) \in Ids \cup {0}
      /\ seq \in Nat
  <2>1. \A d \in Callers : Id(d) \in Ids \cup {0}
    BY DEF Types, CallsFine, CallType, Id
  <2>2. seq \in Nat
    BY DEF Types, WorkFine
  <2> QED
    BY <2>1, <2>2 DEF Moved, Alike
<1>1. \A j \in Ids : Known(j)' \/ disk'[j] # NoRecord => j <= seq'
  BY DEF Claims, Elsewhere, Known
<1>2. \A d \in Callers : Id(d)' <= seq' /\ (Id(d)' # 0 => Fits(calls'[d], inst'[Id(d)']))
  <2> TAKE d \in Callers
  <2>1. Alike(calls'[d], IF d = c THEN q ELSE calls[d])
    BY DEF Moved
  <2>2. CASE d = c
    <3>1. q.id <= seq /\ Id(d)' = q.id
      BY <1>0, <2>2 DEF Id
    <3>2. q.id # 0 => Fits(q, inst'[id]) /\ Fits(calls'[d], inst'[id])
      BY <2>1, <2>2, FitsAlike
    <3> QED
      BY <3>1, <3>2
  <2>3. CASE d # c
    <3>1. Id(d)' = Id(d) /\ Id(d) <= seq /\ (Id(d) # 0 => Fits(calls[d], inst[Id(d)]))
      BY <1>0, <2>3 DEF Claims, Id
    <3>2. CASE Id(d) = id
      <4>1. Fits(calls[d], inst'[id])
        BY <2>3, <3>1, <3>2, FitsMild DEF AllQuiet
      <4> QED
        BY <2>1, <2>3, <3>1, <3>2, <4>1, FitsAlike
    <3>3. CASE Id(d) # id /\ Id(d) # 0 /\ Id(d) \in Ids
      <4>1. inst'[Id(d)] = inst[Id(d)]
        BY <3>3 DEF Elsewhere
      <4> QED
        BY <2>1, <2>3, <3>1, <3>3, <4>1, FitsAlike
    <3> QED
      BY <1>0, <3>1, <3>2, <3>3
  <2> QED
    BY <2>2, <2>3
<1>3. ASSUME NEW d \in Callers, NEW e \in Callers, d # e, Id(d)' = Id(e)', Id(d)' # 0
      PROVE  Beside(calls'[d], calls'[e], Known(Id(d))')
  <2>1. /\ Alike(calls'[d], IF d = c THEN q ELSE calls[d])
        /\ Alike(calls'[e], IF e = c THEN q ELSE calls[e])
    BY DEF Moved
  <2>2. Beside(IF d = c THEN q ELSE calls[d], IF e = c THEN q ELSE calls[e], Known(Id(d))')
    <3>1. CASE d = c
      <4>1. Id(d)' = id /\ q.id = id /\ Id(e) = id
        BY <1>0, <1>3, <3>1 DEF Id
      <4>2. Beside(q, calls[e], Known(id)')
        BY <1>3, <3>1, <4>1 DEF Apart
      <4> QED
        BY <1>3, <3>1, <4>1, <4>2 DEF Known
    <3>2. CASE e = c
      <4>1. Id(d)' = id /\ q.id = id /\ Id(d) = id
        BY <1>0, <1>3, <3>2 DEF Id
      <4>2. Beside(q, calls[d], Known(id)')
        BY <1>3, <3>2, <4>1 DEF Apart
      <4> QED
        BY <1>3, <3>2, <4>1, <4>2 DEF Known, Beside
    <3>3. CASE d # c /\ e # c
      <4>1. Id(d)' = Id(d) /\ Id(e)' = Id(e)
        BY <1>0, <3>3 DEF Id
      <4>2. Beside(calls[d], calls[e], Known(Id(d)))
        BY <1>3, <4>1 DEF Claims, Beside
      <4>3. CASE Id(d) # id
        <5>1. inst'[Id(d)] = inst[Id(d)]
          BY <1>0, <1>3, <4>1, <4>3 DEF Elsewhere
        <5> QED
          BY <3>3, <4>1, <4>2, <5>1 DEF Known
      <4>4. CASE Id(d) = id /\ AllQuiet(c, id)
        BY <1>3, <3>3, <4>1, <4>4 DEF AllQuiet, Quiet, Beside
      <4>5. CASE Id(d) = id /\ Mild(inst[id], inst'[id])
        BY <3>3, <4>1, <4>2, <4>5 DEF Mild, Known, Beside
      <4> QED
        BY <4>3, <4>4, <4>5
    <3> QED
      BY <3>1, <3>2, <3>3
  <2> QED
    BY <2>1, <2>2 DEF Alike, Beside, Torn, Known
<1> QED
  BY <1>1, <1>2, <1>3 DEF Claims, Beside

\* the slot of a record and the slot of a call stay where they are, or change hands
LEMMA HeldStep ==
  ASSUME Types, SlotsHeld, NEW c \in Callers, NEW id \in Ids, NEW q \in CallType, Moved(c, q), UNCHANGED inUse,
         \A j \in Ids \ {id} : inst'[j] = inst[j],
         HeldBy(calls[c]) # 0 => Id(c) = id /\ calls[c].pc # "build",
         HeldBy(q) # 0 => q.id = id /\ q.pc # "build",
         \/ inst'[id].slot = inst[id].slot /\ HeldBy(q) = HeldBy(calls[c])
         \/ inst'[id].slot = HeldBy(calls[c]) /\ HeldBy(q) = inst[id].slot
  PROVE  SlotsHeld'
<1> DEFINE a == inst[id].slot
           b == inst'[id].slot
           h == HeldBy(calls[c])
           k == HeldBy(q)
<1>1. /\ \A j \in Ids : inst[j].slot \in 0 .. SlotCount
      /\ \A d \in Callers : Id(d) \in Ids \cup {0} /\ calls[d] \in CallType /\ (Holds(calls[d]) => Id(d) \in Ids)
      /\ 0 \notin Ids /\ Taken \notin Ids /\ Nobody \notin Ids
  <2>1. \A j \in Ids : inst[j].slot \in 0 .. SlotCount
    BY DEF Types, RecordsFine, Instances
  <2>2. \A d \in Callers : calls[d] \in CallType /\ Stands(calls[d])
    BY DEF Types, CallsFine
  <2>3. \A d \in Callers : Id(d) \in Ids \cup {0} /\ (Holds(calls[d]) => Id(d) \in Ids)
    BY <2>2 DEF CallType, Id, Holds, Stands
  <2> QED
    BY <2>1, <2>2, <2>3, Numbers DEF Taken, Nobody
<1>2. \A d \in Callers : calls'[d].id = (IF d = c THEN q.id ELSE calls[d].id) /\ calls'[d].slot = (IF d = c THEN q.slot ELSE calls[d].slot)
                         /\ (Holds(calls'[d]) <=> IF d = c THEN k # 0 ELSE Holds(calls[d]))
                         /\ Holder(calls'[d]) = (IF d = c THEN Holder(q) ELSE Holder(calls[d]))
  BY DEF Moved, Alike, Holds, Holder, HeldBy
<1>3. /\ a # 0 => inUse[a] = id
      /\ h # 0 => inUse[h] = id /\ h # a /\ Holds(calls[c]) /\ calls[c].slot = h
      /\ Holds(calls[c]) => h # 0
  BY <1>1 DEF SlotsHeld, Holder, HeldBy, Holds, Id
<1>4. k # 0 => q.slot = k /\ Holder(q) = id
  BY DEF HeldBy, Holder
<1>5. \A d \in Callers \ {c} : Holds(calls[d]) => calls[d].slot # h /\ calls[d].slot # a /\ (calls[d].slot # 0)
  <2> SUFFICES ASSUME NEW d \in Callers, d # c, Holds(calls[d]) PROVE calls[d].slot # h /\ calls[d].slot # a
    BY DEF Holds
  <2>1. inUse[calls[d].slot] = Holder(calls[d]) /\ inst[Id(d)].slot # calls[d].slot /\ calls[d].slot # 0
    BY DEF SlotsHeld, Holds
  <2>2. calls[d].slot # h
    BY <1>3, <2>1 DEF SlotsHeld
  <2>3. CASE Id(d) = id
    BY <2>1, <2>2, <2>3
  <2>4. CASE Id(d) # id
    BY <1>1, <1>3, <2>1, <2>2, <2>4 DEF Holder, Id
  <2> QED
    BY <2>3, <2>4
<1>6. (b = a /\ k = h) \/ (b = h /\ k = a)
  OBVIOUS
<1> HIDE DEF a, b, h, k
<1>7. \A j \in Ids : inst'[j].slot # 0 => inUse'[inst'[j].slot] = j
  BY <1>3, <1>6 DEF SlotsHeld, a, b
<1>8. \A d \in Callers : Holds(calls'[d]) => /\ inUse'[calls'[d].slot] = Holder(calls'[d])
                                             /\ inst'[Id(d)'].slot # calls'[d].slot
  <2> SUFFICES ASSUME NEW d \in Callers, Holds(calls'[d])
               PROVE  inUse'[calls'[d].slot] = Holder(calls'[d]) /\ inst'[Id(d)'].slot # calls'[d].slot
    OBVIOUS
  <2>1. CASE d = c
    <3>1. k # 0 /\ calls'[d].slot = k /\ Holder(calls'[d]) = id /\ Id(d)' = id
      BY <1>2, <1>4, <2>1 DEF Id, k
    <3> QED
      BY <1>3, <1>6, <3>1 DEF b
  <2>2. CASE d # c
    <3>1. Holds(calls[d]) /\ calls'[d].slot = calls[d].slot /\ Holder(calls'[d]) = Holder(calls[d]) /\ Id(d)' = Id(d) /\ Id(d) \in Ids
      BY <1>1, <1>2, <2>2 DEF Id
    <3>2. inUse[calls[d].slot] = Holder(calls[d]) /\ inst[Id(d)].slot # calls[d].slot
      BY <3>1 DEF SlotsHeld
    <3>3. calls[d].slot # h /\ calls[d].slot # a
      BY <1>5, <2>2, <3>1
    <3>4. inst'[Id(d)].slot # calls[d].slot
      BY <1>6, <3>1, <3>2, <3>3 DEF b
    <3> QED
      BY <3>1, <3>2, <3>4
  <2> QED
    BY <2>1, <2>2
<1>9. \A d, e \in Callers : d # e /\ Holds(calls'[d]) /\ Holds(calls'[e]) => calls'[d].slot # calls'[e].slot
  <2> SUFFICES ASSUME NEW d \in Callers, NEW e \in Callers, d # e, Holds(calls'[d]), Holds(calls'[e])
               PROVE  calls'[d].slot # calls'[e].slot
    OBVIOUS
  <2>1. CASE d = c
    BY <1>2, <1>4, <1>5, <1>6, <2>1
  <2>2. CASE e = c
    BY <1>2, <1>4, <1>5, <1>6, <2>2
  <2>3. CASE d # c /\ e # c
    BY <1>2, <2>3 DEF SlotsHeld
  <2> QED
    BY <2>1, <2>2, <2>3
<1>10. \A i \in Slots : inUse'[i] # Nobody => \/ inUse'[i] \in Ids /\ inst'[inUse'[i]].slot = i
                                              \/ \E d \in Callers : Holds(calls'[d]) /\ calls'[d].slot = i
  <2> SUFFICES ASSUME NEW i \in Slots, inUse[i] # Nobody
               PROVE  \/ inUse[i] \in Ids /\ inst'[inUse[i]].slot = i
                      \/ \E d \in Callers : Holds(calls'[d]) /\ calls'[d].slot = i
    OBVIOUS
  <2>0. i # 0
    BY DEF Slots
  <2>1. CASE inUse[i] \in Ids /\ inst[inUse[i]].slot = i
    <3>1. CASE inUse[i] # id
      BY <2>1, <3>1
    <3>2. CASE inUse[i] = id
      <4>1. a = i
        BY <2>1, <3>2 DEF a
      <4>2. CASE b = a
        BY <2>1, <3>2, <4>1, <4>2 DEF b
      <4>3. CASE k = a
        BY <1>2, <1>4, <2>0, <4>1, <4>3
      <4> QED
        BY <1>6, <4>2, <4>3
    <3> QED
      BY <3>1, <3>2
  <2>2. CASE \E d \in Callers : Holds(calls[d]) /\ calls[d].slot = i
    <3>1. PICK d \in Callers : Holds(calls[d]) /\ calls[d].slot = i
      BY <2>2
    <3>2. CASE d # c
      BY <1>2, <3>1, <3>2
    <3>3. CASE d = c
      <4>1. h = i /\ inUse[i] = id
        BY <1>3, <3>1, <3>3, <2>0
      <4>2. CASE k = h
        BY <1>2, <1>4, <2>0, <4>1, <4>2
      <4>3. CASE b = h
        BY <4>1, <4>3 DEF b
      <4> QED
        BY <1>6, <4>2, <4>3
    <3> QED
      BY <3>2, <3>3
  <2> QED
    BY <2>1, <2>2 DEF SlotsHeld
<1> QED
  BY <1>7, <1>8, <1>9, <1>10 DEF SlotsHeld

--------------------
\* The steps of a call that leave the records alone.

Beyond(c) == \A d \in Callers \ {c} : Alike(calls'[d], calls[d])

LEMMA BeyondIs ==
  ASSUME CallsFine, NEW c \in Callers, NEW r, NEW id,
         calls' = [calls EXCEPT ![c] = r] \/ calls' = Bumped([calls EXCEPT ![c] = r], id)
  PROVE  Beyond(c)
<1> DEFINE cs == [calls EXCEPT ![c] = r]
<1>1. \A d \in Callers \ {c} : cs[d] = calls[d] /\ calls[d] \in CallType
  BY DEF CallsFine
<1>2. CASE calls' = cs
  BY <1>1, <1>2 DEF Beyond, Alike
<1>3. CASE calls' = Bumped(cs, id)
  <2>1. \A d \in Callers : calls'[d] = IF cs[d].id = id THEN [cs[d] EXCEPT !.fresh = FALSE] ELSE cs[d]
    BY <1>3 DEF Bumped
  <2> HIDE DEF cs
  <2>2. \A d \in Callers \ {c} : Alike(calls'[d], cs[d])
    <3> TAKE d \in Callers \ {c}
    <3>1. cs[d] \in CallType
      BY <1>1
    <3>2. Alike([cs[d] EXCEPT !.fresh = FALSE], cs[d]) /\ Alike(cs[d], cs[d])
      BY <3>1 DEF Alike, CallType
    <3> QED
      BY <2>1, <3>2
  <2> QED
    BY <1>1, <2>2 DEF Beyond
<1> QED
  BY <1>2, <1>3

LEMMA BeyondMoved == ASSUME NEW c \in Callers, Beyond(c) PROVE Moved(c, calls'[c])
  BY DEF Beyond, Moved, Alike

\* a call goes on, or ends, with the slot it holds
Steps(r, q) ==
    \/ q = NoCall /\ HeldBy(r) = 0
    \/ /\ q.op = r.op /\ q.id = r.id /\ q.cold = r.cold
       /\ HeldBy(q) = HeldBy(r) /\ (HeldBy(r) # 0 => r.pc # "build" /\ q.pc # "build")
       /\ Torn(q) => Torn(r) /\ (q.pc = "remove" => r.pc = "remove")
       /\ r.op = "resume" /\ r.pc \in {"save", "end"} => q.pc \in {"save", "end"}

LEMMA ClaimsMoves ==
  ASSUME Types, Claims, NEW c \in Callers, NEW id \in Ids, Id(c) = id, Beyond(c), UNCHANGED seq, Elsewhere(id),
         Mild(inst[id], inst'[id]),
         calls'[c] = NoCall \/ (calls'[c].id = id /\ calls'[c].op = calls[c].op /\ Fits(calls'[c], inst'[id])
                                /\ (Torn(calls'[c]) => Torn(calls[c])))
  PROVE  Claims'
<1> DEFINE q == calls'[c]
<1>1. id # 0 /\ id <= seq
  BY Numbers DEF Claims
<1>2. Moved(c, q)
  BY BeyondMoved
<1>4. q.id \in {0, id}
  BY NoCallIs
<1>5. q.id = id => q.op = calls[c].op /\ Fits(q, inst'[id]) /\ (Torn(q) => Torn(calls[c]))
  BY <1>1, NoCallIs
<1>6. Known(id)' => Known(id)
  BY DEF Known, Mild
<1> HIDE DEF q
<1>7. q.id = id => Apart(c, q, id)
  BY <1>1, <1>5, <1>6, ApartSame
<1> QED
  BY <1>1, <1>2, <1>4, <1>5, <1>7, ClaimsStep

LEMMA MildMoves ==
  ASSUME Types, Types', Claims, SlotsHeld, NEW c \in Callers, NEW id \in Ids, Id(c) = id, Beyond(c),
         UNCHANGED <<seq, inUse>>, Elsewhere(id), Mild(inst[id], inst'[id]), inst'[id].slot = inst[id].slot,
         Steps(calls[c], calls'[c])
  PROVE  Claims' /\ SlotsHeld'
<1> DEFINE q == calls'[c]
           r == calls[c]
           v == inst[id]
           w == inst'[id]
<1>1. id # 0 /\ id = r.id /\ q \in CallType /\ Fits(r, v) /\ Mild(v, w)
  BY Numbers DEF Types, CallsFine, Claims, Id
<1>2. Moved(c, q)
  BY BeyondMoved
<1>3. q = NoCall => q.op = "none" /\ q.id = 0 /\ q.slot = 0 /\ HeldBy(q) = 0
  BY NoCallIs DEF HeldBy
<1>4. q = NoCall \/ (q.id = id /\ q.op = r.op /\ Fits(q, w) /\ (Torn(q) => Torn(r)))
  <2> SUFFICES ASSUME q # NoCall PROVE q.id = id /\ q.op = r.op /\ Fits(q, w) /\ (Torn(q) => Torn(r))
    OBVIOUS
  <2>1. /\ q.op = r.op /\ q.id = r.id /\ q.cold = r.cold /\ HeldBy(q) = HeldBy(r)
        /\ Torn(q) => Torn(r) /\ (q.pc = "remove" => r.pc = "remove")
        /\ r.op = "resume" /\ r.pc \in {"save", "end"} => q.pc \in {"save", "end"}
    BY DEF Steps
  <2>2. Holds(q) => Holds(r)
    BY <2>1 DEF HeldBy, Holds
  <2> HIDE DEF q, r, v, w
  <2>3. Fits(q, v)
    BY <1>1, <2>1, <2>2 DEF Fits, Torn
  <2>4. Fits(q, w)
    BY <1>1, <2>3, FitsMild
  <2> QED
    BY <1>1, <2>1, <2>4
<1>5. Claims'
  BY <1>4, ClaimsMoves
<1>6. SlotsHeld'
  <2>1. HeldBy(r) # 0 => r.pc # "build"
    BY DEF Steps
  <2>2. HeldBy(q) # 0 => q.id = id /\ q.pc # "build"
    BY <1>1, <1>3 DEF Steps
  <2>3. HeldBy(q) = HeldBy(r)
    BY <1>3 DEF Steps
  <2>4. \A j \in Ids \ {id} : inst'[j] = inst[j]
    BY DEF Elsewhere
  <2> HIDE DEF q, r
  <2> QED
    BY <1>1, <1>2, <2>1, <2>2, <2>3, <2>4, HeldStep DEF r
<1> QED
  BY <1>5, <1>6

LEMMA Moves ==
  ASSUME Types, Types', Claims, SlotsHeld, NEW c \in Callers, NEW id \in Ids, Id(c) = id, Beyond(c),
         UNCHANGED <<inst, seq, inUse>>, Elsewhere(id), Steps(calls[c], calls'[c])
  PROVE  Claims' /\ SlotsHeld'
<1>1. Mild(inst[id], inst'[id]) /\ inst'[id].slot = inst[id].slot
  BY DEF Mild
<1> QED
  BY <1>1, MildMoves

LEMMA SaveRecordKeeps ==
  ASSUME Types, Types', Claims, SlotsHeld, NEW c \in Callers, SaveRecord(c)
  PROVE  Claims' /\ SlotsHeld'
<1>1. calls[c] \in CallType /\ Stands(calls[c]) /\ calls[c].pc = "save" /\ calls \in [Callers -> CallType]
      /\ disk \in [Ids -> RecordType]
  BY CallFacts DEF Types, CallsFine, RecordsFine, SaveRecord, At, Destroying, Asking
<1>2. calls[c].op # "none"
  BY <1>1 DEF Stands
<1>3. PICK id \in Ids : Id(c) = id
  BY <1>1, <1>2, CallFacts DEF Types
<1>4. UNCHANGED <<inst, seq, inUse>> /\ \A j \in Ids \ {id} : disk'[j] = disk[j]
  BY <1>1, <1>3 DEF SaveRecord, drv, net
<1>5. Beyond(c)
  <2>1. \A d \in Callers \ {c} : calls'[d] = calls[d]
    BY <1>1 DEF SaveRecord, Goes, Returned, Releases
  <2> QED
    BY <2>1 DEF Beyond, Alike
<1>6. Steps(calls[c], calls'[c])
  BY <1>1 DEF SaveRecord, Goes, Returned, CallType, Steps, HeldBy, Holds, HoldingPlaces, Giving, Torn, Stands
<1> QED
  BY <1>3, <1>4, <1>5, <1>6, Moves DEF Elsewhere

LEMMA SaveIntentKeeps ==
  ASSUME Types, Types', Claims, SlotsHeld, NEW c \in Callers, SaveIntent(c)
  PROVE  Claims' /\ SlotsHeld'
<1>1. calls[c] \in CallType /\ Stands(calls[c]) /\ calls[c].pc = "intent" /\ calls \in [Callers -> CallType]
      /\ disk \in [Ids -> RecordType]
  BY CallFacts DEF Types, CallsFine, RecordsFine, SaveIntent, At, Destroying, Asking
<1>2. calls[c].op # "none"
  BY <1>1 DEF Stands
<1>3. PICK id \in Ids : Id(c) = id
  BY <1>1, <1>2, CallFacts DEF Types
<1>4. UNCHANGED <<inst, seq, inUse>> /\ \A j \in Ids \ {id} : disk'[j] = disk[j]
  BY <1>1, <1>3 DEF SaveIntent, drv, net
<1>5. Beyond(c)
  <2>1. \A d \in Callers \ {c} : calls'[d] = calls[d]
    BY <1>1 DEF SaveIntent, Goes, Returned, Releases
  <2> QED
    BY <2>1 DEF Beyond, Alike
<1>6. Steps(calls[c], calls'[c])
  BY <1>1 DEF SaveIntent, Goes, Undoing, CallType, Steps, HeldBy, Holds, HoldingPlaces, Giving, Torn, Stands
<1> QED
  BY <1>3, <1>4, <1>5, <1>6, Moves DEF Elsewhere

LEMMA LaunchVMKeeps ==
  ASSUME Types, Types', Claims, SlotsHeld, NEW c \in Callers, LaunchVM(c)
  PROVE  Claims' /\ SlotsHeld'
<1>1. calls[c] \in CallType /\ Stands(calls[c]) /\ calls[c].pc = "launch" /\ calls \in [Callers -> CallType]
      /\ disk \in [Ids -> RecordType]
  BY CallFacts DEF Types, CallsFine, RecordsFine, LaunchVM, At, Destroying, Asking
<1>2. calls[c].op # "none"
  BY <1>1 DEF Stands
<1>3. PICK id \in Ids : Id(c) = id
  BY <1>1, <1>2, CallFacts DEF Types
<1>4. UNCHANGED <<inst, seq, inUse>> /\ \A j \in Ids \ {id} : disk'[j] = disk[j]
  BY <1>1, <1>3 DEF LaunchVM, drv, net
<1>5. Beyond(c)
  <2>1. \A d \in Callers \ {c} : calls'[d] = calls[d]
    BY <1>1 DEF LaunchVM, Goes, Returned, Releases
  <2> QED
    BY <2>1 DEF Beyond, Alike
<1>6. Steps(calls[c], calls'[c])
  BY <1>1 DEF LaunchVM, Goes, CallType, Steps, HeldBy, Holds, HoldingPlaces, Giving, Torn, Stands
<1> QED
  BY <1>3, <1>4, <1>5, <1>6, Moves DEF Elsewhere

LEMMA BootVMKeeps ==
  ASSUME Types, Types', Claims, SlotsHeld, NEW c \in Callers, BootVM(c)
  PROVE  Claims' /\ SlotsHeld'
<1>1. calls[c] \in CallType /\ Stands(calls[c]) /\ calls[c].pc = "boot" /\ calls \in [Callers -> CallType]
      /\ disk \in [Ids -> RecordType]
  BY CallFacts DEF Types, CallsFine, RecordsFine, BootVM, At, Destroying, Asking
<1>2. calls[c].op # "none"
  BY <1>1 DEF Stands
<1>3. PICK id \in Ids : Id(c) = id
  BY <1>1, <1>2, CallFacts DEF Types
<1>4. UNCHANGED <<inst, seq, inUse>> /\ \A j \in Ids \ {id} : disk'[j] = disk[j]
  BY <1>1, <1>3 DEF BootVM, drv, net
<1>5. Beyond(c)
  <2>1. \A d \in Callers \ {c} : calls'[d] = calls[d]
    BY <1>1 DEF BootVM, Goes, Returned, Releases
  <2> QED
    BY <2>1 DEF Beyond, Alike
<1>6. Steps(calls[c], calls'[c])
  BY <1>1 DEF BootVM, Goes, CallType, Steps, HeldBy, Holds, HoldingPlaces, Giving, Torn, Stands
<1> QED
  BY <1>3, <1>4, <1>5, <1>6, Moves DEF Elsewhere

LEMMA CreateDisksKeeps ==
  ASSUME Types, Types', Claims, SlotsHeld, NEW c \in Callers, CreateDisks(c)
  PROVE  Claims' /\ SlotsHeld'
<1>1. calls[c] \in CallType /\ Stands(calls[c]) /\ calls[c].op = "create" /\ calls[c].pc = "disks" /\ calls \in [Callers -> CallType]
      /\ disk \in [Ids -> RecordType]
  BY CallFacts DEF Types, CallsFine, RecordsFine, CreateDisks, At, Destroying, Asking
<1>2. calls[c].op # "none"
  BY <1>1 DEF Stands
<1>3. PICK id \in Ids : Id(c) = id
  BY <1>1, <1>2, CallFacts DEF Types
<1>4. UNCHANGED <<inst, seq, inUse>> /\ \A j \in Ids \ {id} : disk'[j] = disk[j]
  BY <1>1, <1>3 DEF CreateDisks, drv, net
<1>5. Beyond(c)
  <2>1. \A d \in Callers \ {c} : calls'[d] = calls[d]
    BY <1>1 DEF CreateDisks, Goes, Returned, Releases
  <2> QED
    BY <2>1 DEF Beyond, Alike
<1>6. Steps(calls[c], calls'[c])
  <2>1. \/ calls'[c] = NoCall
        \/ calls'[c] = [calls[c] EXCEPT !.pc = "take", !.made = ws[Session(c)] = 0]
    BY <1>1 DEF CreateDisks, Returned
  <2>2. CASE calls'[c] = [calls[c] EXCEPT !.pc = "take", !.made = ws[Session(c)] = 0]
    <3>1. calls'[c].op = calls[c].op /\ calls'[c].id = calls[c].id /\ calls'[c].cold = calls[c].cold /\ calls'[c].pc = "take"
      BY <1>1, <2>2 DEF CallType
    <3> QED
      BY <1>1, <3>1 DEF Steps, HeldBy, Holds, HoldingPlaces, Giving, Torn
  <2> QED
    BY <1>1, <2>1, <2>2 DEF Steps, HeldBy, Holds, HoldingPlaces, Giving
<1> QED
  BY <1>3, <1>4, <1>5, <1>6, Moves DEF Elsewhere

LEMMA CreatePublishKeeps ==
  ASSUME Types, Types', Claims, SlotsHeld, NEW c \in Callers, CreatePublish(c)
  PROVE  Claims' /\ SlotsHeld'
<1>1. calls[c] \in CallType /\ Stands(calls[c]) /\ calls[c].op = "create" /\ calls[c].pc = "publish" /\ calls \in [Callers -> CallType]
      /\ disk \in [Ids -> RecordType]
  BY CallFacts DEF Types, CallsFine, RecordsFine, CreatePublish, At, Destroying, Asking
<1>2. calls[c].op # "none"
  BY <1>1 DEF Stands
<1>3. PICK id \in Ids : Id(c) = id
  BY <1>1, <1>2, CallFacts DEF Types
<1>4. UNCHANGED <<inst, seq, inUse>> /\ \A j \in Ids \ {id} : disk'[j] = disk[j]
  BY <1>1, <1>3 DEF CreatePublish, drv, net
<1>5. Beyond(c)
  <2>1. \A d \in Callers \ {c} : calls'[d] = calls[d]
    BY <1>1 DEF CreatePublish, Goes, Returned, Releases
  <2> QED
    BY <2>1 DEF Beyond, Alike
<1>6. Steps(calls[c], calls'[c])
  BY <1>1 DEF CreatePublish, Goes, At, CallType, Steps, HeldBy, Holds, HoldingPlaces, Giving, Torn, Stands
<1> QED
  BY <1>3, <1>4, <1>5, <1>6, Moves DEF Elsewhere

LEMMA UnwindKeeps ==
  ASSUME Types, Types', Claims, SlotsHeld, NEW c \in Callers, Unwind(c)
  PROVE  Claims' /\ SlotsHeld'
<1>1. calls[c] \in CallType /\ Stands(calls[c]) /\ calls[c].op = "create" /\ calls[c].pc = "unwind" /\ calls \in [Callers -> CallType]
      /\ disk \in [Ids -> RecordType]
  BY CallFacts DEF Types, CallsFine, RecordsFine, Unwind, At, Destroying, Asking
<1>2. calls[c].op # "none"
  BY <1>1 DEF Stands
<1>3. PICK id \in Ids : Id(c) = id
  BY <1>1, <1>2, CallFacts DEF Types
<1>4. UNCHANGED <<inst, seq, inUse>> /\ \A j \in Ids \ {id} : disk'[j] = disk[j]
  BY <1>1, <1>3 DEF Unwind, drv, net
<1>5. Beyond(c)
  <2>1. \A d \in Callers \ {c} : calls'[d] = calls[d]
    BY <1>1 DEF Unwind, Goes, Returned, Releases
  <2> QED
    BY <2>1 DEF Beyond, Alike
<1>6. Steps(calls[c], calls'[c])
  BY <1>1 DEF Unwind, Goes, At, Releases, CallType, Steps, HeldBy, Holds, HoldingPlaces, Giving, Torn, Stands
<1> QED
  BY <1>3, <1>4, <1>5, <1>6, Moves DEF Elsewhere

LEMMA UnmakeKeeps ==
  ASSUME Types, Types', Claims, SlotsHeld, NEW c \in Callers, Unmake(c)
  PROVE  Claims' /\ SlotsHeld'
<1>1. calls[c] \in CallType /\ Stands(calls[c]) /\ calls[c].op = "create" /\ calls[c].pc = "unmake" /\ calls \in [Callers -> CallType]
      /\ disk \in [Ids -> RecordType]
  BY CallFacts DEF Types, CallsFine, RecordsFine, Unmake, At, Destroying, Asking
<1>2. calls[c].op # "none"
  BY <1>1 DEF Stands
<1>3. PICK id \in Ids : Id(c) = id
  BY <1>1, <1>2, CallFacts DEF Types
<1>4. UNCHANGED <<inst, seq, inUse>> /\ \A j \in Ids \ {id} : disk'[j] = disk[j]
  BY <1>1, <1>3 DEF Unmake, drv, net
<1>5. Beyond(c)
  <2>1. \A d \in Callers \ {c} : calls'[d] = calls[d]
    BY <1>1 DEF Unmake, Goes, Returned, Releases
  <2> QED
    BY <2>1 DEF Beyond, Alike
<1>6. Steps(calls[c], calls'[c])
  BY <1>1 DEF Unmake, Goes, At, Returned, CallType, Steps, HeldBy, Holds, HoldingPlaces, Giving, Torn, Stands
<1> QED
  BY <1>3, <1>4, <1>5, <1>6, Moves DEF Elsewhere

LEMMA SuspendVMKeeps ==
  ASSUME Types, Types', Claims, SlotsHeld, NEW c \in Callers, SuspendVM(c)
  PROVE  Claims' /\ SlotsHeld'
<1>1. calls[c] \in CallType /\ Stands(calls[c]) /\ calls[c].op = "suspend" /\ calls[c].pc = "stop" /\ calls \in [Callers -> CallType]
      /\ disk \in [Ids -> RecordType]
  BY CallFacts DEF Types, CallsFine, RecordsFine, SuspendVM, At, Destroying, Asking
<1>2. calls[c].op # "none"
  BY <1>1 DEF Stands
<1>3. PICK id \in Ids : Id(c) = id
  BY <1>1, <1>2, CallFacts DEF Types
<1>4. UNCHANGED <<inst, seq, inUse>> /\ \A j \in Ids \ {id} : disk'[j] = disk[j]
  BY <1>1, <1>3 DEF SuspendVM, drv, net
<1>5. Beyond(c)
  <2>1. \A d \in Callers \ {c} : calls'[d] = calls[d]
    BY <1>1 DEF SuspendVM, Goes, Returned, Releases
  <2> QED
    BY <2>1 DEF Beyond, Alike
<1>6. Steps(calls[c], calls'[c])
  BY <1>1 DEF SuspendVM, Goes, At, Returned, CallType, Steps, HeldBy, Holds, HoldingPlaces, Giving, Torn, Stands
<1> QED
  BY <1>3, <1>4, <1>5, <1>6, Moves DEF Elsewhere

LEMMA SuspendDiscardKeeps ==
  ASSUME Types, Types', Claims, SlotsHeld, NEW c \in Callers, SuspendDiscard(c)
  PROVE  Claims' /\ SlotsHeld'
<1>1. calls[c] \in CallType /\ Stands(calls[c]) /\ calls[c].op = "suspend" /\ calls[c].pc = "discard" /\ calls \in [Callers -> CallType]
      /\ disk \in [Ids -> RecordType]
  BY CallFacts DEF Types, CallsFine, RecordsFine, SuspendDiscard, At, Destroying, Asking
<1>2. calls[c].op # "none"
  BY <1>1 DEF Stands
<1>3. PICK id \in Ids : Id(c) = id
  BY <1>1, <1>2, CallFacts DEF Types
<1>4. UNCHANGED <<inst, seq, inUse>> /\ \A j \in Ids \ {id} : disk'[j] = disk[j]
  BY <1>1, <1>3 DEF SuspendDiscard, drv, net
<1>5. Beyond(c)
  <2>1. \A d \in Callers \ {c} : calls'[d] = calls[d]
    BY <1>1 DEF SuspendDiscard, Goes, Returned, Releases
  <2> QED
    BY <2>1 DEF Beyond, Alike
<1>6. Steps(calls[c], calls'[c])
  BY <1>1 DEF SuspendDiscard, Goes, At, Releases, CallType, Steps, HeldBy, Holds, HoldingPlaces, Giving, Torn, Stands
<1> QED
  BY <1>3, <1>4, <1>5, <1>6, Moves DEF Elsewhere

LEMMA PrepareResumeKeeps ==
  ASSUME Types, Types', Claims, SlotsHeld, NEW c \in Callers, PrepareResume(c)
  PROVE  Claims' /\ SlotsHeld'
<1>1. calls[c] \in CallType /\ Stands(calls[c]) /\ calls[c].op = "resume" /\ calls[c].pc = "prepare" /\ calls \in [Callers -> CallType]
      /\ disk \in [Ids -> RecordType]
  BY CallFacts DEF Types, CallsFine, RecordsFine, PrepareResume, At, Destroying, Asking
<1>2. calls[c].op # "none"
  BY <1>1 DEF Stands
<1>3. PICK id \in Ids : Id(c) = id
  BY <1>1, <1>2, CallFacts DEF Types
<1>4. UNCHANGED <<inst, seq, inUse>> /\ \A j \in Ids \ {id} : disk'[j] = disk[j]
  BY <1>1, <1>3 DEF PrepareResume, drv, net
<1>5. Beyond(c)
  <2>1. \A d \in Callers \ {c} : calls'[d] = calls[d]
    BY <1>1 DEF PrepareResume, Goes, Returned, Releases
  <2> QED
    BY <2>1 DEF Beyond, Alike
<1>6. Steps(calls[c], calls'[c])
  BY <1>1 DEF PrepareResume, Goes, At, CallType, Steps, HeldBy, Holds, HoldingPlaces, Giving, Torn, Stands
<1> QED
  BY <1>3, <1>4, <1>5, <1>6, Moves DEF Elsewhere

LEMMA ThawVMKeeps ==
  ASSUME Types, Types', Claims, SlotsHeld, NEW c \in Callers, ThawVM(c)
  PROVE  Claims' /\ SlotsHeld'
<1>1. calls[c] \in CallType /\ Stands(calls[c]) /\ calls[c].op = "resume" /\ calls[c].pc = "thaw" /\ calls \in [Callers -> CallType]
      /\ disk \in [Ids -> RecordType]
  BY CallFacts DEF Types, CallsFine, RecordsFine, ThawVM, At, Destroying, Asking
<1>2. calls[c].op # "none"
  BY <1>1 DEF Stands
<1>3. PICK id \in Ids : Id(c) = id
  BY <1>1, <1>2, CallFacts DEF Types
<1>4. UNCHANGED <<inst, seq, inUse>> /\ \A j \in Ids \ {id} : disk'[j] = disk[j]
  BY <1>1, <1>3 DEF ThawVM, drv, net
<1>5. Beyond(c)
  <2>1. \A d \in Callers \ {c} : calls'[d] = calls[d]
    BY <1>1 DEF ThawVM, Goes, Returned, Releases
  <2> QED
    BY <2>1 DEF Beyond, Alike
<1>6. Steps(calls[c], calls'[c])
  BY <1>1 DEF ThawVM, Goes, At, CallType, Steps, HeldBy, Holds, HoldingPlaces, Giving, Torn, Stands
<1> QED
  BY <1>3, <1>4, <1>5, <1>6, Moves DEF Elsewhere

LEMMA UndoKeeps ==
  ASSUME Types, Types', Claims, SlotsHeld, NEW c \in Callers, Undo(c)
  PROVE  Claims' /\ SlotsHeld'
<1>1. calls[c] \in CallType /\ Stands(calls[c]) /\ calls[c].op = "resume" /\ calls[c].pc = "undo" /\ calls \in [Callers -> CallType]
      /\ disk \in [Ids -> RecordType]
  BY CallFacts DEF Types, CallsFine, RecordsFine, Undo, At, Destroying, Asking
<1>2. calls[c].op # "none"
  BY <1>1 DEF Stands
<1>3. PICK id \in Ids : Id(c) = id
  BY <1>1, <1>2, CallFacts DEF Types
<1>4. UNCHANGED <<inst, seq, inUse>> /\ \A j \in Ids \ {id} : disk'[j] = disk[j]
  BY <1>1, <1>3 DEF Undo, drv, net
<1>5. Beyond(c)
  <2>1. \A d \in Callers \ {c} : calls'[d] = calls[d]
    BY <1>1 DEF Undo, Goes, Returned, Releases
  <2> QED
    BY <2>1 DEF Beyond, Alike
<1>6. Steps(calls[c], calls'[c])
  BY <1>1 DEF Undo, Goes, At, Releases, CallType, Steps, HeldBy, Holds, HoldingPlaces, Giving, Torn, Stands
<1> QED
  BY <1>3, <1>4, <1>5, <1>6, Moves DEF Elsewhere

LEMMA UncloneKeeps ==
  ASSUME Types, Types', Claims, SlotsHeld, NEW c \in Callers, Unclone(c)
  PROVE  Claims' /\ SlotsHeld'
<1>1. calls[c] \in CallType /\ Stands(calls[c]) /\ calls[c].op = "resume" /\ calls[c].pc = "unclone" /\ calls \in [Callers -> CallType]
      /\ disk \in [Ids -> RecordType]
  BY CallFacts DEF Types, CallsFine, RecordsFine, Unclone, At, Destroying, Asking
<1>2. calls[c].op # "none"
  BY <1>1 DEF Stands
<1>3. PICK id \in Ids : Id(c) = id
  BY <1>1, <1>2, CallFacts DEF Types
<1>4. UNCHANGED <<inst, seq, inUse>> /\ \A j \in Ids \ {id} : disk'[j] = disk[j]
  BY <1>1, <1>3 DEF Unclone, drv, net
<1>5. Beyond(c)
  <2>1. \A d \in Callers \ {c} : calls'[d] = calls[d]
    BY <1>1 DEF Unclone, Goes, Returned, Releases
  <2> QED
    BY <2>1 DEF Beyond, Alike
<1>6. Steps(calls[c], calls'[c])
  BY <1>1 DEF Unclone, Goes, At, CallType, Steps, HeldBy, Holds, HoldingPlaces, Giving, Torn, Stands
<1> QED
  BY <1>3, <1>4, <1>5, <1>6, Moves DEF Elsewhere

LEMMA FreezeVMKeeps ==
  ASSUME Types, Types', Claims, SlotsHeld, NEW c \in Callers, FreezeVM(c)
  PROVE  Claims' /\ SlotsHeld'
<1>1. calls[c] \in CallType /\ Stands(calls[c]) /\ calls[c].op = "snapshot" /\ calls[c].pc = "freeze" /\ calls \in [Callers -> CallType]
      /\ disk \in [Ids -> RecordType]
  BY CallFacts DEF Types, CallsFine, RecordsFine, FreezeVM, At, Destroying, Asking
<1>2. calls[c].op # "none"
  BY <1>1 DEF Stands
<1>3. PICK id \in Ids : Id(c) = id
  BY <1>1, <1>2, CallFacts DEF Types
<1>4. UNCHANGED <<inst, seq, inUse>> /\ \A j \in Ids \ {id} : disk'[j] = disk[j]
  BY <1>1, <1>3 DEF FreezeVM, drv, net
<1>5. Beyond(c)
  <2>1. \A d \in Callers \ {c} : calls'[d] = calls[d]
    BY <1>1 DEF FreezeVM, Goes, Returned, Releases
  <2> QED
    BY <2>1 DEF Beyond, Alike
<1>6. Steps(calls[c], calls'[c])
  BY <1>1 DEF FreezeVM, Goes, At, CallType, Steps, HeldBy, Holds, HoldingPlaces, Giving, Torn, Stands
<1> QED
  BY <1>3, <1>4, <1>5, <1>6, Moves DEF Elsewhere

LEMMA CopyRootfsKeeps ==
  ASSUME Types, Types', Claims, SlotsHeld, NEW c \in Callers, CopyRootfs(c)
  PROVE  Claims' /\ SlotsHeld'
<1>1. calls[c] \in CallType /\ Stands(calls[c]) /\ calls[c].op = "snapshot" /\ calls[c].pc = "copy" /\ calls \in [Callers -> CallType]
      /\ disk \in [Ids -> RecordType]
  BY CallFacts DEF Types, CallsFine, RecordsFine, CopyRootfs, At, Destroying, Asking
<1>2. calls[c].op # "none"
  BY <1>1 DEF Stands
<1>3. PICK id \in Ids : Id(c) = id
  BY <1>1, <1>2, CallFacts DEF Types
<1>4. UNCHANGED <<inst, seq, inUse>> /\ \A j \in Ids \ {id} : disk'[j] = disk[j]
  BY <1>1, <1>3 DEF CopyRootfs, drv, net
<1>5. Beyond(c)
  <2>1. \A d \in Callers \ {c} : calls'[d] = calls[d]
    BY <1>1 DEF CopyRootfs, Goes, Returned, Releases
  <2> QED
    BY <2>1 DEF Beyond, Alike
<1>6. Steps(calls[c], calls'[c])
  BY <1>1 DEF CopyRootfs, Goes, At, CallType, Steps, HeldBy, Holds, HoldingPlaces, Giving, Torn, Stands
<1> QED
  BY <1>3, <1>4, <1>5, <1>6, Moves DEF Elsewhere

LEMMA UnfreezeVMKeeps ==
  ASSUME Types, Types', Claims, SlotsHeld, NEW c \in Callers, UnfreezeVM(c)
  PROVE  Claims' /\ SlotsHeld'
<1>1. calls[c] \in CallType /\ Stands(calls[c]) /\ calls[c].op = "snapshot" /\ calls[c].pc = "unfreeze" /\ calls \in [Callers -> CallType]
      /\ disk \in [Ids -> RecordType]
  BY CallFacts DEF Types, CallsFine, RecordsFine, UnfreezeVM, At, Destroying, Asking
<1>2. calls[c].op # "none"
  BY <1>1 DEF Stands
<1>3. PICK id \in Ids : Id(c) = id
  BY <1>1, <1>2, CallFacts DEF Types
<1>4. UNCHANGED <<inst, seq, inUse>> /\ \A j \in Ids \ {id} : disk'[j] = disk[j]
  BY <1>1, <1>3 DEF UnfreezeVM, drv, net
<1>5. Beyond(c)
  <2>1. \A d \in Callers \ {c} : calls'[d] = calls[d]
    BY <1>1 DEF UnfreezeVM, Goes, Returned, Releases
  <2> QED
    BY <2>1 DEF Beyond, Alike
<1>6. Steps(calls[c], calls'[c])
  BY <1>1 DEF UnfreezeVM, Goes, At, CallType, Steps, HeldBy, Holds, HoldingPlaces, Giving, Torn, Stands
<1> QED
  BY <1>3, <1>4, <1>5, <1>6, Moves DEF Elsewhere

LEMMA DestroyVMKeeps ==
  ASSUME Types, Types', Claims, SlotsHeld, NEW c \in Callers, DestroyVM(c)
  PROVE  Claims' /\ SlotsHeld'
<1>1. calls[c] \in CallType /\ Stands(calls[c]) /\ calls[c].op \in {"destroy", "reap"} /\ calls[c].pc = "stop" /\ calls \in [Callers -> CallType]
      /\ disk \in [Ids -> RecordType]
  BY CallFacts DEF Types, CallsFine, RecordsFine, DestroyVM, At, Destroying, Asking
<1>2. calls[c].op # "none"
  BY <1>1 DEF Stands
<1>3. PICK id \in Ids : Id(c) = id
  BY <1>1, <1>2, CallFacts DEF Types
<1>4. UNCHANGED <<inst, seq, inUse>> /\ \A j \in Ids \ {id} : disk'[j] = disk[j]
  BY <1>1, <1>3 DEF DestroyVM, drv, net
<1>5. Beyond(c)
  <2>1. \A d \in Callers \ {c} : calls'[d] = calls[d]
    BY <1>1 DEF DestroyVM, Goes, Returned, Releases
  <2> QED
    BY <2>1 DEF Beyond, Alike
<1>6. Steps(calls[c], calls'[c])
  <2>1. \/ calls'[c] = [calls[c] EXCEPT !.pc = "keep"]
        \/ calls'[c] = [calls[c] EXCEPT !.pc = IF calls[c].slot = 0 THEN "forget" ELSE "release", !.slot = calls[c].slot, !.next = "forget"]
    BY <1>1 DEF DestroyVM, Goes, Releases
  <2>2. /\ calls'[c].op = calls[c].op /\ calls'[c].id = calls[c].id /\ calls'[c].cold = calls[c].cold /\ calls'[c].slot = calls[c].slot
        /\ calls'[c].pc \in {"keep", "forget", "release"} /\ (calls'[c].pc = "forget" => calls[c].slot = 0)
    BY <1>1, <2>1 DEF CallType
  <2> QED
    BY <1>1, <2>2 DEF Steps, HeldBy, Holds, HoldingPlaces, Giving, Torn
<1> QED
  BY <1>3, <1>4, <1>5, <1>6, Moves DEF Elsewhere

LEMMA DestroyRemoveKeeps ==
  ASSUME Types, Types', Claims, SlotsHeld, NEW c \in Callers, DestroyRemove(c)
  PROVE  Claims' /\ SlotsHeld'
<1>1. calls[c] \in CallType /\ Stands(calls[c]) /\ calls[c].op \in {"destroy", "reap"} /\ calls[c].pc = "remove" /\ calls \in [Callers -> CallType]
      /\ disk \in [Ids -> RecordType]
  BY CallFacts DEF Types, CallsFine, RecordsFine, DestroyRemove, At, Destroying, Asking
<1>2. calls[c].op # "none"
  BY <1>1 DEF Stands
<1>3. PICK id \in Ids : Id(c) = id
  BY <1>1, <1>2, CallFacts DEF Types
<1>4. UNCHANGED <<inst, seq, inUse>> /\ \A j \in Ids \ {id} : disk'[j] = disk[j]
  BY <1>1, <1>3 DEF DestroyRemove, drv, net
<1>5. Beyond(c)
  <2>1. \A d \in Callers \ {c} : calls'[d] = calls[d]
    BY <1>1 DEF DestroyRemove, Goes, Returned, Releases
  <2> QED
    BY <2>1 DEF Beyond, Alike
<1>6. Steps(calls[c], calls'[c])
  BY <1>1 DEF DestroyRemove, Goes, Destroying, CallType, Steps, HeldBy, Holds, HoldingPlaces, Giving, Torn, Stands
<1> QED
  BY <1>3, <1>4, <1>5, <1>6, Moves DEF Elsewhere

LEMMA RemoveWorkspaceKeeps ==
  ASSUME Types, Types', Claims, SlotsHeld, NEW c \in Callers, RemoveWorkspace(c)
  PROVE  Claims' /\ SlotsHeld'
<1>1. calls[c] \in CallType /\ Stands(calls[c]) /\ calls[c].op \in {"destroy", "reap"} /\ calls[c].pc = "workspace" /\ calls \in [Callers -> CallType]
      /\ disk \in [Ids -> RecordType]
  BY CallFacts DEF Types, CallsFine, RecordsFine, RemoveWorkspace, At, Destroying, Asking
<1>2. calls[c].op # "none"
  BY <1>1 DEF Stands
<1>3. PICK id \in Ids : Id(c) = id
  BY <1>1, <1>2, CallFacts DEF Types
<1>4. UNCHANGED <<inst, seq, inUse>> /\ \A j \in Ids \ {id} : disk'[j] = disk[j]
  BY <1>1, <1>3 DEF RemoveWorkspace, drv, net
<1>5. Beyond(c)
  <2>1. \A d \in Callers \ {c} : calls'[d] = calls[d]
    BY <1>1 DEF RemoveWorkspace, Goes, Returned, Releases
  <2> QED
    BY <2>1 DEF Beyond, Alike
<1>6. Steps(calls[c], calls'[c])
  BY <1>1 DEF RemoveWorkspace, Goes, Destroying, Returned, CallType, Steps, HeldBy, Holds, HoldingPlaces, Giving, Torn, Stands
<1> QED
  BY <1>3, <1>4, <1>5, <1>6, Moves DEF Elsewhere

LEMMA AskEngineKeeps ==
  ASSUME Types, Types', Claims, SlotsHeld, NEW c \in Callers, AskEngine(c)
  PROVE  Claims' /\ SlotsHeld'
<1>1. calls[c] \in CallType /\ Stands(calls[c]) /\ calls[c].op \in {"inspect", "status"} /\ calls[c].pc = "ask" /\ calls \in [Callers -> CallType]
      /\ disk \in [Ids -> RecordType]
  BY CallFacts DEF Types, CallsFine, RecordsFine, AskEngine, At, Destroying, Asking
<1>2. calls[c].op # "none"
  BY <1>1 DEF Stands
<1>3. PICK id \in Ids : Id(c) = id
  BY <1>1, <1>2, CallFacts DEF Types
<1>4. UNCHANGED <<inst, seq, inUse>> /\ \A j \in Ids \ {id} : disk'[j] = disk[j]
  BY <1>1, <1>3 DEF AskEngine, drv, net
<1>5. Beyond(c)
  <2>1. \A d \in Callers \ {c} : calls'[d] = calls[d]
    BY <1>1 DEF AskEngine, Goes, Returned, Releases
  <2> QED
    BY <2>1 DEF Beyond, Alike
<1>6. Steps(calls[c], calls'[c])
  BY <1>1 DEF AskEngine, Goes, Asking, CallType, Steps, HeldBy, Holds, HoldingPlaces, Giving, Torn, Stands
<1> QED
  BY <1>3, <1>4, <1>5, <1>6, Moves DEF Elsewhere

LEMMA InspectDoneKeeps ==
  ASSUME Types, Types', Claims, SlotsHeld, NEW c \in Callers, InspectDone(c)
  PROVE  Claims' /\ SlotsHeld'
<1>1. calls[c] \in CallType /\ Stands(calls[c]) /\ calls[c].op \in {"inspect", "status"} /\ calls[c].pc = "done" /\ calls \in [Callers -> CallType]
      /\ disk \in [Ids -> RecordType]
  BY CallFacts DEF Types, CallsFine, RecordsFine, InspectDone, At, Destroying, Asking
<1>2. calls[c].op # "none"
  BY <1>1 DEF Stands
<1>3. PICK id \in Ids : Id(c) = id
  BY <1>1, <1>2, CallFacts DEF Types
<1>4. UNCHANGED <<inst, seq, inUse>> /\ \A j \in Ids \ {id} : disk'[j] = disk[j]
  BY <1>1, <1>3 DEF InspectDone, drv, net
<1>5. Beyond(c)
  <2>1. \A d \in Callers \ {c} : calls'[d] = calls[d]
    BY <1>1 DEF InspectDone, Goes, Returned, Releases
  <2> QED
    BY <2>1 DEF Beyond, Alike
<1>6. Steps(calls[c], calls'[c])
  BY <1>1 DEF InspectDone, Goes, Asking, Returned, CallType, Steps, HeldBy, Holds, HoldingPlaces, Giving, Torn, Stands
<1> QED
  BY <1>3, <1>4, <1>5, <1>6, Moves DEF Elsewhere

--------------------
\* The steps of a call that change a record, and leave the claims and the
\* slot that are in it.

LEMMA MildIs ==
  ASSUME RecordsFine, NEW id \in Ids, Known(id), NEW w,
         w.st # "none", w.resuming = inst[id].resuming, w.destroying = inst[id].destroying, w.slot \in {inst[id].slot, 0}
  PROVE  Mild(inst[id], w)
  BY DEF RecordsFine, Known, Mild, NoInstance

LEMMA UnclaimedMild ==
  ASSUME RecordsFine, NEW id \in Ids, inst' = inst \/ inst' = Unclaimed(id)
  PROVE  Mild(inst[id], inst'[id]) /\ inst'[id].slot = inst[id].slot /\ \A j \in Ids \ {id} : inst'[j] = inst[j]
<1>1. CASE inst' = inst
  BY <1>1 DEF Mild
<1>2. CASE Known(id) /\ inst' = [inst EXCEPT ![id].checkpointing = FALSE]
  <2>1. inst'[id] = [inst[id] EXCEPT !.checkpointing = FALSE] /\ inst[id] \in Instances /\ inst[id].st # "none"
    BY <1>2 DEF RecordsFine, Known
  <2>2. /\ inst'[id].st = inst[id].st /\ inst'[id].resuming = inst[id].resuming
        /\ inst'[id].destroying = inst[id].destroying /\ inst'[id].slot = inst[id].slot
    BY <2>1 DEF Instances
  <2> QED
    BY <1>2, <2>1, <2>2, MildIs DEF RecordsFine
<1> QED
  BY <1>1, <1>2 DEF Unclaimed

LEMMA StreamWorkspaceKeeps ==
  ASSUME Types, Types', Claims, SlotsHeld, NEW c \in Callers, StreamWorkspace(c)
  PROVE  Claims' /\ SlotsHeld'
<1>1. calls[c] \in CallType /\ Stands(calls[c]) /\ calls[c].op = "suspend" /\ calls[c].pc = "stream" /\ calls \in [Callers -> CallType]
      /\ disk \in [Ids -> RecordType] /\ inst \in [Ids -> Instances] /\ RecordsFine
  BY CallFacts DEF Types, CallsFine, RecordsFine, StreamWorkspace, At, Asking
<1>2. PICK id \in Ids : Id(c) = id
  BY <1>1, CallFacts DEF Types
<1>3. UNCHANGED <<seq, inUse>> /\ \A j \in Ids \ {id} : disk'[j] = disk[j]
  BY <1>1, <1>2 DEF StreamWorkspace, net
<1>4. inst' = inst \/ inst' = Unclaimed(id)
  BY <1>2 DEF StreamWorkspace
<1>5. Mild(inst[id], inst'[id]) /\ inst'[id].slot = inst[id].slot /\ \A j \in Ids \ {id} : inst'[j] = inst[j]
  BY <1>1, <1>4, UnclaimedMild DEF Types
<1>6. Beyond(c)
  BY <1>1, BeyondIs DEF Types, StreamWorkspace, Goes, Returned
<1>7. Steps(calls[c], calls'[c])
  <2>1. \/ calls'[c] = NoCall
        \/ calls'[c] = [calls[c] EXCEPT !.pc = "record", !.gen = Min(FreeGenerations(c))]
    BY <1>1 DEF StreamWorkspace, Returned
  <2>2. CASE calls'[c] = [calls[c] EXCEPT !.pc = "record", !.gen = Min(FreeGenerations(c))]
    <3>1. calls'[c].op = calls[c].op /\ calls'[c].id = calls[c].id /\ calls'[c].cold = calls[c].cold /\ calls'[c].pc = "record"
      BY <1>1, <2>2 DEF CallType
    <3> QED
      BY <1>1, <3>1 DEF Steps, HeldBy, Holds, HoldingPlaces, Giving, Torn
  <2> QED
    BY <1>1, <2>1, <2>2 DEF Steps, HeldBy, Holds, HoldingPlaces, Giving
<1> QED
  BY <1>2, <1>3, <1>5, <1>6, <1>7, MildMoves DEF Elsewhere

LEMMA CheckpointSavedKeeps ==
  ASSUME Types, Types', Claims, SlotsHeld, NEW c \in Callers, CheckpointSaved(c)
  PROVE  Claims' /\ SlotsHeld'
<1>1. calls[c] \in CallType /\ Stands(calls[c]) /\ calls[c].op = "suspend" /\ calls[c].pc = "recorded" /\ calls \in [Callers -> CallType]
      /\ disk \in [Ids -> RecordType] /\ inst \in [Ids -> Instances] /\ RecordsFine
  BY CallFacts DEF Types, CallsFine, RecordsFine, CheckpointSaved, At, Asking
<1>2. PICK id \in Ids : Id(c) = id
  BY <1>1, CallFacts DEF Types
<1>3. UNCHANGED <<seq, inUse>> /\ \A j \in Ids \ {id} : disk'[j] = disk[j]
  BY <1>1, <1>2 DEF CheckpointSaved, net
<1>4. inst' = inst \/ inst' = Unclaimed(id)
  BY <1>2 DEF CheckpointSaved
<1>5. Mild(inst[id], inst'[id]) /\ inst'[id].slot = inst[id].slot /\ \A j \in Ids \ {id} : inst'[j] = inst[j]
  BY <1>1, <1>4, UnclaimedMild DEF Types
<1>6. Beyond(c)
  BY <1>1, BeyondIs DEF Types, CheckpointSaved, Goes, Returned
<1>7. Steps(calls[c], calls'[c])
  BY <1>1 DEF CheckpointSaved, Goes, At, Returned, Bumped, CallType, Steps, HeldBy, Holds, HoldingPlaces, Giving, Torn, Stands
<1> QED
  BY <1>2, <1>3, <1>5, <1>6, <1>7, MildMoves DEF Elsewhere

LEMMA VerifyKeeps ==
  ASSUME Types, Types', Claims, SlotsHeld, NEW c \in Callers, Verify(c)
  PROVE  Claims' /\ SlotsHeld'
<1>1. calls[c] \in CallType /\ Stands(calls[c]) /\ calls[c].op = "suspend" /\ calls[c].pc = "verify" /\ calls \in [Callers -> CallType]
      /\ disk \in [Ids -> RecordType] /\ inst \in [Ids -> Instances] /\ RecordsFine
  BY CallFacts DEF Types, CallsFine, RecordsFine, Verify, At, Asking
<1>2. PICK id \in Ids : Id(c) = id
  BY <1>1, CallFacts DEF Types
<1>3. UNCHANGED <<seq, inUse>> /\ \A j \in Ids \ {id} : disk'[j] = disk[j]
  BY <1>1, <1>2 DEF Verify, net
<1>4. inst' = inst \/ inst' = Unclaimed(id)
  BY <1>2 DEF Verify
<1>5. Mild(inst[id], inst'[id]) /\ inst'[id].slot = inst[id].slot /\ \A j \in Ids \ {id} : inst'[j] = inst[j]
  BY <1>1, <1>4, UnclaimedMild DEF Types
<1>6. Beyond(c)
  BY <1>1, BeyondIs DEF Types, Verify, Goes, Returned
<1>7. Steps(calls[c], calls'[c])
  BY <1>1 DEF Verify, Goes, At, Returned, Bumped, CallType, Steps, HeldBy, Holds, HoldingPlaces, Giving, Torn, Stands
<1> QED
  BY <1>2, <1>3, <1>5, <1>6, <1>7, MildMoves DEF Elsewhere

LEMMA RecordCheckpointKeeps ==
  ASSUME Types, Types', Claims, SlotsHeld, NEW c \in Callers, RecordCheckpoint(c)
  PROVE  Claims' /\ SlotsHeld'
<1>1. calls[c] \in CallType /\ Stands(calls[c]) /\ calls[c].op = "suspend" /\ calls[c].pc = "record" /\ calls \in [Callers -> CallType]
      /\ disk \in [Ids -> RecordType] /\ inst \in [Ids -> Instances] /\ RecordsFine
  BY CallFacts DEF Types, CallsFine, RecordsFine, RecordCheckpoint, At, Asking
<1>2. PICK id \in Ids : Id(c) = id
  BY <1>1, CallFacts DEF Types
<1>3. UNCHANGED <<seq, inUse>> /\ \A j \in Ids \ {id} : disk'[j] = disk[j]
  BY <1>1, <1>2 DEF RecordCheckpoint, net
<1>4. inst' = inst \/ (Known(id) /\ inst' = [inst EXCEPT ![id] = [inst[id] EXCEPT !.ck = calls[c].gen]])
  BY <1>2 DEF RecordCheckpoint
<1>5. Mild(inst[id], inst'[id]) /\ inst'[id].slot = inst[id].slot /\ \A j \in Ids \ {id} : inst'[j] = inst[j]
  <2>1. CASE inst' = inst
    BY <2>1 DEF Mild
  <2>2. CASE Known(id) /\ inst' = [inst EXCEPT ![id] = [inst[id] EXCEPT !.ck = calls[c].gen]]
    <3>1. inst'[id] = [inst[id] EXCEPT !.ck = calls[c].gen] /\ inst[id] \in Instances /\ inst[id].st # "none"
      BY <1>1, <2>2 DEF Known
    <3>2. /\ inst'[id].st = inst[id].st /\ inst'[id].resuming = inst[id].resuming
          /\ inst'[id].destroying = inst[id].destroying /\ inst'[id].slot = inst[id].slot
      BY <3>1 DEF Instances
    <3> QED
      BY <1>1, <2>2, <3>1, <3>2, MildIs
  <2> QED
    BY <1>4, <2>1, <2>2
<1>6. Beyond(c)
  BY <1>1, BeyondIs DEF Types, RecordCheckpoint, Goes, Returned
<1>7. Steps(calls[c], calls'[c])
  <2>1. CASE ~Known(Id(c))
    <3>1. calls'[c] = NoCall
      BY <1>1, <2>1 DEF RecordCheckpoint, Returned
    <3> QED
      BY <1>1, <3>1 DEF Steps, HeldBy, Holds, HoldingPlaces, Giving
  <2>2. CASE Known(Id(c))
    <3> DEFINE r == [calls[c] EXCEPT !.pc = "recorded", !.rec = Persistable([inst[Id(c)] EXCEPT !.ck = calls[c].gen])]
    <3>1. calls'[c] = r \/ calls'[c] = [r EXCEPT !.fresh = FALSE]
      BY <1>1, <2>2 DEF RecordCheckpoint, Bumped
    <3>2. calls'[c].op = calls[c].op /\ calls'[c].id = calls[c].id /\ calls'[c].cold = calls[c].cold /\ calls'[c].pc = "recorded"
      BY <1>1, <3>1 DEF CallType
    <3> QED
      BY <1>1, <3>2 DEF Steps, HeldBy, Holds, HoldingPlaces, Giving, Torn
  <2> QED
    BY <2>1, <2>2
<1> QED
  BY <1>2, <1>3, <1>5, <1>6, <1>7, MildMoves DEF Elsewhere

LEMMA EndSnapshotKeeps ==
  ASSUME Types, Types', Claims, SlotsHeld, NEW c \in Callers, EndSnapshot(c)
  PROVE  Claims' /\ SlotsHeld'
<1>1. calls[c] \in CallType /\ Stands(calls[c]) /\ calls[c].op = "snapshot" /\ calls[c].pc = "end" /\ calls \in [Callers -> CallType]
      /\ disk \in [Ids -> RecordType] /\ inst \in [Ids -> Instances] /\ RecordsFine
  BY CallFacts DEF Types, CallsFine, RecordsFine, EndSnapshot, At, Asking
<1>2. PICK id \in Ids : Id(c) = id
  BY <1>1, CallFacts DEF Types
<1>3. UNCHANGED <<seq, inUse>> /\ \A j \in Ids \ {id} : disk'[j] = disk[j]
  BY <1>1, <1>2 DEF EndSnapshot, net
<1>4. inst' = inst \/ (Known(id) /\ inst' = [inst EXCEPT ![id] = [inst[id] EXCEPT !.snapshotting = FALSE]])
  BY <1>2 DEF EndSnapshot
<1>5. Mild(inst[id], inst'[id]) /\ inst'[id].slot = inst[id].slot /\ \A j \in Ids \ {id} : inst'[j] = inst[j]
  <2>1. CASE inst' = inst
    BY <2>1 DEF Mild
  <2>2. CASE Known(id) /\ inst' = [inst EXCEPT ![id] = [inst[id] EXCEPT !.snapshotting = FALSE]]
    <3>1. inst'[id] = [inst[id] EXCEPT !.snapshotting = FALSE] /\ inst[id] \in Instances /\ inst[id].st # "none"
      BY <1>1, <2>2 DEF Known
    <3>2. /\ inst'[id].st = inst[id].st /\ inst'[id].resuming = inst[id].resuming
          /\ inst'[id].destroying = inst[id].destroying /\ inst'[id].slot = inst[id].slot
      BY <3>1 DEF Instances
    <3> QED
      BY <1>1, <2>2, <3>1, <3>2, MildIs
  <2> QED
    BY <1>4, <2>1, <2>2
<1>6. Beyond(c)
  BY <1>1, BeyondIs DEF Types, EndSnapshot, Goes, Returned
<1>7. Steps(calls[c], calls'[c])
  BY <1>1 DEF EndSnapshot, Goes, At, Returned, Bumped, CallType, Steps, HeldBy, Holds, HoldingPlaces, Giving, Torn, Stands
<1> QED
  BY <1>2, <1>3, <1>5, <1>6, <1>7, MildMoves DEF Elsewhere

LEMMA AnswerStatusKeeps ==
  ASSUME Types, Types', Claims, SlotsHeld, NEW c \in Callers, AnswerStatus(c)
  PROVE  Claims' /\ SlotsHeld'
<1>1. calls[c] \in CallType /\ Stands(calls[c]) /\ calls[c].op \in {"inspect", "status"} /\ calls[c].pc = "answer" /\ calls \in [Callers -> CallType]
      /\ disk \in [Ids -> RecordType] /\ inst \in [Ids -> Instances] /\ RecordsFine
  BY CallFacts DEF Types, CallsFine, RecordsFine, AnswerStatus, At, Asking
<1>2. PICK id \in Ids : Id(c) = id
  BY <1>1, CallFacts DEF Types
<1>3. UNCHANGED <<seq, inUse>> /\ \A j \in Ids \ {id} : disk'[j] = disk[j]
  BY <1>1, <1>2 DEF AnswerStatus, net
<1>4. inst' = inst \/ (Known(id) /\ inst' = [inst EXCEPT ![id] = [inst[id] EXCEPT !.gen = calls[c].gen]])
  BY <1>2 DEF AnswerStatus
<1>5. Mild(inst[id], inst'[id]) /\ inst'[id].slot = inst[id].slot /\ \A j \in Ids \ {id} : inst'[j] = inst[j]
  <2>1. CASE inst' = inst
    BY <2>1 DEF Mild
  <2>2. CASE Known(id) /\ inst' = [inst EXCEPT ![id] = [inst[id] EXCEPT !.gen = calls[c].gen]]
    <3>1. inst'[id] = [inst[id] EXCEPT !.gen = calls[c].gen] /\ inst[id] \in Instances /\ inst[id].st # "none"
      BY <1>1, <2>2 DEF Known
    <3>2. /\ inst'[id].st = inst[id].st /\ inst'[id].resuming = inst[id].resuming
          /\ inst'[id].destroying = inst[id].destroying /\ inst'[id].slot = inst[id].slot
      BY <3>1 DEF Instances
    <3> QED
      BY <1>1, <2>2, <3>1, <3>2, MildIs
  <2> QED
    BY <1>4, <2>1, <2>2
<1>6. Beyond(c)
  BY <1>1, BeyondIs DEF Types, AnswerStatus, Goes, Returned
<1>7. Steps(calls[c], calls'[c])
  BY <1>1 DEF AnswerStatus, Goes, Asking, Returned, Bumped, CallType, Steps, HeldBy, Holds, HoldingPlaces, Giving, Torn, Stands
<1> QED
  BY <1>2, <1>3, <1>5, <1>6, <1>7, MildMoves DEF Elsewhere

--------------------
\* The steps of a call that hand a slot over, or end a claim.

LEMMA Changes ==
  ASSUME Types, Types', Claims, SlotsHeld, NEW c \in Callers, NEW id \in Ids, Id(c) = id, Beyond(c),
         UNCHANGED <<seq, inUse>>, Elsewhere(id), Mild(inst[id], inst'[id]) \/ AllQuiet(c, id),
         \/ calls'[c] = NoCall
         \/ /\ calls'[c].id = id /\ calls'[c].op = calls[c].op /\ Fits(calls'[c], inst'[id])
            /\ \/ AllQuiet(c, id) /\ calls'[c].op # "create"
               \/ (Torn(calls'[c]) => Torn(calls[c])) /\ (Known(id)' => Known(id)),
         calls[c].pc # "build" /\ calls'[c].pc # "build",
         \/ inst'[id].slot = inst[id].slot /\ HeldBy(calls'[c]) = HeldBy(calls[c])
         \/ inst'[id].slot = HeldBy(calls[c]) /\ HeldBy(calls'[c]) = inst[id].slot
  PROVE  Claims' /\ SlotsHeld'
<1> DEFINE q == calls'[c]
           r == calls[c]
<1>1. id # 0 /\ id = r.id /\ q \in CallType /\ id <= seq
  BY Numbers DEF Types, CallsFine, Claims, Id
<1>2. Moved(c, q)
  BY BeyondMoved
<1>3. q = NoCall => q.id = 0 /\ HeldBy(q) = 0
  BY NoCallIs DEF HeldBy
<1>4. Claims'
  <2>1. q.id \in {0, id}
    BY <1>3
  <2>2. q.id = id => Fits(q, inst'[id])
    BY <1>1, <1>3
  <2>3. q.id = id => Apart(c, q, id)
    <3>1. CASE AllQuiet(c, id) /\ q.op # "create"
      BY <3>1, ApartQuiet
    <3>2. CASE q.id = id /\ q.op = r.op /\ (Torn(q) => Torn(r)) /\ (Known(id)' => Known(id))
      BY <1>1, <3>2, ApartSame
    <3> QED
      BY <1>1, <1>3, <3>1, <3>2
  <2> HIDE DEF q, r
  <2> QED
    BY <1>1, <1>2, <2>1, <2>2, <2>3, ClaimsStep
<1>5. SlotsHeld'
  <2>1. HeldBy(q) # 0 => q.id = id /\ q.pc # "build"
    BY <1>1, <1>3
  <2>2. \A j \in Ids \ {id} : inst'[j] = inst[j]
    BY DEF Elsewhere
  <2> HIDE DEF q
  <2> QED
    BY <1>1, <1>2, <2>1, <2>2, HeldStep DEF q
<1> QED
  BY <1>4, <1>5

LEMMA SuspendParkKeeps ==
  ASSUME Types, Types', Claims, SlotsHeld, NEW c \in Callers, SuspendPark(c)
  PROVE  Claims' /\ SlotsHeld'
<1>1. calls[c] \in CallType /\ Stands(calls[c]) /\ calls[c].op = "suspend" /\ calls[c].pc = "park" /\ calls \in [Callers -> CallType]
      /\ inst \in [Ids -> Instances] /\ RecordsFine
  BY CallFacts DEF Types, CallsFine, RecordsFine, SuspendPark, At
<1>2. PICK id \in Ids : Id(c) = id
  BY <1>1, CallFacts DEF Types
<1>3. UNCHANGED <<seq, inUse, disk>>
  BY DEF SuspendPark, net
<1>4. Beyond(c)
  BY <1>1, BeyondIs DEF Types, SuspendPark, Returned
<1>5. HeldBy(calls[c]) = 0
  BY <1>1 DEF HeldBy, Holds, HoldingPlaces, Giving
<1>6. CASE ~Known(id)
  <2>1. calls'[c] = NoCall /\ inst' = inst
    BY <1>1, <1>2, <1>6 DEF SuspendPark, Returned
  <2>2. Steps(calls[c], calls'[c])
    BY <1>5, <2>1 DEF Steps
  <2> QED
    BY <1>2, <1>3, <1>4, <2>1, <2>2, Moves DEF Elsewhere
<1>7. CASE Known(id)
  <2> DEFINE v == inst[id]
             w == Parked(v, calls[c].cold)
             r == [calls[c] EXCEPT !.pc = IF calls[c].cold THEN "discard" ELSE "save", !.rec = Persistable(w), !.slot = v.slot]
  <2>1. inst' = [inst EXCEPT ![id] = w] /\ (calls'[c] = r \/ calls'[c] = [r EXCEPT !.fresh = FALSE])
    BY <1>1, <1>2, <1>7 DEF SuspendPark, Bumped
  <2>2. v \in Instances /\ calls[c].cold \in BOOLEAN
    BY <1>1 DEF CallType
  <2>3. w \in Instances /\ w.st = "suspended" /\ w.slot = (IF calls[c].cold THEN 0 ELSE v.slot)
        /\ w.resuming = v.resuming /\ w.destroying = v.destroying
    BY <2>2, ParkedIs
  <2>4. /\ calls'[c].op = "suspend" /\ calls'[c].id = id /\ calls'[c].slot = v.slot
        /\ calls'[c].pc = IF calls[c].cold THEN "discard" ELSE "save"
    BY <1>1, <1>2, <2>1 DEF CallType, Id
  <2>5. HeldBy(calls'[c]) = IF calls[c].cold THEN v.slot ELSE 0
    BY <2>4 DEF HeldBy, Holds, HoldingPlaces, Giving
  <2> HIDE DEF r, w
  <2>6. inst'[id] = w /\ \A j \in Ids \ {id} : inst'[j] = inst[j]
    BY <1>1, <2>1
  <2>7. Mild(inst[id], w)
    BY <1>1, <1>7, <2>3, MildIs
  <2>8. Fits(calls'[c], w)
    BY <2>4 DEF Fits, Torn
  <2>9. calls'[c].pc # "build" /\ ~Torn(calls'[c])
    BY <2>4 DEF Torn
  <2>10. Known(id)' => Known(id)
    BY <1>7
  <2>11. Elsewhere(id)
    BY <1>3, <2>6 DEF Elsewhere
  <2> QED
    BY <1>1, <1>2, <1>3, <1>4, <1>5, <2>3, <2>4, <2>5, <2>6, <2>7, <2>8, <2>9, <2>10, <2>11, Changes
<1> QED
  BY <1>6, <1>7

LEMMA FoldStateKeeps ==
  ASSUME Types, Types', Claims, SlotsHeld, NEW c \in Callers, FoldState(c)
  PROVE  Claims' /\ SlotsHeld'
<1>1. calls[c] \in CallType /\ Stands(calls[c]) /\ calls[c].op \in {"inspect", "status"} /\ calls[c].pc = "fold"
      /\ calls \in [Callers -> CallType] /\ inst \in [Ids -> Instances] /\ RecordsFine
  BY CallFacts DEF Types, CallsFine, RecordsFine, FoldState, Asking
<1>2. PICK id \in Ids : Id(c) = id
  BY <1>1, CallFacts DEF Types
<1>3. UNCHANGED <<seq, inUse, disk>>
  BY DEF FoldState, net
<1>4. Beyond(c)
  BY <1>1, BeyondIs DEF Types, FoldState, Releases, Goes
<1>5. HeldBy(calls[c]) = 0
  BY <1>1 DEF HeldBy, Holds, HoldingPlaces, Giving
<1> DEFINE after == IF calls[c].op = "status" THEN "answer" ELSE "done"
<1>6. CASE ~Believes(c)
  <2>1. calls'[c] = [calls[c] EXCEPT !.pc = after] /\ inst' = inst
    BY <1>1, <1>6 DEF FoldState, Goes
  <2>2. calls'[c].op = calls[c].op /\ calls'[c].id = calls[c].id /\ calls'[c].cold = calls[c].cold /\ calls'[c].pc \in {"answer", "done"}
    BY <1>1, <2>1 DEF CallType
  <2>3. Steps(calls[c], calls'[c])
    BY <1>1, <1>5, <2>2 DEF Steps, HeldBy, Holds, HoldingPlaces, Giving, Torn
  <2> QED
    BY <1>2, <1>3, <1>4, <2>1, <2>3, Moves DEF Elsewhere
<1>7. CASE Believes(c)
  <2> DEFINE w == Folded(c)
             s == FoldedSlot(c)
             r == [calls[c] EXCEPT !.pc = IF s = 0 THEN after ELSE "release", !.slot = s, !.next = after]
  <2>1. inst' = [inst EXCEPT ![id] = w] /\ (calls'[c] = r \/ calls'[c] = [r EXCEPT !.fresh = FALSE])
    BY <1>1, <1>2, <1>7 DEF FoldState, Bumped, Releases, Folded, FoldedSlot
  <2>2. /\ InstOk(w) /\ w.resuming = inst[id].resuming /\ w.destroying = inst[id].destroying
        /\ \/ s = 0 /\ w.slot = inst[id].slot
           \/ s = inst[id].slot /\ w.slot = 0
    BY <1>1, <1>2, <1>7, FoldedIs DEF Types, FoldState
  <2>3. Known(id)
    BY <1>2, <1>7 DEF Believes
  <2>4. /\ calls'[c].op = calls[c].op /\ calls'[c].id = id /\ calls'[c].slot = s
        /\ calls'[c].pc \in {"answer", "done", "release"} /\ (calls'[c].pc = "release" <=> s # 0)
    BY <1>1, <1>2, <2>1 DEF CallType, Id
  <2>5. HeldBy(calls'[c]) = s
    BY <2>4 DEF HeldBy, Holds, HoldingPlaces, Giving
  <2> HIDE DEF r, w, s
  <2>6. inst'[id] = w /\ \A j \in Ids \ {id} : inst'[j] = inst[j]
    BY <1>1, <2>1
  <2>7. Mild(inst[id], w)
    BY <1>1, <2>2, <2>3, MildIs DEF InstOk
  <2>8. Fits(calls'[c], w)
    BY <1>1, <2>4 DEF Fits, Torn
  <2>9. calls'[c].pc # "build" /\ ~Torn(calls'[c])
    BY <1>1, <2>4 DEF Torn
  <2>10. Known(id)' => Known(id)
    BY <2>3
  <2>11. Elsewhere(id)
    BY <1>3, <2>6 DEF Elsewhere
  <2> QED
    BY <1>1, <1>2, <1>3, <1>4, <1>5, <2>2, <2>4, <2>5, <2>6, <2>7, <2>8, <2>9, <2>10, <2>11, Changes
<1> QED
  BY <1>6, <1>7

LEMMA ResumePublishKeeps ==
  ASSUME Types, Types', Claims, SlotsHeld, NEW c \in Callers, ResumePublish(c)
  PROVE  Claims' /\ SlotsHeld'
<1>1. calls[c] \in CallType /\ Stands(calls[c]) /\ calls[c].op = "resume" /\ calls[c].pc = "publish" /\ calls \in [Callers -> CallType]
      /\ inst \in [Ids -> Instances] /\ RecordsFine /\ CallsFine
  BY CallFacts DEF Types, CallsFine, RecordsFine, ResumePublish, At
<1>2. PICK id \in Ids : Id(c) = id
  BY <1>1, CallFacts DEF Types
<1>3. UNCHANGED <<seq, inUse, disk>>
  BY DEF ResumePublish, net
<1>4. Beyond(c)
  BY <1>1, BeyondIs DEF Types, ResumePublish
<1>5. Fits(calls[c], inst[id]) /\ AllQuiet(c, id)
  BY <1>1, <1>2, Numbers, Alone DEF Claims
<1> DEFINE w == Published(c)
           p == Persistable(w)
           r == [calls[c] EXCEPT !.pc = "save", !.slot = 0, !.rec = p]
<1>6. inst' = [inst EXCEPT ![id] = w] /\ (calls'[c] = r \/ calls'[c] = [r EXCEPT !.fresh = FALSE])
  BY <1>1, <1>2 DEF ResumePublish, Bumped, Published
<1>7. /\ w.st = "running" /\ w.slot = (IF calls[c].cold THEN calls[c].slot ELSE inst[id].slot)
      /\ w.resuming = inst[id].resuming /\ w.destroying = inst[id].destroying
  BY <1>1, <1>2, PublishedIs
<1>8. /\ calls'[c].op = "resume" /\ calls'[c].id = id /\ calls'[c].slot = 0 /\ calls'[c].cold = calls[c].cold
      /\ calls'[c].pc = "save"
  <2> HIDE DEF p
  <2> QED
    BY <1>1, <1>2, <1>6 DEF CallType, Id
<1> HIDE DEF r, w
<1>9. inst'[id] = w /\ \A j \in Ids \ {id} : inst'[j] = inst[j]
  BY <1>1, <1>6
<1>10. HeldBy(calls'[c]) = 0 /\ HeldBy(calls[c]) = calls[c].slot
  BY <1>1, <1>8 DEF HeldBy, Holds, HoldingPlaces, Giving
<1>11. \/ w.slot = inst[id].slot /\ HeldBy(calls[c]) = 0
       \/ w.slot = HeldBy(calls[c]) /\ inst[id].slot = 0
  <2>1. CASE calls[c].cold
    BY <1>1, <1>5, <1>7, <1>10, <2>1 DEF Fits
  <2>2. CASE ~calls[c].cold
    BY <1>1, <1>7, <1>10, <2>2 DEF Stands
  <2> QED
    BY <2>1, <2>2
<1>12. Fits(calls'[c], w)
  BY <1>1, <1>5, <1>7, <1>8 DEF Fits, Torn
<1>13. calls[c].pc # "build" /\ calls'[c].pc # "build" /\ calls'[c].op # "create" /\ calls'[c].op = calls[c].op
  BY <1>1, <1>8
<1>14. Elsewhere(id)
  BY <1>3, <1>9 DEF Elsewhere
<1> QED
  BY <1>2, <1>3, <1>4, <1>5, <1>8, <1>9, <1>10, <1>11, <1>12, <1>13, <1>14, Changes

LEMMA CommitSlotKeeps ==
  ASSUME Types, Types', Claims, SlotsHeld, NEW c \in Callers, CommitSlot(c)
  PROVE  Claims' /\ SlotsHeld'
<1>1. calls[c] \in CallType /\ Stands(calls[c]) /\ calls[c].op = "create" /\ calls[c].pc = "commit" /\ calls \in [Callers -> CallType]
      /\ inst \in [Ids -> Instances] /\ RecordsFine /\ CallsFine
  BY CallFacts DEF Types, CallsFine, RecordsFine, CommitSlot, At
<1>2. PICK id \in Ids : Id(c) = id
  BY <1>1, CallFacts DEF Types
<1>3. UNCHANGED <<seq, inUse, disk>>
  BY DEF CommitSlot, net
<1>4. Beyond(c)
  BY <1>1, BeyondIs DEF Types, CommitSlot, Returned
<1>5. Fits(calls[c], inst[id]) /\ AllQuiet(c, id)
  BY <1>1, <1>2, Numbers, Alone DEF Claims
<1> DEFINE w == [NoInstance EXCEPT !.st = "running", !.idx = calls[c].slot, !.gen = calls[c].gen, !.slot = calls[c].slot, !.live = TRUE]
<1>6. inst' = [inst EXCEPT ![id] = w] /\ calls'[c] = NoCall
  BY <1>1, <1>2 DEF CommitSlot, Returned
<1>7. w.slot = calls[c].slot
  BY DEF NoInstance
<1>8. inst'[id] = w /\ \A j \in Ids \ {id} : inst'[j] = inst[j]
  BY <1>1, <1>6
<1> HIDE DEF w
<1>9. HeldBy(calls'[c]) = 0 /\ HeldBy(calls[c]) = calls[c].slot
  BY <1>1, <1>6, NoCallIs DEF HeldBy, Holds, HoldingPlaces, Giving
<1>10. inst[id].slot = 0
  BY <1>1, <1>5 DEF Fits, NoInstance
<1>11. calls[c].pc # "build" /\ calls'[c].pc # "build"
  BY <1>1, <1>6, NoCallIs
<1>12. Elsewhere(id)
  BY <1>3, <1>8 DEF Elsewhere
<1> QED
  BY <1>2, <1>3, <1>4, <1>5, <1>6, <1>7, <1>8, <1>9, <1>10, <1>11, <1>12, Changes

LEMMA EndResumeKeeps ==
  ASSUME Types, Types', Claims, SlotsHeld, NEW c \in Callers, EndResume(c)
  PROVE  Claims' /\ SlotsHeld'
<1>1. calls[c] \in CallType /\ Stands(calls[c]) /\ calls[c].op = "resume" /\ calls[c].pc = "end" /\ calls \in [Callers -> CallType]
      /\ inst \in [Ids -> Instances] /\ RecordsFine /\ CallsFine
  BY CallFacts DEF Types, CallsFine, RecordsFine, EndResume, At
<1>2. PICK id \in Ids : Id(c) = id
  BY <1>1, CallFacts DEF Types
<1>3. UNCHANGED <<seq, inUse, disk>>
  BY DEF EndResume, net
<1>4. Beyond(c)
  BY <1>1, BeyondIs DEF Types, EndResume, Returned
<1>5. AllQuiet(c, id)
  BY <1>1, <1>2, Numbers, Alone
<1>6. inst' = [inst EXCEPT ![id] = [inst[id] EXCEPT !.resuming = FALSE]] /\ calls'[c] = NoCall
  BY <1>1, <1>2 DEF EndResume, Returned
<1>7. [inst[id] EXCEPT !.resuming = FALSE].slot = inst[id].slot
  BY <1>1 DEF Instances
<1>8. inst'[id].slot = inst[id].slot /\ \A j \in Ids \ {id} : inst'[j] = inst[j]
  BY <1>1, <1>6, <1>7
<1>9. HeldBy(calls'[c]) = 0 /\ HeldBy(calls[c]) = 0
  BY <1>1, <1>6, NoCallIs DEF HeldBy, Holds, HoldingPlaces, Giving
<1>10. calls[c].pc # "build" /\ calls'[c].pc # "build"
  BY <1>1, <1>6, NoCallIs
<1>11. Elsewhere(id)
  BY <1>3, <1>8 DEF Elsewhere
<1> QED
  BY <1>2, <1>3, <1>4, <1>5, <1>6, <1>8, <1>9, <1>10, <1>11, Changes

LEMMA RefuseKeeps ==
  ASSUME Types, Types', Claims, SlotsHeld, NEW c \in Callers, Refuse(c)
  PROVE  Claims' /\ SlotsHeld'
<1>1. calls[c] \in CallType /\ Stands(calls[c]) /\ calls[c].op \in {"create", "resume"} /\ calls[c].pc = "refuse" /\ calls \in [Callers -> CallType]
      /\ inst \in [Ids -> Instances] /\ disk \in [Ids -> RecordType] /\ RecordsFine /\ CallsFine
  BY CallFacts, Launching DEF Types, CallsFine, RecordsFine, Refuse, At
<1>2. PICK id \in Ids : Id(c) = id
  BY <1>1, CallFacts DEF Types
<1>3. UNCHANGED <<seq, inUse>> /\ \A j \in Ids \ {id} : disk'[j] = disk[j]
  BY <1>1, <1>2 DEF Refuse, net
<1>4. Beyond(c)
  BY <1>1, BeyondIs DEF Types, Refuse, Returned, Goes
<1>5. Fits(calls[c], inst[id]) /\ AllQuiet(c, id)
  BY <1>1, <1>2, Numbers, Alone DEF Claims
<1>6. HeldBy(calls[c]) = calls[c].slot
  BY <1>1 DEF HeldBy, Holds, HoldingPlaces, Giving
<1>7. CASE inst' = inst /\ calls' = Goes(c, Undoing(c))
  <2>1. calls'[c] = [calls[c] EXCEPT !.pc = Undoing(c)]
    BY <1>1, <1>7 DEF Goes
  <2>2. /\ calls'[c].op = calls[c].op /\ calls'[c].id = calls[c].id /\ calls'[c].cold = calls[c].cold
        /\ calls'[c].slot = calls[c].slot /\ calls'[c].pc \in {"unwind", "undo"}
    BY <1>1, <2>1 DEF CallType, Undoing
  <2>3. Steps(calls[c], calls'[c])
    BY <1>1, <2>2 DEF Steps, HeldBy, Holds, HoldingPlaces, Giving, Torn
  <2> QED
    BY <1>2, <1>3, <1>4, <1>7, <2>3, Moves DEF Elsewhere
<1>8. CASE inst' = [inst EXCEPT ![id] = Retained(c)] /\ calls' = Bumped(IF calls[c].op = "create" THEN Returned(c) ELSE Goes(c, "end"), id)
  <2> DEFINE w == Retained(c)
             r == [calls[c] EXCEPT !.pc = "end"]
  <2>1. /\ w.st = "running" /\ w.slot = calls[c].slot
        /\ calls[c].op = "resume" => w.resuming = inst[id].resuming /\ w.destroying = inst[id].destroying
    BY <1>1, <1>2, RetainedIs
  <2> HIDE DEF w
  <2>2. inst'[id] = w /\ \A j \in Ids \ {id} : inst'[j] = inst[j]
    BY <1>1, <1>8 DEF w
  <2>3. Elsewhere(id)
    BY <1>3, <2>2 DEF Elsewhere
  <2>4. inst[id].slot = 0
    BY <1>1, <1>5 DEF Fits, NoInstance, Stands
  <2>5. CASE calls[c].op = "create"
    <3>1. calls'[c] = NoCall
      BY <1>1, <1>2, <1>8, <2>5, NoCallIs, Numbers DEF Bumped, Returned
    <3>2. HeldBy(calls'[c]) = 0 /\ calls[c].pc # "build" /\ calls'[c].pc # "build"
      BY <1>1, <3>1, NoCallIs DEF HeldBy, Holds
    <3> QED
      BY <1>2, <1>3, <1>4, <1>5, <1>6, <2>1, <2>2, <2>3, <2>4, <3>1, <3>2, Changes
  <2>6. CASE calls[c].op = "resume"
    <3>1. calls'[c] = r \/ calls'[c] = [r EXCEPT !.fresh = FALSE]
      BY <1>1, <1>8, <2>6 DEF Bumped, Goes
    <3>2. calls'[c].op = "resume" /\ calls'[c].id = id /\ calls'[c].pc = "end"
      BY <1>1, <1>2, <2>6, <3>1 DEF CallType, Id
    <3> HIDE DEF r
    <3>3. HeldBy(calls'[c]) = 0
      BY <3>2 DEF HeldBy, Holds, HoldingPlaces, Giving
    <3>4. Fits(calls'[c], w)
      BY <1>5, <2>1, <2>6, <3>2 DEF Fits, Torn
    <3>5. calls[c].pc # "build" /\ calls'[c].pc # "build" /\ calls'[c].op # "create" /\ calls'[c].op = calls[c].op
      BY <1>1, <2>6, <3>2
    <3> QED
      BY <1>2, <1>3, <1>4, <1>5, <1>6, <2>1, <2>2, <2>3, <2>4, <3>2, <3>3, <3>4, <3>5, Changes
  <2> QED
    BY <1>1, <2>5, <2>6
<1> QED
  BY <1>2, <1>7, <1>8 DEF Refuse

LEMMA DestroyClaimKeeps ==
  ASSUME Types, Types', Claims, SlotsHeld, NEW c \in Callers, DestroyClaim(c)
  PROVE  Claims' /\ SlotsHeld'
<1>1. calls[c] \in CallType /\ Stands(calls[c]) /\ calls[c].op \in {"destroy", "reap"} /\ calls[c].pc = "wait" /\ calls \in [Callers -> CallType]
      /\ inst \in [Ids -> Instances] /\ RecordsFine /\ CallsFine
  BY CallFacts DEF Types, CallsFine, RecordsFine, DestroyClaim, Destroying
<1>2. PICK id \in Ids : Id(c) = id
  BY <1>1, CallFacts DEF Types
<1>3. UNCHANGED <<seq, inUse, disk>> /\ ~inst[id].resuming
  BY <1>2 DEF DestroyClaim, net
<1>4. Beyond(c)
  BY <1>1, BeyondIs DEF Types, DestroyClaim, Returned, Goes
<1>5. HeldBy(calls[c]) = 0 /\ calls[c].slot = 0
  BY <1>1 DEF HeldBy, Holds, HoldingPlaces, Giving, Stands
<1>6. CASE ~Known(id)
  <2> DEFINE pc == IF disk[id] = NoRecord THEN "workspace" ELSE "stop"
  <2>1. calls'[c] = [calls[c] EXCEPT !.pc = pc] /\ inst' = inst
    BY <1>1, <1>2, <1>6 DEF DestroyClaim, Goes
  <2>2. calls'[c].op = calls[c].op /\ calls'[c].id = id /\ calls'[c].slot = 0 /\ calls'[c].pc \in {"workspace", "stop"}
    BY <1>1, <1>2, <1>5, <2>1 DEF CallType, Id
  <2> HIDE DEF pc
  <2>3. HeldBy(calls'[c]) = 0
    BY <2>2 DEF HeldBy, Holds
  <2>4. Fits(calls'[c], inst'[id])
    BY <1>1, <1>6, <2>1, <2>2 DEF Fits, Known, Holds
  <2>5. AllQuiet(c, id) \/ ~Known(id)'
    BY <1>6, <2>1 DEF Known
  <2>6. Mild(inst[id], inst'[id]) /\ Elsewhere(id)
    BY <1>3, <2>1 DEF Elsewhere, Mild
  <2>7. Claims'
    <3>1. id <= seq /\ id # 0
      BY <1>2, Numbers DEF Claims
    <3>2. Moved(c, calls'[c])
      BY <1>4, BeyondMoved
    <3>3. Apart(c, calls'[c], id)
      <4>1. \A d \in Callers \ {c} : Id(d) = id => calls[d].op # "create"
        BY <1>2, <3>1 DEF Claims
      <4> QED
        BY <1>1, <2>2, <2>5, <1>6, <2>1, <4>1 DEF Apart, Beside, Known
    <3> QED
      BY <1>3, <2>2, <2>4, <2>6, <3>1, <3>2, <3>3, ClaimsStep
  <2>8. SlotsHeld'
    <3>1. Moved(c, calls'[c]) /\ calls'[c] \in CallType
      BY <1>4, BeyondMoved DEF Types, CallsFine
    <3> QED
      BY <1>2, <1>3, <1>5, <2>1, <2>3, <3>1, HeldStep
  <2> QED
    BY <2>7, <2>8
<1>7. CASE Known(id) /\ inst[id].destroying
  <2>1. calls'[c] = NoCall /\ inst' = inst
    BY <1>1, <1>2, <1>7 DEF DestroyClaim, Returned
  <2>2. Steps(calls[c], calls'[c])
    BY <1>5, <2>1 DEF Steps
  <2> QED
    BY <1>2, <1>3, <1>4, <2>1, <2>2, Moves DEF Elsewhere
<1>8. CASE Known(id) /\ ~inst[id].destroying
  <2> DEFINE w == [inst[id] EXCEPT !.destroying = TRUE, !.slot = 0]
             r == [calls[c] EXCEPT !.pc = "stop", !.slot = inst[id].slot]
  <2>1. inst' = [inst EXCEPT ![id].destroying = TRUE, ![id].slot = 0] /\ calls'[c] = r
    BY <1>1, <1>2, <1>8 DEF DestroyClaim
  <2>2. w.slot = 0 /\ w.destroying /\ w.st = inst[id].st
    BY <1>1 DEF Instances
  <2>3. inst'[id] = w /\ \A j \in Ids \ {id} : inst'[j] = inst[j]
    BY <1>1, <2>1
  <2>4. calls'[c].op = calls[c].op /\ calls'[c].id = id /\ calls'[c].slot = inst[id].slot /\ calls'[c].pc = "stop"
    BY <1>1, <1>2, <2>1 DEF CallType, Id
  <2> HIDE DEF w, r
  <2>5. HeldBy(calls'[c]) = inst[id].slot
    BY <2>4 DEF HeldBy, Holds, HoldingPlaces
  <2>6. Fits(calls'[c], w)
    BY <1>1, <1>8, <2>2, <2>4 DEF Fits, Torn, Known
  <2>7. AllQuiet(c, id)
    <3> SUFFICES ASSUME NEW d \in Callers, d # c, Id(d) = id PROVE Quiet(calls[d])
      BY DEF AllQuiet
    <3>1. Fits(calls[d], inst[id]) /\ calls[d].op # "create"
      BY <1>2, Numbers DEF Claims
    <3> QED
      BY <1>3, <1>8, <3>1 DEF Fits, Quiet, Known
  <2>8. Elsewhere(id)
    BY <1>3, <2>3 DEF Elsewhere
  <2>9. calls[c].pc # "build" /\ calls'[c].pc # "build" /\ calls'[c].op # "create"
    BY <1>1, <2>4
  <2> QED
    BY <1>2, <1>3, <1>4, <1>5, <2>2, <2>3, <2>4, <2>5, <2>6, <2>7, <2>8, <2>9, Changes
<1> QED
  BY <1>6, <1>7, <1>8

LEMMA DestroyKeepsKeeps ==
  ASSUME Types, Types', Claims, SlotsHeld, NEW c \in Callers, DestroyKeeps(c)
  PROVE  Claims' /\ SlotsHeld'
<1>1. calls[c] \in CallType /\ Stands(calls[c]) /\ calls[c].op \in {"destroy", "reap"} /\ calls[c].pc = "keep" /\ calls \in [Callers -> CallType]
      /\ inst \in [Ids -> Instances] /\ RecordsFine /\ CallsFine
  BY CallFacts DEF Types, CallsFine, RecordsFine, DestroyKeeps, Destroying
<1>2. PICK id \in Ids : Id(c) = id
  BY <1>1, CallFacts DEF Types
<1>3. UNCHANGED <<seq, inUse, disk>> /\ calls'[c] = NoCall
  BY <1>1 DEF DestroyKeeps, Returned, net
<1>4. Beyond(c)
  BY <1>1, BeyondIs DEF Types, DestroyKeeps, Returned
<1>5. HeldBy(calls'[c]) = 0 /\ HeldBy(calls[c]) = calls[c].slot /\ Torn(calls[c])
  BY <1>1, <1>3, NoCallIs DEF HeldBy, Holds, HoldingPlaces, Torn
<1>6. Fits(calls[c], inst[id])
  BY <1>2, Numbers DEF Claims
<1>7. CASE ~Known(id)
  <2>1. inst' = inst
    BY <1>2, <1>7 DEF DestroyKeeps
  <2>2. Steps(calls[c], calls'[c])
    BY <1>3, <1>5, <1>6, <1>7 DEF Steps, Fits, Known, HeldBy
  <2> QED
    BY <1>2, <1>3, <1>4, <2>1, <2>2, Moves DEF Elsewhere
<1>8. CASE Known(id)
  <2>1. inst[id].slot = 0
    BY <1>5, <1>6, <1>8 DEF Fits, Known
  <2> DEFINE w == [inst[id] EXCEPT !.destroying = FALSE, !.slot = calls[c].slot]
  <2>2. inst' = [inst EXCEPT ![id].destroying = FALSE, ![id].slot = calls[c].slot]
    BY <1>1, <1>2, <1>8, <2>1 DEF DestroyKeeps, Instances
  <2>3. w.slot = calls[c].slot
    BY <1>1 DEF Instances
  <2>4. inst'[id] = w /\ \A j \in Ids \ {id} : inst'[j] = inst[j]
    BY <1>1, <2>2
  <2> HIDE DEF w
  <2>5. AllQuiet(c, id)
    BY <1>2, <1>5, <1>8, Numbers, Alone
  <2>6. Elsewhere(id)
    BY <1>3, <2>4 DEF Elsewhere
  <2>7. calls[c].pc # "build" /\ calls'[c].pc # "build"
    BY <1>1, <1>3, NoCallIs
  <2> QED
    BY <1>2, <1>3, <1>4, <1>5, <2>1, <2>3, <2>4, <2>5, <2>6, <2>7, Changes
<1> QED
  BY <1>7, <1>8

LEMMA DestroyForgetKeeps ==
  ASSUME Types, Types', Claims, SlotsHeld, NEW c \in Callers, DestroyForget(c)
  PROVE  Claims' /\ SlotsHeld'
<1>1. calls[c] \in CallType /\ Stands(calls[c]) /\ calls[c].op \in {"destroy", "reap"} /\ calls[c].pc = "forget" /\ calls \in [Callers -> CallType]
      /\ inst \in [Ids -> Instances] /\ RecordsFine /\ CallsFine
  BY CallFacts DEF Types, CallsFine, RecordsFine, DestroyForget, Destroying
<1>2. PICK id \in Ids : Id(c) = id
  BY <1>1, CallFacts DEF Types
<1>3. UNCHANGED <<seq, inUse, disk>> /\ calls'[c] = [calls[c] EXCEPT !.pc = "remove"]
  BY <1>1 DEF DestroyForget, Goes, net
<1>4. Beyond(c)
  BY <1>1, BeyondIs DEF Types, DestroyForget, Goes
<1>5. calls'[c].op = calls[c].op /\ calls'[c].id = id /\ calls'[c].slot = calls[c].slot /\ calls'[c].pc = "remove"
  BY <1>1, <1>2, <1>3 DEF CallType, Id
<1>6. HeldBy(calls'[c]) = 0 /\ HeldBy(calls[c]) = 0 /\ Torn(calls[c])
  BY <1>1, <1>5 DEF HeldBy, Holds, HoldingPlaces, Giving, Torn
<1>7. Fits(calls[c], inst[id])
  BY <1>2, Numbers DEF Claims
<1>8. inst' = [inst EXCEPT ![id] = NoInstance]
  BY <1>2 DEF DestroyForget
<1>9. inst[id].slot = 0 /\ NoInstance.slot = 0 /\ NoInstance.st = "none"
  BY <1>1, <1>6, <1>7 DEF Fits, RecordsFine, NoInstance
<1>10. inst'[id] = NoInstance /\ \A j \in Ids \ {id} : inst'[j] = inst[j]
  BY <1>1, <1>8
<1>11. Mild(inst[id], inst'[id]) \/ AllQuiet(c, id)
  <2>1. CASE Known(id)
    BY <1>2, <1>6, <2>1, Numbers, Alone
  <2>2. CASE ~Known(id)
    BY <1>1, <1>10, <2>2 DEF Known, Mild, RecordsFine
  <2> QED
    BY <2>1, <2>2
<1>12. Fits(calls'[c], inst'[id]) /\ ~Known(id)'
  <2>1. ~Holds(calls'[c])
    BY <1>5 DEF Holds, HoldingPlaces, Giving
  <2> QED
    BY <1>1, <1>5, <1>9, <1>10, <2>1 DEF Fits, Known
<1>13. Elsewhere(id)
  BY <1>3, <1>10 DEF Elsewhere
<1>14. calls[c].pc # "build" /\ calls'[c].pc # "build"
  BY <1>1, <1>5
<1> QED
  BY <1>2, <1>3, <1>4, <1>5, <1>6, <1>9, <1>10, <1>11, <1>12, <1>13, <1>14, Changes

LEMMA ReleaseSlotKeeps ==
  ASSUME Types, Types', Claims, SlotsHeld, NEW c \in Callers, ReleaseSlot(c)
  PROVE  Claims' /\ SlotsHeld'
<1>1. calls[c] \in CallType /\ Stands(calls[c]) /\ calls[c].pc = "release" /\ calls \in [Callers -> CallType] /\ calls[c].slot # 0
  BY CallFacts DEF Types, CallsFine, ReleaseSlot, Stands, Giving
<1>2. calls[c].op # "none"
  BY <1>1 DEF Stands
<1>3. PICK id \in Ids : Id(c) = id
  BY <1>1, <1>2, CallFacts DEF Types
<1>4. UNCHANGED <<inst, seq, inUse, disk>>
  BY DEF ReleaseSlot, drv, net
<1>5. inUse[calls[c].slot] = Id(c)
  BY <1>1 DEF SlotsHeld, Holds, HoldingPlaces, Giving, Holder, Id
<1>6. calls'[c] = [calls[c] EXCEPT !.pc = "teardown"]
  BY <1>1, <1>5 DEF ReleaseSlot, Mine, Goes
<1>7. Beyond(c)
  BY <1>1, BeyondIs DEF Types, ReleaseSlot, Goes
<1>8. Steps(calls[c], calls'[c])
  BY <1>1, <1>6 DEF CallType, Steps, HeldBy, Holds, HoldingPlaces, Giving, Torn
<1> QED
  BY <1>3, <1>4, <1>7, <1>8, Moves DEF Elsewhere

--------------------
\* The steps of a call with the pool.

\* an index that is free, or the call's own, is nobody else's
Only(c, i) == /\ \A j \in Ids : inst[j].slot # i
              /\ \A d \in Callers \ {c} : Holds(calls[d]) => calls[d].slot # i
              /\ Holds(calls[c]) => calls[c].slot = i

LEMMA OnlyFree ==
  ASSUME Types, SlotsHeld, NEW c \in Callers, NEW i \in Slots, inUse[i] = Nobody, ~Holds(calls[c])
  PROVE  Only(c, i)
<1>1. i # 0 /\ 0 \notin Ids
  BY Numbers DEF Slots
<1>2. \A d \in Callers : Holds(calls[d]) => Holder(calls[d]) # Nobody
  <2> TAKE d \in Callers
  <2>1. calls[d] \in CallType /\ Stands(calls[d])
    BY CallFacts DEF Types
  <2> QED
    BY <2>1 DEF Holder, Nobody, Taken, Holds, Stands
<1> QED
  BY <1>1, <1>2 DEF Only, SlotsHeld, Nobody

LEMMA OnlyOwn ==
  ASSUME Types, SlotsHeld, NEW c \in Callers, Holds(calls[c])
  PROVE  Only(c, calls[c].slot) /\ calls[c].slot \in Slots
<1> DEFINE i == calls[c].slot
<1>1. calls[c] \in CallType /\ Stands(calls[c]) /\ i # 0
  BY CallFacts DEF Types, Holds
<1>2. i \in Slots
  BY <1>1, Numbers DEF CallType, Slots
<1>3. \A d \in Callers \ {c} : Holds(calls[d]) => calls[d].slot # i
  BY DEF SlotsHeld
<1>4. ASSUME NEW j \in Ids, inst[j].slot = i PROVE FALSE
  <2>1. inUse[i] = j /\ inUse[i] = Holder(calls[c]) /\ inst[Id(c)].slot # i
    BY <1>1, <1>4 DEF SlotsHeld
  <2> QED
    BY <1>4, <2>1, Numbers DEF Holder, Taken, Id
<1> QED
  BY <1>2, <1>3, <1>4 DEF Only

LEMMA PoolStep ==
  ASSUME Types, Types', SlotsHeld, NEW c \in Callers, Beyond(c), UNCHANGED inst, NEW i \in Slots, NEW u, Only(c, i),
         inUse' = [inUse EXCEPT ![i] = u],
         Holds(calls'[c]) => calls'[c].slot = i /\ u = Holder(calls'[c]),
         u # Nobody => Holds(calls'[c])
  PROVE  SlotsHeld'
<1>1. \A d \in Callers \ {c} : /\ Holds(calls'[d]) <=> Holds(calls[d])
                               /\ calls'[d].slot = calls[d].slot /\ Holder(calls'[d]) = Holder(calls[d]) /\ Id(d)' = Id(d)
  BY DEF Beyond, Alike, Holds, Holder, Id
<1>2. inUse \in [Slots -> Keys \cup {Nobody, Taken}]
  BY DEF Types, PoolTypeOK
<1>3. inUse'[i] = u /\ \A k \in Slots \ {i} : inUse'[k] = inUse[k]
  BY <1>2
<1>4. \A j \in Ids : inst[j].slot \in Slots \cup {0} /\ inst[j].slot # i
  BY Numbers DEF Types, RecordsFine, Instances, Slots, Only
<1>5. \A d \in Callers : calls[d].slot \in Slots \cup {0} /\ (Holds(calls[d]) => calls[d].slot # 0)
  BY Numbers DEF Types, CallsFine, CallType, Slots, Holds
<1>6. \A j \in Ids : inst'[j].slot # 0 => inUse'[inst'[j].slot] = j
  BY <1>3, <1>4 DEF SlotsHeld
<1>7. ASSUME NEW d \in Callers, Holds(calls'[d])
      PROVE  inUse'[calls'[d].slot] = Holder(calls'[d]) /\ inst'[Id(d)'].slot # calls'[d].slot
  <2>1. CASE d = c
    <3>1. calls'[c].op # "none" /\ Id(c)' \in Ids
      <4>1. calls'[c] \in CallType /\ Stands(calls'[c])
        BY DEF Types, CallsFine
      <4> QED
        BY <1>7, <2>1, <4>1 DEF Holds, Stands, CallType, Id
    <3> QED
      BY <1>3, <1>4, <1>7, <2>1, <3>1
  <2>2. CASE d # c
    <3>1. Holds(calls[d]) /\ calls[d].slot # i /\ calls[d].slot \in Slots
      BY <1>1, <1>5, <1>7, <2>2 DEF Only
    <3> QED
      BY <1>1, <1>3, <2>2, <3>1 DEF SlotsHeld
  <2> QED
    BY <2>1, <2>2
<1>8. \A d, e \in Callers : d # e /\ Holds(calls'[d]) /\ Holds(calls'[e]) => calls'[d].slot # calls'[e].slot
  BY <1>1 DEF SlotsHeld, Only
<1>9. ASSUME NEW k \in Slots, inUse'[k] # Nobody
      PROVE  \/ inUse'[k] \in Ids /\ inst'[inUse'[k]].slot = k
             \/ \E d \in Callers : Holds(calls'[d]) /\ calls'[d].slot = k
  <2>1. CASE k = i
    BY <1>3, <1>9, <2>1
  <2>2. CASE k # i
    <3>1. \/ inUse[k] \in Ids /\ inst[inUse[k]].slot = k
          \/ \E d \in Callers : Holds(calls[d]) /\ calls[d].slot = k
      BY <1>3, <1>9, <2>2 DEF SlotsHeld
    <3>2. ASSUME NEW d \in Callers, Holds(calls[d]), calls[d].slot = k PROVE d # c
      BY <2>2, <3>2 DEF Only
    <3> QED
      BY <1>1, <1>3, <2>2, <3>1, <3>2
  <2> QED
    BY <2>1, <2>2
<1> QED
  BY <1>6, <1>7, <1>8, <1>9 DEF SlotsHeld

LEMMA TakeSlotKeeps ==
  ASSUME Types, Types', Claims, SlotsHeld, NEW c \in Callers, TakeSlot(c)
  PROVE  Claims' /\ SlotsHeld'
<1>1. /\ calls[c] \in CallType /\ Stands(calls[c]) /\ calls[c].op \in {"create", "resume"} /\ calls[c].pc = "take"
      /\ calls \in [Callers -> CallType] /\ PoolTypeOK
  <2>1. calls[c] \in CallType /\ Stands(calls[c]) /\ calls[c].pc = "take"
    BY CallFacts DEF Types, TakeSlot
  <2> QED
    BY <2>1 DEF CallType, Stands, Types, CallsFine
<1>2. PICK id \in Ids : Id(c) = id
  BY <1>1, CallFacts DEF Types
<1>3. UNCHANGED <<inst, seq, disk>>
  BY DEF TakeSlot, drv
<1>4. Beyond(c)
  BY <1>1, BeyondIs DEF Types, TakeSlot
<1>5. HeldBy(calls[c]) = 0 /\ ~Holds(calls[c])
  BY <1>1 DEF HeldBy, Holds, HoldingPlaces, Giving
<1>6. CASE Candidate = 0
  <2>1. calls'[c] = [calls[c] EXCEPT !.pc = Undoing(c), !.slot = 0] /\ UNCHANGED inUse
    BY <1>1, <1>6 DEF TakeSlot, net
  <2>2. /\ calls'[c].op = calls[c].op /\ calls'[c].id = calls[c].id /\ calls'[c].cold = calls[c].cold
        /\ calls'[c].slot = 0 /\ calls'[c].pc \in {"unwind", "undo"}
    BY <1>1, <2>1 DEF CallType, Undoing
  <2>3. Steps(calls[c], calls'[c])
    BY <1>1, <1>5, <2>2 DEF Steps, HeldBy, Holds, Torn
  <2> QED
    BY <1>2, <1>3, <1>4, <2>1, <2>3, Moves DEF Elsewhere
<1>7. CASE Candidate # 0
  <2> DEFINE i == Candidate
  <2>1. i \in Slots /\ inUse[i] = Nobody
    BY <1>1, <1>7, CandidateIs
  <2>2. calls'[c] = [calls[c] EXCEPT !.pc = "build", !.slot = i] /\ inUse' = [inUse EXCEPT ![i] = Taken]
    BY <1>1, <1>7 DEF TakeSlot, Take
  <2> HIDE DEF i
  <2>3. /\ calls'[c].op = calls[c].op /\ calls'[c].id = id /\ calls'[c].cold = calls[c].cold
        /\ calls'[c].slot = i /\ calls'[c].pc = "build"
    BY <1>1, <1>2, <2>2 DEF CallType, Id
  <2>4. Only(c, i)
    BY <1>5, <2>1, OnlyFree
  <2>5. Holds(calls'[c]) /\ Holder(calls'[c]) = Taken
    BY <2>1, <2>3 DEF Holds, HoldingPlaces, Holder, Slots
  <2>6. SlotsHeld'
    BY <1>3, <1>4, <2>1, <2>2, <2>3, <2>4, <2>5, PoolStep
  <2>7. Fits(calls[c], inst[id])
    BY <1>2, Numbers DEF Claims
  <2>8. Fits(calls'[c], inst'[id]) /\ ~Torn(calls'[c])
    BY <1>1, <1>3, <2>3, <2>7 DEF Fits, Torn
  <2>9. Mild(inst[id], inst'[id]) /\ Elsewhere(id)
    BY <1>3 DEF Mild, Elsewhere
  <2> QED
    BY <1>2, <1>3, <1>4, <2>3, <2>6, <2>8, <2>9, ClaimsMoves
<1> QED
  BY <1>6, <1>7

LEMMA BuildSlotKeeps ==
  ASSUME Types, Types', Claims, SlotsHeld, NEW c \in Callers, BuildSlot(c)
  PROVE  Claims' /\ SlotsHeld'
<1>1. /\ calls[c] \in CallType /\ Stands(calls[c]) /\ calls[c].op \in {"create", "resume"} /\ calls[c].pc = "build"
      /\ calls \in [Callers -> CallType] /\ calls[c].slot # 0
  <2>1. calls[c] \in CallType /\ Stands(calls[c]) /\ calls[c].pc = "build"
    BY CallFacts DEF Types, BuildSlot
  <2> QED
    BY <2>1 DEF CallType, Stands, Types, CallsFine
<1>2. PICK id \in Ids : Id(c) = id
  BY <1>1, CallFacts DEF Types
<1>3. UNCHANGED <<inst, seq, disk>>
  BY DEF BuildSlot, drv
<1>4. Beyond(c)
  BY <1>1, BeyondIs DEF Types, BuildSlot, Goes
<1> DEFINE i == calls[c].slot
<1>5. Holds(calls[c]) /\ Only(c, i) /\ i \in Slots
  <2>1. Holds(calls[c])
    BY <1>1 DEF Holds, HoldingPlaces
  <2> QED
    BY <2>1, OnlyOwn
<1>6. \/ calls'[c] = [calls[c] EXCEPT !.pc = "intent"] /\ inUse' = [inUse EXCEPT ![i] = id]
      \/ calls'[c] = [calls[c] EXCEPT !.pc = "take"] /\ inUse' = [inUse EXCEPT ![i] = Nobody]
      \/ calls'[c] = [calls[c] EXCEPT !.pc = Undoing(c), !.slot = 0] /\ inUse' = [inUse EXCEPT ![i] = Nobody]
  BY <1>1, <1>2 DEF BuildSlot, Goes, Built, Retired, BuildFails, GiveBack
<1>7. /\ calls'[c].op = calls[c].op /\ calls'[c].id = id /\ calls'[c].cold = calls[c].cold
      /\ \/ calls'[c].pc = "intent" /\ calls'[c].slot = i /\ inUse' = [inUse EXCEPT ![i] = id]
         \/ calls'[c].pc = "take" /\ inUse' = [inUse EXCEPT ![i] = Nobody]
         \/ calls'[c].pc \in {"unwind", "undo"} /\ calls'[c].slot = 0 /\ inUse' = [inUse EXCEPT ![i] = Nobody]
  BY <1>1, <1>2, <1>6 DEF CallType, Id, Undoing
<1>8. SlotsHeld'
  <2>1. CASE calls'[c].pc = "intent" /\ calls'[c].slot = i /\ inUse' = [inUse EXCEPT ![i] = id]
    <3>1. Holds(calls'[c]) /\ Holder(calls'[c]) = id
      BY <1>1, <1>7, <2>1 DEF Holds, HoldingPlaces, Holder
    <3> HIDE DEF i
    <3> QED
      BY <1>3, <1>4, <1>5, <2>1, <3>1, PoolStep
  <2>2. CASE ~Holds(calls'[c]) /\ inUse' = [inUse EXCEPT ![i] = Nobody]
    <3> HIDE DEF i
    <3> QED
      BY <1>3, <1>4, <1>5, <2>2, PoolStep
  <2>3. calls'[c].pc = "take" \/ calls'[c].slot = 0 => ~Holds(calls'[c])
    BY DEF Holds, HoldingPlaces, Giving
  <2> QED
    BY <1>7, <2>1, <2>2, <2>3
<1>9. Fits(calls[c], inst[id])
  BY <1>2, Numbers DEF Claims
<1>10. Fits(calls'[c], inst'[id]) /\ ~Torn(calls'[c])
  BY <1>1, <1>3, <1>7, <1>9 DEF Fits, Torn
<1>11. Mild(inst[id], inst'[id]) /\ Elsewhere(id)
  BY <1>3 DEF Mild, Elsewhere
<1> QED
  BY <1>2, <1>3, <1>4, <1>7, <1>8, <1>10, <1>11, ClaimsMoves

LEMMA TeardownSlotKeeps ==
  ASSUME Types, Types', Claims, SlotsHeld, NEW c \in Callers, TeardownSlot(c)
  PROVE  Claims' /\ SlotsHeld'
<1>1. /\ calls[c] \in CallType /\ Stands(calls[c]) /\ calls[c].op # "none" /\ calls[c].pc = "teardown"
      /\ calls \in [Callers -> CallType] /\ calls[c].slot # 0
  <2>1. calls[c] \in CallType /\ Stands(calls[c]) /\ calls[c].pc = "teardown"
    BY CallFacts DEF Types, TeardownSlot
  <2> QED
    BY <2>1 DEF Stands, Giving, Types, CallsFine
<1>2. PICK id \in Ids : Id(c) = id
  BY <1>1, CallFacts DEF Types
<1>3. UNCHANGED <<inst, seq, disk>>
  BY DEF TeardownSlot, drv
<1>4. Beyond(c)
  BY <1>1, BeyondIs DEF Types, TeardownSlot
<1> DEFINE i == calls[c].slot
<1>5. Holds(calls[c]) /\ Only(c, i) /\ i \in Slots
  <2>1. Holds(calls[c])
    BY <1>1 DEF Holds, HoldingPlaces, Giving
  <2> QED
    BY <2>1, OnlyOwn
<1>6. calls'[c] = [calls[c] EXCEPT !.pc = calls[c].next, !.slot = 0] /\ inUse' = [inUse EXCEPT ![i] = Nobody]
  BY <1>1 DEF TeardownSlot, TornDown, TeardownFails, GiveBack
<1>7. /\ calls'[c].op = calls[c].op /\ calls'[c].id = id /\ calls'[c].cold = calls[c].cold /\ calls'[c].slot = 0
      /\ calls'[c].pc = calls[c].next
  BY <1>1, <1>2, <1>6 DEF CallType, Id
<1>8. SlotsHeld'
  <2>1. ~Holds(calls'[c])
    BY <1>7 DEF Holds
  <2> HIDE DEF i
  <2> QED
    BY <1>3, <1>4, <1>5, <1>6, <2>1, PoolStep
<1>9. Fits(calls[c], inst[id])
  BY <1>2, Numbers DEF Claims
<1>10. Fits(calls'[c], inst'[id]) /\ (Torn(calls'[c]) => Torn(calls[c]))
  BY <1>1, <1>3, <1>7, <1>9 DEF Fits, Torn, Holds, Stands, Giving
<1>11. Mild(inst[id], inst'[id]) /\ Elsewhere(id)
  BY <1>3 DEF Mild, Elsewhere
<1> QED
  BY <1>2, <1>3, <1>4, <1>7, <1>8, <1>10, <1>11, ClaimsMoves

--------------------
\* The calls that begin.

LEMMA IdleIs ==
  ASSUME Types, NEW c \in Callers, calls[c] = NoCall
  PROVE  Id(c) = 0 /\ HeldBy(calls[c]) = 0 /\ calls \in [Callers -> CallType]
  BY NoCallIs DEF Id, HeldBy, Types, CallsFine

\* a call that claims nothing begins
LEMMA Begins ==
  ASSUME Types, Types', Claims, SlotsHeld, NEW c \in Callers, calls[c] = NoCall, NEW id \in Ids, NEW q,
         calls' = [calls EXCEPT ![c] = q], q.id = id, q.slot = 0, q.op \notin {"create", "resume"}, ~Torn(q),
         UNCHANGED <<seq, inUse>>, Elsewhere(id), Mild(inst[id], inst'[id]), inst'[id].slot = inst[id].slot,
         id <= seq, \A d \in Callers : Id(d) = id => calls[d].op # "create"
  PROVE  Claims' /\ SlotsHeld'
<1>1. Id(c) = 0 /\ HeldBy(calls[c]) = 0 /\ HeldBy(q) = 0 /\ calls'[c] = q /\ q \in CallType
  <2>1. calls'[c] = q
    BY IdleIs
  <2> QED
    BY <2>1, IdleIs DEF HeldBy, Types, CallsFine
<1>2. Moved(c, q)
  BY <1>1, MovedIs DEF Types
<1>3. Fits(q, inst'[id]) /\ Apart(c, q, id)
  BY DEF Fits, Apart, Beside
<1>4. Claims'
  BY <1>2, <1>3, ClaimsStep
<1>5. SlotsHeld'
  BY <1>1, <1>2, HeldStep DEF Elsewhere
<1> QED
  BY <1>4, <1>5

LEMMA KnownIs ==
  ASSUME RecordsFine, Claims, NEW id \in Ids, Known(id)
  PROVE  id <= seq /\ \A d \in Callers : Id(d) = id => calls[d].op # "create"
<1>1. ASSUME NEW d \in Callers, Id(d) = id PROVE calls[d].op # "create"
  BY <1>1, Numbers DEF Claims, Fits, Known, NoInstance
<1> QED
  BY <1>1 DEF Claims

LEMMA CreateKeeps ==
  ASSUME Types, Types', Claims, SlotsHeld, NEW c \in Callers, Create(c)
  PROVE  Claims' /\ SlotsHeld'
<1>1. calls[c] = NoCall /\ UNCHANGED <<inUse, inst, disk>> /\ RecordsFine /\ CallsFine
  BY DEF Create, net, Types
<1>2. PICK id \in Ids : id = seq + 1
  BY DEF Create
<1>3. seq \in Nat /\ id # 0 /\ seq' = id
  BY <1>2, Numbers DEF Create, Types, WorkFine
<1> DEFINE q == [NoCall EXCEPT !.op = "create", !.pc = "disks", !.id = id, !.gen = 1]
<1>4. calls' = [calls EXCEPT ![c] = q]
  BY <1>2 DEF Create
<1>5. q.op = "create" /\ q.pc = "disks" /\ q.id = id /\ q.slot = 0
  BY NoCallIs DEF CallType
<1> HIDE DEF q
<1>6. calls'[c] = q /\ q \in CallType /\ Id(c) = 0 /\ HeldBy(calls[c]) = 0 /\ HeldBy(q) = 0
      /\ \A d \in Callers \ {c} : calls'[d] = calls[d]
  <2>1. calls'[c] = q /\ \A d \in Callers \ {c} : calls'[d] = calls[d]
    BY <1>1, <1>4, IdleIs
  <2> QED
    BY <1>1, <1>5, <2>1, IdleIs DEF HeldBy, Types, CallsFine
<1>7. inst[id] = NoInstance
  BY <1>1, <1>2, <1>3 DEF Claims, RecordsFine, Known
<1>8. \A d \in Callers : Id(d) <= seq /\ Id(d) # id
  <2> TAKE d \in Callers
  <2>1. Id(d) <= seq /\ Id(d) \in Nat
    BY <1>1, Numbers DEF Claims, CallsFine, CallType, Id
  <2> QED
    BY <1>2, <1>3, <2>1
<1>9. Claims'
  <2>1. \A j \in Ids : Known(j)' \/ disk'[j] # NoRecord => j <= seq'
    BY <1>1, <1>2, <1>3, Numbers DEF Claims, Known
  <2>2. \A d \in Callers : Id(d)' <= seq' /\ (Id(d)' # 0 => Fits(calls'[d], inst'[Id(d)']))
    <3> TAKE d \in Callers
    <3>1. CASE d = c
      <4>1. Id(d)' = id /\ inst'[id] = NoInstance
        BY <1>1, <1>5, <1>6, <1>7, <3>1 DEF Id
      <4>2. Fits(q, NoInstance)
        BY <1>5 DEF Fits, Torn
      <4>3. id <= seq'
        BY <1>2, <1>3
      <4> QED
        BY <1>6, <3>1, <4>1, <4>2, <4>3
    <3>2. CASE d # c
      <4>1. Id(d) \in Nat
        BY <1>1, Numbers DEF CallsFine, CallType, Id
      <4> QED
        BY <1>1, <1>2, <1>3, <1>6, <1>8, <3>2, <4>1 DEF Claims, Id
    <3> QED
      BY <3>1, <3>2
  <2>3. ASSUME NEW d \in Callers, NEW e \in Callers, d # e, Id(d)' = Id(e)', Id(d)' # 0
        PROVE  /\ calls'[d].op # "create"
               /\ ~(calls'[d].op = "resume" /\ calls'[e].op = "resume")
               /\ ~(Torn(calls'[d]) /\ Torn(calls'[e]) /\ Known(Id(d))')
    <3>1. d # c /\ e # c
      BY <1>5, <1>6, <1>8, <2>3 DEF Id
    <3>2. calls'[d] = calls[d] /\ calls'[e] = calls[e]
      BY <1>6, <3>1
    <3> QED
      BY <1>1, <2>3, <3>1, <3>2 DEF Claims, Id, Known
  <2> QED
    BY <2>1, <2>2, <2>3 DEF Claims
<1>10. SlotsHeld'
  <2>1. Moved(c, q)
    BY <1>1, <1>4, <1>6, MovedIs
  <2> QED
    BY <1>1, <1>6, <2>1, HeldStep
<1> QED
  BY <1>9, <1>10

LEMMA SuspendKeeps ==
  ASSUME Types, Types', Claims, SlotsHeld, NEW c \in Callers, NEW id \in Ids, NEW cold \in BOOLEAN, Suspend(c, id, cold)
  PROVE  Claims' /\ SlotsHeld'
<1>1. calls[c] = NoCall /\ UNCHANGED <<inUse, seq, disk>> /\ Known(id) /\ RecordsFine /\ inst[id] \in Instances
  BY DEF Suspend, net, Types, RecordsFine
<1> DEFINE q == [NoCall EXCEPT !.op = "suspend", !.pc = IF cold /\ setup.ckpt THEN "stream" ELSE "stop",
                               !.id = id, !.cold = cold, !.gen = inst[id].ck + 1, !.owed = ws[SessionOf(id)]]
<1>2. calls' = [calls EXCEPT ![c] = q]
  BY DEF Suspend
<1>3. q.op = "suspend" /\ q.id = id /\ q.slot = 0
  BY NoCallIs DEF CallType
<1> HIDE DEF q
<1>4. inst' = inst \/ inst' = [inst EXCEPT ![id] = [inst[id] EXCEPT !.checkpointing = TRUE]]
  BY DEF Suspend
<1> DEFINE w == [inst[id] EXCEPT !.checkpointing = TRUE]
<1>5. w.st = inst[id].st /\ w.resuming = inst[id].resuming /\ w.destroying = inst[id].destroying /\ w.slot = inst[id].slot
  BY <1>1 DEF Instances
<1>6. Mild(inst[id], inst'[id]) /\ inst'[id].slot = inst[id].slot /\ Elsewhere(id)
  <2>1. CASE inst' = inst
    BY <1>1, <2>1 DEF Mild, Elsewhere
  <2>2. CASE inst' = [inst EXCEPT ![id] = w]
    <3>1. Mild(inst[id], w)
      BY <1>1, <1>5, MildIs DEF Known
    <3> HIDE DEF w
    <3> QED
      BY <1>1, <1>5, <2>2, <3>1 DEF Elsewhere, RecordsFine
  <2> QED
    BY <1>4, <2>1, <2>2
<1>7. ~Torn(q)
  BY <1>3 DEF Torn
<1> QED
  BY <1>1, <1>2, <1>3, <1>6, <1>7, KnownIs, Begins

LEMMA SnapshotKeeps ==
  ASSUME Types, Types', Claims, SlotsHeld, NEW c \in Callers, NEW id \in Ids, Snapshot(c, id)
  PROVE  Claims' /\ SlotsHeld'
<1>1. calls[c] = NoCall /\ UNCHANGED <<inUse, seq, disk>> /\ Known(id) /\ RecordsFine /\ inst[id] \in Instances
  BY DEF Snapshot, net, Types, RecordsFine, Known
<1> DEFINE q == [NoCall EXCEPT !.op = "snapshot", !.pc = "freeze", !.id = id]
           w == [inst[id] EXCEPT !.snapshotting = TRUE]
<1>2. calls' = [calls EXCEPT ![c] = q] /\ inst' = [inst EXCEPT ![id] = w]
  BY DEF Snapshot
<1>3. q.op = "snapshot" /\ q.id = id /\ q.slot = 0
  BY NoCallIs DEF CallType
<1>4. w.st = inst[id].st /\ w.resuming = inst[id].resuming /\ w.destroying = inst[id].destroying /\ w.slot = inst[id].slot
  BY <1>1 DEF Instances
<1> HIDE DEF q, w
<1>5. Mild(inst[id], w)
  BY <1>1, <1>4, MildIs DEF Known
<1>6. inst'[id] = w /\ Elsewhere(id)
  BY <1>1, <1>2 DEF Elsewhere, RecordsFine
<1>7. ~Torn(q)
  BY <1>3 DEF Torn
<1> QED
  BY <1>1, <1>2, <1>3, <1>4, <1>5, <1>6, <1>7, KnownIs, Begins

LEMMA DestroyKeepsClaims ==
  ASSUME Types, Types', Claims, SlotsHeld, NEW c \in Callers, NEW id \in Ids, NEW op \in {"destroy", "reap"}, Destroy(c, op, id)
  PROVE  Claims' /\ SlotsHeld'
<1>1. calls[c] = NoCall /\ UNCHANGED <<inUse, inst, seq, disk>> /\ id <= seq
  BY DEF Destroy, net, drv, Claims
<1> DEFINE q == [NoCall EXCEPT !.op = op, !.pc = "wait", !.id = id]
<1>2. calls' = [calls EXCEPT ![c] = q]
  BY DEF Destroy
<1>3. q.op = op /\ q.id = id /\ q.slot = 0 /\ q.pc = "wait"
  BY NoCallIs DEF CallType
<1> HIDE DEF q
<1>4. Mild(inst[id], inst'[id]) /\ Elsewhere(id) /\ inst'[id].slot = inst[id].slot
  BY <1>1 DEF Mild, Elsewhere
<1>5. \A d \in Callers : Id(d) = id => calls[d].op # "create"
  BY DEF Destroy, Issued, Id
<1>6. ~Torn(q) /\ q.op \notin {"create", "resume"}
  BY <1>3 DEF Torn
<1> QED
  BY <1>1, <1>2, <1>3, <1>4, <1>5, <1>6, Begins

LEMMA InspectKeeps ==
  ASSUME Types, Types', Claims, SlotsHeld, NEW c \in Callers, NEW id \in Ids, NEW op \in {"inspect", "status"},
         NEW gen \in 0 .. MaxGen, Inspect(c, op, id, gen)
  PROVE  Claims' /\ SlotsHeld'
<1>1. calls[c] = NoCall /\ UNCHANGED <<inUse, inst, seq, disk>> /\ Known(id) /\ RecordsFine
  BY DEF Inspect, net, drv, Types
<1> DEFINE q == [NoCall EXCEPT !.op = op, !.pc = "ask", !.id = id, !.gen = gen, !.fresh = TRUE]
<1>2. calls' = [calls EXCEPT ![c] = q]
  BY DEF Inspect
<1>3. q.op = op /\ q.id = id /\ q.slot = 0
  BY NoCallIs DEF CallType
<1> HIDE DEF q
<1>4. Mild(inst[id], inst'[id]) /\ Elsewhere(id) /\ inst'[id].slot = inst[id].slot
  BY <1>1 DEF Mild, Elsewhere
<1>5. ~Torn(q) /\ q.op \notin {"create", "resume"}
  BY <1>3 DEF Torn
<1> QED
  BY <1>1, <1>2, <1>3, <1>4, <1>5, KnownIs, Begins

LEMMA ResumeKeeps ==
  ASSUME Types, Types', Claims, SlotsHeld, NEW c \in Callers, NEW id \in Ids, NEW gen \in 0 .. MaxGen, Resume(c, id, gen)
  PROVE  Claims' /\ SlotsHeld'
<1> DEFINE v == inst[id]
           named == IF gen = 0 THEN v ELSE [v EXCEPT !.gen = gen]
           slot == IF v.cold THEN v.slot ELSE 0
           left == IF v.cold THEN 0 ELSE named.slot
           pc == IF ~v.cold THEN "thaw" ELSE IF v.slot # 0 THEN "release" ELSE "prepare"
           claimed == [named EXCEPT !.resuming = TRUE, !.slot = left]
           q == [NoCall EXCEPT !.op = "resume", !.id = id, !.gen = gen, !.cold = v.cold, !.slot = slot, !.next = "prepare", !.pc = pc]
<1>1. /\ calls[c] = NoCall /\ UNCHANGED <<inUse, seq>> /\ Known(id) /\ RecordsFine /\ v \in Instances /\ CallsFine
      /\ ~v.resuming /\ ~v.destroying /\ Issued("resume", id) = {}
  BY DEF Resume, net, Types, RecordsFine, MayIssue
<1>2. \/ inst' = [inst EXCEPT ![id] = named] /\ calls' = calls
      \/ inst' = [inst EXCEPT ![id] = claimed] /\ calls' = [calls EXCEPT ![c] = q]
  BY DEF Resume
<1>3. /\ named.st = v.st /\ named.resuming = v.resuming /\ named.destroying = v.destroying /\ named.slot = v.slot
      /\ claimed.st = v.st /\ claimed.resuming /\ ~claimed.destroying /\ claimed.slot = left
  BY <1>1 DEF Instances
<1>4. /\ q.op = "resume" /\ q.id = id /\ q.cold = v.cold /\ q.slot = slot /\ q.pc = pc
  BY NoCallIs DEF CallType
<1>5. \A j \in Ids \ {id} : disk'[j] = disk[j]
  BY <1>1 DEF Resume, RecordsFine
<1>6. Id(c) = 0 /\ HeldBy(calls[c]) = 0 /\ id <= seq /\ id # 0
  BY <1>1, IdleIs, KnownIs, Numbers
<1>7. CASE inst' = [inst EXCEPT ![id] = named] /\ calls' = calls
  <2> HIDE DEF named, claimed, q
  <2>1. inst'[id] = named /\ \A j \in Ids \ {id} : inst'[j] = inst[j]
    BY <1>1, <1>7 DEF RecordsFine
  <2>2. Mild(inst[id], inst'[id]) /\ Elsewhere(id)
    BY <1>1, <1>3, <1>5, <2>1, MildIs DEF Elsewhere, Known
  <2>3. Moved(c, NoCall)
    BY <1>1, <1>7 DEF Moved, Alike
  <2>4. NoCall.id = 0 /\ NoCall \in CallType /\ HeldBy(NoCall) = 0
    BY NoCallIs DEF HeldBy
  <2>5. Claims'
    BY <1>1, <1>6, <2>2, <2>3, <2>4, ClaimsStep
  <2>6. SlotsHeld'
    BY <1>1, <1>3, <1>6, <2>1, <2>3, <2>4, HeldStep
  <2> QED
    BY <2>5, <2>6
<1>8. CASE inst' = [inst EXCEPT ![id] = claimed] /\ calls' = [calls EXCEPT ![c] = q]
  <2>0. Holds(q) <=> slot # 0
    <3>1. slot # 0 => pc = "release"
      OBVIOUS
    <3> HIDE DEF q, slot, pc
    <3> QED
      BY <1>4, <3>1 DEF Holds, HoldingPlaces, Giving
  <2>1. HeldBy(q) = slot /\ pc \notin {"build", "save", "end"} /\ left = (IF v.cold THEN 0 ELSE v.slot)
    <3>1. HeldBy(q) = slot
      BY <1>4, <2>0 DEF HeldBy
    <3> QED
      BY <1>3, <3>1
  <2>2. (slot = 0 /\ left = v.slot) \/ (slot = v.slot /\ left = 0)
    BY <2>1
  <2>3. v.cold => left = 0
    OBVIOUS
  <2> HIDE DEF named, claimed, q, pc, slot, left
  <2>4. inst'[id] = claimed /\ (\A j \in Ids \ {id} : inst'[j] = inst[j]) /\ calls'[c] = q /\ q \in CallType
    BY <1>1, <1>8 DEF RecordsFine, CallsFine, Types
  <2>5. AllQuiet(c, id)
    <3> SUFFICES ASSUME NEW d \in Callers, d # c, Id(d) = id PROVE Quiet(calls[d])
      BY DEF AllQuiet
    <3>1. Fits(calls[d], inst[id]) /\ calls[d].op # "create"
      BY <1>1, <1>6, KnownIs DEF Claims
    <3>2. calls[d].op # "resume"
      BY <1>1 DEF Issued, Id
    <3> QED
      BY <1>1, <3>1, <3>2 DEF Fits, Quiet, Known
  <2>6. Elsewhere(id)
    BY <1>5, <2>4 DEF Elsewhere
  <2>7. Fits(q, inst'[id])
    BY <1>1, <1>3, <1>4, <2>3, <2>4 DEF Fits, Torn, Known
  <2>8. Moved(c, q)
    BY <1>1, <1>8, <2>4, MovedIs
  <2>9. Apart(c, q, id)
    BY <1>4, <2>5, ApartQuiet
  <2>10. Claims'
    BY <1>1, <1>4, <1>6, <2>5, <2>6, <2>7, <2>8, <2>9, ClaimsStep
  <2>11. SlotsHeld'
    BY <1>1, <1>3, <1>4, <1>6, <2>1, <2>2, <2>4, <2>8, HeldStep
  <2> QED
    BY <2>10, <2>11
<1> QED
  BY <1>2, <1>7, <1>8

--------------------
\* Steps that are not a call's.

LEMMA OutsideKeeps ==
  ASSUME Claims, SlotsHeld, UNCHANGED <<calls, inst, disk, seq, inUse>>
  PROVE  Claims' /\ SlotsHeld'
  BY DEF Claims, SlotsHeld, Known, Id

LEMMA RestartsKeeps ==
  ASSUME Types, NEW reboot \in BOOLEAN, Restarts(reboot)
  PROVE  Claims' /\ SlotsHeld'
<1>1. RecordsFine /\ EngineFine
  BY DEF Types
<1>2. calls' = [c \in Callers |-> NoCall] /\ inUse' = HeldOf(reboot) /\ disk' = disk
  BY RestartsIs
<1>3. \A c \in Callers : Id(c)' = 0 /\ ~Holds(calls'[c])
  BY <1>2, NoCallIs DEF Id, Holds
<1>4. seq' \in Nat /\ \A id \in Ids : disk[id] # NoRecord => id <= seq'
  BY SeqAfterIs, Numbers
<1>5. \A id \in Ids : /\ inst'[id].slot = SlotOf(id, reboot)
                      /\ inst'[id].st # "none" => disk[id] # NoRecord
  BY <1>1, AfterIs
<1>6. Claims'
  <2>1. \A id \in Ids : Known(id)' \/ disk'[id] # NoRecord => id <= seq'
    BY <1>2, <1>4, <1>5 DEF Known
  <2>2. \A c \in Callers : Id(c)' <= seq'
    BY <1>3, <1>4
  <2> QED
    BY <1>3, <2>1, <2>2 DEF Claims
<1>7. SlotsHeld'
  <2>1. \A id \in Ids : inst'[id].slot # 0 => inUse'[inst'[id].slot] = id
    BY <1>1, <1>2, <1>5, SlotOfIs
  <2>2. ASSUME NEW i \in Slots, inUse'[i] # Nobody PROVE inUse'[i] \in Ids /\ inst'[inUse'[i]].slot = i
    <3>1. i # 0
      BY DEF Slots
    <3>2. inUse'[i] \in Ids /\ ClaimOf(reboot)[inUse'[i]] = i
      BY <1>1, <1>2, <2>2, HeldIs
    <3>3. SlotOf(inUse'[i], reboot) = i
      BY <1>2, <3>1, <3>2 DEF SlotOf
    <3> QED
      BY <1>5, <3>2, <3>3
  <2> QED
    BY <1>3, <2>1, <2>2 DEF SlotsHeld
<1> QED
  BY <1>6, <1>7

--------------------
\* What a VM stands on.  A VM is live while its process is there, or while
\* the evidence of its launch does not say that it is gone: a new runner
\* takes back the slot of such a VM, from its record on disk.

Live(id) == Alive(id) \/ ev[id] \in {"marker", "untracked"}
Upright(r) == r.st \in {"running", "suspended"} /\ ~r.cold

\* a call that answers for a VM it has launched; a teardown that answers for one it has not stopped
Carries(r) == r.pc \in {"boot", "refuse", "publish", "commit"} /\ (r.op = "create" \/ (r.op = "resume" /\ r.cold))
Stopping(r) == r.op \in {"destroy", "reap"} /\ r.pc \in {"stop", "keep"}

Carried(id) == \E c \in Callers : calls[c].id = id /\ Carries(calls[c]) /\ calls[c].slot = disk[id].idx
Stood(id) ==
    /\ Upright(inst[id]) /\ inst[id].idx = disk[id].idx
    /\ \/ inst[id].slot = disk[id].idx
       \/ \E c \in Callers : calls[c].id = id /\ Stopping(calls[c]) /\ calls[c].slot = disk[id].idx
Kept(id) == Carried(id) \/ Stood(id)

\* the record on disk names the slot of the VM, the namespace of that slot is its own, and somebody answers for both
Anchored(id) ==
    /\ disk[id].idx # 0 /\ Upright(disk[id])
    /\ netns[disk[id].idx] = id
    /\ Alive(id) => vm[id].slot = disk[id].idx
    /\ id \in rootfs
    /\ Kept(id)

\* the places of a call at which its instance has no VM
Bare(r) ==
    \/ r.op \in {"create", "resume"} /\ r.pc \in {"disks", "prepare", "take", "build", "intent", "launch", "unwind", "unmake",
                                                  "undo", "unclone"} \cup Giving
    \/ r.op = "suspend" /\ (r.pc \in {"discard"} \cup Giving \/ (r.cold /\ r.pc \in {"park", "save"}))
    \/ r.op \in {"destroy", "reap"} /\ r.pc \in {"forget", "remove"} \cup Giving

\* what a call may rely on of the VM it is about
Equipped(r) ==
    /\ Bare(r) => ~Live(r.id)
    /\ r.pc \in {"take", "build", "intent", "launch"} \/ Carries(r) => r.id \in rootfs
    /\ r.pc \in {"intent", "launch"} \/ Carries(r) => netns[r.slot] = r.id
    /\ r.pc = "launch" \/ Carries(r) => Upright(disk[r.id]) /\ disk[r.id].idx = r.slot
    /\ r.pc \in {"recorded", "save"} /\ Live(r.id) => Upright(r.rec) /\ r.rec.idx = disk[r.id].idx
    /\ r.pc = "fold" /\ r.fresh /\ r.seen = "gone" /\ Live(r.id) => Carried(r.id)

\* the calls the runner keeps apart
Takes(r) == r.op \in {"suspend", "resume", "snapshot"}

Evident(id) == ev[id] \in {"none", "past"} => ~Alive(id)

Moored ==
    /\ \A id \in Ids : Evident(id) /\ (Live(id) => Anchored(id))
    /\ \A c \in Callers : calls[c].op # "none" => Equipped(calls[c])
    /\ \A c, d \in Callers : c # d /\ calls[c].id = calls[d].id /\ calls[c].id # 0 => ~(Takes(calls[c]) /\ Takes(calls[d]))

--------------------
\* One step of one call, as the moorings see it.

Still(d) ==
    /\ calls'[d].op = calls[d].op /\ calls'[d].pc = calls[d].pc /\ calls'[d].id = calls[d].id /\ calls'[d].slot = calls[d].slot
    /\ calls'[d].cold = calls[d].cold /\ calls'[d].seen = calls[d].seen /\ calls'[d].rec = calls[d].rec
    /\ calls'[d].fresh => calls[d].fresh

\* only instance id is touched, and of the namespaces only that of the slot the call is building or tearing down
Touches(c, id) ==
    /\ \A d \in Callers \ {c} : Still(d)
    /\ calls[c].id \in {0, id} /\ calls'[c].id \in {0, id}
    /\ \A j \in Ids \ {id} : inst'[j] = inst[j] /\ disk'[j] = disk[j] /\ vm'[j] = vm[j] /\ ev'[j] = ev[j] /\ (j \in rootfs' <=> j \in rootfs)
    /\ \A i \in Slots : netns'[i] = netns[i] \/ (Holds(calls[c]) /\ calls[c].pc \in {"build", "teardown"} /\ calls[c].slot = i)

\* the other calls about the instance are in order, and they are no turns
Turn(c, id) == Takes(calls'[c]) => \A d \in Callers \ {c} : calls[d].id = id => ~Takes(calls[d])

LEMMA AnchoredSlot ==
  ASSUME Types, Claims, SlotsHeld, NEW id \in Ids, Anchored(id)
  PROVE  /\ disk[id].idx \in Slots /\ inUse[disk[id].idx] = id
         /\ \A c \in Callers : Holds(calls[c]) /\ calls[c].pc \in {"build", "release", "teardown"} => calls[c].slot # disk[id].idx
<1> DEFINE i == disk[id].idx
<1>1. disk[id] \in RecordType /\ i # 0
  BY DEF Types, RecordsFine, Anchored
<1>2. i \in Slots
  BY <1>1, Numbers DEF RecordType, Slots
<1>3. id # 0 /\ id # Taken /\ id # Nobody
  BY Numbers DEF Taken, Nobody
<1> HIDE DEF i
<1>4. CASE \E d \in Callers : calls[d].id = id /\ (Carries(calls[d]) \/ Stopping(calls[d])) /\ calls[d].slot = i
  <2>1. PICK d \in Callers : calls[d].id = id /\ (Carries(calls[d]) \/ Stopping(calls[d])) /\ calls[d].slot = i
    BY <1>4
  <2>2. Holds(calls[d]) /\ calls[d].pc \notin {"build", "release", "teardown"}
    BY <1>1, <2>1 DEF Holds, HoldingPlaces, Carries, Stopping, i
  <2>3. inUse[i] = id
    BY <2>1, <2>2 DEF SlotsHeld, Holder
  <2>4. \A c \in Callers : Holds(calls[c]) /\ calls[c].pc \in {"build", "release", "teardown"} => calls[c].slot # i
    BY <2>1, <2>2 DEF SlotsHeld
  <2> QED
    BY <1>2, <2>3, <2>4 DEF i
<1>5. CASE inst[id].slot = i
  <2>1. inUse[i] = id
    BY <1>1, <1>5 DEF SlotsHeld, i
  <2>2. ASSUME NEW c \in Callers, Holds(calls[c]) PROVE calls[c].slot # i
    <3>1. inUse[calls[c].slot] = Holder(calls[c]) /\ inst[calls[c].id].slot # calls[c].slot
      BY <2>2 DEF SlotsHeld, Id
    <3> QED
      BY <1>3, <1>5, <2>1, <3>1 DEF Holder
  <2> QED
    BY <1>2, <2>1, <2>2 DEF i
<1> QED
  BY <1>4, <1>5 DEF Anchored, Kept, Carried, Stood, i

LEMMA EquippedStill ==
  ASSUME Types, SlotsHeld, Moored, NEW c \in Callers, NEW id \in Ids, Touches(c, id),
         NEW d \in Callers, d # c, NEW j \in Ids, calls[d].id = j,
         Live(j)' => Live(j) /\ disk'[j].idx = disk[j].idx,
         calls[d].op \in {"create", "resume"} => disk'[j] = disk[j] /\ (j \in rootfs => j \in rootfs'),
         calls'[d].fresh /\ Live(j)' /\ Carried(j) => Carried(j)'
  PROVE  Equipped(calls[d])'
<1> DEFINE r == calls[d]
           q == calls'[d]
<1>0. r.op # "none"
  BY Numbers DEF Types, CallsFine, Stands
<1>1. Still(d) /\ Equipped(r) /\ r \in CallType /\ Stands(r)
  BY <1>0 DEF Touches, Moored, Types, CallsFine
<1>2. /\ q.op = r.op /\ q.pc = r.pc /\ q.id = r.id /\ q.slot = r.slot /\ q.cold = r.cold /\ q.seen = r.seen /\ q.rec = r.rec
      /\ q.fresh => r.fresh
  BY <1>1 DEF Still
<1>3. r.pc \in {"take", "build", "intent", "launch"} \/ Carries(r) => r.op \in {"create", "resume"}
  BY <1>1 DEF Stands, CallType, Carries, Giving
<1>4. r.pc \in {"intent", "launch"} \/ Carries(r) => netns'[r.slot] = netns[r.slot]
  <2> SUFFICES ASSUME r.pc \in {"intent", "launch"} \/ Carries(r) PROVE netns'[r.slot] = netns[r.slot]
    OBVIOUS
  <2>1. r.slot # 0
    BY <1>1, <1>3 DEF Stands, Carries
  <2>2. Holds(r) /\ r.slot \in Slots
    BY <1>1, <2>1, Numbers DEF Holds, HoldingPlaces, Carries, CallType, Slots
  <2>3. Holds(calls[c]) => calls[c].slot # r.slot
    BY <2>2 DEF SlotsHeld
  <2> QED
    BY <2>2, <2>3 DEF Touches
<1>5. Carries(q) <=> Carries(r)
  BY <1>2 DEF Carries
<1>6. Bare(q) <=> Bare(r)
  BY <1>2 DEF Bare
<1> QED
  BY <1>1, <1>2, <1>3, <1>4, <1>5, <1>6 DEF Equipped

\* nothing of another instance is disturbed
LEMMA MooredStep ==
  ASSUME Types, Claims, SlotsHeld, Moored, NEW c \in Callers, NEW id \in Ids, Touches(c, id), Turn(c, id),
         Evident(id)', Live(id)' => Anchored(id)',
         calls'[c].op # "none" => Equipped(calls[c])',
         \A d \in Callers \ {c} : calls[d].id = id => Equipped(calls[d])'
  PROVE  Moored'
<1>0. 0 \notin Ids
  BY Numbers
<1>1. ASSUME NEW j \in Ids, j # id
      PROVE  /\ inst'[j] = inst[j] /\ disk'[j] = disk[j] /\ vm'[j] = vm[j] /\ ev'[j] = ev[j] /\ (j \in rootfs' <=> j \in rootfs)
             /\ \A d \in Callers : calls[d].id = j => d # c /\ Still(d)
  BY <1>0, <1>1 DEF Touches
<1>2. ASSUME NEW j \in Ids, j # id
      PROVE  (Live(j)' <=> Live(j)) /\ Evident(j)' /\ (Carried(j) => Carried(j)')
  <2>1. Evident(j)
    BY DEF Moored
  <2> QED
    BY <1>1, <1>2, <2>1 DEF Live, Evident, Alive, Carried, Carries, Still
<1>3. ASSUME NEW j \in Ids, j # id, Live(j)' PROVE Anchored(j)'
  <2>1. Anchored(j)
    BY <1>2, <1>3 DEF Moored
  <2>2. netns'[disk[j].idx] = netns[disk[j].idx]
    <3>1. disk[j].idx \in Slots
      BY <2>1, AnchoredSlot
    <3>2. Holds(calls[c]) /\ calls[c].pc \in {"build", "release", "teardown"} => calls[c].slot # disk[j].idx
      BY <2>1, AnchoredSlot
    <3> QED
      BY <3>1, <3>2 DEF Touches
  <2>3. Stood(j) => Stood(j)'
    BY <1>1, <1>3 DEF Stood, Stopping, Still
  <2>4. Kept(j)'
    BY <1>2, <1>3, <2>1, <2>3 DEF Anchored, Kept
  <2> QED
    BY <1>1, <1>3, <2>1, <2>2, <2>4 DEF Anchored, Alive
<1>4. ASSUME NEW d \in Callers, d # c, calls'[d].op # "none" PROVE Equipped(calls[d])'
  <2>1. Still(d) /\ calls[d].op # "none"
    BY <1>4 DEF Touches, Still
  <2>2. calls[d].id \in Ids
    BY <2>1, CallFacts DEF Types, Id
  <2>3. CASE calls[d].id = id
    BY <1>4, <2>3
  <2>4. CASE calls[d].id # id
    <3> DEFINE j == calls[d].id
    <3>1. j \in Ids /\ j # id
      BY <2>2, <2>4
    <3>2. disk'[j] = disk[j] /\ (j \in rootfs => j \in rootfs')
      BY <1>1, <3>1
    <3>3. calls[d].id = j
      OBVIOUS
    <3> HIDE DEF j
    <3> QED
      BY <1>2, <1>4, <3>1, <3>2, <3>3, EquippedStill
  <2> QED
    BY <2>3, <2>4
<1>5. ASSUME NEW d \in Callers, NEW e \in Callers, d # e, calls'[d].id = calls'[e].id, calls'[d].id # 0,
             Takes(calls[d])', Takes(calls[e])'
      PROVE  FALSE
  <2>1. \A x \in Callers \ {c} : calls'[x].id = calls[x].id /\ (Takes(calls[x])' <=> Takes(calls[x]))
    BY DEF Touches, Still, Takes
  <2>2. calls'[c].id \in {0, id}
    BY DEF Touches
  <2> QED
    BY <1>5, <2>1, <2>2 DEF Moored, Turn
<1>6. \A j \in Ids : Evident(j)' /\ (Live(j)' => Anchored(j)')
  BY <1>2, <1>3
<1>7. \A d \in Callers : calls'[d].op # "none" => Equipped(calls[d])'
  BY <1>4
<1> QED
  BY <1>5, <1>6, <1>7 DEF Moored

--------------------
\* The kinds of step.

NoLaunch(c, id) == \A d \in Callers \ {c} : calls[d].id = id => calls[d].op \notin {"create", "resume"}

\* whoever has claimed the instance, or has its turn with it, meets no launch
LEMMA NoLaunchIs ==
  ASSUME Types, Claims, Moored, NEW c \in Callers, NEW id \in Ids, calls[c].id = id,
         calls[c].op \in {"create", "suspend", "resume", "snapshot"} \/ Torn(calls[c])
  PROVE  NoLaunch(c, id)
<1> SUFFICES ASSUME NEW d \in Callers, d # c, calls[d].id = id PROVE calls[d].op \notin {"create", "resume"}
  BY DEF NoLaunch
<1>0. id # 0
  BY Numbers
<1>1. Fits(calls[c], inst[id]) /\ Fits(calls[d], inst[id]) /\ calls[d].op # "create" /\ calls[c].op # "create"
  BY <1>0 DEF Claims, Id
<1>2. ~(Takes(calls[c]) /\ Takes(calls[d]))
  BY <1>0 DEF Moored
<1> QED
  BY <1>1, <1>2 DEF Fits, Takes

\* nor does who finds its record at rest
LEMMA Resting ==
  ASSUME Types, Claims, NEW c \in Callers, NEW id \in Ids, Known(id), ~inst[id].resuming, calls[c].op \notin {"create", "resume"}
  PROVE  NoLaunch(c, id) /\ ~Carried(id)
<1>1. ASSUME NEW d \in Callers, calls[d].id = id PROVE calls[d].op \notin {"create", "resume"}
  <2>1. Fits(calls[d], inst[id])
    BY <1>1, Numbers DEF Claims, Id
  <2> QED
    BY <2>1 DEF Fits, Known, NoInstance
<1> QED
  BY <1>1 DEF NoLaunch, Carried, Carries

\* at the end of this step the instance has no VM
LEMMA BareStep ==
  ASSUME Types, Claims, SlotsHeld, Moored, NEW c \in Callers, NEW id \in Ids, Touches(c, id), Turn(c, id),
         ~Live(id)', NoLaunch(c, id),
         calls'[c].op # "none" => Equipped(calls[c])'
  PROVE  Moored'
<1>1. Evident(id)' /\ (Live(id)' => Anchored(id)')
  BY DEF Evident, Live
<1>2. ASSUME NEW d \in Callers, d # c, calls[d].id = id PROVE Equipped(calls[d])'
  <2>1. calls[d].op \notin {"create", "resume"}
    BY <1>2 DEF NoLaunch
  <2> QED
    BY <1>2, <2>1, EquippedStill
<1> QED
  BY <1>1, <1>2, MooredStep

\* the VM is handed on: somebody answers for it after the step
LEMMA HandStep ==
  ASSUME Types, Claims, SlotsHeld, Moored, NEW c \in Callers, NEW id \in Ids, Touches(c, id), Turn(c, id),
         Evident(id)',
         Live(id)' => /\ Live(id) /\ Kept(id)' /\ id \in rootfs'
                      /\ disk'[id].idx = disk[id].idx /\ Upright(disk'[id])
                      /\ Alive(id)' => Alive(id) /\ vm'[id].slot = vm[id].slot,
         NoLaunch(c, id) \/ (disk'[id] = disk[id] /\ (id \in rootfs => id \in rootfs')),
         \A d \in Callers \ {c} : calls[d].id = id /\ calls'[d].fresh /\ Live(id)' /\ Carried(id) => Carried(id)',
         calls'[c].op # "none" => Equipped(calls[c])'
  PROVE  Moored'
<1>1. ASSUME Live(id)' PROVE Anchored(id)'
  <2>1. Anchored(id)
    BY <1>1 DEF Moored
  <2>2. netns'[disk[id].idx] = netns[disk[id].idx]
    <3>1. disk[id].idx \in Slots
      BY <2>1, AnchoredSlot
    <3>2. Holds(calls[c]) /\ calls[c].pc \in {"build", "release", "teardown"} => calls[c].slot # disk[id].idx
      BY <2>1, AnchoredSlot
    <3> QED
      BY <3>1, <3>2 DEF Touches
  <2> QED
    BY <1>1, <2>1, <2>2 DEF Anchored
<1>2. ASSUME NEW d \in Callers, d # c, calls[d].id = id PROVE Equipped(calls[d])'
  <2>1. calls[d].op \in {"create", "resume"} => disk'[id] = disk[id] /\ (id \in rootfs => id \in rootfs')
    BY <1>2 DEF NoLaunch
  <2> QED
    BY <1>2, <2>1, EquippedStill
<1> QED
  BY <1>1, <1>2, MooredStep

LEMMA KeptStays ==
  ASSUME NEW c \in Callers, NEW id \in Ids, Touches(c, id), disk'[id].idx = disk[id].idx,
         Stood(id) => Upright(inst'[id]) /\ inst'[id].idx = inst[id].idx /\ inst'[id].slot = inst[id].slot,
         Carries(calls[c]) \/ Stopping(calls[c]) => /\ calls'[c].id = calls[c].id /\ calls'[c].slot = calls[c].slot
                                                    /\ Carries(calls[c]) => Carries(calls[c])'
                                                    /\ Stopping(calls[c]) => Stopping(calls[c])'
  PROVE  (Kept(id) => Kept(id)') /\ (Carried(id) => Carried(id)')
<1>1. \A d \in Callers \ {c} : /\ calls'[d].id = calls[d].id /\ calls'[d].slot = calls[d].slot
                               /\ Carries(calls[d])' <=> Carries(calls[d])
                               /\ Stopping(calls[d])' <=> Stopping(calls[d])
  BY DEF Touches, Still, Carries, Stopping
<1>2. Carried(id) => Carried(id)'
  BY <1>1 DEF Carried
<1>3. Stood(id) => Stood(id)'
  <2> SUFFICES ASSUME Stood(id) PROVE Stood(id)'
    OBVIOUS
  <2>1. Upright(inst'[id]) /\ inst'[id].idx = disk'[id].idx /\ inst'[id].slot = inst[id].slot
    BY DEF Stood
  <2>2. CASE inst[id].slot = disk[id].idx
    BY <2>1, <2>2 DEF Stood
  <2>3. CASE \E d \in Callers : calls[d].id = id /\ Stopping(calls[d]) /\ calls[d].slot = disk[id].idx
    <3>1. PICK d \in Callers : calls[d].id = id /\ Stopping(calls[d]) /\ calls[d].slot = disk[id].idx
      BY <2>3
    <3>2. calls'[d].id = id /\ Stopping(calls[d])' /\ calls'[d].slot = disk'[id].idx
      BY <1>1, <3>1
    <3> QED
      BY <2>1, <3>2 DEF Stood
  <2> QED
    BY <2>2, <2>3 DEF Stood
<1> QED
  BY <1>2, <1>3 DEF Kept

\* the VM, its evidence and what is on disk of it stay as they are
LEMMA TameStep ==
  ASSUME Types, Claims, SlotsHeld, Moored, NEW c \in Callers, NEW id \in Ids, Touches(c, id), Turn(c, id),
         disk'[id] = disk[id], ev'[id] = ev[id], Alive(id)' <=> Alive(id), vm'[id].slot = vm[id].slot, id \in rootfs => id \in rootfs',
         Live(id) /\ Stood(id) => Upright(inst'[id]) /\ inst'[id].idx = inst[id].idx /\ inst'[id].slot = inst[id].slot,
         Carries(calls[c]) \/ Stopping(calls[c]) => /\ calls'[c].id = calls[c].id /\ calls'[c].slot = calls[c].slot
                                                    /\ Carries(calls[c]) => Carries(calls[c])'
                                                    /\ Stopping(calls[c]) => Stopping(calls[c])',
         calls'[c].op # "none" => Equipped(calls[c])'
  PROVE  Moored'
<1>1. (Live(id)' <=> Live(id)) /\ Evident(id)'
  BY DEF Live, Evident, Moored
<1>2. Live(id) => Anchored(id)
  BY DEF Moored
<1>3. Live(id) => Kept(id)' /\ (Carried(id) => Carried(id)')
  BY <1>2, KeptStays DEF Anchored
<1> QED
  BY <1>1, <1>2, <1>3, HandStep DEF Anchored

\* how the other calls come through
LEMMA StillIs ==
  ASSUME CallsFine, NEW c \in Callers, NEW r, NEW id,
         calls' = [calls EXCEPT ![c] = r] \/ calls' = Bumped([calls EXCEPT ![c] = r], id)
  PROVE  /\ \A d \in Callers \ {c} : Still(d)
         /\ calls'[c] = r \/ calls'[c] = [r EXCEPT !.fresh = FALSE]
<1> DEFINE cs == [calls EXCEPT ![c] = r]
<1>0. cs[c] = r
  BY DEF CallsFine
<1>1. \A d \in Callers \ {c} : cs[d] = calls[d] /\ calls[d] \in CallType
  BY DEF CallsFine
<1>2. CASE calls' = cs
  BY <1>0, <1>1, <1>2 DEF Still
<1>3. CASE calls' = Bumped(cs, id)
  <2>1. \A d \in Callers : calls'[d] = IF cs[d].id = id THEN [cs[d] EXCEPT !.fresh = FALSE] ELSE cs[d]
    BY <1>3 DEF Bumped
  <2> HIDE DEF cs
  <2>2. \A d \in Callers \ {c} : Still(d)
    <3> TAKE d \in Callers \ {c}
    <3>1. calls'[d] = calls[d] \/ calls'[d] = [calls[d] EXCEPT !.fresh = FALSE]
      BY <1>1, <2>1
    <3> QED
      BY <1>1, <3>1 DEF Still, CallType
  <2> QED
    BY <1>0, <2>1, <2>2
<1> QED
  BY <1>2, <1>3

\* nobody may act any more on what it read of the record before
LEMMA BumpedIs ==
  ASSUME CallsFine, NEW c \in Callers, NEW r, NEW id, calls' = Bumped([calls EXCEPT ![c] = r], id),
         NEW d \in Callers, d # c, calls[d].id = id
  PROVE  ~calls'[d].fresh
<1>1. calls[d] \in CallType /\ [calls EXCEPT ![c] = r][d] = calls[d]
  BY DEF CallsFine
<1>2. calls'[d] = [calls[d] EXCEPT !.fresh = FALSE]
  BY <1>1 DEF Bumped
<1> QED
  BY <1>1, <1>2 DEF CallType

\* the call, what is known of it, and where it goes
About(c, id) ==
    /\ calls[c].id = id /\ calls[c].op # "none" /\ calls[c] \in CallType /\ Stands(calls[c]) /\ Equipped(calls[c])
    /\ Fits(calls[c], inst[id])
    /\ calls \in [Callers -> CallType] /\ inst \in [Ids -> Instances] /\ disk \in [Ids -> RecordType] /\ vm \in [Ids -> Machines]
    /\ ev \in [Ids -> {"none", "marker", "full", "untracked", "past"}] /\ rootfs \subseteq Ids
    /\ Identified(id) /\ (Alive(id) => vm[id].st # "none") /\ Evident(id) /\ (Live(id) => Anchored(id))

LEMMA AboutIs ==
  ASSUME Types, Claims, Moored, NEW c \in Callers, calls[c].pc # "idle"
  PROVE  \E id \in Ids : About(c, id)
<1>1. calls[c] \in CallType /\ Stands(calls[c]) /\ calls[c].op # "none" /\ calls \in [Callers -> CallType]
  BY DEF Types, CallsFine, Stands
<1>2. calls[c].id \in Ids
  BY <1>1 DEF CallType, Stands
<1>3. Equipped(calls[c]) /\ Evident(calls[c].id) /\ (Live(calls[c].id) => Anchored(calls[c].id))
  BY <1>1, <1>2 DEF Moored
<1>4. Fits(calls[c], inst[calls[c].id])
  BY <1>2, Numbers DEF Claims, Id
<1>5. /\ inst \in [Ids -> Instances] /\ disk \in [Ids -> RecordType] /\ vm \in [Ids -> Machines]
      /\ ev \in [Ids -> {"none", "marker", "full", "untracked", "past"}] /\ rootfs \subseteq Ids
      /\ Identified(calls[c].id) /\ (Alive(calls[c].id) => vm[calls[c].id].st # "none")
  BY <1>2 DEF Types, RecordsFine, EngineFine, WorkFine
<1> QED
  BY <1>1, <1>2, <1>3, <1>4, <1>5 DEF About

Onward(c, pc, slot) ==
    /\ \A d \in Callers \ {c} : Still(d)
    /\ calls'[c].op = calls[c].op /\ calls'[c].pc = pc /\ calls'[c].id = calls[c].id /\ calls'[c].slot = slot
    /\ calls'[c].cold = calls[c].cold /\ calls'[c].seen = calls[c].seen /\ calls'[c].rec = calls[c].rec
    /\ calls'[c].fresh => calls[c].fresh
Ends(c) == (\A d \in Callers \ {c} : Still(d)) /\ calls'[c].op = "none" /\ calls'[c].id = 0 /\ calls'[c].pc = "idle"

LEMMA GoesOnward ==
  ASSUME CallsFine, NEW c \in Callers, NEW pc, calls' = Goes(c, pc)
  PROVE  Onward(c, pc, calls[c].slot)
<1>1. calls' = [calls EXCEPT ![c] = [calls[c] EXCEPT !.pc = pc]] /\ calls[c] \in CallType
  BY DEF Goes, CallsFine
<1>2. (\A d \in Callers \ {c} : Still(d)) /\ calls'[c] = [calls[c] EXCEPT !.pc = pc]
  BY <1>1 DEF CallsFine, Still
<1> QED
  BY <1>1, <1>2 DEF Onward, CallType

LEMMA TurnsOnward ==
  ASSUME CallsFine, NEW c \in Callers, NEW pc, NEW slot,
         calls' = [calls EXCEPT ![c] = [calls[c] EXCEPT !.pc = pc, !.slot = slot]]
  PROVE  Onward(c, pc, slot)
<1> DEFINE r == [calls[c] EXCEPT !.pc = pc, !.slot = slot]
<1>1. calls[c] \in CallType
  BY DEF CallsFine
<1>2. (\A d \in Callers \ {c} : Still(d)) /\ calls'[c] = r
  BY DEF CallsFine, Still
<1>3. r.pc = pc /\ r.slot = slot
  BY <1>1 DEF CallType
<1>4. /\ r.op = calls[c].op /\ r.id = calls[c].id /\ r.cold = calls[c].cold /\ r.seen = calls[c].seen
      /\ r.rec = calls[c].rec /\ r.fresh = calls[c].fresh
  BY <1>1 DEF CallType
<1> HIDE DEF r
<1> QED
  BY <1>2, <1>3, <1>4 DEF Onward

LEMMA ReleasesOnward ==
  ASSUME CallsFine, NEW c \in Callers, NEW slot, NEW next, NEW id,
         calls' = Releases(c, slot, next) \/ calls' = Bumped(Releases(c, slot, next), id)
  PROVE  Onward(c, IF slot = 0 THEN next ELSE "release", slot)
<1> DEFINE r == [calls[c] EXCEPT !.pc = IF slot = 0 THEN next ELSE "release", !.slot = slot, !.next = next]
<1>1. Releases(c, slot, next) = [calls EXCEPT ![c] = r] /\ calls[c] \in CallType
  BY DEF Releases, CallsFine
<1>2. (\A d \in Callers \ {c} : Still(d)) /\ (calls'[c] = r \/ calls'[c] = [r EXCEPT !.fresh = FALSE])
  <2> HIDE DEF r
  <2> QED
    BY <1>1, StillIs
<1>3. r = [calls[c] EXCEPT !.pc = r.pc, !.slot = slot, !.next = next] /\ r.pc = IF slot = 0 THEN next ELSE "release"
  BY <1>1 DEF CallType
<1> HIDE DEF r
<1>4. /\ r.op = calls[c].op /\ r.id = calls[c].id /\ r.slot = slot /\ r.cold = calls[c].cold /\ r.seen = calls[c].seen
      /\ r.rec = calls[c].rec /\ r.fresh = calls[c].fresh
  BY <1>1, <1>3 DEF CallType
<1>5. CASE calls'[c] = r
  BY <1>2, <1>3, <1>4, <1>5 DEF Onward
<1>6. CASE calls'[c] = [r EXCEPT !.fresh = FALSE]
  <2>1. /\ calls'[c].op = r.op /\ calls'[c].pc = r.pc /\ calls'[c].id = r.id /\ calls'[c].slot = r.slot /\ calls'[c].cold = r.cold
        /\ calls'[c].seen = r.seen /\ calls'[c].rec = r.rec /\ ~calls'[c].fresh
    BY <1>1, <1>3, <1>6 DEF CallType
  <2> QED
    BY <1>2, <1>3, <1>4, <2>1 DEF Onward
<1> QED
  BY <1>2, <1>5, <1>6

LEMMA ReturnsEnds ==
  ASSUME CallsFine, NEW c \in Callers, NEW id, calls' = Returned(c) \/ (calls' = Bumped(Returned(c), id) /\ id # 0)
  PROVE  Ends(c)
<1>1. (\A d \in Callers \ {c} : Still(d)) /\ (calls'[c] = NoCall \/ calls'[c] = [NoCall EXCEPT !.fresh = FALSE])
  BY StillIs DEF Returned
<1> QED
  BY <1>1 DEF Ends, NoCall

LEMMA TurnKept ==
  ASSUME Types, Moored, NEW c \in Callers, NEW id \in Ids, calls[c].id = id, calls'[c].op \in {"none", calls[c].op}
  PROVE  Turn(c, id)
  BY Numbers DEF Moored, Turn, Takes

\* neither the records nor the engine change, and the call answers for no VM
LEMMA QuietStep ==
  ASSUME Types, Claims, SlotsHeld, Moored, NEW c \in Callers, NEW id \in Ids, About(c, id),
         \A d \in Callers \ {c} : Still(d), calls'[c].id \in {0, id}, calls'[c].op \in {"none", calls[c].op},
         UNCHANGED <<inst, disk>>, UNCHANGED eng, rootfs' \in {rootfs, rootfs \cup {id}},
         \A i \in Slots : netns'[i] = netns[i] \/ (Holds(calls[c]) /\ calls[c].pc \in {"build", "teardown"} /\ calls[c].slot = i),
         ~Carries(calls[c]), ~Stopping(calls[c]),
         calls'[c].op # "none" => Equipped(calls[c])'
  PROVE  Moored'
<1>1. UNCHANGED <<vm, ev>> /\ calls[c].id = id
  BY DEF eng, About
<1>2. Touches(c, id)
  BY <1>1 DEF Touches
<1>3. Turn(c, id)
  BY <1>1, TurnKept
<1>4. Stood(id) => Upright(inst'[id])
  BY DEF Stood
<1>5. (Alive(id)' <=> Alive(id)) /\ (id \in rootfs => id \in rootfs')
  BY <1>1 DEF Alive
<1> QED
  BY <1>1, <1>2, <1>3, <1>4, <1>5, TameStep

--------------------
\* The slots and the disks of a launch.

LEMMA TakeSlotMoors ==
  ASSUME Types, Claims, SlotsHeld, Moored, NEW c \in Callers, TakeSlot(c)
  PROVE  Moored'
<1>1. calls[c].pc = "take"
  BY DEF TakeSlot
<1>2. PICK id \in Ids : About(c, id)
  BY <1>1, AboutIs
<1>3. UNCHANGED <<inst, disk, rootfs, netns>> /\ UNCHANGED eng
  BY DEF TakeSlot, drv, net, Take
<1>4. \E pc \in {"undo", "unwind", "build"} : \E s : Onward(c, pc, s)
  <2>1. CASE calls' = [calls EXCEPT ![c] = [calls[c] EXCEPT !.pc = Undoing(c), !.slot = 0]]
    BY <2>1, TurnsOnward DEF Types, Undoing
  <2>2. CASE calls' = [calls EXCEPT ![c] = [calls[c] EXCEPT !.pc = "build", !.slot = Candidate]]
    BY <2>2, TurnsOnward DEF Types
  <2> QED
    BY <2>1, <2>2 DEF TakeSlot
<1>5. PICK pc \in {"undo", "unwind", "build"} : \E s : Onward(c, pc, s)
  BY <1>4
<1>6. PICK s : Onward(c, pc, s)
  BY <1>5
<1>7. calls[c].op \in {"create", "resume"}
  BY <1>1, <1>2 DEF About, Stands, CallType
<1>8. Equipped(calls[c])'
  BY <1>1, <1>2, <1>3, <1>6, <1>7 DEF About, Onward, Equipped, Bare, Carries, Live, Alive, eng, Giving
<1> QED
  BY <1>1, <1>2, <1>3, <1>6, <1>8, QuietStep DEF Onward, About, Carries, Stopping

LEMMA BuildSlotMoors ==
  ASSUME Types, Claims, SlotsHeld, Moored, NEW c \in Callers, BuildSlot(c)
  PROVE  Moored'
<1>1. calls[c].pc = "build"
  BY DEF BuildSlot
<1>2. PICK id \in Ids : About(c, id)
  BY <1>1, AboutIs
<1>3. UNCHANGED <<inst, disk, rootfs>> /\ UNCHANGED eng
  BY DEF BuildSlot, drv
<1>4. /\ calls[c].op \in {"create", "resume"} /\ calls[c].slot \in Slots /\ Holds(calls[c]) /\ Id(c) = id
      /\ netns \in [Slots -> Keys \cup {Nobody}]
  BY <1>1, <1>2, Numbers DEF About, Stands, CallType, Slots, Holds,
                             HoldingPlaces, Id, Types, PoolTypeOK
<1>5. \/ Onward(c, "intent", calls[c].slot) /\ netns' = [netns EXCEPT ![calls[c].slot] = id]
      \/ Onward(c, "take", calls[c].slot) /\ netns' = netns
      \/ Onward(c, Undoing(c), 0) /\ \E k : netns' \in {netns, [netns EXCEPT ![calls[c].slot] = k]}
  <2>1. CASE Built(calls[c].slot, Id(c)) /\ calls' = Goes(c, "intent")
    BY <1>4, <2>1, GoesOnward DEF Types, Built
  <2>2. CASE Retired(calls[c].slot) /\ calls' = Goes(c, "take")
    BY <2>2, GoesOnward DEF Types, Retired
  <2>3. CASE BuildFails(calls[c].slot, Id(c)) /\ calls' = [calls EXCEPT ![c] = [@ EXCEPT !.pc = Undoing(c), !.slot = 0]]
    <3>1. Onward(c, Undoing(c), 0)
      BY <2>3, TurnsOnward DEF Types
    <3>2. \E k : netns' \in {netns, [netns EXCEPT ![calls[c].slot] = k]}
      BY <2>3 DEF BuildFails, Teardown
    <3> QED
      BY <3>1, <3>2
  <2> QED
    BY <2>1, <2>2, <2>3 DEF BuildSlot
<1>6. \A i \in Slots : netns'[i] = netns[i] \/ calls[c].slot = i
  BY <1>4, <1>5
<1>7. Equipped(calls[c])'
  <2>1. CASE Onward(c, "intent", calls[c].slot) /\ netns' = [netns EXCEPT ![calls[c].slot] = id]
    BY <1>1, <1>2, <1>3, <1>4, <2>1 DEF About, Onward, Equipped, Bare, Carries, Live, Alive, eng, Giving
  <2>2. CASE Onward(c, "take", calls[c].slot)
    BY <1>1, <1>2, <1>3, <1>4, <2>2 DEF About, Onward, Equipped, Bare, Carries, Live, Alive, eng, Giving
  <2>3. CASE Onward(c, Undoing(c), 0)
    BY <1>1, <1>2, <1>3, <1>4, <2>3 DEF About, Onward, Equipped, Bare, Carries, Live, Alive, eng, Giving, Undoing
  <2> QED
    BY <1>5, <2>1, <2>2, <2>3
<1> QED
  BY <1>1, <1>2, <1>3, <1>4, <1>5, <1>6, <1>7, QuietStep DEF Onward, About, Carries, Stopping

LEMMA ReleaseSlotMoors ==
  ASSUME Types, Claims, SlotsHeld, Moored, NEW c \in Callers, ReleaseSlot(c)
  PROVE  Moored'
<1>1. calls[c].pc = "release"
  BY DEF ReleaseSlot
<1>2. PICK id \in Ids : About(c, id)
  BY <1>1, AboutIs
<1>3. UNCHANGED <<inst, disk, rootfs, netns>> /\ UNCHANGED eng
  BY DEF ReleaseSlot, drv, net
<1>4. \E pc \in {"teardown", calls[c].next} : \E s : Onward(c, pc, s)
  <2>1. CASE calls' = Goes(c, "teardown")
    BY <2>1, GoesOnward DEF Types
  <2>2. CASE calls' = [calls EXCEPT ![c] = [@ EXCEPT !.pc = calls[c].next, !.slot = 0]]
    BY <2>2, TurnsOnward DEF Types
  <2> QED
    BY <2>1, <2>2 DEF ReleaseSlot
<1>5. PICK pc \in {"teardown", calls[c].next} : \E s : Onward(c, pc, s)
  BY <1>4
<1>6. PICK s : Onward(c, pc, s)
  BY <1>5
<1>7. Equipped(calls[c])'
  BY <1>1, <1>2, <1>3, <1>6 DEF About, Onward, Equipped, Bare, Carries, Live, Alive, eng, Giving, Stands, CallType
<1> QED
  BY <1>1, <1>2, <1>3, <1>6, <1>7, QuietStep DEF Onward, About, Carries, Stopping

LEMMA TeardownSlotMoors ==
  ASSUME Types, Claims, SlotsHeld, Moored, NEW c \in Callers, TeardownSlot(c)
  PROVE  Moored'
<1>1. calls[c].pc = "teardown"
  BY DEF TeardownSlot
<1>2. PICK id \in Ids : About(c, id)
  BY <1>1, AboutIs
<1>3. UNCHANGED <<inst, disk, rootfs>> /\ UNCHANGED eng
  BY DEF TeardownSlot, drv
<1>4. Holds(calls[c]) /\ \A i \in Slots : netns'[i] = netns[i] \/ calls[c].slot = i
  <2>1. calls[c].slot # 0
    BY <1>1, <1>2 DEF About, Stands, Giving
  <2>2. netns' = netns \/ netns' = [netns EXCEPT ![calls[c].slot] = Nobody]
    BY DEF TeardownSlot, TornDown, TeardownFails, Teardown
  <2>3. netns \in [Slots -> Keys \cup {Nobody}]
    BY DEF Types, PoolTypeOK
  <2> QED
    BY <1>1, <2>1, <2>2, <2>3 DEF Holds, HoldingPlaces, Giving
<1>5. Onward(c, calls[c].next, 0)
  BY TurnsOnward DEF Types, TeardownSlot
<1>6. Equipped(calls[c])'
  BY <1>1, <1>2, <1>3, <1>5 DEF About, Onward, Equipped, Bare, Carries, Live, Alive, eng, Giving, Stands, CallType
<1> QED
  BY <1>1, <1>2, <1>3, <1>4, <1>5, <1>6, QuietStep DEF Onward, About, Carries, Stopping

LEMMA CreateDisksMoors ==
  ASSUME Types, Claims, SlotsHeld, Moored, NEW c \in Callers, CreateDisks(c)
  PROVE  Moored'
<1>1. calls[c].pc = "disks" /\ calls[c].op = "create"
  BY DEF CreateDisks, At
<1>2. PICK id \in Ids : About(c, id)
  BY <1>1, AboutIs
<1>3. UNCHANGED <<inst, disk, netns>> /\ UNCHANGED eng
  BY DEF CreateDisks, drv, net
<1>4. CASE rootfs' = rootfs \cup {id} /\ calls' = [calls EXCEPT ![c] = [@ EXCEPT !.pc = "take", !.made = ws[Session(c)] = 0]]
  <2> DEFINE r == [calls[c] EXCEPT !.pc = "take", !.made = ws[Session(c)] = 0]
  <2>1. calls[c] \in CallType
    BY <1>2 DEF About
  <2>2. (\A d \in Callers \ {c} : Still(d)) /\ calls'[c] = r
    BY <1>2, <1>4 DEF About, Still
  <2>3. r.pc = "take" /\ r.op = calls[c].op /\ r.id = calls[c].id
    BY <2>1 DEF CallType
  <2> HIDE DEF r
  <2>4. Equipped(calls[c])'
    BY <1>1, <1>2, <1>3, <1>4, <2>2, <2>3 DEF About, Equipped, Bare, Carries, Live, Alive, eng, Giving
  <2> QED
    BY <1>1, <1>2, <1>3, <1>4, <2>2, <2>3, <2>4, QuietStep DEF About, Carries, Stopping
<1>5. CASE calls' = Returned(c) /\ UNCHANGED rootfs
  <2>1. Ends(c)
    BY <1>5, ReturnsEnds DEF Types
  <2> QED
    BY <1>1, <1>2, <1>3, <1>5, <2>1, QuietStep DEF Ends, About, Carries, Stopping
<1> QED
  BY <1>2, <1>4, <1>5 DEF CreateDisks, About, Id

LEMMA UnwindMoors ==
  ASSUME Types, Claims, SlotsHeld, Moored, NEW c \in Callers, Unwind(c)
  PROVE  Moored'
<1>1. calls[c].pc = "unwind" /\ calls[c].op = "create"
  BY DEF Unwind, At
<1>2. PICK id \in Ids : About(c, id)
  BY <1>1, AboutIs
<1>3. UNCHANGED <<inst, disk, rootfs, netns>> /\ UNCHANGED eng
  BY DEF Unwind, drv, net
<1>4. Onward(c, IF calls[c].slot = 0 THEN "unmake" ELSE "release", calls[c].slot)
  BY ReleasesOnward DEF Types, Unwind
<1>5. Equipped(calls[c])'
  BY <1>1, <1>2, <1>3, <1>4 DEF About, Onward, Equipped, Bare, Carries, Live, Alive, eng, Giving
<1> QED
  BY <1>1, <1>2, <1>3, <1>4, <1>5, QuietStep DEF Onward, About, Carries, Stopping

LEMMA PrepareResumeMoors ==
  ASSUME Types, Claims, SlotsHeld, Moored, NEW c \in Callers, PrepareResume(c)
  PROVE  Moored'
<1>1. calls[c].pc = "prepare" /\ calls[c].op = "resume"
  BY DEF PrepareResume, At
<1>2. PICK id \in Ids : About(c, id)
  BY <1>1, AboutIs
<1>3. UNCHANGED <<inst, disk, netns>> /\ UNCHANGED eng
  BY DEF PrepareResume, drv, net
<1>4. \/ Onward(c, "take", calls[c].slot) /\ rootfs' = rootfs \cup {id}
      \/ Onward(c, "end", calls[c].slot) /\ rootfs' = rootfs
  BY <1>2, GoesOnward DEF Types, PrepareResume, About, Id
<1>5. Equipped(calls[c])'
  BY <1>1, <1>2, <1>3, <1>4 DEF About, Onward, Equipped, Bare, Carries, Live, Alive, eng, Giving
<1> QED
  BY <1>1, <1>2, <1>3, <1>4, <1>5, QuietStep DEF Onward, About, Carries, Stopping

LEMMA CopyRootfsMoors ==
  ASSUME Types, Claims, SlotsHeld, Moored, NEW c \in Callers, CopyRootfs(c)
  PROVE  Moored'
<1>1. calls[c].pc = "copy" /\ calls[c].op = "snapshot"
  BY DEF CopyRootfs, At
<1>2. PICK id \in Ids : About(c, id)
  BY <1>1, AboutIs
<1>3. UNCHANGED <<inst, disk, rootfs, netns>> /\ UNCHANGED eng
  BY DEF CopyRootfs, drv, net
<1>4. Onward(c, "unfreeze", calls[c].slot) \/ Onward(c, "end", calls[c].slot)
  BY GoesOnward DEF Types, CopyRootfs
<1>5. Equipped(calls[c])'
  BY <1>1, <1>2, <1>3, <1>4 DEF About, Onward, Equipped, Bare, Carries, Live, Alive, eng, Giving
<1> QED
  BY <1>1, <1>2, <1>3, <1>4, <1>5, QuietStep DEF Onward, About, Carries, Stopping

LEMMA AskEngineMoors ==
  ASSUME Types, Claims, SlotsHeld, Moored, NEW c \in Callers, AskEngine(c)
  PROVE  Moored'
<1>1. calls[c].pc = "ask" /\ calls[c].op \in {"inspect", "status"}
  BY DEF AskEngine, Asking
<1>2. PICK id \in Ids : About(c, id)
  BY <1>1, AboutIs
<1>3. UNCHANGED <<inst, disk, rootfs, netns>> /\ UNCHANGED eng
  BY DEF AskEngine, drv, net
<1> DEFINE r == [calls[c] EXCEPT !.pc = "fold", !.seen = State(id)]
<1>4. (\A d \in Callers \ {c} : Still(d)) /\ calls'[c] = r
  BY <1>2 DEF AskEngine, About, Still, Id
<1>5. r.pc = "fold" /\ r.op = calls[c].op /\ r.id = id /\ r.seen = State(id)
  BY <1>2 DEF About, CallType
<1> HIDE DEF r
<1>6. State(id) = "gone" => ~Live(id)
  BY <1>2 DEF State, Live, About, Identified, Evident
<1>7. Equipped(calls[c])'
  BY <1>1, <1>3, <1>4, <1>5, <1>6 DEF Equipped, Bare, Carries, Live, Alive, eng
<1> QED
  BY <1>1, <1>2, <1>3, <1>4, <1>5, <1>7, QuietStep DEF About, Carries, Stopping

LEMMA EndsQuietly ==
  ASSUME Types, Claims, SlotsHeld, Moored, NEW c \in Callers, calls[c].pc \in {"done", "workspace", "answer"},
         calls' = Returned(c), UNCHANGED <<inst, disk, rootfs, netns>>, UNCHANGED eng
  PROVE  Moored'
<1>1. PICK id \in Ids : About(c, id)
  BY AboutIs
<1>2. Ends(c)
  BY ReturnsEnds DEF Types
<1> QED
  BY <1>1, <1>2, QuietStep DEF Ends, About, Carries, Stopping

--------------------
\* A call begins.

LEMMA BeginsIs ==
  ASSUME Types, NEW c \in Callers, calls[c] = NoCall, NEW q, calls' = [calls EXCEPT ![c] = q]
  PROVE  /\ \A d \in Callers \ {c} : Still(d)
         /\ calls'[c] = q /\ calls[c].id = 0 /\ calls[c].op = "none" /\ calls[c].pc = "idle"
         /\ ~Carries(calls[c]) /\ ~Stopping(calls[c]) /\ ~Holds(calls[c])
<1>1. calls \in [Callers -> CallType]
  BY DEF Types, CallsFine
<1>2. calls[c].id = 0 /\ calls[c].op = "none" /\ calls[c].pc = "idle" /\ calls[c].slot = 0
  BY NoCallIs
<1> QED
  BY <1>1, <1>2 DEF Still, Carries, Stopping, Holds

\* what is kept of a record, and of a machine, that a step only marks
Marked(id) == /\ \A j \in Ids \ {id} : inst'[j] = inst[j]
              /\ inst'[id].st = inst[id].st /\ inst'[id].cold = inst[id].cold
              /\ inst'[id].idx = inst[id].idx /\ inst'[id].slot = inst[id].slot
Turned(id) == /\ UNCHANGED ev
              /\ \A j \in Ids \ {id} : vm'[j] = vm[j]
              /\ Alive(id)' <=> Alive(id)
              /\ vm'[id].slot = vm[id].slot

LEMMA MarkStep ==
  ASSUME Types, Claims, SlotsHeld, Moored, NEW c \in Callers, NEW id \in Ids,
         \A d \in Callers \ {c} : Still(d), calls[c].id \in {0, id}, calls'[c].id \in {0, id}, Turn(c, id),
         Marked(id), Turned(id), UNCHANGED <<disk, rootfs, netns>>,
         ~Carries(calls[c]), ~Stopping(calls[c]),
         calls'[c].op # "none" => Equipped(calls[c])'
  PROVE  Moored'
<1>1. Touches(c, id)
  BY DEF Touches, Marked, Turned
<1>2. Live(id) /\ Stood(id) => Upright(inst'[id]) /\ inst'[id].idx = inst[id].idx /\ inst'[id].slot = inst[id].slot
  BY DEF Stood, Upright, Marked
<1> QED
  BY <1>1, <1>2, TameStep DEF Turned

LEMMA DestroyMoors ==
  ASSUME Types, Claims, SlotsHeld, Moored, NEW c \in Callers, NEW op \in {"destroy", "reap"}, NEW id \in Ids, Destroy(c, op, id)
  PROVE  Moored'
<1> DEFINE q == [NoCall EXCEPT !.op = op, !.pc = "wait", !.id = id]
<1>1. q.op = op /\ q.pc = "wait" /\ q.id = id
  BY DEF NoCall
<1>2. calls[c] = NoCall /\ calls' = [calls EXCEPT ![c] = q] /\ UNCHANGED <<inst, disk, rootfs, netns, vm, ev>>
  BY DEF Destroy, drv, net, eng
<1> HIDE DEF q
<1>3. (\A d \in Callers \ {c} : Still(d)) /\ calls'[c] = q /\ calls[c].id = 0 /\ ~Carries(calls[c]) /\ ~Stopping(calls[c])
  BY <1>2, BeginsIs
<1>4. Equipped(calls[c])'
  BY <1>1, <1>3 DEF Equipped, Bare, Carries, Giving
<1>5. Turn(c, id)
  BY <1>1, <1>3 DEF Turn, Takes
<1> QED
  BY <1>1, <1>2, <1>3, <1>4, <1>5, MarkStep DEF Marked, Turned, Alive

LEMMA InspectMoors ==
  ASSUME Types, Claims, SlotsHeld, Moored, NEW c \in Callers, NEW op \in {"inspect", "status"}, NEW id \in Ids, NEW gen, Inspect(c, op, id, gen)
  PROVE  Moored'
<1> DEFINE q == [NoCall EXCEPT !.op = op, !.pc = "ask", !.id = id, !.gen = gen, !.fresh = TRUE]
<1>1. q.op = op /\ q.pc = "ask" /\ q.id = id
  BY DEF NoCall
<1>2. calls[c] = NoCall /\ calls' = [calls EXCEPT ![c] = q] /\ UNCHANGED <<inst, disk, rootfs, netns, vm, ev>>
  BY DEF Inspect, drv, net, eng
<1> HIDE DEF q
<1>3. (\A d \in Callers \ {c} : Still(d)) /\ calls'[c] = q /\ calls[c].id = 0 /\ ~Carries(calls[c]) /\ ~Stopping(calls[c])
  BY <1>2, BeginsIs
<1>4. Equipped(calls[c])'
  BY <1>1, <1>3 DEF Equipped, Bare, Carries, Giving
<1>5. Turn(c, id)
  BY <1>1, <1>3 DEF Turn, Takes
<1> QED
  BY <1>1, <1>2, <1>3, <1>4, <1>5, MarkStep DEF Marked, Turned, Alive

LEMMA MayIssueTurn ==
  ASSUME Types, NEW c \in Callers, NEW id \in Ids, NEW op, MayIssue(op, id)
  PROVE  Turn(c, id)
<1>1. \A d \in Callers : calls[d].id = id => ~Takes(calls[d])
  BY DEF MayIssue, Issued, Takes
<1> QED
  BY <1>1 DEF Turn

LEMMA SuspendMoors ==
  ASSUME Types, Claims, SlotsHeld, Moored, NEW c \in Callers, NEW cold \in BOOLEAN, NEW id \in Ids, Suspend(c, id, cold)
  PROVE  Moored'
<1> DEFINE q == [NoCall EXCEPT !.op = "suspend", !.pc = IF cold /\ setup.ckpt THEN "stream" ELSE "stop",
                               !.id = id, !.cold = cold, !.gen = inst[id].ck + 1, !.owed = ws[SessionOf(id)]]
<1>1. q.op = "suspend" /\ q.pc \in {"stream", "stop"} /\ q.id = id
  BY DEF NoCall
<1>2. /\ calls[c] = NoCall /\ calls' = [calls EXCEPT ![c] = q] /\ UNCHANGED <<disk, rootfs, netns, vm, ev>>
      /\ inst' = inst \/ inst' = [inst EXCEPT ![id].checkpointing = TRUE]
  BY DEF Suspend, net, eng
<1> HIDE DEF q
<1>3. (\A d \in Callers \ {c} : Still(d)) /\ calls'[c] = q /\ calls[c].id = 0 /\ ~Carries(calls[c]) /\ ~Stopping(calls[c])
  BY <1>2, BeginsIs
<1>4. Equipped(calls[c])'
  BY <1>1, <1>3 DEF Equipped, Bare, Carries, Giving
<1>5. Turn(c, id)
  BY MayIssueTurn DEF Suspend
<1>6. Marked(id)
  BY <1>2 DEF Marked, Types, RecordsFine, Instances
<1> QED
  BY <1>1, <1>2, <1>3, <1>4, <1>5, <1>6, MarkStep DEF Turned, Alive

LEMMA SnapshotMoors ==
  ASSUME Types, Claims, SlotsHeld, Moored, NEW c \in Callers, NEW id \in Ids, Snapshot(c, id)
  PROVE  Moored'
<1> DEFINE q == [NoCall EXCEPT !.op = "snapshot", !.pc = "freeze", !.id = id]
<1>1. q.op = "snapshot" /\ q.pc = "freeze" /\ q.id = id
  BY DEF NoCall
<1>2. /\ calls[c] = NoCall /\ calls' = [calls EXCEPT ![c] = q] /\ UNCHANGED <<disk, rootfs, netns, vm, ev>>
      /\ inst' = [inst EXCEPT ![id].snapshotting = TRUE]
  BY DEF Snapshot, net, eng
<1> HIDE DEF q
<1>3. (\A d \in Callers \ {c} : Still(d)) /\ calls'[c] = q /\ calls[c].id = 0 /\ ~Carries(calls[c]) /\ ~Stopping(calls[c])
  BY <1>2, BeginsIs
<1>4. Equipped(calls[c])'
  BY <1>1, <1>3 DEF Equipped, Bare, Carries, Giving
<1>5. Turn(c, id)
  BY MayIssueTurn DEF Snapshot
<1>6. Marked(id)
  BY <1>2 DEF Marked, Types, RecordsFine, Instances
<1> QED
  BY <1>1, <1>2, <1>3, <1>4, <1>5, <1>6, MarkStep DEF Turned, Alive

--------------------
\* Steps that only mark a record, or turn a machine.

LEMMA MarkedIs ==
  ASSUME RecordsFine, NEW id \in Ids, NEW b,
         \/ inst' = inst \/ inst' = Unclaimed(id)
         \/ inst' = [inst EXCEPT ![id].resuming = b] \/ inst' = [inst EXCEPT ![id].snapshotting = b]
  PROVE  Marked(id)
<1>1. inst \in [Ids -> Instances]
  BY DEF RecordsFine
<1>2. CASE inst' = inst
  BY <1>2 DEF Marked
<1>3. CASE inst' = [inst EXCEPT ![id].checkpointing = FALSE]
  BY <1>1, <1>3 DEF Marked, Instances
<1>4. CASE inst' = [inst EXCEPT ![id].resuming = b]
  BY <1>1, <1>4 DEF Marked, Instances
<1>5. CASE inst' = [inst EXCEPT ![id].snapshotting = b]
  BY <1>1, <1>5 DEF Marked, Instances
<1> QED
  BY <1>2, <1>3, <1>4, <1>5 DEF Unclaimed

LEMMA TurnedIs ==
  ASSUME EngineFine, NEW id \in Ids, UNCHANGED ev,
         vm' = vm \/ (vm[id].st \in {"running", "paused"} /\ \E s \in {"running", "paused"} : vm' = [vm EXCEPT ![id].st = s])
  PROVE  Turned(id)
<1>1. vm \in [Ids -> Machines]
  BY DEF EngineFine
<1>2. CASE vm' = vm
  BY <1>2 DEF Turned, Alive
<1>3. ASSUME NEW s \in {"running", "paused"}, vm[id].st \in {"running", "paused"}, vm' = [vm EXCEPT ![id].st = s] PROVE Turned(id)
  <2>1. vm'[id].st = s /\ vm'[id].slot = vm[id].slot /\ \A j \in Ids \ {id} : vm'[j] = vm[j]
    BY <1>1, <1>3 DEF Machines
  <2>2. vm[id] # NoVM /\ vm'[id] # NoVM
    BY <1>3, <2>1 DEF NoVM
  <2> QED
    BY <1>3, <2>1, <2>2 DEF Turned, Alive
<1> QED
  BY <1>2, <1>3

LEMMA StreamWorkspaceMoors ==
  ASSUME Types, Claims, SlotsHeld, Moored, NEW c \in Callers, StreamWorkspace(c)
  PROVE  Moored'
<1>1. calls[c].pc = "stream" /\ calls[c].op = "suspend"
  BY DEF StreamWorkspace, At
<1>2. PICK id \in Ids : About(c, id)
  BY <1>1, AboutIs
<1>3. UNCHANGED <<disk, rootfs, netns, vm, ev>> /\ (inst' = inst \/ inst' = Unclaimed(id))
  BY <1>2 DEF StreamWorkspace, net, eng, About, Id
<1>4. Marked(id)
  BY <1>3, MarkedIs DEF Types
<1>5. Turned(id)
  BY <1>3 DEF Turned, Alive
<1>6. /\ \A d \in Callers \ {c} : Still(d)
      /\ calls'[c].op \in {"none", "suspend"} /\ calls'[c].id \in {0, id} /\ (calls'[c].op # "none" => calls'[c].pc = "record")
  <2>1. CASE calls' = Returned(c)
    <3>1. Ends(c)
      BY <2>1, ReturnsEnds DEF Types
    <3> QED
      BY <3>1 DEF Ends
  <2>2. ASSUME NEW g, calls' = [calls EXCEPT ![c] = [@ EXCEPT !.pc = "record", !.gen = g]] PROVE (\A d \in Callers \ {c} : Still(d)) /\ calls'[c].op = "suspend" /\ calls'[c].id = id /\ calls'[c].pc = "record"
    <3> DEFINE r == [calls[c] EXCEPT !.pc = "record", !.gen = g]
    <3>1. (\A d \in Callers \ {c} : Still(d)) /\ calls'[c] = r
      BY <1>2, <2>2 DEF About, Still
    <3>2. r.pc = "record" /\ r.op = calls[c].op /\ r.id = calls[c].id
      BY <1>2 DEF About, CallType
    <3> QED
      BY <1>1, <1>2, <3>1, <3>2 DEF About
  <2> QED
    BY <2>1, <2>2 DEF StreamWorkspace
<1>7. calls'[c].op # "none" => Equipped(calls[c])'
  BY <1>6 DEF Equipped, Bare, Carries, Giving
<1>8. Turn(c, id)
  BY <1>1, <1>2, <1>6, TurnKept DEF About
<1> QED
  BY <1>1, <1>2, <1>3, <1>4, <1>5, <1>6, <1>7, <1>8, MarkStep DEF About, Carries, Stopping

\* the call goes on, or ends, to a place where it relies on nothing
LEMMA MarkOnward ==
  ASSUME Types, Claims, SlotsHeld, Moored, NEW c \in Callers, NEW id \in Ids, About(c, id),
         NEW pc, Onward(c, pc, calls[c].slot) \/ Ends(c),
         Marked(id), Turned(id), UNCHANGED <<disk, rootfs, netns>>,
         ~Carries(calls[c]), ~Stopping(calls[c]),
         Onward(c, pc, calls[c].slot) => Equipped(calls[c])'
  PROVE  Moored'
<1>1. calls[c].id = id /\ (\A d \in Callers \ {c} : Still(d)) /\ calls'[c].id \in {0, id} /\ calls'[c].op \in {"none", calls[c].op}
  BY DEF Onward, Ends, About
<1>2. Turn(c, id)
  BY <1>1, TurnKept
<1>3. calls'[c].op # "none" => Equipped(calls[c])'
  BY DEF Ends
<1> QED
  BY <1>1, <1>2, <1>3, MarkStep

LEMMA VerifyMoors ==
  ASSUME Types, Claims, SlotsHeld, Moored, NEW c \in Callers, Verify(c)
  PROVE  Moored'
<1>1. calls[c].pc = "verify" /\ calls[c].op = "suspend"
  BY DEF Verify, At
<1>2. PICK id \in Ids : About(c, id)
  BY <1>1, AboutIs
<1>3. UNCHANGED <<disk, rootfs, netns, vm, ev>> /\ inst' = Unclaimed(id)
  BY <1>2 DEF Verify, net, eng, About, Id
<1>4. Marked(id) /\ Turned(id)
  BY <1>3, MarkedIs DEF Types, Turned, Alive
<1>5. Onward(c, "stop", calls[c].slot) \/ Ends(c)
  BY GoesOnward, ReturnsEnds DEF Types, Verify
<1>6. Onward(c, "stop", calls[c].slot) => Equipped(calls[c])'
  BY <1>1 DEF Onward, Equipped, Bare, Carries, Giving
<1> QED
  BY <1>1, <1>2, <1>3, <1>4, <1>5, <1>6, MarkOnward DEF Carries, Stopping

LEMMA EndSnapshotMoors ==
  ASSUME Types, Claims, SlotsHeld, Moored, NEW c \in Callers, EndSnapshot(c)
  PROVE  Moored'
<1>1. calls[c].pc = "end" /\ calls[c].op = "snapshot"
  BY DEF EndSnapshot, At
<1>2. PICK id \in Ids : About(c, id)
  BY <1>1, AboutIs
<1>3. UNCHANGED <<disk, rootfs, netns, vm, ev>> /\ (inst' = inst \/ inst' = [inst EXCEPT ![id].snapshotting = FALSE])
  BY <1>2 DEF EndSnapshot, net, eng, About, Id
<1>4. Marked(id) /\ Turned(id)
  BY <1>3, MarkedIs DEF Types, Turned, Alive
<1>5. Ends(c)
  BY ReturnsEnds DEF Types, EndSnapshot
<1>6. Onward(c, "none", calls[c].slot) => Equipped(calls[c])'
  BY <1>1, <1>2, <1>5 DEF Onward, Ends, About
<1> QED
  BY <1>1, <1>2, <1>3, <1>4, <1>5, <1>6, MarkOnward DEF Carries, Stopping

LEMMA EndResumeMoors ==
  ASSUME Types, Claims, SlotsHeld, Moored, NEW c \in Callers, EndResume(c)
  PROVE  Moored'
<1>1. calls[c].pc = "end" /\ calls[c].op = "resume"
  BY DEF EndResume, At
<1>2. PICK id \in Ids : About(c, id)
  BY <1>1, AboutIs
<1>3. UNCHANGED <<disk, rootfs, netns, vm, ev>> /\ inst' = [inst EXCEPT ![id].resuming = FALSE]
  BY <1>2 DEF EndResume, net, eng, About, Id
<1>4. Marked(id) /\ Turned(id)
  BY <1>3, MarkedIs DEF Types, Turned, Alive
<1>5. Ends(c)
  BY ReturnsEnds DEF Types, EndResume
<1>6. Onward(c, "none", calls[c].slot) => Equipped(calls[c])'
  BY <1>1, <1>2, <1>5 DEF Onward, Ends, About
<1> QED
  BY <1>1, <1>2, <1>3, <1>4, <1>5, <1>6, MarkOnward DEF Carries, Stopping

LEMMA ThawVMMoors ==
  ASSUME Types, Claims, SlotsHeld, Moored, NEW c \in Callers, ThawVM(c)
  PROVE  Moored'
<1>1. calls[c].pc = "thaw" /\ calls[c].op = "resume"
  BY DEF ThawVM, At
<1>2. PICK id \in Ids : About(c, id)
  BY <1>1, AboutIs
<1>3. ~calls[c].cold
  BY <1>1, <1>2 DEF About, Stands
<1>4. Marked(id) /\ UNCHANGED <<disk, rootfs, netns>>
  BY DEF ThawVM, drv, net, Marked
<1>5. Turned(id)
  <2>1. UNCHANGED ev /\ (vm' = vm \/ (vm[id].st = "paused" /\ vm' = [vm EXCEPT ![id].st = "running"]))
    BY <1>2 DEF ThawVM, About, Id
  <2> QED
    BY <2>1, TurnedIs DEF Types
<1>6. PICK pc \in {"publish", "end"} : Onward(c, pc, calls[c].slot)
  BY GoesOnward DEF Types, ThawVM
<1>7. Equipped(calls[c])'
  BY <1>1, <1>3, <1>6 DEF Onward, Equipped, Bare, Carries, Giving
<1> QED
  BY <1>1, <1>2, <1>4, <1>5, <1>6, <1>7, MarkOnward DEF Carries, Stopping

LEMMA FreezeVMMoors ==
  ASSUME Types, Claims, SlotsHeld, Moored, NEW c \in Callers, FreezeVM(c)
  PROVE  Moored'
<1>1. calls[c].pc = "freeze" /\ calls[c].op = "snapshot"
  BY DEF FreezeVM, At
<1>2. PICK id \in Ids : About(c, id)
  BY <1>1, AboutIs
<1>3. Marked(id) /\ UNCHANGED <<disk, rootfs, netns>>
  BY DEF FreezeVM, drv, net, Marked
<1>4. Turned(id)
  <2>1. UNCHANGED ev /\ (vm' = vm \/ (vm[id].st = "running" /\ vm' = [vm EXCEPT ![id].st = "paused"]))
    BY <1>2 DEF FreezeVM, About, Id
  <2> QED
    BY <2>1, TurnedIs DEF Types
<1>5. PICK pc \in {"copy", "end"} : Onward(c, pc, calls[c].slot)
  BY GoesOnward DEF Types, FreezeVM
<1>6. Equipped(calls[c])'
  BY <1>1, <1>5 DEF Onward, Equipped, Bare, Carries, Giving
<1> QED
  BY <1>1, <1>2, <1>3, <1>4, <1>5, <1>6, MarkOnward DEF Carries, Stopping

LEMMA UnfreezeVMMoors ==
  ASSUME Types, Claims, SlotsHeld, Moored, NEW c \in Callers, UnfreezeVM(c)
  PROVE  Moored'
<1>1. calls[c].pc = "unfreeze" /\ calls[c].op = "snapshot"
  BY DEF UnfreezeVM, At
<1>2. PICK id \in Ids : About(c, id)
  BY <1>1, AboutIs
<1>3. Marked(id) /\ UNCHANGED <<disk, rootfs, netns>>
  BY DEF UnfreezeVM, drv, net, Marked
<1>4. Turned(id)
  <2>1. UNCHANGED ev /\ (vm' = vm \/ (vm[id].st = "paused" /\ vm' = [vm EXCEPT ![id].st = "running"]))
    BY <1>2 DEF UnfreezeVM, About, Id
  <2> QED
    BY <2>1, TurnedIs DEF Types
<1>5. Onward(c, "end", calls[c].slot)
  BY GoesOnward DEF Types, UnfreezeVM
<1>6. Equipped(calls[c])'
  BY <1>1, <1>5 DEF Onward, Equipped, Bare, Carries, Giving
<1> QED
  BY <1>1, <1>2, <1>3, <1>4, <1>5, <1>6, MarkOnward DEF Carries, Stopping

--------------------
\* Suspend.

Recorded(c, pc, slot, rec) ==
    /\ \A d \in Callers \ {c} : Still(d)
    /\ calls'[c].op = calls[c].op /\ calls'[c].pc = pc /\ calls'[c].id = calls[c].id /\ calls'[c].slot = slot
    /\ calls'[c].cold = calls[c].cold /\ calls'[c].rec = rec

LEMMA RecordsOnward ==
  ASSUME CallsFine, NEW c \in Callers, NEW pc, NEW slot, NEW rec, NEW id,
         calls' = Bumped([calls EXCEPT ![c] = [calls[c] EXCEPT !.pc = pc, !.slot = slot, !.rec = rec]], id)
  PROVE  Recorded(c, pc, slot, rec)
<1> DEFINE r == [calls[c] EXCEPT !.pc = pc, !.slot = slot, !.rec = rec]
<1>1. calls[c] \in CallType
  BY DEF CallsFine
<1>2. (\A d \in Callers \ {c} : Still(d)) /\ (calls'[c] = r \/ calls'[c] = [r EXCEPT !.fresh = FALSE])
  <2> HIDE DEF r
  <2> QED
    BY StillIs DEF r
<1>3. r.op = calls[c].op /\ r.pc = pc /\ r.id = calls[c].id /\ r.slot = slot /\ r.cold = calls[c].cold /\ r.rec = rec
  BY <1>1 DEF CallType
<1>4. calls'[c] = [r EXCEPT !.fresh = FALSE] => calls'[c].op = r.op /\ calls'[c].pc = r.pc /\ calls'[c].id = r.id
                                               /\ calls'[c].slot = r.slot /\ calls'[c].cold = r.cold /\ calls'[c].rec = r.rec
  BY <1>1 DEF CallType
<1> HIDE DEF r
<1> QED
  BY <1>2, <1>3, <1>4 DEF Recorded

\* with no launch in flight it is the record in memory that answers for the VM
LEMMA StandsAlone ==
  ASSUME Types, Claims, Moored, NEW c \in Callers, NEW id \in Ids, NoLaunch(c, id),
         calls[c].id = id => ~Carries(calls[c]), Live(id)
  PROVE  Stood(id) /\ Anchored(id) /\ ~Carried(id)
<1>1. Anchored(id)
  BY DEF Moored
<1>2. ~Carried(id)
  BY DEF Carried, Carries, NoLaunch
<1> QED
  BY <1>1, <1>2 DEF Anchored, Kept

LEMMA RecordCheckpointMoors ==
  ASSUME Types, Claims, SlotsHeld, Moored, NEW c \in Callers, RecordCheckpoint(c)
  PROVE  Moored'
<1>1. calls[c].pc = "record" /\ calls[c].op = "suspend"
  BY DEF RecordCheckpoint, At
<1>2. PICK id \in Ids : About(c, id)
  BY <1>1, AboutIs
<1>3. UNCHANGED <<disk, rootfs, netns, vm, ev>> /\ Turned(id)
  BY DEF RecordCheckpoint, net, eng, Turned, Alive
<1>4. CASE calls' = Returned(c) /\ UNCHANGED inst
  <2>1. Ends(c)
    BY <1>4, ReturnsEnds DEF Types
  <2> QED
    BY <1>1, <1>2, <1>3, <1>4, <2>1, MarkOnward DEF Marked, Ends, About, Carries, Stopping, Onward
<1>5. ASSUME NEW r, r = [inst[id] EXCEPT !.ck = calls[c].gen], inst' = [inst EXCEPT ![id] = r],
             calls' = Bumped([calls EXCEPT ![c] = [@ EXCEPT !.pc = "recorded", !.rec = Persistable(r)]], id)
      PROVE  Moored'
  <2>1. calls[c] \in CallType /\ inst[id] \in Instances /\ calls[c].gen \in 0 .. MaxCheckpoint
    BY <1>1, <1>2, Numbers DEF About, Stands, Generations
  <2>2. r \in Instances /\ r.st = inst[id].st /\ r.cold = inst[id].cold /\ r.idx = inst[id].idx /\ r.slot = inst[id].slot
    BY <1>5, <2>1 DEF Instances
  <2>3. Marked(id)
    BY <1>2, <1>5, <2>2 DEF Marked, About
  <2>4. Recorded(c, "recorded", calls[c].slot, Persistable(r))
    <3>1. [calls[c] EXCEPT !.pc = "recorded", !.rec = Persistable(r)]
            = [calls[c] EXCEPT !.pc = "recorded", !.slot = calls[c].slot, !.rec = Persistable(r)]
      BY <2>1 DEF CallType
    <3> QED
      BY <1>5, <3>1, RecordsOnward DEF Types
  <2>5. NoLaunch(c, id)
    BY <1>1, <1>2, NoLaunchIs DEF About
  <2>6. Live(id) => Upright(Persistable(r)) /\ Persistable(r).idx = disk[id].idx
    <3> SUFFICES ASSUME Live(id) PROVE Upright(Persistable(r)) /\ Persistable(r).idx = disk[id].idx
      OBVIOUS
    <3>1. Stood(id)
      BY <1>1, <2>5, StandsAlone DEF Carries
    <3> QED
      BY <2>2, <3>1, Persisted DEF Stood, Upright
  <2>7. Equipped(calls[c])'
    BY <1>1, <1>2, <1>3, <2>4, <2>6 DEF Recorded, About, Equipped, Bare, Carries, Giving, Live, Alive
  <2>8. Turn(c, id)
    BY <1>2, <2>4, TurnKept DEF Recorded, About
  <2> QED
    BY <1>1, <1>2, <1>3, <2>3, <2>4, <2>7, <2>8, MarkStep DEF Recorded, About, Carries, Stopping
<1> QED
  BY <1>2, <1>4, <1>5 DEF RecordCheckpoint, About, Id

\* the copy of the record a call has made is written
LEMMA WritesRecord ==
  ASSUME Types, Claims, SlotsHeld, Moored, NEW c \in Callers, NEW id \in Ids, About(c, id),
         calls[c].pc \in {"save", "recorded"}, calls[c].op \in {"suspend", "resume"},
         \A d \in Callers \ {c} : Still(d), calls'[c].id \in {0, id}, calls'[c].op \in {"none", calls[c].op},
         Marked(id), UNCHANGED eng, UNCHANGED <<rootfs, netns>>,
         disk' = disk \/ disk' = [disk EXCEPT ![id] = calls[c].rec],
         calls'[c].op # "none" => Equipped(calls[c])'
  PROVE  Moored'
<1>1. UNCHANGED <<vm, ev>> /\ calls[c].id = id
  BY DEF eng, About
<1>2. Touches(c, id)
  BY <1>1 DEF Touches, About, Marked
<1>3. Turn(c, id)
  BY <1>1, TurnKept
<1>4. (Live(id)' <=> Live(id)) /\ Evident(id)' /\ (Alive(id)' <=> Alive(id))
  BY <1>1 DEF Live, Alive, Evident, About
<1>5. NoLaunch(c, id)
  BY <1>1, NoLaunchIs
<1>6. ASSUME Live(id)
      PROVE  /\ disk'[id].idx = disk[id].idx /\ Upright(disk'[id])
             /\ Kept(id)' /\ (Carried(id) => Carried(id)') /\ id \in rootfs'
  <2>1. Anchored(id)
    BY <1>6 DEF Moored
  <2>2. Upright(calls[c].rec) /\ calls[c].rec.idx = disk[id].idx
    BY <1>1, <1>6 DEF About, Equipped
  <2>3. disk'[id].idx = disk[id].idx /\ Upright(disk'[id])
    BY <2>1, <2>2 DEF About, Anchored
  <2>4. Stood(id) => Upright(inst'[id]) /\ inst'[id].idx = inst[id].idx /\ inst'[id].slot = inst[id].slot
    BY DEF Stood, Upright, Marked
  <2>5. ~Carries(calls[c]) /\ ~Stopping(calls[c])
    BY DEF Carries, Stopping
  <2>6. (Kept(id) => Kept(id)') /\ (Carried(id) => Carried(id)')
    BY <1>2, <2>3, <2>4, <2>5, KeptStays
  <2> QED
    BY <2>1, <2>3, <2>6 DEF Anchored
<1> QED
  BY <1>1, <1>2, <1>3, <1>4, <1>5, <1>6, HandStep

LEMMA CheckpointSavedMoors ==
  ASSUME Types, Claims, SlotsHeld, Moored, NEW c \in Callers, CheckpointSaved(c)
  PROVE  Moored'
<1>1. calls[c].pc = "recorded" /\ calls[c].op = "suspend"
  BY DEF CheckpointSaved, At
<1>2. PICK id \in Ids : About(c, id)
  BY <1>1, AboutIs
<1>3. /\ UNCHANGED <<rootfs, netns>> /\ UNCHANGED eng /\ (inst' = inst \/ inst' = Unclaimed(id))
      /\ disk' = disk \/ disk' = [disk EXCEPT ![id] = calls[c].rec]
  BY <1>2 DEF CheckpointSaved, net, About, Id
<1>4. Marked(id)
  BY <1>3, MarkedIs DEF Types
<1>5. Onward(c, "verify", calls[c].slot) \/ Ends(c)
  BY GoesOnward, ReturnsEnds DEF Types, CheckpointSaved
<1>6. calls'[c].op # "none" => Equipped(calls[c])'
  BY <1>1, <1>5 DEF Onward, Ends, Equipped, Bare, Carries, Giving
<1> QED
  BY <1>1, <1>2, <1>3, <1>4, <1>5, <1>6, WritesRecord DEF Onward, Ends, About

LEMMA SaveRecordMoors ==
  ASSUME Types, Claims, SlotsHeld, Moored, NEW c \in Callers, SaveRecord(c)
  PROVE  Moored'
<1>1. calls[c].pc = "save"
  BY DEF SaveRecord
<1>2. PICK id \in Ids : About(c, id)
  BY <1>1, AboutIs
<1>3. calls[c].op \in {"suspend", "resume"}
  BY <1>1, <1>2 DEF About, Stands, CallType
<1>4. /\ UNCHANGED <<inst, rootfs, netns>> /\ UNCHANGED eng
      /\ disk' = disk \/ disk' = [disk EXCEPT ![id] = calls[c].rec]
  BY <1>2 DEF SaveRecord, net, drv, About, Id
<1>5. Marked(id)
  BY <1>4 DEF Marked
<1>6. (calls[c].op = "resume" /\ Onward(c, "end", calls[c].slot)) \/ Ends(c)
  BY GoesOnward, ReturnsEnds DEF Types, SaveRecord
<1>7. calls'[c].op # "none" => Equipped(calls[c])'
  BY <1>1, <1>6 DEF Onward, Ends, Equipped, Bare, Carries, Giving
<1> QED
  BY <1>1, <1>2, <1>3, <1>4, <1>5, <1>6, <1>7, WritesRecord DEF Onward, Ends, About

LEMMA GoneIs ==
  ASSUME EngineFine, NEW id \in Ids, Gone(id)
  PROVE  ~Live(id)' /\ \A j \in Ids \ {id} : vm'[j] = vm[j] /\ ev'[j] = ev[j]
<1>1. vm' = [vm EXCEPT ![id] = NoVM] /\ (ev' = [ev EXCEPT ![id] = "none"] \/ (ev' = ev /\ ev[id] = "full"))
  BY DEF Gone, Stopped, Littered
<1> QED
  BY <1>1 DEF EngineFine, Live, Alive

LEMMA SuspendVMMoors ==
  ASSUME Types, Claims, SlotsHeld, Moored, NEW c \in Callers, SuspendVM(c)
  PROVE  Moored'
<1>1. calls[c].pc = "stop" /\ calls[c].op = "suspend"
  BY DEF SuspendVM, At
<1>2. PICK id \in Ids : About(c, id)
  BY <1>1, AboutIs
<1>3. UNCHANGED <<inst, disk, rootfs, netns>> /\ Marked(id) /\ calls[c].id = id /\ Id(c) = id
  BY <1>2 DEF SuspendVM, drv, net, Marked, About, Id
<1>4. Onward(c, "park", calls[c].slot) \/ Ends(c)
  BY GoesOnward, ReturnsEnds DEF Types, SuspendVM
<1>5. CASE Gone(id)
  <2>1. ~Live(id)' /\ \A j \in Ids \ {id} : vm'[j] = vm[j] /\ ev'[j] = ev[j]
    BY <1>5, GoneIs DEF Types
  <2>2. Touches(c, id)
    BY <1>3, <1>4, <2>1 DEF Touches, Onward, Ends
  <2>3. Turn(c, id)
    BY <1>3, <1>4, TurnKept DEF Onward, Ends
  <2>4. NoLaunch(c, id)
    BY <1>1, <1>3, NoLaunchIs
  <2>5. calls'[c].op # "none" => calls'[c].id = id /\ Equipped(calls[c])'
    <3>1. CASE Ends(c)
      BY <3>1 DEF Ends
    <3>2. CASE Onward(c, "park", calls[c].slot)
      <4>1. ~Live(id)'
        BY <2>1
      <4>2. calls'[c].id = id /\ calls'[c].pc = "park" /\ calls'[c].op = "suspend"
        BY <1>1, <1>3, <3>2 DEF Onward
      <4> QED
        BY <4>1, <4>2 DEF Equipped, Carries, Live, Alive
    <3> QED
      BY <1>4, <3>1, <3>2
  <2> QED
    BY <1>3, <2>1, <2>2, <2>3, <2>4, <2>5, BareStep
<1>6. CASE UNCHANGED ev /\ (UNCHANGED vm \/ (vm[id].st = "running" /\ vm' = [vm EXCEPT ![id].st = "paused"])) /\ (Ends(c) \/ ~calls[c].cold)
  <2>1. Turned(id)
    BY <1>6, TurnedIs DEF Types
  <2>2. calls'[c].op # "none" => Equipped(calls[c])'
    BY <1>1, <1>4, <1>6 DEF Onward, Ends, Equipped, Bare, Carries, Giving
  <2>3. Turn(c, id)
    BY <1>3, <1>4, TurnKept DEF Onward, Ends
  <2> QED
    BY <1>1, <1>3, <1>4, <2>1, <2>2, <2>3, MarkStep DEF Carries, Stopping, Onward, Ends
<1>7. Gone(id) \/ (UNCHANGED ev /\ (UNCHANGED vm \/ (vm[id].st = "running" /\ vm' = [vm EXCEPT ![id].st = "paused"])) /\ (Ends(c) \/ ~calls[c].cold))
  <2>1. CASE calls[c].cold /\ (Stopped(id) \/ Littered(id))
    BY <2>1 DEF Gone
  <2>2. CASE calls[c].cold /\ Lingers(id) /\ calls' = Returned(c)
    BY <2>2, ReturnsEnds DEF Types, Lingers, eng
  <2>3. CASE ~calls[c].cold
    BY <1>3, <2>3 DEF SuspendVM, eng
  <2> QED
    BY <1>3, <2>1, <2>2, <2>3 DEF SuspendVM
<1> QED
  BY <1>5, <1>6, <1>7

LEMMA SuspendParkMoors ==
  ASSUME Types, Claims, SlotsHeld, Moored, NEW c \in Callers, SuspendPark(c)
  PROVE  Moored'
<1>1. calls[c].pc = "park" /\ calls[c].op = "suspend"
  BY DEF SuspendPark, At
<1>2. PICK id \in Ids : About(c, id)
  BY <1>1, AboutIs
<1>3. UNCHANGED <<disk, rootfs, netns, vm, ev>> /\ Turned(id) /\ calls[c].id = id /\ Id(c) = id /\ calls[c].cold \in BOOLEAN
  BY <1>2 DEF SuspendPark, net, eng, Turned, Alive, About, Id, CallType
<1>4. CASE calls' = Returned(c) /\ UNCHANGED inst
  <2>1. Ends(c)
    BY <1>4, ReturnsEnds DEF Types
  <2> QED
    BY <1>1, <1>2, <1>3, <1>4, <2>1, MarkOnward DEF Marked, Ends, About, Carries, Stopping, Onward
<1>5. ASSUME NEW r, r = Parked(inst[id], calls[c].cold), inst' = [inst EXCEPT ![id] = r],
             calls' = Bumped([calls EXCEPT ![c] = [@ EXCEPT !.pc = IF calls[c].cold THEN "discard" ELSE "save",
                                                            !.rec = Persistable(r), !.slot = inst[id].slot]], id)
      PROVE  Moored'
  <2> DEFINE pc == IF calls[c].cold THEN "discard" ELSE "save"
  <2>1. calls[c] \in CallType /\ inst[id] \in Instances /\ inst \in [Ids -> Instances]
    BY <1>2 DEF About
  <2>2. r \in Instances /\ (~calls[c].cold => r.idx = inst[id].idx /\ r.slot = inst[id].slot /\ Upright(r))
    <3>1. r \in Instances
      BY <1>3, <1>5, <2>1, ParkedIs
    <3>2. ~calls[c].cold => r = [inst[id] EXCEPT !.st = "suspended", !.cold = FALSE]
      BY <1>5 DEF Parked
    <3> QED
      BY <2>1, <3>1, <3>2 DEF Instances, Upright
  <2>3. Recorded(c, pc, inst[id].slot, Persistable(r))
    <3>1. [calls[c] EXCEPT !.pc = pc, !.rec = Persistable(r), !.slot = inst[id].slot]
            = [calls[c] EXCEPT !.pc = pc, !.slot = inst[id].slot, !.rec = Persistable(r)]
      BY <2>1 DEF CallType
    <3> QED
      BY <1>5, <3>1, RecordsOnward DEF Types
  <2> HIDE DEF pc
  <2>4. NoLaunch(c, id) /\ Turn(c, id)
    BY <1>1, <1>3, <2>3, NoLaunchIs, TurnKept DEF Recorded
  <2>5. Touches(c, id)
    BY <1>2, <1>3, <1>5, <2>1, <2>3 DEF Touches, Recorded
  <2>6. CASE calls[c].cold
    <3>1. ~Live(id)
      BY <1>1, <1>2, <1>3, <2>6 DEF About, Equipped, Bare
    <3>2. ~Live(id)'
      BY <1>3, <3>1 DEF Live, Alive
    <3>3. Equipped(calls[c])'
      BY <1>1, <1>3, <2>3, <2>6, <3>2 DEF pc, Recorded, Equipped, Carries, Live, Alive
    <3> QED
      BY <1>3, <2>4, <2>5, <3>2, <3>3, BareStep
  <2>7. CASE ~calls[c].cold
    <3>1. Live(id) => Upright(Persistable(r)) /\ Persistable(r).idx = disk[id].idx
      <4> SUFFICES ASSUME Live(id) PROVE Upright(Persistable(r)) /\ Persistable(r).idx = disk[id].idx
        OBVIOUS
      <4>1. Stood(id)
        BY <1>1, <2>4, StandsAlone DEF Carries
      <4> QED
        BY <2>2, <2>7, <4>1, Persisted DEF Stood, Upright
    <3>2. Equipped(calls[c])'
      BY <1>1, <1>3, <2>3, <2>7, <3>1 DEF pc, Recorded, Equipped, Bare, Carries, Live, Alive, Giving
    <3>3. Live(id) /\ Stood(id) => Upright(inst'[id]) /\ inst'[id].idx = inst[id].idx /\ inst'[id].slot = inst[id].slot
      BY <1>5, <2>1, <2>2, <2>7
    <3>4. (Alive(id)' <=> Alive(id)) /\ ~Carries(calls[c]) /\ ~Stopping(calls[c])
      BY <1>1, <1>3 DEF Alive, Carries, Stopping
    <3> QED
      BY <1>3, <2>4, <2>5, <3>2, <3>3, <3>4, TameStep
  <2> QED
    BY <2>6, <2>7
<1> QED
  BY <1>3, <1>4, <1>5 DEF SuspendPark

LEMMA SuspendDiscardMoors ==
  ASSUME Types, Claims, SlotsHeld, Moored, NEW c \in Callers, SuspendDiscard(c)
  PROVE  Moored'
<1>1. calls[c].pc = "discard" /\ calls[c].op = "suspend"
  BY DEF SuspendDiscard, At
<1>2. PICK id \in Ids : About(c, id)
  BY <1>1, AboutIs
<1>3. UNCHANGED <<inst, disk, netns, vm, ev>> /\ rootfs' = rootfs \ {id} /\ calls[c].id = id
  BY <1>2 DEF SuspendDiscard, drv, net, eng, About, Id
<1>4. Onward(c, IF calls[c].slot = 0 THEN "save" ELSE "release", calls[c].slot)
  BY ReleasesOnward DEF Types, SuspendDiscard
<1>5. ~Live(id)
  BY <1>1, <1>2 DEF About, Equipped, Bare
<1>6. ~Live(id)'
  BY <1>3, <1>5 DEF Live, Alive
<1>7. Equipped(calls[c])'
  BY <1>1, <1>3, <1>4, <1>6 DEF Onward, Equipped, Carries, Live, Alive
<1>8. Touches(c, id) /\ NoLaunch(c, id) /\ Turn(c, id)
  BY <1>1, <1>3, <1>4, NoLaunchIs, TurnKept DEF Touches, Onward
<1> QED
  BY <1>3, <1>6, <1>7, <1>8, BareStep

--------------------
\* A launch.

LEMMA SaveIntentMoors ==
  ASSUME Types, Claims, SlotsHeld, Moored, NEW c \in Callers, SaveIntent(c)
  PROVE  Moored'
<1>1. calls[c].pc = "intent"
  BY DEF SaveIntent
<1>2. PICK id \in Ids : About(c, id)
  BY <1>1, AboutIs
<1>3. /\ UNCHANGED <<inst, rootfs, netns, vm, ev>> /\ calls[c].id = id /\ calls[c].op \in {"create", "resume"}
      /\ disk' = disk \/ disk' = [disk EXCEPT ![id] = Intended(c)]
  BY <1>1, <1>2, Launching DEF SaveIntent, drv, net, eng, About, Id, Types
<1>4. ~Live(id)
  BY <1>1, <1>2, <1>3 DEF About, Equipped, Bare
<1>5. ~Live(id)'
  BY <1>3, <1>4 DEF Live, Alive
<1>6. (Onward(c, "launch", calls[c].slot) /\ disk' = [disk EXCEPT ![id] = Intended(c)]) \/ Onward(c, Undoing(c), calls[c].slot)
  BY <1>3, GoesOnward DEF Types, SaveIntent, Id
<1>7. Equipped(calls[c])'
  <2>1. CASE Onward(c, "launch", calls[c].slot) /\ disk' = [disk EXCEPT ![id] = Intended(c)]
    <3>1. Upright(disk'[id]) /\ disk'[id].idx = calls[c].slot
      BY <1>1, <1>2, <1>3, <2>1, IntendedIs DEF About, Upright
    <3> QED
      BY <1>1, <1>2, <1>3, <1>5, <2>1, <3>1 DEF About, Onward, Equipped, Carries, Live, Alive
  <2>2. CASE Onward(c, Undoing(c), calls[c].slot)
    BY <1>3, <1>5, <2>2 DEF Onward, Equipped, Carries, Live, Alive, Undoing
  <2> QED
    BY <1>6, <2>1, <2>2
<1>8. Touches(c, id) /\ NoLaunch(c, id) /\ Turn(c, id)
  BY <1>2, <1>3, <1>6, NoLaunchIs, TurnKept DEF Touches, Onward, About
<1> QED
  BY <1>5, <1>7, <1>8, BareStep

LEMMA LaunchVMMoors ==
  ASSUME Types, Claims, SlotsHeld, Moored, NEW c \in Callers, LaunchVM(c)
  PROVE  Moored'
<1>1. calls[c].pc = "launch"
  BY DEF LaunchVM
<1>2. PICK id \in Ids : About(c, id)
  BY <1>1, AboutIs
<1>3. /\ UNCHANGED <<inst, disk, rootfs, netns>> /\ calls[c].id = id /\ Id(c) = id /\ calls[c].op \in {"create", "resume"}
      /\ calls[c].op = "resume" => calls[c].cold
  BY <1>1, <1>2, Launching DEF LaunchVM, drv, net, About, Id, Types
<1>4. id \in rootfs /\ netns[calls[c].slot] = id /\ Upright(disk[id]) /\ disk[id].idx = calls[c].slot /\ ~Live(id) /\ calls[c].slot # 0
  BY <1>1, <1>2, <1>3 DEF About, Equipped, Bare, Stands
<1>5. NoLaunch(c, id)
  BY <1>3, NoLaunchIs
<1>6. CASE UNCHANGED eng /\ calls' = Goes(c, "refuse")
  <2>1. Onward(c, "refuse", calls[c].slot)
    BY <1>6, GoesOnward DEF Types
  <2>2. ~Live(id)'
    BY <1>4, <1>6 DEF Live, Alive, eng
  <2>3. Equipped(calls[c])'
    BY <1>3, <1>4, <2>1, <2>2 DEF Onward, Equipped, Carries, Live, Alive
  <2>4. Touches(c, id) /\ Turn(c, id)
    BY <1>3, <1>6, <2>1, TurnKept DEF Touches, Onward, eng
  <2> QED
    BY <1>5, <2>2, <2>3, <2>4, BareStep
<1>7. CASE /\ ev' = [ev EXCEPT ![id] = "marker"] /\ vm' = [vm EXCEPT ![id] = [st |-> "booting", slot |-> calls[c].slot]]
           /\ calls' = Goes(c, "boot")
  <2>1. Onward(c, "boot", calls[c].slot)
    BY <1>7, GoesOnward DEF Types
  <2>2. ev'[id] = "marker" /\ vm'[id] = [st |-> "booting", slot |-> calls[c].slot] /\ vm'[id].slot = calls[c].slot
    BY <1>2, <1>7 DEF About
  <2>3. Carries(calls[c])' /\ calls'[c].id = id /\ calls'[c].slot = disk'[id].idx
    BY <1>3, <1>4, <2>1 DEF Onward, Carries
  <2>4. Carried(id)' /\ Anchored(id)' /\ Evident(id)'
    BY <1>3, <1>4, <2>2, <2>3 DEF Carried, Anchored, Kept, Evident
  <2>5. Equipped(calls[c])'
    BY <1>3, <1>4, <2>1 DEF Onward, Equipped, Bare, Carries, Giving
  <2>6. Touches(c, id) /\ Turn(c, id)
    BY <1>2, <1>3, <1>7, <2>1, TurnKept DEF Touches, Onward, About
  <2>7. ASSUME NEW d \in Callers \ {c}, calls[d].id = id PROVE Equipped(calls[d])'
    <3>1. AllQuiet(c, id)
      BY <1>3, Numbers, Alone
    <3>2. Quiet(calls[d]) /\ Still(d)
      BY <2>1, <2>7, <3>1 DEF AllQuiet, Id, Onward
    <3>3. calls[c].op = "resume"
      BY <1>3, <2>7, Numbers DEF Claims, Id
    <3>4. ~Takes(calls[d])
      BY <1>3, <2>7, <3>3, Numbers DEF Moored, Takes
    <3>5. calls[d].op \in {"destroy", "reap", "inspect", "status"} /\ ~Torn(calls[d]) /\ Stands(calls[d])
      BY <2>7, <3>2, <3>4, Numbers DEF Quiet, Takes, Types, CallsFine, CallType, Stands
    <3>6. /\ ~Bare(calls[d]) /\ ~Carries(calls[d])
          /\ calls[d].pc \notin {"take", "build", "intent", "launch", "recorded", "save"}
      BY <3>5 DEF Bare, Torn, Carries, Stands, Giving
    <3> QED
      BY <2>4, <2>7, <3>2, <3>6 DEF Still, Equipped, Bare, Carries
  <2> QED
    BY <1>2, <2>4, <2>5, <2>6, <2>7, MooredStep
<1> QED
  BY <1>3, <1>6, <1>7 DEF LaunchVM

\* a call that answers for its VM is alone with it, and has its slot and its disk on record
LEMMA CarriesIs ==
  ASSUME Types, Claims, Moored, NEW c \in Callers, NEW id \in Ids, About(c, id), Carries(calls[c])
  PROVE  /\ id \in rootfs /\ netns[calls[c].slot] = id /\ Upright(disk[id]) /\ disk[id].idx = calls[c].slot /\ calls[c].slot # 0
         /\ NoLaunch(c, id) /\ calls[c].id = id /\ Id(c) = id /\ calls[c].op \in {"create", "resume"} /\ ~Stopping(calls[c]) /\ Carried(id)
<1>1. calls[c].id = id /\ calls[c].op \in {"create", "resume"}
  BY DEF About, Carries
<1>2. NoLaunch(c, id)
  BY <1>1, NoLaunchIs
<1>3. id \in rootfs /\ netns[calls[c].slot] = id /\ Upright(disk[id]) /\ disk[id].idx = calls[c].slot
  BY DEF About, Equipped
<1>4. calls[c].slot # 0
  BY DEF About, Stands, Carries
<1> QED
  BY <1>1, <1>2, <1>3, <1>4 DEF Id, Stopping, Carried

LEMMA BootVMMoors ==
  ASSUME Types, Claims, SlotsHeld, Moored, NEW c \in Callers, BootVM(c)
  PROVE  Moored'
<1>1. calls[c].pc = "boot"
  BY DEF BootVM
<1>2. PICK id \in Ids : About(c, id)
  BY <1>1, AboutIs
<1>3. UNCHANGED <<inst, disk, rootfs, netns>> /\ Carries(calls[c])
  BY <1>1, <1>2, Launching DEF BootVM, drv, net, About, Id, Types, Carries
<1>4. /\ id \in rootfs /\ netns[calls[c].slot] = id /\ Upright(disk[id]) /\ disk[id].idx = calls[c].slot
      /\ NoLaunch(c, id) /\ calls[c].id = id /\ Id(c) = id /\ calls[c].op \in {"create", "resume"} /\ ~Stopping(calls[c])
  BY <1>2, <1>3, CarriesIs
<1>5. PICK pc \in {"publish", "refuse"} : Onward(c, pc, calls[c].slot)
  BY GoesOnward DEF Types, BootVM
<1>6. Equipped(calls[c])' /\ Carries(calls[c])' /\ calls'[c].id = id
  BY <1>1, <1>3, <1>4, <1>5 DEF Onward, Equipped, Bare, Carries, Giving
<1>7. Turn(c, id)
  BY <1>4, <1>5, TurnKept DEF Onward
<1>8. CASE vm' = [vm EXCEPT ![id] = NoVM] /\ ev' = [ev EXCEPT ![id] = "none"]
  <2>1. ~Live(id)'
    BY <1>2, <1>8 DEF Live, Alive, About
  <2>2. Touches(c, id)
    BY <1>2, <1>3, <1>4, <1>5, <1>6, <1>8 DEF Touches, Onward, About
  <2> QED
    BY <1>4, <1>6, <1>7, <2>1, <2>2, BareStep
<1>9. CASE Alive(id) /\ (UNCHANGED eng \/ (vm' = [vm EXCEPT ![id].st = "running"] /\ ev' = [ev EXCEPT ![id] = "full"]))
  <2>1. /\ vm'[id].slot = vm[id].slot /\ Evident(id)' /\ (Live(id)' => Live(id))
        /\ \A j \in Ids \ {id} : vm'[j] = vm[j] /\ ev'[j] = ev[j]
    <3>1. CASE UNCHANGED eng
      BY <1>2, <1>9, <3>1 DEF eng, About, Live, Alive, Evident
    <3>2. CASE vm' = [vm EXCEPT ![id].st = "running"] /\ ev' = [ev EXCEPT ![id] = "full"]
      BY <1>2, <1>9, <3>2 DEF About, Live, Alive, Evident, Machines
    <3> QED
      BY <1>9, <3>1, <3>2
  <2>2. Touches(c, id)
    BY <1>3, <1>4, <1>5, <1>6, <2>1 DEF Touches, Onward
  <2>3. (Kept(id) => Kept(id)') /\ (Carried(id) => Carried(id)')
    BY <1>3, <1>4, <1>5, <1>6, <2>2, KeptStays DEF Stood, Onward
  <2>4. Carried(id)
    BY <1>2, <1>3, CarriesIs
  <2> QED
    BY <1>3, <1>4, <1>6, <1>7, <1>9, <2>1, <2>2, <2>3, <2>4, HandStep DEF Kept
<1> QED
  BY <1>4, <1>8, <1>9 DEF BootVM, eng

LEMMA RefuseMoors ==
  ASSUME Types, Claims, SlotsHeld, Moored, NEW c \in Callers, Refuse(c)
  PROVE  Moored'
<1>1. calls[c].pc = "refuse"
  BY DEF Refuse
<1>2. PICK id \in Ids : About(c, id)
  BY <1>1, AboutIs
<1>3. UNCHANGED <<rootfs, netns>> /\ Carries(calls[c])
  BY <1>1, <1>2, Launching DEF Refuse, net, About, Id, Types, Carries
<1>4. /\ id \in rootfs /\ netns[calls[c].slot] = id /\ Upright(disk[id]) /\ disk[id].idx = calls[c].slot
      /\ NoLaunch(c, id) /\ calls[c].id = id /\ Id(c) = id /\ calls[c].op \in {"create", "resume"} /\ ~Stopping(calls[c])
  BY <1>2, <1>3, CarriesIs
<1>5. CASE Gone(id) /\ calls' = Goes(c, Undoing(c)) /\ UNCHANGED <<inst, disk>>
  <2>1. ~Live(id)' /\ \A j \in Ids \ {id} : vm'[j] = vm[j] /\ ev'[j] = ev[j]
    BY <1>5, GoneIs DEF Types
  <2>2. Onward(c, Undoing(c), calls[c].slot)
    BY <1>5, GoesOnward DEF Types
  <2>3. Equipped(calls[c])'
    BY <1>4, <2>1, <2>2 DEF Onward, Equipped, Carries, Live, Alive, Undoing
  <2>4. Touches(c, id) /\ Turn(c, id)
    BY <1>3, <1>4, <1>5, <2>1, <2>2, TurnKept DEF Touches, Onward
  <2> QED
    BY <1>4, <2>1, <2>3, <2>4, BareStep
<1>6. CASE /\ UNCHANGED eng /\ inst' = [inst EXCEPT ![id] = Retained(c)] /\ disk' = [disk EXCEPT ![id] = Persistable(Retained(c))]
           /\ calls' = Bumped(IF calls[c].op = "create" THEN Returned(c) ELSE Goes(c, "end"), id)
  <2>1. /\ \A d \in Callers \ {c} : Still(d) /\ (calls[d].id = id => ~calls'[d].fresh)
        /\ \/ calls'[c].op = "none" /\ calls'[c].id = 0
           \/ calls'[c].op = calls[c].op /\ calls'[c].id = id /\ calls'[c].pc = "end"
    <3>1. CASE calls' = Bumped(Returned(c), id)
      <4>1. Ends(c)
        BY <3>1, ReturnsEnds, Numbers DEF Types
      <4>2. \A d \in Callers \ {c} : calls[d].id = id => ~calls'[d].fresh
        BY <3>1, BumpedIs DEF Types, Returned
      <4> QED
        BY <4>1, <4>2 DEF Ends
    <3>2. CASE calls' = Bumped(Goes(c, "end"), id)
      <4> DEFINE r == [calls[c] EXCEPT !.pc = "end"]
      <4>1. calls' = Bumped([calls EXCEPT ![c] = r], id) /\ r.op = calls[c].op /\ r.id = id /\ r.pc = "end"
        BY <1>2, <1>4, <3>2 DEF Goes, About, CallType
      <4>2. [r EXCEPT !.fresh = FALSE].op = r.op /\ [r EXCEPT !.fresh = FALSE].id = r.id /\ [r EXCEPT !.fresh = FALSE].pc = r.pc
        BY <1>2 DEF About, CallType
      <4> HIDE DEF r
      <4>3. \A d \in Callers \ {c} : Still(d) /\ (calls[d].id = id => ~calls'[d].fresh)
        BY <4>1, StillIs, BumpedIs DEF Types
      <4>4. calls'[c] = r \/ calls'[c] = [r EXCEPT !.fresh = FALSE]
        BY <4>1, StillIs DEF Types
      <4> QED
        BY <4>1, <4>2, <4>3, <4>4
    <3> QED
      BY <1>6, <3>1, <3>2
  <2>2. Retained(c) \in Instances /\ Upright(Retained(c)) /\ Retained(c).slot = calls[c].slot /\ Retained(c).idx = calls[c].slot
    BY <1>1, RetainedIs DEF InstOk, Upright
  <2>3. Upright(disk'[id]) /\ disk'[id].idx = disk[id].idx
    BY <1>2, <1>4, <1>6, <2>2, Persisted DEF About, Upright
  <2>4. Upright(inst'[id]) /\ inst'[id].slot = calls[c].slot /\ inst'[id].idx = calls[c].slot
    BY <1>2, <1>6, <2>2 DEF About
  <2>5. Kept(id)'
    BY <1>4, <2>3, <2>4 DEF Kept, Stood
  <2>6. Touches(c, id) /\ Turn(c, id)
    BY <1>2, <1>3, <1>4, <1>6, <2>1, TurnKept DEF Touches, About, eng
  <2>7. (Live(id)' <=> Live(id)) /\ Evident(id)' /\ (Alive(id)' <=> Alive(id)) /\ vm'[id].slot = vm[id].slot
    BY <1>2, <1>6 DEF eng, Live, Alive, Evident, About
  <2>8. calls'[c].op # "none" => Equipped(calls[c])'
    BY <1>4, <2>1 DEF Equipped, Bare, Carries, Giving
  <2> QED
    BY <1>3, <1>4, <2>1, <2>3, <2>5, <2>6, <2>7, <2>8, HandStep
<1> QED
  BY <1>4, <1>5, <1>6 DEF Refuse, Lingers

LEMMA CreatePublishMoors ==
  ASSUME Types, Claims, SlotsHeld, Moored, NEW c \in Callers, CreatePublish(c)
  PROVE  Moored'
<1>1. calls[c].pc = "publish" /\ calls[c].op = "create"
  BY DEF CreatePublish, At
<1>2. PICK id \in Ids : About(c, id)
  BY <1>1, AboutIs
<1>3. UNCHANGED <<inst, rootfs, netns, vm, ev>> /\ Carries(calls[c])
  BY <1>1 DEF CreatePublish, drv, net, eng, Carries
<1>4. /\ id \in rootfs /\ netns[calls[c].slot] = id /\ Upright(disk[id]) /\ disk[id].idx = calls[c].slot
      /\ NoLaunch(c, id) /\ calls[c].id = id /\ Id(c) = id /\ ~Stopping(calls[c]) /\ Carried(id)
  BY <1>2, <1>3, CarriesIs
<1>5. disk' = disk \/ disk' = [disk EXCEPT ![id] = [Intended(c) EXCEPT !.blocked = FALSE]]
  BY <1>4 DEF CreatePublish
<1>6. PICK pc \in {"commit", "refuse"} : Onward(c, pc, calls[c].slot)
  BY GoesOnward DEF Types, CreatePublish
<1>7. Upright(disk'[id]) /\ disk'[id].idx = disk[id].idx
  <2> DEFINE r == Intended(c)
  <2>1. r \in RecordType /\ Upright(r) /\ r.idx = calls[c].slot
    BY <1>1, IntendedIs DEF RecordOk, Upright
  <2> HIDE DEF r
  <2>2. Upright([r EXCEPT !.blocked = FALSE]) /\ [r EXCEPT !.blocked = FALSE].idx = r.idx
    BY <2>1 DEF RecordType, Upright
  <2> QED
    BY <1>2, <1>4, <1>5, <2>1, <2>2 DEF About, r
<1>8. Equipped(calls[c])' /\ Carries(calls[c])' /\ calls'[c].id = id
  BY <1>1, <1>3, <1>4, <1>6, <1>7 DEF Onward, Equipped, Bare, Carries, Giving
<1>9. Touches(c, id) /\ Turn(c, id)
  BY <1>2, <1>3, <1>4, <1>5, <1>6, TurnKept DEF Touches, Onward, About
<1>10. (Kept(id) => Kept(id)') /\ (Carried(id) => Carried(id)')
  BY <1>3, <1>4, <1>6, <1>7, <1>8, <1>9, KeptStays DEF Stood, Onward
<1>11. (Live(id)' <=> Live(id)) /\ Evident(id)' /\ (Alive(id)' <=> Alive(id)) /\ vm'[id].slot = vm[id].slot
  BY <1>2, <1>3 DEF Live, Alive, Evident, About
<1> QED
  BY <1>3, <1>4, <1>7, <1>8, <1>9, <1>10, <1>11, HandStep DEF Kept

LEMMA CommitSlotMoors ==
  ASSUME Types, Claims, SlotsHeld, Moored, NEW c \in Callers, CommitSlot(c)
  PROVE  Moored'
<1>1. calls[c].pc = "commit" /\ calls[c].op = "create"
  BY DEF CommitSlot, At
<1>2. PICK id \in Ids : About(c, id)
  BY <1>1, AboutIs
<1> DEFINE v == [NoInstance EXCEPT !.st = "running", !.idx = calls[c].slot, !.gen = calls[c].gen,
                                   !.slot = calls[c].slot, !.live = TRUE]
<1>3. UNCHANGED <<disk, rootfs, netns, vm, ev>> /\ Carries(calls[c]) /\ inst' = [inst EXCEPT ![id] = v]
  BY <1>1, <1>2 DEF CommitSlot, net, eng, Carries, About, Id
<1>4. /\ id \in rootfs /\ Upright(disk[id]) /\ disk[id].idx = calls[c].slot
      /\ NoLaunch(c, id) /\ calls[c].id = id /\ Id(c) = id
  BY <1>2, <1>3, CarriesIs
<1>5. Ends(c)
  BY ReturnsEnds DEF Types, CommitSlot
<1>6. v.st = "running" /\ v.cold = FALSE /\ v.idx = calls[c].slot /\ v.slot = calls[c].slot
  BY DEF NoInstance
<1> HIDE DEF v
<1>7. Kept(id)'
  BY <1>2, <1>3, <1>4, <1>6 DEF Kept, Stood, Upright, About
<1>8. Touches(c, id) /\ Turn(c, id)
  BY <1>2, <1>3, <1>4, <1>5, TurnKept DEF Touches, Ends, About
<1>9. \A d \in Callers \ {c} : calls[d].id # id
  BY <1>1, <1>4, Numbers DEF Claims, Id
<1>10. (Live(id)' <=> Live(id)) /\ Evident(id)' /\ (Alive(id)' <=> Alive(id))
  BY <1>2, <1>3 DEF Live, Alive, Evident, About
<1> QED
  BY <1>3, <1>4, <1>5, <1>7, <1>8, <1>9, <1>10, HandStep DEF Ends

LEMMA UnmakeMoors ==
  ASSUME Types, Claims, SlotsHeld, Moored, NEW c \in Callers, Unmake(c)
  PROVE  Moored'
<1>1. calls[c].pc = "unmake" /\ calls[c].op = "create"
  BY DEF Unmake, At
<1>2. PICK id \in Ids : About(c, id)
  BY <1>1, AboutIs
<1>3. /\ UNCHANGED <<inst, netns, vm>> /\ rootfs' = rootfs \ {id} /\ calls[c].id = id
      /\ disk' = [disk EXCEPT ![id] = NoRecord] /\ ev' = [ev EXCEPT ![id] = "none"]
  BY <1>2 DEF Unmake, drv, net, About, Id
<1>4. ~Live(id)
  BY <1>1, <1>2 DEF About, Equipped, Bare
<1>5. ~Live(id)'
  BY <1>2, <1>3, <1>4 DEF Live, Alive, About
<1>6. Ends(c)
  BY ReturnsEnds DEF Types, Unmake
<1>7. Touches(c, id) /\ NoLaunch(c, id) /\ Turn(c, id)
  BY <1>1, <1>2, <1>3, <1>6, NoLaunchIs, TurnKept DEF Touches, Ends, About
<1> QED
  BY <1>5, <1>6, <1>7, BareStep DEF Ends

LEMMA UndoMoors ==
  ASSUME Types, Claims, SlotsHeld, Moored, NEW c \in Callers, Undo(c)
  PROVE  Moored'
<1>1. calls[c].pc = "undo" /\ calls[c].op = "resume"
  BY DEF Undo, At
<1>2. PICK id \in Ids : About(c, id)
  BY <1>1, AboutIs
<1>3. /\ UNCHANGED <<inst, netns, vm, ev, rootfs>> /\ calls[c].id = id
      /\ disk' = disk \/ disk' = [disk EXCEPT ![id] = Persistable(inst[id])]
  BY <1>2 DEF Undo, drv, net, eng, About, Id
<1>4. ~Live(id)
  BY <1>1, <1>2 DEF About, Equipped, Bare
<1>5. ~Live(id)'
  BY <1>3, <1>4 DEF Live, Alive
<1>6. Onward(c, IF calls[c].slot = 0 THEN "unclone" ELSE "release", calls[c].slot)
  BY ReleasesOnward DEF Types, Undo
<1>7. Equipped(calls[c])'
  BY <1>1, <1>3, <1>5, <1>6 DEF Onward, Equipped, Carries, Live, Alive
<1>8. Touches(c, id) /\ NoLaunch(c, id) /\ Turn(c, id)
  BY <1>1, <1>2, <1>3, <1>6, NoLaunchIs, TurnKept DEF Touches, Onward, About
<1> QED
  BY <1>5, <1>7, <1>8, BareStep

LEMMA UncloneMoors ==
  ASSUME Types, Claims, SlotsHeld, Moored, NEW c \in Callers, Unclone(c)
  PROVE  Moored'
<1>1. calls[c].pc = "unclone" /\ calls[c].op = "resume"
  BY DEF Unclone, At
<1>2. PICK id \in Ids : About(c, id)
  BY <1>1, AboutIs
<1>3. UNCHANGED <<inst, disk, netns, vm, ev>> /\ calls[c].id = id /\ rootfs' = rootfs \ {id}
  BY <1>2 DEF Unclone, drv, net, eng, About, Id
<1>4. ~Live(id)
  BY <1>1, <1>2 DEF About, Equipped, Bare
<1>5. ~Live(id)'
  BY <1>3, <1>4 DEF Live, Alive
<1>6. Onward(c, "end", calls[c].slot)
  BY GoesOnward DEF Types, Unclone
<1>7. Equipped(calls[c])'
  BY <1>1, <1>3, <1>5, <1>6 DEF Onward, Equipped, Carries, Live, Alive
<1>8. Touches(c, id) /\ NoLaunch(c, id) /\ Turn(c, id)
  BY <1>1, <1>2, <1>3, <1>6, NoLaunchIs, TurnKept DEF Touches, Onward, About
<1> QED
  BY <1>5, <1>7, <1>8, BareStep

LEMMA PublishedUpright ==
  ASSUME Types, NEW c \in Callers, Id(c) \in Ids
  PROVE  /\ Published(c) \in Instances /\ Upright(Published(c)) /\ Upright(Persistable(Published(c)))
         /\ Published(c).slot = (IF calls[c].cold THEN calls[c].slot ELSE inst[Id(c)].slot)
         /\ Published(c).idx = (IF calls[c].cold THEN calls[c].slot ELSE inst[Id(c)].idx)
         /\ Persistable(Published(c)).idx = Published(c).idx
<1> DEFINE v == inst[Id(c)]
<1>1. v \in Instances /\ calls[c].slot \in 0 .. SlotCount
  BY CallFacts DEF Types, RecordsFine, CallType
<1>2. CASE calls[c].cold
  <2>1. Published(c) = [v EXCEPT !.st = "running", !.cold = FALSE, !.blocked = FALSE,
                                 !.live = TRUE, !.slot = calls[c].slot, !.idx = calls[c].slot]
    BY <1>2 DEF Published
  <2> HIDE DEF v
  <2>2. Published(c).idx = calls[c].slot
    BY <1>1, <2>1 DEF Instances
  <2> QED
    BY <1>2, <2>2, PublishedIs, Persisted DEF Types, Upright
<1>3. CASE ~calls[c].cold
  <2>1. Published(c) = [v EXCEPT !.st = "running", !.cold = FALSE, !.blocked = FALSE]
    BY <1>3 DEF Published
  <2>2. Published(c).idx = v.idx
    <3> HIDE DEF v
    <3> QED
      BY <1>1, <2>1 DEF Instances
  <2> QED
    BY <1>3, <2>2, PublishedIs, Persisted DEF Types, Upright
<1> QED
  BY <1>2, <1>3

LEMMA ResumePublishMoors ==
  ASSUME Types, Claims, SlotsHeld, Moored, NEW c \in Callers, ResumePublish(c)
  PROVE  Moored'
<1>1. calls[c].pc = "publish" /\ calls[c].op = "resume"
  BY DEF ResumePublish, At
<1>2. PICK id \in Ids : About(c, id)
  BY <1>1, AboutIs
<1> DEFINE v == Published(c)
<1>3. /\ UNCHANGED <<disk, rootfs, netns, vm, ev>> /\ inst' = [inst EXCEPT ![id] = v] /\ Id(c) = id /\ calls[c].id = id
      /\ calls' = Bumped([calls EXCEPT ![c] = [calls[c] EXCEPT !.pc = "save", !.slot = 0, !.rec = Persistable(v)]], id)
  BY <1>2 DEF ResumePublish, net, eng, About, Id, Published
<1>4. /\ v \in Instances /\ Upright(v) /\ Upright(Persistable(v)) /\ Persistable(v).idx = v.idx
      /\ v.slot = (IF calls[c].cold THEN calls[c].slot ELSE inst[id].slot)
      /\ v.idx = (IF calls[c].cold THEN calls[c].slot ELSE inst[id].idx)
  BY <1>3, PublishedUpright
<1> HIDE DEF v
<1>5. Recorded(c, "save", 0, Persistable(v))
  BY <1>3, RecordsOnward DEF Types
<1>6. \A d \in Callers \ {c} : calls[d].id = id => ~calls'[d].fresh
  BY <1>3, BumpedIs DEF Types
<1>7. Touches(c, id) /\ NoLaunch(c, id) /\ Turn(c, id) /\ ~Stopping(calls[c])
  BY <1>1, <1>2, <1>3, <1>5, NoLaunchIs, TurnKept DEF Touches, Recorded, About, Stopping
<1>8. (Live(id)' <=> Live(id)) /\ Evident(id)' /\ (Alive(id)' <=> Alive(id)) /\ vm'[id].slot = vm[id].slot
  BY <1>2, <1>3 DEF Live, Alive, Evident, About
<1>9. inst'[id] = v
  BY <1>2, <1>3 DEF About
<1>10. CASE calls[c].cold
  <2>1. Carries(calls[c])
    BY <1>1, <1>10 DEF Carries
  <2>2. id \in rootfs /\ Upright(disk[id]) /\ disk[id].idx = calls[c].slot
    BY <1>2, <2>1, CarriesIs
  <2>3. Kept(id)'
    BY <1>3, <1>4, <1>9, <1>10, <2>2 DEF Kept, Stood
  <2>4. Equipped(calls[c])'
    BY <1>1, <1>3, <1>4, <1>5, <1>10, <2>2 DEF Recorded, Equipped, Bare, Carries, Giving
  <2> QED
    BY <1>3, <1>6, <1>7, <1>8, <2>2, <2>3, <2>4, HandStep
<1>11. CASE ~calls[c].cold
  <2>1. ~Carries(calls[c])
    BY <1>1, <1>11 DEF Carries
  <2>2. Live(id) => Stood(id)
    BY <1>7, <2>1, StandsAlone
  <2>3. Equipped(calls[c])'
    BY <1>1, <1>3, <1>4, <1>5, <1>8, <1>11, <2>2 DEF Recorded, Equipped, Bare, Carries, Giving, Stood
  <2> QED
    BY <1>3, <1>4, <1>7, <1>8, <1>9, <1>11, <2>1, <2>3, TameStep
<1> QED
  BY <1>10, <1>11

--------------------
\* Destroy.

TornDownBy(id, b, slot) ==
    /\ \A j \in Ids \ {id} : inst'[j] = inst[j]
    /\ inst'[id].st = inst[id].st /\ inst'[id].cold = inst[id].cold /\ inst'[id].idx = inst[id].idx
    /\ inst'[id].destroying = b /\ inst'[id].slot = slot

LEMMA TearsIs ==
  ASSUME RecordsFine, NEW id \in Ids, NEW b, NEW slot, inst' = [inst EXCEPT ![id].destroying = b, ![id].slot = slot]
  PROVE  TornDownBy(id, b, slot)
<1>1. inst \in [Ids -> Instances]
  BY DEF RecordsFine
<1>2. inst' = [inst EXCEPT ![id] = [inst[id] EXCEPT !.destroying = b, !.slot = slot]]
  BY <1>1
<1> QED
  BY <1>1, <1>2 DEF TornDownBy, Instances

LEMMA DestroyClaimMoors ==
  ASSUME Types, Claims, SlotsHeld, Moored, NEW c \in Callers, DestroyClaim(c)
  PROVE  Moored'
<1>1. calls[c].pc = "wait" /\ calls[c].op \in {"destroy", "reap"}
  BY DEF DestroyClaim, Destroying
<1>2. PICK id \in Ids : About(c, id)
  BY <1>1, AboutIs
<1>3. UNCHANGED <<disk, rootfs, netns, vm, ev>> /\ Turned(id) /\ calls[c].id = id /\ Id(c) = id
  BY <1>2 DEF DestroyClaim, net, eng, Turned, Alive, About, Id
<1>4. ~Carries(calls[c]) /\ ~Stopping(calls[c])
  BY <1>1 DEF Carries, Stopping
<1>5. CASE UNCHANGED inst /\ \E pc \in {"workspace", "stop"} : Onward(c, pc, calls[c].slot) \/ Ends(c)
  <2>1. PICK pc \in {"workspace", "stop"} : Onward(c, pc, calls[c].slot) \/ Ends(c)
    BY <1>5
  <2>2. Onward(c, pc, calls[c].slot) => Equipped(calls[c])'
    BY <1>1, <2>1 DEF Onward, Equipped, Bare, Carries, Giving
  <2>3. Marked(id)
    BY <1>5 DEF Marked
  <2> QED
    BY <1>2, <1>3, <1>4, <2>1, <2>2, <2>3, MarkOnward
<1>6. CASE /\ Known(id) /\ ~inst[id].resuming /\ inst' = [inst EXCEPT ![id].destroying = TRUE, ![id].slot = 0]
           /\ Onward(c, "stop", inst[id].slot)
  <2>1. TornDownBy(id, TRUE, 0)
    BY <1>6, TearsIs DEF Types
  <2>2. NoLaunch(c, id) /\ ~Carried(id)
    BY <1>1, <1>6, Resting
  <2>3. Touches(c, id) /\ Turn(c, id)
    BY <1>3, <1>6, <2>1, TurnKept DEF Touches, Onward, TornDownBy
  <2>4. Equipped(calls[c])'
    BY <1>1, <1>6 DEF Onward, Equipped, Bare, Carries, Giving
  <2>5. (Live(id)' <=> Live(id)) /\ Evident(id)' /\ (Alive(id)' <=> Alive(id)) /\ vm'[id].slot = vm[id].slot
    BY <1>2, <1>3 DEF Live, Alive, Evident, About
  <2>6. ASSUME Live(id) PROVE Kept(id)' /\ id \in rootfs' /\ Upright(disk'[id]) /\ ~Carried(id)
    <3>1. Stood(id) /\ Anchored(id)
      BY <1>4, <2>2, <2>6, StandsAlone
    <3>2. \E d \in Callers : calls'[d].id = id /\ Stopping(calls[d])' /\ calls'[d].slot = disk'[id].idx
      <4>1. CASE inst[id].slot = disk[id].idx
        BY <1>1, <1>3, <1>6, <4>1 DEF Onward, Stopping
      <4>2. ASSUME NEW d \in Callers, calls[d].id = id, Stopping(calls[d]), calls[d].slot = disk[id].idx PROVE \E e \in Callers : calls'[e].id = id /\ Stopping(calls[e])' /\ calls'[e].slot = disk'[id].idx
        BY <1>3, <1>4, <1>6, <4>2 DEF Onward, Still, Stopping
      <4> QED
        BY <3>1, <4>1, <4>2 DEF Stood
    <3>3. Stood(id)'
      BY <1>3, <2>1, <3>1, <3>2 DEF Stood, Upright, TornDownBy
    <3> QED
      BY <1>3, <2>2, <3>1, <3>3 DEF Kept, Anchored
  <2> QED
    BY <1>3, <2>2, <2>3, <2>4, <2>5, <2>6, HandStep
<1>7. CASE ~Known(id)
  <2>1. (calls' = Goes(c, "workspace") \/ calls' = Goes(c, "stop")) /\ UNCHANGED inst
    BY <1>3, <1>7 DEF DestroyClaim
  <2> QED
    BY <1>5, <2>1, GoesOnward DEF Types
<1>8. CASE Known(id) /\ inst[id].destroying
  <2>1. Ends(c) /\ UNCHANGED inst
    BY <1>3, <1>8, ReturnsEnds DEF DestroyClaim, Types
  <2> QED
    BY <1>5, <2>1
<1>9. CASE Known(id) /\ ~inst[id].destroying
  <2>1. calls' = [calls EXCEPT ![c] = [calls[c] EXCEPT !.pc = "stop", !.slot = inst[id].slot]]
    BY <1>3, <1>9 DEF DestroyClaim
  <2>2. Onward(c, "stop", inst[id].slot)
    BY <2>1, TurnsOnward DEF Types
  <2> QED
    BY <1>3, <1>6, <1>9, <2>2 DEF DestroyClaim
<1> QED
  BY <1>7, <1>8, <1>9

LEMMA DestroyVMMoors ==
  ASSUME Types, Claims, SlotsHeld, Moored, NEW c \in Callers, DestroyVM(c)
  PROVE  Moored'
<1>1. calls[c].pc = "stop" /\ calls[c].op \in {"destroy", "reap"}
  BY DEF DestroyVM, Destroying
<1>2. PICK id \in Ids : About(c, id)
  BY <1>1, AboutIs
<1>3. UNCHANGED <<inst, disk, rootfs, netns>> /\ calls[c].id = id /\ Id(c) = id
  BY <1>2 DEF DestroyVM, net, drv, About, Id
<1>4. NoLaunch(c, id)
  BY <1>1, <1>3, NoLaunchIs DEF Torn
<1>5. CASE Gone(id) /\ calls' = Releases(c, calls[c].slot, "forget")
  <2>1. ~Live(id)' /\ \A j \in Ids \ {id} : vm'[j] = vm[j] /\ ev'[j] = ev[j]
    BY <1>5, GoneIs DEF Types
  <2>2. Onward(c, IF calls[c].slot = 0 THEN "forget" ELSE "release", calls[c].slot)
    BY <1>5, ReleasesOnward DEF Types
  <2>3. Touches(c, id) /\ Turn(c, id)
    BY <1>3, <2>1, <2>2, TurnKept DEF Touches, Onward
  <2>4. Equipped(calls[c])'
    BY <1>1, <1>3, <2>1, <2>2 DEF Onward, Equipped, Carries, Live, Alive
  <2> QED
    BY <1>4, <2>1, <2>3, <2>4, BareStep
<1>6. CASE Lingers(id) /\ calls' = Goes(c, "keep")
  <2>1. UNCHANGED <<vm, ev>>
    BY <1>6 DEF Lingers, eng
  <2>2. Onward(c, "keep", calls[c].slot)
    BY <1>6, GoesOnward DEF Types
  <2>3. Touches(c, id) /\ Turn(c, id)
    BY <1>3, <2>1, <2>2, TurnKept DEF Touches, Onward
  <2>4. Equipped(calls[c])' /\ Stopping(calls[c])' /\ ~Carries(calls[c])
    BY <1>1, <2>2 DEF Onward, Equipped, Bare, Carries, Giving, Stopping
  <2>5. (Alive(id)' <=> Alive(id)) /\ (Stood(id) => Upright(inst'[id]))
    BY <1>3, <2>1 DEF Alive, Stood
  <2> QED
    BY <1>3, <2>1, <2>2, <2>3, <2>4, <2>5, TameStep DEF Onward
<1> QED
  BY <1>3, <1>5, <1>6 DEF DestroyVM

LEMMA DestroyKeepsMoors ==
  ASSUME Types, Claims, SlotsHeld, Moored, NEW c \in Callers, DestroyKeeps(c)
  PROVE  Moored'
<1>1. calls[c].pc = "keep" /\ calls[c].op \in {"destroy", "reap"}
  BY DEF DestroyKeeps, Destroying
<1>2. PICK id \in Ids : About(c, id)
  BY <1>1, AboutIs
<1>3. UNCHANGED <<disk, rootfs, netns, vm, ev>> /\ calls[c].id = id /\ Id(c) = id /\ Torn(calls[c])
  BY <1>1, <1>2 DEF DestroyKeeps, net, eng, About, Id, Torn
<1>4. NoLaunch(c, id)
  BY <1>3, NoLaunchIs
<1>5. Ends(c)
  BY ReturnsEnds DEF Types, DestroyKeeps
<1>6. \A j \in Ids \ {id} : inst'[j] = inst[j]
  BY <1>2, <1>3 DEF DestroyKeeps, About
<1>7. Touches(c, id) /\ Turn(c, id)
  BY <1>3, <1>5, <1>6, TurnKept DEF Touches, Ends
<1>8. (Live(id)' <=> Live(id)) /\ Evident(id)' /\ (Alive(id)' <=> Alive(id)) /\ vm'[id].slot = vm[id].slot
  BY <1>2, <1>3 DEF Live, Alive, Evident, About
<1>9. ASSUME Live(id) PROVE Kept(id)' /\ id \in rootfs' /\ Upright(disk'[id]) /\ ~Carried(id)
  <2>1. Stood(id) /\ Anchored(id) /\ ~Carried(id)
    BY <1>1, <1>4, <1>9, StandsAlone DEF Carries
  <2>2. Known(id) /\ inst[id].slot = 0
    BY <1>2, <1>3, <2>1 DEF Stood, Upright, Known, About, Fits
  <2>3. PICK d \in Callers : calls[d].id = id /\ Stopping(calls[d]) /\ calls[d].slot = disk[id].idx
    BY <2>1, <2>2 DEF Stood, Anchored
  <2>4. d = c
    <3>1. Torn(calls[d])
      BY <2>3 DEF Torn, Stopping
    <3> QED
      BY <1>3, <2>2, <2>3, <3>1, Numbers DEF Claims, Id
  <2>5. inst' = [inst EXCEPT ![id].destroying = FALSE, ![id].slot = IF @ = 0 THEN calls[c].slot ELSE @]
    BY <1>3, <2>2 DEF DestroyKeeps
  <2>6. inst'[id].st = inst[id].st /\ inst'[id].cold = inst[id].cold /\ inst'[id].idx = inst[id].idx /\ inst'[id].slot = calls[c].slot
    <3>1. inst' = [inst EXCEPT ![id] = [inst[id] EXCEPT !.destroying = FALSE, !.slot = calls[c].slot]]
      BY <1>2, <2>2, <2>5 DEF About, Instances
    <3> QED
      BY <1>2, <3>1 DEF About, Instances
  <2> QED
    BY <1>3, <2>1, <2>3, <2>4, <2>6 DEF Kept, Stood, Upright, Anchored
<1> QED
  BY <1>3, <1>4, <1>5, <1>7, <1>8, <1>9, HandStep DEF Ends

LEMMA DestroyForgetMoors ==
  ASSUME Types, Claims, SlotsHeld, Moored, NEW c \in Callers, DestroyForget(c)
  PROVE  Moored'
<1>1. calls[c].pc = "forget" /\ calls[c].op \in {"destroy", "reap"}
  BY DEF DestroyForget, Destroying
<1>2. PICK id \in Ids : About(c, id)
  BY <1>1, AboutIs
<1>3. UNCHANGED <<disk, rootfs, netns, vm, ev>> /\ calls[c].id = id /\ inst' = [inst EXCEPT ![id] = NoInstance] /\ Torn(calls[c])
  BY <1>1, <1>2 DEF DestroyForget, net, eng, About, Id, Torn
<1>4. ~Live(id)
  BY <1>1, <1>2 DEF About, Equipped, Bare
<1>5. ~Live(id)'
  BY <1>3, <1>4 DEF Live, Alive
<1>6. Onward(c, "remove", calls[c].slot)
  BY GoesOnward DEF Types, DestroyForget
<1>7. Equipped(calls[c])'
  BY <1>1, <1>3, <1>5, <1>6 DEF Onward, Equipped, Carries, Live, Alive
<1>8. Touches(c, id) /\ NoLaunch(c, id) /\ Turn(c, id)
  BY <1>2, <1>3, <1>6, NoLaunchIs, TurnKept DEF Touches, Onward, About
<1> QED
  BY <1>5, <1>7, <1>8, BareStep

LEMMA DestroyRemoveMoors ==
  ASSUME Types, Claims, SlotsHeld, Moored, NEW c \in Callers, DestroyRemove(c)
  PROVE  Moored'
<1>1. calls[c].pc = "remove" /\ calls[c].op \in {"destroy", "reap"}
  BY DEF DestroyRemove, Destroying
<1>2. PICK id \in Ids : About(c, id)
  BY <1>1, AboutIs
<1>3. /\ UNCHANGED <<inst, netns, vm>> /\ calls[c].id = id /\ Torn(calls[c]) /\ rootfs' = rootfs \ {id}
      /\ disk' = [disk EXCEPT ![id] = NoRecord] /\ ev' = [ev EXCEPT ![id] = "none"]
  BY <1>1, <1>2 DEF DestroyRemove, net, drv, About, Id, Torn
<1>4. ~Live(id)
  BY <1>1, <1>2 DEF About, Equipped, Bare
<1>5. ~Live(id)'
  BY <1>2, <1>3, <1>4 DEF Live, Alive, About
<1>6. Onward(c, "workspace", calls[c].slot)
  BY GoesOnward DEF Types, DestroyRemove
<1>7. Equipped(calls[c])'
  BY <1>1, <1>3, <1>5, <1>6 DEF Onward, Equipped, Carries, Live, Alive
<1>8. Touches(c, id) /\ NoLaunch(c, id) /\ Turn(c, id)
  BY <1>2, <1>3, <1>6, NoLaunchIs, TurnKept DEF Touches, Onward, About
<1> QED
  BY <1>5, <1>7, <1>8, BareStep

--------------------
\* Inspect, ResumeStatus, and the calls that begin with a launch.

LEMMA FoldStateMoors ==
  ASSUME Types, Claims, SlotsHeld, Moored, NEW c \in Callers, FoldState(c)
  PROVE  Moored'
<1>1. calls[c].pc = "fold" /\ calls[c].op \in {"inspect", "status"}
  BY DEF FoldState, Asking
<1>2. PICK id \in Ids : About(c, id)
  BY <1>1, AboutIs
<1>3. UNCHANGED <<disk, rootfs, netns, vm, ev>> /\ Turned(id) /\ calls[c].id = id /\ Id(c) = id
  BY <1>2 DEF FoldState, net, eng, Turned, Alive, About, Id
<1>4. ~Carries(calls[c]) /\ ~Stopping(calls[c])
  BY <1>1 DEF Carries, Stopping
<1>5. PICK pc \in {"release", "answer", "done"} : \E slot : Onward(c, pc, slot)
  <2>1. CASE Believes(c)
    BY <1>3, <2>1, ReleasesOnward DEF Types, FoldState
  <2>2. CASE ~Believes(c)
    BY <2>2, GoesOnward DEF Types, FoldState
  <2> QED
    BY <2>1, <2>2
<1>6. PICK slot : Onward(c, pc, slot)
  BY <1>5
<1>7. Equipped(calls[c])' /\ Turn(c, id)
  BY <1>1, <1>3, <1>5, <1>6, TurnKept DEF Onward, Equipped, Bare, Carries, Giving
<1>8. CASE ~Believes(c)
  <2>1. Marked(id)
    BY <1>8 DEF FoldState, Marked
  <2> QED
    BY <1>3, <1>4, <1>6, <1>7, <2>1, MarkStep DEF Onward
<1>9. CASE Believes(c)
  <2>1. inst' = [inst EXCEPT ![id] = Folded(c)]
    BY <1>3, <1>9 DEF FoldState, Folded
  <2>2. Touches(c, id)
    BY <1>2, <1>3, <1>6, <2>1 DEF Touches, Onward, About
  <2>3. ASSUME Live(id), Stood(id)
        PROVE  Upright(inst'[id]) /\ inst'[id].idx = inst[id].idx /\ inst'[id].slot = inst[id].slot
    <3> DEFINE v == inst[id]
               s == calls[c].seen
    <3>1. NoLaunch(c, id) /\ ~Carried(id)
      BY <1>1, <1>3, <1>9, Resting DEF Believes
    <3>2. s \in {"running", "paused"}
      <4>1. s # "gone"
        BY <1>1, <1>2, <1>3, <1>9, <2>3, <3>1 DEF About, Equipped, Believes
      <4> QED
        BY <1>1, <1>2, <1>9, <4>1 DEF About, Stands, CallType, Believes
    <3>3. v \in Instances /\ v.st # "none" /\ Upright(v)
      BY <1>2, <2>3 DEF About, Stood, Upright
    <3> HIDE DEF v, s
    <3>4. Upright(Reconciled(v, s)) /\ Reconciled(v, s).idx = v.idx /\ Reconciled(v, s).slot = v.slot
      <4>1. CASE s = "paused" /\ v.snapshotting
        BY <3>3, <4>1 DEF Reconciled
      <4>2. CASE s = "running"
        BY <3>3, <4>2 DEF Reconciled, Instances, Upright
      <4>3. CASE s = "paused" /\ ~v.snapshotting
        BY <3>3, <4>3 DEF Reconciled, Instances, Upright
      <4> QED
        BY <3>2, <4>1, <4>2, <4>3
    <3>5. Folded(c) = Reconciled(v, s)
      BY <1>3, <3>4 DEF Folded, Idle, Upright, v, s
    <3> QED
      BY <1>2, <2>1, <3>4, <3>5 DEF v, About
  <2>4. Alive(id)' <=> Alive(id)
    BY <1>3 DEF Alive
  <2> QED
    BY <1>3, <1>4, <1>7, <2>2, <2>3, <2>4, TameStep
<1> QED
  BY <1>8, <1>9

\* a record that is cold, at rest, has no VM
LEMMA ColdIs ==
  ASSUME Types, Claims, Moored, NEW c \in Callers, NEW id \in Ids, Known(id), ~inst[id].resuming, inst[id].cold,
         calls[c].op \notin {"create", "resume"}
  PROVE  ~Live(id) /\ NoLaunch(c, id)
<1>1. NoLaunch(c, id)
  BY Resting
<1>2. ~Carries(calls[c])
  BY DEF Carries
<1> QED
  BY <1>1, <1>2, StandsAlone DEF Stood, Upright

LEMMA AnswerStatusMoors ==
  ASSUME Types, Claims, SlotsHeld, Moored, NEW c \in Callers, AnswerStatus(c)
  PROVE  Moored'
<1>1. calls[c].pc = "answer" /\ calls[c].op \in {"inspect", "status"}
  BY DEF AnswerStatus, Asking
<1>2. PICK id \in Ids : About(c, id)
  BY <1>1, AboutIs
<1>3. UNCHANGED <<rootfs, netns, vm, ev>> /\ calls' = Returned(c) /\ calls[c].id = id /\ Id(c) = id
  BY <1>2 DEF AnswerStatus, net, eng, About, Id
<1>4. Ends(c)
  BY <1>3, ReturnsEnds DEF Types
<1>5. CASE Known(id) /\ inst[id].cold /\ ~inst[id].resuming
  <2>1. ~Live(id) /\ NoLaunch(c, id)
    BY <1>1, <1>5, ColdIs
  <2>2. ~Live(id)'
    BY <1>3, <2>1 DEF Live, Alive
  <2>3. \A j \in Ids \ {id} : inst'[j] = inst[j] /\ disk'[j] = disk[j]
    BY <1>2, <1>3 DEF AnswerStatus, About
  <2>4. Touches(c, id) /\ Turn(c, id)
    BY <1>3, <1>4, <2>3, TurnKept DEF Touches, Ends
  <2> QED
    BY <1>4, <2>1, <2>2, <2>4, BareStep DEF Ends
<1>6. CASE ~(Known(id) /\ inst[id].cold /\ ~inst[id].resuming)
  <2>1. UNCHANGED <<inst, disk>>
    BY <1>3, <1>6 DEF AnswerStatus
  <2> QED
    BY <1>1, <1>3, <2>1, EndsQuietly DEF eng
<1> QED
  BY <1>5, <1>6

LEMMA CreateMoors ==
  ASSUME Types, Claims, SlotsHeld, Moored, NEW c \in Callers, Create(c)
  PROVE  Moored'
<1>0. PICK id \in Ids : id = seq + 1
  BY DEF Create
<1> DEFINE q == [NoCall EXCEPT !.op = "create", !.pc = "disks", !.id = id, !.gen = 1]
<1>1. q.op = "create" /\ q.pc = "disks" /\ q.id = id
  BY DEF NoCall
<1>2. calls[c] = NoCall /\ calls' = [calls EXCEPT ![c] = q] /\ UNCHANGED <<inst, disk, rootfs, netns, vm, ev>>
  BY <1>0 DEF Create, net, eng
<1> HIDE DEF q
<1>3. (\A d \in Callers \ {c} : Still(d)) /\ calls'[c] = q /\ calls[c].id = 0 /\ calls[c].op = "none" /\ ~Holds(calls[c])
  BY <1>2, BeginsIs
<1>4. seq \in Nat /\ ~(id <= seq)
  BY <1>0, Numbers DEF Types, WorkFine
<1>5. (\A d \in Callers : calls[d].id # id) /\ disk[id] = NoRecord
  BY <1>2, <1>4 DEF Claims, Id
<1>6. ~Live(id)
  BY <1>2, <1>5 DEF Moored, Anchored, NoRecord
<1>7. ~Live(id)'
  BY <1>2, <1>6 DEF Live, Alive
<1>8. Equipped(calls[c])'
  BY <1>1, <1>3, <1>7 DEF Equipped, Carries, Live, Alive
<1>9. Touches(c, id) /\ Turn(c, id) /\ NoLaunch(c, id)
  BY <1>1, <1>2, <1>3, <1>5 DEF Touches, Turn, Takes, NoLaunch
<1> QED
  BY <1>2, <1>7, <1>8, <1>9, BareStep

LEMMA ResumeMoors ==
  ASSUME Types, Claims, SlotsHeld, Moored, NEW c \in Callers, NEW id \in Ids, NEW gen \in 0 .. MaxGen, Resume(c, id, gen)
  PROVE  Moored'
<1> DEFINE r == inst[id]
           named == IF gen = 0 THEN r ELSE [r EXCEPT !.gen = gen]
           held == [named EXCEPT !.resuming = TRUE, !.slot = IF r.cold THEN 0 ELSE @]
           q == [NoCall EXCEPT !.op = "resume", !.id = id, !.gen = gen, !.cold = r.cold, !.slot = IF r.cold THEN r.slot ELSE 0,
                               !.next = "prepare", !.pc = IF ~r.cold THEN "thaw" ELSE IF r.slot # 0 THEN "release" ELSE "prepare"]
<1>1. q.op = "resume" /\ q.id = id /\ q.cold = r.cold /\ q.pc = IF ~r.cold THEN "thaw" ELSE IF r.slot # 0 THEN "release" ELSE "prepare"
  BY DEF NoCall
<1>2. /\ calls[c] = NoCall /\ UNCHANGED <<rootfs, netns, vm, ev>> /\ Known(id) /\ ~r.resuming /\ MayIssue("resume", id)
      /\ disk' = disk \/ disk' = [disk EXCEPT ![id] = Persistable(named)]
      /\ \/ r.cold /\ inst' = [inst EXCEPT ![id] = named] /\ calls' = calls
         \/ inst' = [inst EXCEPT ![id] = held] /\ calls' = [calls EXCEPT ![c] = q]
  BY DEF Resume, net, eng
<1>3. inst \in [Ids -> Instances] /\ disk \in [Ids -> RecordType] /\ r \in Instances /\ calls \in [Callers -> CallType]
  BY DEF Types, RecordsFine, CallsFine
<1>4. named \in Instances /\ named.st = r.st /\ named.cold = r.cold /\ named.idx = r.idx /\ named.slot = r.slot
  <2>1. 0 \in 0 .. SlotCount /\ RecordsFine
    BY Numbers DEF Types
  <2> QED
    BY <1>2, <2>1, NamedIs DEF InstOk
<1> HIDE DEF named, q
<1>5. ~r.cold => held.st = r.st /\ held.cold = r.cold /\ held.idx = r.idx /\ held.slot = r.slot
  BY <1>4 DEF Instances
<1> HIDE DEF held
<1>6. calls[c].id = 0 /\ calls[c].op = "none" /\ ~Carries(calls[c]) /\ ~Stopping(calls[c])
  BY <1>2, NoCallIs DEF Carries, Stopping
<1>7. (\A d \in Callers \ {c} : Still(d)) /\ (calls'[c] = q \/ (r.cold /\ calls'[c] = calls[c]))
  BY <1>2, <1>3 DEF Still
<1>8. \A j \in Ids \ {id} : inst'[j] = inst[j] /\ disk'[j] = disk[j]
  BY <1>2, <1>3
<1>9. Touches(c, id) /\ Turn(c, id)
  BY <1>1, <1>2, <1>6, <1>7, <1>8, MayIssueTurn DEF Touches
<1>10. CASE r.cold
  <2>1. ~Live(id) /\ NoLaunch(c, id)
    BY <1>2, <1>6, <1>10, ColdIs
  <2>2. ~Live(id)'
    BY <1>2, <2>1 DEF Live, Alive
  <2>3. calls'[c].op # "none" => Equipped(calls[c])'
    BY <1>1, <1>6, <1>7, <1>10, <2>2 DEF Equipped, Carries, Live, Alive
  <2> QED
    BY <1>9, <2>1, <2>2, <2>3, BareStep
<1>11. CASE ~r.cold
  <2>1. calls'[c] = q /\ q.pc = "thaw" /\ inst'[id] = held
    BY <1>1, <1>2, <1>3, <1>7, <1>11
  <2>2. NoLaunch(c, id) /\ ~Carried(id)
    BY <1>2, <1>6, Resting
  <2>3. Equipped(calls[c])'
    BY <1>1, <1>11, <2>1 DEF Equipped, Bare, Carries, Giving
  <2>4. (Live(id)' <=> Live(id)) /\ Evident(id)' /\ (Alive(id)' <=> Alive(id)) /\ vm'[id].slot = vm[id].slot
    BY <1>2 DEF Live, Alive, Evident, Moored
  <2>5. ASSUME Live(id)
        PROVE  Kept(id)' /\ disk'[id].idx = disk[id].idx /\ Upright(disk'[id]) /\ id \in rootfs' /\ ~Carried(id)
    <3>1. Stood(id) /\ Anchored(id)
      BY <1>6, <2>2, <2>5, StandsAlone
    <3>2. Persistable(named).idx = named.idx /\ Persistable(named).st = named.st /\ Persistable(named).cold = named.cold
      BY <1>4, Persisted
    <3>3. disk'[id].idx = disk[id].idx /\ Upright(disk'[id])
      BY <1>2, <1>3, <1>4, <3>1, <3>2 DEF Stood, Anchored, Upright
    <3>4. Upright(inst'[id]) /\ inst'[id].idx = inst[id].idx /\ inst'[id].slot = inst[id].slot
      BY <1>5, <1>11, <2>1, <3>1 DEF Stood, Upright
    <3>5. Kept(id)'
      BY <1>6, <1>9, <3>1, <3>3, <3>4, KeptStays DEF Kept
    <3> QED
      BY <1>2, <2>2, <3>1, <3>3, <3>5 DEF Anchored
  <2> QED
    BY <1>9, <2>2, <2>3, <2>4, <2>5, HandStep
<1> QED
  BY <1>10, <1>11

--------------------
\* Steps that are not a call's.

LEMMA OutsideMoors ==
  ASSUME Types, Moored, UNCHANGED <<calls, inst, disk, rootfs, netns, ev>>, \A id \in Ids : vm'[id] \in {vm[id], NoVM}
  PROVE  Moored'
<1>1. \A id \in Ids : (Live(id)' => Live(id)) /\ (Evident(id) => Evident(id)') /\ (Anchored(id) => Anchored(id)')
  <2> TAKE id \in Ids
  <2>1. Alive(id)' => Alive(id) /\ vm'[id] = vm[id]
    BY DEF Alive
  <2>2. (Live(id)' => Live(id)) /\ (Evident(id) => Evident(id)') /\ (Kept(id) => Kept(id)')
    BY <2>1 DEF Live, Evident, Kept, Carried, Stood
  <2>3. Anchored(id) => Anchored(id)'
    BY <2>1, <2>2 DEF Anchored
  <2> QED
    BY <2>2, <2>3
<1>2. ASSUME NEW c \in Callers, calls'[c].op # "none" PROVE Equipped(calls[c])'
  <2>1. Equipped(calls[c]) /\ calls[c].id \in Ids
    BY <1>2, CallFacts DEF Moored, Types, Id
  <2>2. PICK id \in Ids : calls[c].id = id
    BY <2>1
  <2>3. (Live(id)' => Live(id)) /\ (Carried(id) => Carried(id)')
    BY <1>1 DEF Carried
  <2> QED
    BY <2>1, <2>2, <2>3 DEF Equipped
<1> QED
  BY <1>1, <1>2 DEF Moored

\* a record is recovered as what it was if its VM is there, and holds nothing if it is gone
LEMMA RecoversUpright ==
  ASSUME NEW d \in RecordType, d.st # "none", NEW s \in {"error", "gone", "running", "paused"}
  PROVE  /\ s = "gone" => Recovered(d, s).st # "running" /\ ~Warm(Recovered(d, s))
         /\ s # "gone" => Recovered(d, s).idx = d.idx
         /\ s # "gone" /\ Upright(d) => Upright(Recovered(d, s))
<1> DEFINE r == [f \in DOMAIN NoInstance |-> IF f \in DOMAIN d THEN d[f] ELSE NoInstance[f]]
           m == IF r.blocked /\ s = "gone" THEN [r EXCEPT !.cold = TRUE, !.blocked = FALSE] ELSE r
<1>1. r = Plain(d)
  BY PlainIs
<1>2. d # NoRecord
  BY DEF NoRecord
<1>3. Recovered(d, s) = IF s = "error" THEN r ELSE Reconciled(m, s)
  BY <1>2 DEF Recovered
<1>4. r \in Instances /\ r.st = d.st /\ r.cold = d.cold /\ r.idx = d.idx /\ ~r.snapshotting
  <2> HIDE DEF r
  <2> QED
    BY <1>1, Numbers DEF Plain, RecordType, Instances
<1>5. m \in Instances /\ (s # "gone" => m = r)
  <2> HIDE DEF r
  <2> QED
    BY <1>4 DEF Instances
<1> HIDE DEF r, m
<1>6. CASE s = "error"
  BY <1>3, <1>4, <1>6 DEF Upright
<1>7. CASE s = "gone"
  <2>1. Recovered(d, s) = [m EXCEPT !.st = IF m.cold THEN "suspended" ELSE "gone"]
    BY <1>3, <1>7 DEF Reconciled
  <2> QED
    BY <1>5, <1>7, <2>1 DEF Instances, Warm
<1>8. CASE s = "running"
  <2>1. Recovered(d, s) = [r EXCEPT !.st = "running", !.cold = FALSE]
    BY <1>3, <1>5, <1>8 DEF Reconciled
  <2> QED
    BY <1>4, <1>8, <2>1 DEF Instances, Upright
<1>9. CASE s = "paused"
  <2>1. Recovered(d, s) = [r EXCEPT !.st = "suspended", !.cold = FALSE]
    BY <1>3, <1>4, <1>5, <1>9 DEF Reconciled
  <2> QED
    BY <1>4, <1>9, <2>1 DEF Instances, Upright
<1> QED
  BY <1>6, <1>7, <1>8, <1>9

\* a claim on an index is that of a VM which is live, and names the slot it stands on
LEMMA ClaimsLive ==
  ASSUME Types, Moored, NEW id \in Ids, ClaimOf(FALSE)[id] # 0
  PROVE  Live(id) /\ ClaimOf(FALSE)[id] = disk[id].idx
<1> DEFINE s == StateOf(id, FALSE)
           v == FoundOf(FALSE)[id]
<1>1. s \in {"error", "gone", "running", "paused"} /\ disk[id] \in RecordType
  BY StateOfIs DEF Types, RecordsFine
<1>2. v = Recovered(disk[id], s) /\ (v.st = "running" \/ Warm(v)) /\ ClaimOf(FALSE)[id] = v.idx
  BY DEF FoundOf, ClaimOf
<1>3. disk[id].st # "none"
  <2>1. disk[id].st = "none" => v = NoInstance
    BY <1>2 DEF Types, RecordsFine, Recovered
  <2>2. NoInstance.st = "none"
    BY DEF NoInstance
  <2> HIDE DEF v, s
  <2>3. v.st # "none"
    BY <1>2 DEF Warm
  <2> QED
    BY <2>1, <2>2, <2>3
<1>4. s # "gone" /\ v.idx = disk[id].idx
  <2> HIDE DEF s, v
  <2> QED
    BY <1>1, <1>2, <1>3, RecoversUpright
<1>5. s # "gone" => Live(id)
  BY DEF StateOf, EvidenceOf, EvidenceAfter, Live, Types, EngineFine
<1> HIDE DEF s, v
<1> QED
  BY <1>2, <1>4, <1>5

LEMMA RestartsMoors ==
  ASSUME Types, Claims, SlotsHeld, Moored, NEW reboot \in BOOLEAN, Restarts(reboot)
  PROVE  Moored'
<1>0. RecordsFine /\ EngineFine
  BY DEF Types
<1>1. /\ vm' = (IF reboot THEN [id \in Ids |-> NoVM] ELSE vm) /\ ev' = EvidenceOf(reboot) /\ UNCHANGED disk
      /\ rootfs' = {id \in rootfs : disk[id] # NoRecord} /\ calls' = [c \in Callers |-> NoCall]
      /\ inst' = [id \in Ids |-> [FoundOf(reboot)[id] EXCEPT !.slot = SlotOf(id, reboot), !.idx = SlotOf(id, reboot)]]
  BY RestartsIs
<1>2. \A c \in Callers : calls'[c].op = "none" /\ calls'[c].id = 0
  BY <1>1, NoCallIs
<1>3. ASSUME NEW id \in Ids PROVE Evident(id)' /\ (Live(id)' => ~reboot /\ Live(id) /\ StateOf(id, reboot) # "gone")
  <2>1. Evident(id) /\ ev'[id] = EvidenceAfter(ev[id], reboot) /\ ev[id] \in {"none", "marker", "full", "untracked", "past"}
        /\ EvidenceOf(reboot)[id] = ev'[id]
    BY <1>0, <1>1 DEF Moored, EvidenceOf, EngineFine
  <2>2. CASE reboot
    <3>1. ~Alive(id)' /\ ev'[id] \in {"none", "past"}
      BY <1>1, <2>1, <2>2 DEF Alive, EvidenceAfter
    <3> QED
      BY <3>1 DEF Live, Evident
  <2>3. CASE ~reboot
    <3>1. vm' = vm /\ (Alive(id)' <=> Alive(id))
      BY <1>1, <2>3 DEF Alive
    <3>2. Evident(id)' /\ (Live(id)' => Live(id))
      BY <2>1, <2>3, <3>1 DEF Evident, EvidenceAfter, Live
    <3>3. Live(id)' => StateOf(id, reboot) # "gone"
      <4>1. ev'[id] = "full" /\ Alive(id) => vm[id].st \in {"running", "paused"}
        BY <1>0, <2>1, <2>3 DEF EvidenceAfter, EngineFine, Identified
      <4> QED
        BY <2>1, <2>3, <3>1, <4>1 DEF StateOf, Live, Evident, EvidenceAfter
    <3> QED
      BY <2>3, <3>2, <3>3
  <2> QED
    BY <2>2, <2>3
<1>4. ASSUME NEW id \in Ids, Live(id)' PROVE Anchored(id)'
  <2> DEFINE i == disk[id].idx
             s == StateOf(id, FALSE)
             v == FoundOf(FALSE)[id]
             ks == {k \in Keys : ClaimOf(FALSE)[k] = i}
  <2>1. reboot = FALSE /\ Live(id) /\ Anchored(id) /\ s # "gone" /\ s \in {"error", "gone", "running", "paused"}
    BY <1>0, <1>3, <1>4, StateOfIs DEF Moored
  <2>2. i \in Slots /\ i # 0 /\ netns[i] = id /\ id \in Keys /\ disk[id] \in RecordType /\ disk[id].st # "none" /\ disk[id] # NoRecord
    <3>1. i # 0 /\ netns[i] = id /\ disk[id].st # "none"
      BY <2>1 DEF Anchored, Upright
    <3>2. disk[id] \in RecordType
      BY <1>0 DEF RecordsFine
    <3> QED
      BY <3>1, <3>2, Numbers DEF RecordType, Slots, Ids, NoRecord
  <2>3. Upright(v) /\ v.idx = i
    <3>1. v = Recovered(disk[id], s)
      BY DEF FoundOf
    <3> HIDE DEF s, v
    <3> QED
      BY <2>1, <2>2, <3>1, RecoversUpright DEF Anchored
  <2>4. ClaimOf(FALSE)[id] = i
    BY <2>3 DEF ClaimOf, Upright, Warm
  <2> HIDE DEF v, s
  <2>5. ks = {id}
    <3>1. ASSUME NEW k \in Keys, ClaimOf(FALSE)[k] = i PROVE k = id
      <4>1. k \in Ids
        BY DEF Ids
      <4>2. Live(k) /\ disk[k].idx = i
        BY <2>2, <3>1, <4>1, ClaimsLive
      <4>3. netns[i] = k
        BY <4>1, <4>2 DEF Moored, Anchored
      <4> QED
        BY <2>2, <4>3
    <3> QED
      BY <2>2, <2>4, <3>1
  <2>6. HeldOf(FALSE)[i] = id
    <3>1. HeldOf(FALSE)[i] = IF ks = {} THEN Nobody ELSE Min(ks)
      BY <2>2 DEF HeldOf, Adopted
    <3>2. ks \in SUBSET Nat /\ ks # {}
      BY <2>5, Numbers
    <3> QED
      BY <2>5, <3>1, <3>2, LeastIs
  <2>7. SlotOf(id, FALSE) = i
    BY <2>2, <2>4, <2>6 DEF SlotOf
  <2>8. netns'[i] = id
    <3>1. PICK failed : netns' = Reclaimed(HeldOf(FALSE), failed)
      BY <2>1, RestartsIs
    <3>2. HeldOf(FALSE)[i] # Nobody
      BY <2>6, Numbers DEF Nobody
    <3> QED
      BY <2>2, <3>1, <3>2 DEF Reclaimed
  <2>9. Upright(inst'[id]) /\ inst'[id].idx = i /\ inst'[id].slot = i
    <3>1. inst'[id] = [v EXCEPT !.slot = i, !.idx = i] /\ v \in Instances
      BY <1>0, <1>1, <2>1, <2>7, FoundIs DEF v
    <3> QED
      BY <2>3, <3>1 DEF Instances, Upright
  <2>10. Kept(id)'
    BY <1>1, <2>9 DEF Kept, Stood
  <2>11. vm' = vm /\ id \in rootfs' /\ disk' = disk
    BY <1>1, <2>1, <2>2 DEF Anchored
  <2> QED
    BY <2>1, <2>2, <2>8, <2>10, <2>11 DEF Anchored, Alive
<1>5. \A id \in Ids : Evident(id)' /\ (Live(id)' => Anchored(id)')
  BY <1>3, <1>4
<1> QED
  BY <1>2, <1>5 DEF Moored

LEMMA InitMoors == ASSUME Init PROVE Moored
<1>1. \A id \in Ids : ~Alive(id) /\ ev[id] = "none"
  BY DEF Init, Alive
<1>2. \A c \in Callers : calls[c].op = "none" /\ calls[c].id = 0
  BY NoCallIs DEF Init
<1> QED
  BY <1>1, <1>2 DEF Moored, Evident, Live

--------------------
\* The invariant: each step keeps it, and keeps the moorings with it.

Inv == Types /\ Claims /\ SlotsHeld

LEMMA CallStepKeeps == ASSUME Inv, NEW c \in Callers, CallStep(c) PROVE Inv' /\ (Moored => Moored')
<1>0. Types /\ Claims /\ SlotsHeld
  BY DEF Inv
<1>1. CASE TakeSlot(c)
  BY <1>0, <1>1, TakeSlotTypes, TakeSlotKeeps, TakeSlotMoors DEF Inv
<1>2. CASE BuildSlot(c)
  BY <1>0, <1>2, BuildSlotTypes, BuildSlotKeeps, BuildSlotMoors DEF Inv
<1>3. CASE ReleaseSlot(c)
  BY <1>0, <1>3, ReleaseSlotTypes, ReleaseSlotKeeps, ReleaseSlotMoors DEF Inv
<1>4. CASE TeardownSlot(c)
  BY <1>0, <1>4, TeardownSlotTypes, TeardownSlotKeeps, TeardownSlotMoors DEF Inv
<1>5. CASE SaveRecord(c)
  BY <1>0, <1>5, SaveRecordTypes, SaveRecordKeeps, SaveRecordMoors DEF Inv
<1>6. CASE SaveIntent(c)
  BY <1>0, <1>6, SaveIntentTypes, SaveIntentKeeps, SaveIntentMoors DEF Inv
<1>7. CASE LaunchVM(c)
  BY <1>0, <1>7, LaunchVMTypes, LaunchVMKeeps, LaunchVMMoors DEF Inv
<1>8. CASE BootVM(c)
  BY <1>0, <1>8, BootVMTypes, BootVMKeeps, BootVMMoors DEF Inv
<1>9. CASE Refuse(c)
  BY <1>0, <1>9, RefuseTypes, RefuseKeeps, RefuseMoors DEF Inv
<1>10. CASE CreateDisks(c)
  BY <1>0, <1>10, CreateDisksTypes, CreateDisksKeeps, CreateDisksMoors DEF Inv
<1>11. CASE CreatePublish(c)
  BY <1>0, <1>11, CreatePublishTypes, CreatePublishKeeps, CreatePublishMoors DEF Inv
<1>12. CASE CommitSlot(c)
  BY <1>0, <1>12, CommitSlotTypes, CommitSlotKeeps, CommitSlotMoors DEF Inv
<1>13. CASE Unwind(c)
  BY <1>0, <1>13, UnwindTypes, UnwindKeeps, UnwindMoors DEF Inv
<1>14. CASE Unmake(c)
  BY <1>0, <1>14, UnmakeTypes, UnmakeKeeps, UnmakeMoors DEF Inv
<1>15. CASE StreamWorkspace(c)
  BY <1>0, <1>15, StreamWorkspaceTypes, StreamWorkspaceKeeps, StreamWorkspaceMoors DEF Inv
<1>16. CASE RecordCheckpoint(c)
  BY <1>0, <1>16, RecordCheckpointTypes, RecordCheckpointKeeps, RecordCheckpointMoors DEF Inv
<1>17. CASE CheckpointSaved(c)
  BY <1>0, <1>17, CheckpointSavedTypes, CheckpointSavedKeeps, CheckpointSavedMoors DEF Inv
<1>18. CASE Verify(c)
  BY <1>0, <1>18, VerifyTypes, VerifyKeeps, VerifyMoors DEF Inv
<1>19. CASE SuspendVM(c)
  BY <1>0, <1>19, SuspendVMTypes, SuspendVMKeeps, SuspendVMMoors DEF Inv
<1>20. CASE SuspendPark(c)
  BY <1>0, <1>20, SuspendParkTypes, SuspendParkKeeps, SuspendParkMoors DEF Inv
<1>21. CASE SuspendDiscard(c)
  BY <1>0, <1>21, SuspendDiscardTypes, SuspendDiscardKeeps, SuspendDiscardMoors DEF Inv
<1>22. CASE PrepareResume(c)
  BY <1>0, <1>22, PrepareResumeTypes, PrepareResumeKeeps, PrepareResumeMoors DEF Inv
<1>23. CASE ThawVM(c)
  BY <1>0, <1>23, ThawVMTypes, ThawVMKeeps, ThawVMMoors DEF Inv
<1>24. CASE ResumePublish(c)
  BY <1>0, <1>24, ResumePublishTypes, ResumePublishKeeps, ResumePublishMoors DEF Inv
<1>25. CASE Undo(c)
  BY <1>0, <1>25, UndoTypes, UndoKeeps, UndoMoors DEF Inv
<1>26. CASE Unclone(c)
  BY <1>0, <1>26, UncloneTypes, UncloneKeeps, UncloneMoors DEF Inv
<1>27. CASE EndResume(c)
  BY <1>0, <1>27, EndResumeTypes, EndResumeKeeps, EndResumeMoors DEF Inv
<1>28. CASE FreezeVM(c)
  BY <1>0, <1>28, FreezeVMTypes, FreezeVMKeeps, FreezeVMMoors DEF Inv
<1>29. CASE CopyRootfs(c)
  BY <1>0, <1>29, CopyRootfsTypes, CopyRootfsKeeps, CopyRootfsMoors DEF Inv
<1>30. CASE UnfreezeVM(c)
  BY <1>0, <1>30, UnfreezeVMTypes, UnfreezeVMKeeps, UnfreezeVMMoors DEF Inv
<1>31. CASE EndSnapshot(c)
  BY <1>0, <1>31, EndSnapshotTypes, EndSnapshotKeeps, EndSnapshotMoors DEF Inv
<1>32. CASE DestroyClaim(c)
  BY <1>0, <1>32, DestroyClaimTypes, DestroyClaimKeeps, DestroyClaimMoors DEF Inv
<1>33. CASE DestroyVM(c)
  BY <1>0, <1>33, DestroyVMTypes, DestroyVMKeeps, DestroyVMMoors DEF Inv
<1>34. CASE DestroyKeeps(c)
  BY <1>0, <1>34, DestroyKeepsTypes, DestroyKeepsKeeps, DestroyKeepsMoors DEF Inv
<1>35. CASE DestroyForget(c)
  BY <1>0, <1>35, DestroyForgetTypes, DestroyForgetKeeps, DestroyForgetMoors DEF Inv
<1>36. CASE DestroyRemove(c)
  BY <1>0, <1>36, DestroyRemoveTypes, DestroyRemoveKeeps, DestroyRemoveMoors DEF Inv
<1>37. CASE RemoveWorkspace(c)
  BY <1>0, <1>37, RemoveWorkspaceTypes, RemoveWorkspaceKeeps, EndsQuietly DEF Inv, RemoveWorkspace, Destroying, drv, net
<1>38. CASE AskEngine(c)
  BY <1>0, <1>38, AskEngineTypes, AskEngineKeeps, AskEngineMoors DEF Inv
<1>39. CASE FoldState(c)
  BY <1>0, <1>39, FoldStateTypes, FoldStateKeeps, FoldStateMoors DEF Inv
<1>40. CASE InspectDone(c)
  BY <1>0, <1>40, InspectDoneTypes, InspectDoneKeeps, EndsQuietly DEF Inv, InspectDone, Asking, drv, net
<1>41. CASE AnswerStatus(c)
  BY <1>0, <1>41, AnswerStatusTypes, AnswerStatusKeeps, AnswerStatusMoors DEF Inv
<1> QED
  BY <1>1, <1>2, <1>3, <1>4, <1>5, <1>6, <1>7, <1>8, <1>9, <1>10, <1>11, <1>12, <1>13, <1>14, <1>15, <1>16, <1>17, <1>18, <1>19, <1>20, <1>21, <1>22, <1>23, <1>24, <1>25, <1>26, <1>27, <1>28, <1>29, <1>30, <1>31, <1>32, <1>33, <1>34, <1>35, <1>36, <1>37, <1>38, <1>39, <1>40, <1>41 DEF CallStep, LaunchStep

LEMMA IssueKeeps == ASSUME Inv, NEW c \in Callers, Issue(c) PROVE Inv' /\ (Moored => Moored')
<1>0. Types /\ Claims /\ SlotsHeld
  BY DEF Inv
<1>1. CASE Create(c)
  BY <1>0, <1>1, CreateTypes, CreateKeeps, CreateMoors DEF Inv
<1>2. ASSUME NEW id \in Ids, NEW cold \in BOOLEAN, Suspend(c, id, cold) PROVE Inv' /\ (Moored => Moored')
  BY <1>0, <1>2, SuspendTypes, SuspendKeeps, SuspendMoors DEF Inv
<1>3. ASSUME NEW id \in Ids, NEW gen \in 0 .. MaxGen, Resume(c, id, gen) PROVE Inv' /\ (Moored => Moored')
  BY <1>0, <1>3, ResumeTypes, ResumeKeeps, ResumeMoors DEF Inv
<1>4. ASSUME NEW id \in Ids, NEW gen \in 0 .. MaxGen, NEW op \in {"inspect", "status"}, Inspect(c, op, id, gen) PROVE Inv' /\ (Moored => Moored')
  BY <1>0, <1>4, InspectTypes, InspectKeeps, InspectMoors DEF Inv
<1>5. ASSUME NEW id \in Ids, Snapshot(c, id) PROVE Inv' /\ (Moored => Moored')
  BY <1>0, <1>5, SnapshotTypes, SnapshotKeeps, SnapshotMoors DEF Inv
<1>6. ASSUME NEW id \in Ids, NEW op \in {"destroy", "reap"}, Destroy(c, op, id) PROVE Inv' /\ (Moored => Moored')
  BY <1>0, <1>6, DestroyTypes, DestroyKeepsClaims, DestroyMoors DEF Inv
<1> QED
  BY <1>1, <1>2, <1>3, <1>4, <1>5, <1>6 DEF Issue

LEMMA EnvironmentKeeps == ASSUME Inv, Environment PROVE Inv' /\ (Moored => Moored')
<1>0. Types /\ Claims /\ SlotsHeld
  BY DEF Inv
<1>1. ASSUME NEW id \in Ids, GuestWrites(id) \/ VMDies(id) \/ ImageGone(id) PROVE Inv' /\ (Moored => Moored')
  <2>1. Types'
    BY <1>0, <1>1, GuestWritesTypes, VMDiesTypes, ImageGoneTypes
  <2>2. UNCHANGED <<calls, inst, disk, seq, inUse, rootfs, netns, ev>>
    BY <1>1 DEF GuestWrites, VMDies, ImageGone, net, drv, eng
  <2>3. vm \in [Ids -> Machines]
    BY <1>0 DEF Types, EngineFine
  <2>4. \A j \in Ids : vm'[j] \in {vm[j], NoVM}
    BY <1>1, <2>3 DEF GuestWrites, VMDies, ImageGone, eng
  <2> QED
    BY <1>0, <2>1, <2>2, <2>4, OutsideKeeps, OutsideMoors DEF Inv
<1>2. ASSUME NEW reboot \in BOOLEAN, Restarts(reboot) PROVE Inv' /\ (Moored => Moored')
  BY <1>0, <1>2, RestartsTypes, RestartsKeeps, RestartsMoors DEF Inv
<1> QED
  BY <1>1, <1>2 DEF Environment, Restart, Reboot

LEMMA InitInv == Init => Inv
<1> SUFFICES ASSUME Init PROVE Inv
  OBVIOUS
<1>1. Types
  BY InitTypes
<1>2. \A id \in Ids : inst[id] = NoInstance /\ disk[id] = NoRecord /\ NoInstance.st = "none" /\ NoInstance.slot = 0
  BY DEF Init, NoInstance
<1>3. \A c \in Callers : Id(c) = 0 /\ ~Holds(calls[c])
  BY NoCallIs DEF Init, Id, Holds
<1>4. seq = 0 /\ inUse = [i \in Slots |-> Nobody]
  BY DEF Init, InitPool
<1>5. Claims
  BY <1>2, <1>3, <1>4 DEF Claims, Known
<1>6. SlotsHeld
  BY <1>2, <1>3, <1>4 DEF SlotsHeld
<1> QED
  BY <1>1, <1>5, <1>6 DEF Inv

LEMMA NextInv == Inv /\ [Next]_vars => Inv' /\ (Moored => Moored')
<1> SUFFICES ASSUME Inv, [Next]_vars PROVE Inv' /\ (Moored => Moored')
  OBVIOUS
<1>1. ASSUME Free # {}, Issue(CHOOSE c \in Callers : c \in Free) PROVE Inv' /\ (Moored => Moored')
  <2> DEFINE who == CHOOSE c \in Callers : c \in Free
  <2>1. who \in Callers
    BY <1>1 DEF Free
  <2>2. Issue(who)
    BY <1>1
  <2> HIDE DEF who
  <2> QED
    BY <2>1, <2>2, IssueKeeps
<1>2. ASSUME NEW c \in Callers, CallStep(c) PROVE Inv' /\ (Moored => Moored')
  BY <1>2, CallStepKeeps
<1>3. CASE Environment
  BY <1>3, EnvironmentKeeps
<1>4. CASE UNCHANGED vars
  <2>1. UNCHANGED <<net, inst, disk, seq, rootfs, calls>> /\ UNCHANGED eng /\ UNCHANGED work /\ UNCHANGED marks
    BY <1>4 DEF vars, eng, work, marks
  <2>2. Types'
    BY <2>1, PoolKept, RecordsKept, EngineKept, WorkKeptFine, CallsKept DEF Inv, Types
  <2> QED
    BY <2>1, <2>2, OutsideKeeps, OutsideMoors DEF Inv, net, eng
<1> QED
  BY <1>1, <1>2, <1>3, <1>4 DEF Next

\* while its process is there, a VM stands on what the invariant says of it
LEMMA MooredSays ==
  ASSUME Inv, Moored, NEW id \in Ids, Alive(id)
  PROVE  /\ netns[vm[id].slot] = id /\ inUse[vm[id].slot] = id
         /\ id \in rootfs
         /\ Called(id) \/ inst[id].blocked \/ inst[id].st = "running" \/ Warm(inst[id])
<1>1. Anchored(id) /\ vm[id].slot = disk[id].idx
  BY DEF Moored, Live, Anchored
<1>2. inUse[disk[id].idx] = id
  BY <1>1, AnchoredSlot DEF Inv
<1>3. Called(id) \/ inst[id].st = "running" \/ Warm(inst[id])
  BY <1>1 DEF Anchored, Kept, Carried, Stood, Upright, Warm, Called
<1> QED
  BY <1>1, <1>2, <1>3 DEF Anchored

--------------------
\* The workspace.  Two instances of one session share it: an instance is
\* there while it is known, on disk, or somebody's call is about it.

Starting == {"take", "build", "intent", "launch"}
Here(id) == Known(id) \/ Called(id) \/ disk[id] # NoRecord
OneInstance == \A i, j \in Ids : i # j /\ SessionOf(i) = SessionOf(j) => ~(Here(i) /\ Here(j))
Floats ==
    /\ \A id \in Ids : Alive(id) => ws[SessionOf(id)] # 0
    /\ \A c \in Callers : calls[c].pc \in Starting => ws[Session(c)] # 0

\* a step of a call writes one record, and
Local(c) == \A id \in Ids \ {calls[c].id} : inst'[id] = inst[id] /\ disk'[id] = disk[id]

\* moves itself only
Steers(c, on) ==
    /\ \A d \in Callers \ {c} : calls'[d].pc = calls[d].pc /\ calls'[d].id = calls[d].id
    /\ calls'[c].id \in {calls[c].id, 0}
    /\ on \/ (calls'[c].pc \in Starting => calls[c].pc \in Starting /\ calls'[c].id = calls[c].id)

\* and starts a VM, or drops a workspace, at one place only
Afloat(c) ==
    /\ CreateDisks(c) \/ PrepareResume(c) \/ Unmake(c) \/ RemoveWorkspace(c) \/ UNCHANGED ws
    /\ LaunchVM(c) \/ \A id \in Ids : Alive(id)' => Alive(id)

LEMMA CallStepLocal == ASSUME Inv, NEW c \in Callers, CallStep(c) PROVE Local(c)
<1>0. inst \in [Ids -> Instances] /\ disk \in [Ids -> RecordType]
  BY DEF Inv, Types, RecordsFine
<1>1. CASE TakeSlot(c) \/ BuildSlot(c) \/ ReleaseSlot(c) \/ TeardownSlot(c) \/ LaunchVM(c) \/ BootVM(c) \/ CreateDisks(c)
  BY <1>1 DEF TakeSlot, BuildSlot, ReleaseSlot, TeardownSlot, LaunchVM, BootVM, CreateDisks, Local, drv
<1>2. CASE Unwind(c) \/ SuspendVM(c) \/ SuspendDiscard(c) \/ PrepareResume(c) \/ ThawVM(c) \/ Unclone(c) \/ FreezeVM(c)
  BY <1>2 DEF Unwind, SuspendVM, SuspendDiscard, PrepareResume, ThawVM, Unclone, FreezeVM, Local, drv
<1>3. CASE CopyRootfs(c) \/ UnfreezeVM(c) \/ DestroyVM(c) \/ RemoveWorkspace(c) \/ AskEngine(c) \/ InspectDone(c)
  BY <1>3 DEF CopyRootfs, UnfreezeVM, DestroyVM, RemoveWorkspace, AskEngine, InspectDone, Local, drv
<1>4. CASE SaveRecord(c) \/ SaveIntent(c) \/ Refuse(c)
  BY <1>0, <1>4 DEF SaveRecord, SaveIntent, Refuse, Id, drv, Local
<1>5. CASE CreatePublish(c) \/ CommitSlot(c) \/ Unmake(c)
  BY <1>0, <1>5 DEF CreatePublish, CommitSlot, Unmake, Id, drv, Local
<1>6. CASE StreamWorkspace(c) \/ RecordCheckpoint(c) \/ CheckpointSaved(c)
  BY <1>0, <1>6 DEF StreamWorkspace, RecordCheckpoint, CheckpointSaved, Id, Unclaimed, Local
<1>7. CASE Verify(c) \/ SuspendPark(c) \/ ResumePublish(c)
  BY <1>0, <1>7 DEF Verify, SuspendPark, ResumePublish, Id, Unclaimed, Local
<1>8. CASE Undo(c) \/ EndResume(c) \/ EndSnapshot(c)
  BY <1>0, <1>8 DEF Undo, EndResume, EndSnapshot, Id, drv, Local
<1>9. CASE DestroyClaim(c) \/ DestroyKeeps(c) \/ DestroyForget(c)
  BY <1>0, <1>9 DEF DestroyClaim, DestroyKeeps, DestroyForget, Id, Local
<1>10. CASE DestroyRemove(c) \/ FoldState(c) \/ AnswerStatus(c)
  BY <1>0, <1>10 DEF DestroyRemove, FoldState, AnswerStatus, Id, drv, Local
<1> QED
  BY <1>1, <1>2, <1>3, <1>4, <1>5, <1>6, <1>7, <1>8, <1>9, <1>10 DEF CallStep, LaunchStep

LEMMA RecordMoves ==
  ASSUME CallsFine, NEW c \in Callers, NEW r, NEW id, calls' = [calls EXCEPT ![c] = r] \/ calls' = Bumped([calls EXCEPT ![c] = r], id),
         r.id = calls[c].id, [r EXCEPT !.fresh = FALSE].id = r.id, [r EXCEPT !.fresh = FALSE].pc = r.pc, NEW on, on \/ r.pc \notin Starting
  PROVE  Steers(c, on)
<1>1. (\A d \in Callers \ {c} : Still(d)) /\ (calls'[c] = r \/ calls'[c] = [r EXCEPT !.fresh = FALSE])
  BY StillIs
<1> QED
  BY <1>1 DEF Steers, Still

LEMMA OnwardMoves ==
  ASSUME NEW c \in Callers, NEW on, Ends(c) \/ \E pc, slot : Onward(c, pc, slot) /\ (pc \notin Starting \/ calls[c].pc \in Starting)
  PROVE  Steers(c, on)
<1>1. CASE Ends(c)
  BY <1>1 DEF Ends, Steers, Still, Starting
<1>2. ASSUME NEW pc, NEW slot, Onward(c, pc, slot), pc \notin Starting \/ calls[c].pc \in Starting PROVE Steers(c, on)
  BY <1>2 DEF Onward, Steers, Still
<1> QED
  BY <1>1, <1>2

LEMMA CallStepMoves == ASSUME Inv, NEW c \in Callers, CallStep(c) PROVE Steers(c, CreateDisks(c) \/ PrepareResume(c))
<1>0. CallsFine /\ Stands(calls[c]) /\ calls \in [Callers -> CallType] /\ calls[c] \in CallType
  BY DEF Inv, Types, CallsFine
<1>1. CASE TakeSlot(c)
  BY <1>0, <1>1, ZenonT(60) DEF TakeSlot, Undoing, Steers, Starting, NoCall, CallType
<1>2. CASE SaveRecord(c)
  BY <1>0, <1>2 DEF SaveRecord, Id, Goes, Returned, Steers, Starting, NoCall, CallType
<1>3. CASE SaveIntent(c)
  BY <1>0, <1>3 DEF SaveIntent, Id, Goes, Undoing, Steers, Starting, NoCall, CallType
<1>4. CASE Unwind(c)
  BY <1>0, <1>4 DEF Unwind, Releases, At, Steers, Starting, NoCall, CallType
<1>5. CASE Unmake(c)
  BY <1>0, <1>5 DEF Unmake, Id, Returned, At, Steers, Starting, NoCall, CallType
<1>6. CASE SuspendDiscard(c)
  BY <1>0, <1>6 DEF SuspendDiscard, Id, Releases, At, Steers, Starting, NoCall, CallType
<1>7. CASE PrepareResume(c)
  BY <1>0, <1>7 DEF PrepareResume, Id, Goes, At, Steers, Starting, NoCall, CallType
<1>8. CASE Undo(c)
  BY <1>0, <1>8 DEF Undo, Id, Releases, At, Steers, Starting, NoCall, CallType
<1>9. CASE AskEngine(c)
  BY <1>0, <1>9 DEF AskEngine, Id, Asking, Steers, Starting, NoCall, CallType
<1>10. CASE LaunchVM(c) \/ BootVM(c) \/ CreatePublish(c)
  BY <1>0, <1>10 DEF LaunchVM, BootVM, CreatePublish, Id, Goes, At, Steers, Starting, NoCall, CallType
<1>11. CASE CommitSlot(c) \/ CheckpointSaved(c) \/ Verify(c)
  BY <1>0, <1>11 DEF CommitSlot, CheckpointSaved, Verify, Id, Returned, At, Goes, Steers, Starting, NoCall, CallType
<1>12. CASE SuspendVM(c) \/ ThawVM(c) \/ Unclone(c)
  BY <1>0, <1>12 DEF SuspendVM, ThawVM, Unclone, Id, Goes, Returned, At, Steers, Starting, NoCall, CallType
<1>13. CASE EndResume(c) \/ FreezeVM(c) \/ CopyRootfs(c)
  BY <1>0, <1>13 DEF EndResume, FreezeVM, CopyRootfs, Id, Returned, At, Goes, Steers, Starting, NoCall, CallType
<1>14. CASE UnfreezeVM(c) \/ EndSnapshot(c) \/ DestroyKeeps(c)
  BY <1>0, <1>14 DEF UnfreezeVM, EndSnapshot, DestroyKeeps, Id, Goes, At, Returned, Destroying, Steers, Starting, NoCall, CallType
<1>15. CASE DestroyForget(c) \/ DestroyRemove(c) \/ RemoveWorkspace(c)
  BY <1>0, <1>15 DEF DestroyForget, DestroyRemove, RemoveWorkspace, Id, Goes, Destroying, Returned, Steers, Starting, NoCall, CallType
<1>16. CASE InspectDone(c) \/ AnswerStatus(c)
  BY <1>0, <1>16 DEF InspectDone, AnswerStatus, Returned, Asking, Id, Steers, Starting, NoCall, CallType
<1>17. CASE BuildSlot(c)
  <2>1. Onward(c, "intent", calls[c].slot) \/ Onward(c, "take", calls[c].slot) \/ Onward(c, Undoing(c), 0)
    BY <1>0, <1>17, GoesOnward, TurnsOnward DEF BuildSlot
  <2>2. calls[c].pc \in Starting
    BY <1>17 DEF BuildSlot, Starting
  <2> QED
    BY <2>1, <2>2, OnwardMoves
<1>18. CASE ReleaseSlot(c)
  <2>1. Onward(c, "teardown", calls[c].slot) \/ Onward(c, calls[c].next, 0)
    BY <1>0, <1>18, GoesOnward, TurnsOnward DEF ReleaseSlot
  <2>2. calls[c].next \notin Starting /\ "teardown" \notin Starting
    BY <1>0, <1>18 DEF ReleaseSlot, Starting, Stands, Giving, CallType
  <2> QED
    BY <2>1, <2>2, OnwardMoves
<1>19. CASE TeardownSlot(c)
  <2>1. Onward(c, calls[c].next, 0)
    BY <1>0, <1>19, GoesOnward, TurnsOnward DEF TeardownSlot
  <2>2. calls[c].next \notin Starting /\ "teardown" \notin Starting
    BY <1>0, <1>19 DEF TeardownSlot, Starting, Stands, Giving, CallType
  <2> QED
    BY <2>1, <2>2, OnwardMoves
<1>20. CASE Refuse(c)
  <2>1. Onward(c, Undoing(c), calls[c].slot) \/ Ends(c) \/ calls' = Bumped(Goes(c, "end"), Id(c))
    <3>1. \/ calls' = Goes(c, Undoing(c)) \/ calls' = Bumped(Returned(c), Id(c)) \/ calls' = Bumped(Goes(c, "end"), Id(c))
      BY <1>20 DEF Refuse
    <3>2. Id(c) # 0
      BY <1>0, <1>20 DEF Refuse, Stands, Id
    <3> QED
      BY <1>0, <3>1, <3>2, GoesOnward, ReturnsEnds
  <2>2. Undoing(c) \notin Starting
    BY DEF Undoing, Starting
  <2> DEFINE r == [calls[c] EXCEPT !.pc = "end"]
  <2>3. r.id = calls[c].id /\ [r EXCEPT !.fresh = FALSE].id = r.id /\ [r EXCEPT !.fresh = FALSE].pc = r.pc /\ r.pc \notin Starting
    BY <1>0 DEF CallType, Starting
  <2>4. Goes(c, "end") = [calls EXCEPT ![c] = r]
    BY DEF Goes
  <2> HIDE DEF r
  <2> QED
    BY <1>0, <2>1, <2>2, <2>3, <2>4, RecordMoves, OnwardMoves
<1>21. CASE CreateDisks(c)
  <2> DEFINE r == [calls[c] EXCEPT !.pc = "take", !.made = ws[Session(c)] = 0]
  <2>1. r.id = calls[c].id /\ [r EXCEPT !.fresh = FALSE].id = r.id /\ [r EXCEPT !.fresh = FALSE].pc = r.pc
    BY <1>0 DEF CallType
  <2>2. CreateDisks(c)
    BY <1>21
  <2>3. Ends(c) \/ calls' = [calls EXCEPT ![c] = r] \/ \E id : calls' = Bumped([calls EXCEPT ![c] = r], id)
    BY <1>0, <1>21, ReturnsEnds DEF CreateDisks, Id
  <2> HIDE DEF r
  <2> QED
    BY <1>0, <2>1, <2>2, <2>3, RecordMoves, OnwardMoves
<1>22. CASE StreamWorkspace(c)
  <2> DEFINE r == [calls[c] EXCEPT !.pc = "record", !.gen = Min(FreeGenerations(c))]
  <2>1. r.id = calls[c].id /\ [r EXCEPT !.fresh = FALSE].id = r.id /\ [r EXCEPT !.fresh = FALSE].pc = r.pc
    BY <1>0 DEF CallType
  <2>2. r.pc \notin Starting
    BY <1>0 DEF CallType, Starting
  <2>3. Ends(c) \/ calls' = [calls EXCEPT ![c] = r] \/ \E id : calls' = Bumped([calls EXCEPT ![c] = r], id)
    BY <1>0, <1>22, ReturnsEnds DEF StreamWorkspace, Id
  <2> HIDE DEF r
  <2> QED
    BY <1>0, <2>1, <2>2, <2>3, RecordMoves, OnwardMoves
<1>23. CASE RecordCheckpoint(c)
  <2> DEFINE r == [calls[c] EXCEPT !.pc = "recorded", !.rec = Persistable([inst[Id(c)] EXCEPT !.ck = calls[c].gen])]
  <2>1. r.id = calls[c].id /\ [r EXCEPT !.fresh = FALSE].id = r.id /\ [r EXCEPT !.fresh = FALSE].pc = r.pc
    BY <1>0 DEF CallType
  <2>2. r.pc \notin Starting
    BY <1>0 DEF CallType, Starting
  <2>3. Ends(c) \/ calls' = [calls EXCEPT ![c] = r] \/ \E id : calls' = Bumped([calls EXCEPT ![c] = r], id)
    BY <1>0, <1>23, ReturnsEnds DEF RecordCheckpoint, Id
  <2> HIDE DEF r
  <2> QED
    BY <1>0, <2>1, <2>2, <2>3, RecordMoves, OnwardMoves
<1>24. CASE SuspendPark(c)
  <2> DEFINE r == [calls[c] EXCEPT !.pc = IF calls[c].cold THEN "discard" ELSE "save", !.rec = Persistable(Parked(inst[Id(c)], calls[c].cold)), !.slot = inst[Id(c)].slot]
  <2>1. r.id = calls[c].id /\ [r EXCEPT !.fresh = FALSE].id = r.id /\ [r EXCEPT !.fresh = FALSE].pc = r.pc
    BY <1>0 DEF CallType
  <2>2. r.pc \notin Starting
    BY <1>0 DEF CallType, Starting
  <2>3. Ends(c) \/ calls' = [calls EXCEPT ![c] = r] \/ \E id : calls' = Bumped([calls EXCEPT ![c] = r], id)
    BY <1>0, <1>24, ReturnsEnds DEF SuspendPark, Id
  <2> HIDE DEF r
  <2> QED
    BY <1>0, <2>1, <2>2, <2>3, RecordMoves, OnwardMoves
<1>25. CASE ResumePublish(c)
  <2>1. PICK q : calls' = Bumped([calls EXCEPT ![c] = [calls[c] EXCEPT !.pc = "save", !.slot = 0, !.rec = q]], Id(c))
    BY <1>0, <1>25 DEF ResumePublish
  <2> DEFINE r == [calls[c] EXCEPT !.pc = "save", !.slot = 0, !.rec = q]
  <2>2. r.id = calls[c].id /\ [r EXCEPT !.fresh = FALSE].id = r.id /\ [r EXCEPT !.fresh = FALSE].pc = r.pc /\ r.pc \notin Starting
    BY <1>0 DEF CallType, Starting
  <2> HIDE DEF r
  <2> QED
    BY <1>0, <2>1, <2>2, RecordMoves DEF r
<1>26. CASE DestroyClaim(c)
  <2>1. \/ Ends(c) \/ Onward(c, "workspace", calls[c].slot) \/ Onward(c, "stop", calls[c].slot)
        \/ Onward(c, "stop", inst[Id(c)].slot)
    BY <1>0, <1>26, GoesOnward, TurnsOnward, ReturnsEnds DEF DestroyClaim
  <2> QED
    BY <2>1, OnwardMoves DEF Starting
<1>27. CASE DestroyVM(c)
  <2>1. Onward(c, "keep", calls[c].slot) \/ Onward(c, IF calls[c].slot = 0 THEN "forget" ELSE "release", calls[c].slot)
    BY <1>0, <1>27, GoesOnward, ReleasesOnward DEF DestroyVM
  <2> QED
    BY <2>1, OnwardMoves DEF Starting
<1>28. CASE FoldState(c)
  <2> DEFINE after == IF calls[c].op = "status" THEN "answer" ELSE "done"
  <2>1. Onward(c, after, calls[c].slot) \/ \E slot : Onward(c, IF slot = 0 THEN after ELSE "release", slot)
    <3>1. calls' = Goes(c, after) \/ \E slot : calls' = Bumped(Releases(c, slot, after), Id(c))
      BY <1>28 DEF FoldState
    <3> HIDE DEF after
    <3> QED
      BY <1>0, <3>1, GoesOnward, ReleasesOnward
  <2> QED
    BY <2>1, OnwardMoves DEF Starting
<1> QED
  BY <1>1, <1>2, <1>3, <1>4, <1>5, <1>6, <1>7, <1>8, <1>9, <1>10, <1>11, <1>12, <1>13, <1>14, <1>15, <1>16, <1>17, <1>18, <1>19, <1>20, <1>21, <1>22, <1>23, <1>24, <1>25, <1>26, <1>27, <1>28 DEF CallStep, LaunchStep

LEMMA CallStepAfloat == ASSUME Inv, NEW c \in Callers, CallStep(c) PROVE Afloat(c)
<1>0. vm \in [Ids -> Machines]
  BY DEF Inv, Types, EngineFine
<1>1. CASE TakeSlot(c) \/ BuildSlot(c) \/ ReleaseSlot(c) \/ TeardownSlot(c) \/ SaveRecord(c) \/ SaveIntent(c) \/ CreatePublish(c)
  BY <1>1 DEF TakeSlot, BuildSlot, ReleaseSlot, TeardownSlot, SaveRecord, SaveIntent, CreatePublish, Afloat, Alive, work, eng
<1>2. CASE CommitSlot(c) \/ Unwind(c) \/ RecordCheckpoint(c) \/ CheckpointSaved(c) \/ SuspendDiscard(c) \/ ResumePublish(c) \/ Undo(c)
  BY <1>2 DEF CommitSlot, Unwind, RecordCheckpoint, CheckpointSaved, SuspendDiscard, ResumePublish, Undo, Afloat, Alive, work, eng
<1>3. CASE Unclone(c) \/ EndResume(c) \/ CopyRootfs(c) \/ EndSnapshot(c) \/ DestroyClaim(c) \/ DestroyKeeps(c) \/ DestroyForget(c)
  BY <1>3 DEF Unclone, EndResume, CopyRootfs, EndSnapshot, DestroyClaim, DestroyKeeps, DestroyForget, Afloat, Alive, work, eng
<1>4. CASE AskEngine(c) \/ FoldState(c) \/ InspectDone(c) \/ AnswerStatus(c)
  BY <1>4 DEF AskEngine, FoldState, InspectDone, AnswerStatus, Afloat, Alive, work, eng
<1>5. CASE LaunchVM(c) \/ BootVM(c) \/ CreateDisks(c)
  BY <1>0, <1>5 DEF LaunchVM, BootVM, CreateDisks, Id, eng, work, Alive, Afloat, Alive, NoVM, Machines
<1>6. CASE Unmake(c) \/ StreamWorkspace(c) \/ Verify(c)
  BY <1>0, <1>6 DEF Unmake, StreamWorkspace, Verify, Id, eng, Afloat, Alive, NoVM, Machines
<1>7. CASE SuspendVM(c) \/ SuspendPark(c) \/ PrepareResume(c)
  BY <1>0, <1>7 DEF SuspendVM, SuspendPark, PrepareResume, Id, eng, work, Lingers, Littered, Stopped, Afloat, Alive, NoVM, Machines
<1>8. CASE ThawVM(c) \/ FreezeVM(c) \/ UnfreezeVM(c)
  BY <1>0, <1>8 DEF ThawVM, FreezeVM, UnfreezeVM, Id, work, Afloat, Alive, NoVM, Machines
<1>9. CASE DestroyRemove(c) \/ RemoveWorkspace(c)
  BY <1>0, <1>9 DEF DestroyRemove, RemoveWorkspace, Id, work, eng, Afloat, Alive, NoVM, Machines
<1>10. CASE Refuse(c)
  <2>1. vm' = vm \/ vm' = [vm EXCEPT ![Id(c)] = NoVM]
    BY <1>10 DEF Refuse, Gone, Stopped, Littered, Lingers, eng
  <2>2. UNCHANGED ws
    BY <1>10 DEF Refuse, work
  <2> QED
    BY <1>0, <2>1, <2>2 DEF Afloat, Alive
<1>11. CASE DestroyVM(c)
  <2>1. vm' = vm \/ vm' = [vm EXCEPT ![Id(c)] = NoVM]
    BY <1>11 DEF DestroyVM, Gone, Stopped, Littered, Lingers, eng
  <2>2. UNCHANGED ws
    BY <1>11 DEF DestroyVM, work
  <2> QED
    BY <1>0, <2>1, <2>2 DEF Afloat, Alive
<1> QED
  BY <1>1, <1>2, <1>3, <1>4, <1>5, <1>6, <1>7, <1>8, <1>9, <1>10, <1>11 DEF CallStep, LaunchStep

--------------------
\* One instance of a session at a time.

\* a session is created again only once no record of an earlier instance of it is left on disk
CleanCreate(c) == Create(c) => \A j \in Ids : j # seq + 1 /\ SessionOf(j) = SessionOf(seq + 1) => disk[j] = NoRecord
CleanCreates == \A c \in Callers : CleanCreate(c)

LEMMA CallStepHere == ASSUME Inv, NEW c \in Callers, CallStep(c), NEW id \in Ids, Here(id)' PROVE Here(id)
<1>1. Local(c) /\ Steers(c, CreateDisks(c) \/ PrepareResume(c))
  BY CallStepLocal, CallStepMoves
<1>2. CASE calls[c].id = id
  BY <1>2 DEF Here, Called
<1>3. CASE calls[c].id # id
  <2>1. inst'[id] = inst[id] /\ disk'[id] = disk[id] /\ calls'[c].id # id
    BY <1>1, <1>3, Numbers DEF Local, Steers
  <2> QED
    BY <1>1, <2>1 DEF Here, Known, Called, Steers
<1> QED
  BY <1>2, <1>3

\* what begins on an instance that is there changes nothing of the others
LEMMA BeginsHere ==
  ASSUME NEW c \in Callers, NEW own \in Ids, NEW id \in Ids, id # own, Here(id)',
         calls' = calls \/ \E q : calls' = [calls EXCEPT ![c] = q] /\ q.id = own,
         calls \in [Callers -> CallType], inst'[id] = inst[id], disk'[id] = disk[id]
  PROVE  Here(id)
<1>1. \A d \in Callers : calls'[d].id = calls[d].id \/ calls'[d].id = own
  OBVIOUS
<1> QED
  BY <1>1 DEF Here, Known, Called

\* a call begins on an instance that is there, or a create on one that is new
Opens(c, own) ==
    /\ Here(own) \/ (Create(c) /\ own = seq + 1)
    /\ \A id \in Ids \ {own} : inst'[id] = inst[id] /\ disk'[id] = disk[id]
    /\ calls' = calls \/ \E q : calls' = [calls EXCEPT ![c] = q] /\ q.id = own /\ q.pc \notin Starting
    /\ UNCHANGED <<ws, vm>>

LEMMA IssueOpens == ASSUME Inv, NEW c \in Callers, Issue(c) PROVE \E own \in Ids : Opens(c, own)
<1>0. inst \in [Ids -> Instances] /\ disk \in [Ids -> RecordType] /\ calls \in [Callers -> CallType]
  BY DEF Inv, Types, RecordsFine, CallsFine
<1>1. ASSUME Create(c) PROVE \E own \in Ids : Opens(c, own)
  <2> DEFINE q == [NoCall EXCEPT !.op = "create", !.pc = "disks", !.id = seq + 1, !.gen = 1]
  <2>1. q.id = seq + 1 /\ q.pc \notin Starting
    BY DEF NoCall, Starting
  <2>2. calls' = [calls EXCEPT ![c] = q] /\ UNCHANGED <<inst, disk, ws, vm>> /\ seq + 1 \in Ids
    BY <1>1 DEF Create, work, eng
  <2> HIDE DEF q
  <2> QED
    BY <1>1, <2>1, <2>2 DEF Opens
<1>2. ASSUME NEW id \in Ids, NEW cold \in BOOLEAN, Suspend(c, id, cold) PROVE \E own \in Ids : Opens(c, own)
  <2> DEFINE q == [NoCall EXCEPT !.op = "suspend", !.pc = IF cold /\ setup.ckpt THEN "stream" ELSE "stop",
                         !.id = id, !.cold = cold, !.gen = inst[id].ck + 1, !.owed = ws[SessionOf(id)]]
  <2>1. q.id = id /\ q.pc \notin Starting
    BY DEF NoCall, Starting
  <2>2. calls' = [calls EXCEPT ![c] = q]
    BY <1>2 DEF Suspend
  <2> HIDE DEF q
  <2>3. Here(id) /\ \A j \in Ids \ {id} : inst'[j] = inst[j] /\ disk'[j] = disk[j]
    BY <1>0, <1>2 DEF Suspend, Here, Known, drv
  <2> QED
    BY <1>2, <2>1, <2>2, <2>3 DEF Suspend, Opens, work, eng
<1>3. ASSUME NEW id \in Ids, NEW gen \in 0 .. MaxGen, Resume(c, id, gen) PROVE \E own \in Ids : Opens(c, own)
  <2> DEFINE q == [NoCall EXCEPT !.op = "resume", !.id = id, !.gen = gen, !.cold = inst[id].cold, !.slot = IF inst[id].cold THEN inst[id].slot ELSE 0,
                         !.next = "prepare", !.pc = IF ~inst[id].cold THEN "thaw" ELSE IF inst[id].slot # 0 THEN "release" ELSE "prepare"]
  <2>1. q.id = id /\ q.pc \notin Starting
    BY DEF NoCall, Starting
  <2>2. calls' = [calls EXCEPT ![c] = q] \/ calls' = calls
    BY <1>3 DEF Resume
  <2> HIDE DEF q
  <2>3. Here(id) /\ \A j \in Ids \ {id} : inst'[j] = inst[j] /\ disk'[j] = disk[j]
    BY <1>0, <1>3 DEF Resume, Here, Known, drv
  <2> QED
    BY <1>3, <2>1, <2>2, <2>3 DEF Resume, Opens, work, eng
<1>4. ASSUME NEW id \in Ids, NEW gen \in 0 .. MaxGen, NEW op \in {"inspect", "status"}, Inspect(c, op, id, gen) PROVE \E own \in Ids : Opens(c, own)
  <2> DEFINE q == [NoCall EXCEPT !.op = op, !.pc = "ask", !.id = id, !.gen = gen, !.fresh = TRUE]
  <2>1. q.id = id /\ q.pc \notin Starting
    BY DEF NoCall, Starting
  <2>2. calls' = [calls EXCEPT ![c] = q]
    BY <1>4 DEF Inspect
  <2> HIDE DEF q
  <2>3. Here(id) /\ \A j \in Ids \ {id} : inst'[j] = inst[j] /\ disk'[j] = disk[j]
    BY <1>0, <1>4 DEF Inspect, Here, Known, drv
  <2> QED
    BY <1>4, <2>1, <2>2, <2>3 DEF Inspect, Opens, work, eng
<1>5. ASSUME NEW id \in Ids, Snapshot(c, id) PROVE \E own \in Ids : Opens(c, own)
  <2> DEFINE q == [NoCall EXCEPT !.op = "snapshot", !.pc = "freeze", !.id = id]
  <2>1. q.id = id /\ q.pc \notin Starting
    BY DEF NoCall, Starting
  <2>2. calls' = [calls EXCEPT ![c] = q]
    BY <1>5 DEF Snapshot
  <2> HIDE DEF q
  <2>3. Here(id) /\ \A j \in Ids \ {id} : inst'[j] = inst[j] /\ disk'[j] = disk[j]
    BY <1>0, <1>5 DEF Snapshot, Here, Known, drv
  <2> QED
    BY <1>5, <2>1, <2>2, <2>3 DEF Snapshot, Opens, work, eng
<1>6. ASSUME NEW id \in Ids, NEW op \in {"destroy", "reap"}, Destroy(c, op, id) PROVE \E own \in Ids : Opens(c, own)
  <2> DEFINE q == [NoCall EXCEPT !.op = op, !.pc = "wait", !.id = id]
  <2>1. q.id = id /\ q.pc \notin Starting
    BY DEF NoCall, Starting
  <2>2. calls' = [calls EXCEPT ![c] = q]
    BY <1>6 DEF Destroy
  <2> HIDE DEF q
  <2>3. Here(id) /\ \A j \in Ids \ {id} : inst'[j] = inst[j] /\ disk'[j] = disk[j]
    BY <1>0, <1>6 DEF Destroy, Here, Known, drv
  <2> QED
    BY <1>6, <2>1, <2>2, <2>3 DEF Destroy, Opens, work, eng
<1> QED
  BY <1>1, <1>2, <1>3, <1>4, <1>5, <1>6 DEF Issue

LEMMA IssueHere ==
  ASSUME Inv, NEW c \in Callers, Issue(c), OneInstance, CleanCreate(c)
  PROVE  OneInstance'
<1>0. calls \in [Callers -> CallType]
  BY DEF Inv, Types, CallsFine
<1>1. PICK own \in Ids : Opens(c, own)
  BY IssueOpens
<1>2. \A id \in Ids \ {own} : Here(id)' => Here(id)
  BY <1>0, <1>1, BeginsHere DEF Opens
<1>3. ASSUME Create(c), own = seq + 1, NEW j \in Ids \ {own}, SessionOf(j) = SessionOf(own) PROVE ~Here(j)
  BY <1>3 DEF Create, CleanCreate, Here, Called
<1> QED
  BY <1>1, <1>2, <1>3 DEF OneInstance, Opens

LEMMA EnvironmentHere == ASSUME Inv, OneInstance, Environment PROVE OneInstance'
<1>1. ASSUME NEW id \in Ids, GuestWrites(id) \/ VMDies(id) \/ ImageGone(id) PROVE OneInstance'
  BY <1>1 DEF GuestWrites, VMDies, ImageGone, drv, OneInstance, Here, Known, Called
<1>2. ASSUME NEW reboot \in BOOLEAN, Restarts(reboot) PROVE OneInstance'
  <2>1. calls' = [c \in Callers |-> NoCall] /\ disk' = disk /\ RecordsFine /\ EngineFine
    BY <1>2, RestartsIs DEF Inv, Types
  <2>2. \A id \in Ids : inst'[id].st # "none" => disk[id] # NoRecord
    BY <1>2, <2>1, AfterIs
  <2>3. \A id \in Ids : Here(id)' => Here(id)
    BY <2>1, <2>2, NoCallIs, Numbers DEF Here, Known, Called
  <2> QED
    BY <2>3 DEF OneInstance
<1> QED
  BY <1>1, <1>2 DEF Environment, Restart, Reboot

--------------------
\* Nobody drops a workspace that is needed.

Booting == Starting \cup {"boot", "refuse", "publish", "commit"}
Needs(s) == \/ \E j \in Ids : SessionOf(j) = s /\ Alive(j)
            \/ \E d \in Callers : calls[d].pc \in Starting /\ Session(d) = s

LEMMA StartingIs ==
  ASSUME CallsFine, NEW d \in Callers, calls[d].pc \in Starting
  PROVE  calls[d].op \in {"create", "resume"} /\ calls[d].id \in Ids
<1>1. calls[d].op \in {"create", "resume"}
  BY DEF CallsFine, CallType, Starting, Stands, Giving
<1> QED
  BY <1>1, CallFacts DEF Id

LEMMA NeededBy ==
  ASSUME Inv, Moored, OneInstance, NEW id \in Ids, Here(id), Needs(SessionOf(id))
  PROVE  \/ Alive(id) /\ Stood(id)
         \/ \E d \in Callers : calls[d].id = id /\ calls[d].op \in {"create", "resume"} /\ calls[d].pc \in Booting
<1>1. ASSUME NEW j \in Ids, SessionOf(j) = SessionOf(id), Alive(j) PROVE j = id /\ Kept(id)
  <2>1. Kept(j)
    BY <1>1 DEF Moored, Live, Anchored
  <2>2. Here(j)
    BY <2>1 DEF Kept, Carried, Stood, Upright, Here, Known, Called
  <2> QED
    BY <1>1, <2>1, <2>2 DEF OneInstance
<1>2. ASSUME NEW d \in Callers, calls[d].pc \in Starting, Session(d) = SessionOf(id)
      PROVE  calls[d].id = id /\ calls[d].op \in {"create", "resume"}
  <2>1. calls[d].op \in {"create", "resume"} /\ calls[d].id \in Ids
    BY <1>2, StartingIs DEF Inv, Types
  <2>2. Here(calls[d].id)
    BY DEF Here, Called
  <2> QED
    BY <1>2, <2>1, <2>2 DEF OneInstance, Session
<1> QED
  BY <1>1, <1>2 DEF Needs, Kept, Carried, Carries, Booting

LEMMA UnmakeDrops == ASSUME Inv, Moored, OneInstance, NEW c \in Callers, Unmake(c) PROVE ~Needs(Session(c))
<1>0. calls[c].op = "create" /\ calls[c].pc = "unmake"
  BY DEF Unmake, At
<1>1. PICK id \in Ids : About(c, id)
  BY <1>0, AboutIs DEF Inv
<1>2. calls[c].id = id /\ Here(id) /\ ~Alive(id)
  BY <1>0, <1>1 DEF About, Equipped, Bare, Live, Here, Called
<1>3. \A d \in Callers : calls[d].id = id => d = c
  BY <1>0, <1>2, Numbers DEF Inv, Claims, Id
<1> QED
  BY <1>0, <1>2, <1>3, NeededBy DEF Session, Booting, Starting

\* a record that does not occupy the host, with no create in flight, has no VM and no launch
LEMMA IdleDrops ==
  ASSUME Inv, Moored, OneInstance, NEW id \in Ids, Here(id), ~Occupies(inst[id]), \A d \in Callers : calls[d].id = id => calls[d].op # "create"
  PROVE  ~Needs(SessionOf(id))
<1>1. ~Stood(id)
  BY DEF Stood, Upright, Occupies, Warm
<1>2. \A d \in Callers : calls[d].id = id => calls[d].op # "resume"
  BY Numbers DEF Inv, Claims, Fits, Id, Occupies
<1> QED
  BY <1>1, <1>2, NeededBy

LEMMA RemoveDrops ==
  ASSUME Inv, Moored, OneInstance, NEW c \in Callers, RemoveWorkspace(c), ws' # ws
  PROVE  ~Needs(Session(c)) /\ ws' = [ws EXCEPT ![Session(c)] = 0] /\ UNCHANGED vm
<1>0. calls[c].op = "destroy" /\ calls[c].pc = "workspace"
  BY DEF RemoveWorkspace, Destroying
<1>1. PICK id \in Ids : About(c, id)
  BY <1>0, AboutIs DEF Inv
<1>2. calls[c].id = id /\ Here(id) /\ Session(c) = SessionOf(id)
  BY <1>1 DEF About, Here, Called, Session
<1>3. ~Occupies(inst[id]) /\ ws' = [ws EXCEPT ![Session(c)] = 0] /\ UNCHANGED vm
  BY <1>2 DEF RemoveWorkspace, eng
<1>4. \A d \in Callers : calls[d].id = id => calls[d].op # "create"
  BY <1>0, <1>2, Numbers DEF Inv, Claims, Id
<1> QED
  BY <1>2, <1>3, <1>4, IdleDrops

\* a step that drops the workspace of a session only if nobody needs it, and starts nothing new
LEMMA FloatsStep ==
  ASSUME CallsFine, Floats, NEW s, ws \in [Sessions -> 0 .. MaxWrites],
         (\A t \in Sessions : ws[t] # 0 => ws'[t] # 0) \/ (~Needs(s) /\ ws' = [ws EXCEPT ![s] = 0]),
         \A id \in Ids : Alive(id)' => Alive(id),
         \A d \in Callers : calls'[d].pc \in Starting => calls[d].pc \in Starting /\ calls'[d].id = calls[d].id
  PROVE  Floats'
<1>1. \A id \in Ids : SessionOf(id) \in Sessions
  BY DEF Sessions
<1>2. ASSUME NEW id \in Ids, Alive(id)' PROVE ws'[SessionOf(id)] # 0
  BY <1>1, <1>2 DEF Floats, Needs
<1>3. ASSUME NEW d \in Callers, calls'[d].pc \in Starting PROVE ws'[SessionOf(calls'[d].id)] # 0
  <2>1. calls[d].pc \in Starting /\ calls'[d].id = calls[d].id /\ calls[d].id \in Ids
    BY <1>3, StartingIs
  <2> QED
    BY <1>1, <2>1 DEF Floats, Needs, Session
<1> QED
  BY <1>2, <1>3 DEF Floats, Session

LEMMA CallStepFloats == ASSUME Inv, Moored, OneInstance, Floats, NEW c \in Callers, CallStep(c) PROVE Floats'
<1>0. /\ ws \in [Sessions -> 0 .. MaxWrites] /\ CallsFine /\ vm \in [Ids -> Machines] /\ \A id \in Ids : SessionOf(id) \in Sessions
      /\ Steers(c, CreateDisks(c) \/ PrepareResume(c)) /\ Afloat(c)
  BY CallStepMoves, CallStepAfloat, CallFacts DEF Inv, Types, WorkFine, EngineFine, Sessions
<1>1. CASE CreateDisks(c) \/ PrepareResume(c)
  <2>1. Session(c) \in Sessions /\ calls[c].id \in Ids
    BY <1>0, <1>1, CallFacts DEF CreateDisks, PrepareResume, At, Id
  <2>2. \/ UNCHANGED ws /\ calls'[c].pc \notin Starting
        \/ (\E v : v # 0 /\ ws' = [ws EXCEPT ![Session(c)] = v]) /\ calls'[c].id = calls[c].id
    <3>1. CASE CreateDisks(c)
      <4> DEFINE r == [calls[c] EXCEPT !.pc = "take", !.made = ws[Session(c)] = 0]
                 v == IF ws[Session(c)] = 0 THEN 1 ELSE ws[Session(c)]
      <4>1. r.id = calls[c].id /\ v # 0 /\ calls \in [Callers -> CallType]
        BY <1>0 DEF CallsFine, CallType
      <4>2. (ws' = [ws EXCEPT ![Session(c)] = v] /\ calls' = [calls EXCEPT ![c] = r]) \/ (UNCHANGED ws /\ calls' = Returned(c))
        BY <3>1 DEF CreateDisks
      <4> HIDE DEF r, v
      <4> QED
        BY <4>1, <4>2 DEF Returned, NoCall, Starting
    <3>2. CASE PrepareResume(c)
      BY <1>0, <3>2, ZenonT(60) DEF PrepareResume, CallsFine, CallType, Goes, Starting
    <3> QED
      BY <1>1, <3>1, <3>2
  <2>3. UNCHANGED vm /\ (\A t \in Sessions : ws[t] # 0 => ws'[t] # 0) /\ (calls'[c].pc \in Starting => ws'[SessionOf(calls'[c].id)] # 0)
    BY <1>0, <1>1, <2>1, <2>2 DEF CreateDisks, PrepareResume, eng, Session
  <2>4. ASSUME NEW d \in Callers, calls'[d].pc \in Starting PROVE ws'[SessionOf(calls'[d].id)] # 0
    BY <1>0, <2>3, <2>4, StartingIs DEF Steers, Floats, Session
  <2> QED
    BY <1>0, <2>3, <2>4 DEF Floats, Alive, Session
<1>2. ASSUME LaunchVM(c), UNCHANGED ws, ~(CreateDisks(c) \/ PrepareResume(c)) PROVE Floats'
  <2>1. calls[c].pc \in Starting /\ (vm' = vm \/ \E v : vm' = [vm EXCEPT ![Id(c)] = v])
    BY <1>2 DEF LaunchVM, Starting, eng
  <2>2. \A id \in Ids : Alive(id)' => Alive(id) \/ id = calls[c].id
    BY <1>0, <2>1 DEF Alive, Id
  <2> QED
    BY <1>0, <1>2, <2>1, <2>2, StartingIs DEF Floats, Session, Steers
<1>3. ASSUME ~LaunchVM(c), UNCHANGED ws, ~(CreateDisks(c) \/ PrepareResume(c)) PROVE Floats'
  <2> QED
    BY <1>0, <1>3, FloatsStep DEF Steers, Afloat
<1>4. ASSUME Unmake(c) \/ RemoveWorkspace(c), ws' # ws, ~(CreateDisks(c) \/ PrepareResume(c)) PROVE Floats'
  <2>1. UNCHANGED vm /\ ~Needs(Session(c)) /\ ws' = [ws EXCEPT ![Session(c)] = 0] /\ calls[c].op # "none"
    BY <1>4, UnmakeDrops, RemoveDrops DEF Unmake, RemoveWorkspace, At, Destroying
  <2>2. \A id \in Ids : Alive(id)' => Alive(id)
    BY <2>1 DEF Alive
  <2> QED
    BY <1>0, <1>4, <2>1, <2>2, FloatsStep DEF Steers
<1> QED
  BY <1>0, <1>1, <1>2, <1>3, <1>4 DEF Afloat

LEMMA OtherFloats ==
  ASSUME Inv, Moored, OneInstance, Floats, Environment \/ UNCHANGED vars \/ \E c \in Callers : Issue(c)
  PROVE  Floats'
<1>0. /\ ws \in [Sessions -> 0 .. MaxWrites] /\ CallsFine /\ vm \in [Ids -> Machines] /\ \A id \in Ids : SessionOf(id) \in Sessions
      /\ calls \in [Callers -> CallType]
  BY DEF Inv, Types, WorkFine, EngineFine, Sessions, CallsFine
<1>1. ASSUME NEW c \in Callers, Issue(c) PROVE Floats'
  <2>1. PICK own \in Ids : Opens(c, own)
    BY <1>1, IssueOpens
  <2>2. \A d \in Callers : calls'[d] = calls[d] \/ calls'[d].pc \notin Starting
    BY <1>0, <2>1 DEF Opens
  <2> QED
    BY <2>1, <2>2 DEF Opens, Floats, Alive, Session
<1>2. ASSUME NEW reboot \in BOOLEAN, Restarts(reboot) PROVE Floats'
  <2>1. calls' = [c \in Callers |-> NoCall] /\ (\A id \in Ids : vm'[id] \in {vm[id], NoVM}) /\ UNCHANGED ws
    BY <1>2, RestartsIs, Zenon DEF Restarts, work
  <2> QED
    BY <2>1, NoCallIs, SMTT(60) DEF Floats, Alive, Starting
<1>3. ASSUME NEW id \in Ids, GuestWrites(id) PROVE Floats'
  <2>1. ws' = [ws EXCEPT ![SessionOf(id)] = ws[SessionOf(id)] + 1] /\ ws[SessionOf(id)] # 0 /\ ws[SessionOf(id)] + 1 # 0 /\ UNCHANGED <<calls, vm>>
    BY <1>0, <1>3, Numbers DEF GuestWrites, eng
  <2>2. \A t \in Sessions : ws[t] # 0 => ws'[t] # 0
    BY <1>0, <2>1
  <2> QED
    BY <1>0, <2>1, <2>2, FloatsStep DEF Alive
<1>4. ASSUME NEW id \in Ids, VMDies(id) PROVE Floats'
  <2>1. UNCHANGED <<ws, calls>> /\ vm' = [vm EXCEPT ![id] = NoVM]
    BY <1>4 DEF VMDies, work
  <2> QED
    BY <1>0, <2>1 DEF Floats, Alive, Session
<1>5. ASSUME NEW id \in Ids, ImageGone(id) PROVE Floats'
  <2>1. ws' = [ws EXCEPT ![SessionOf(id)] = 0] /\ UNCHANGED <<calls, vm>> /\ Known(id) /\ ~Occupies(inst[id])
    BY <1>5 DEF ImageGone, eng, Known, Occupies, Warm
  <2>2. \A d \in Callers : calls[d].id = id => calls[d].op # "create"
    BY <2>1, Numbers DEF Inv, Claims, Fits, Id, Known, NoInstance
  <2>3. ~Needs(SessionOf(id))
    BY <2>1, <2>2, IdleDrops DEF Here
  <2> QED
    BY <1>0, <2>1, <2>3, FloatsStep DEF Alive
<1>6. CASE UNCHANGED vars
  BY <1>6 DEF vars, Floats, Alive, Session
<1> QED
  BY <1>1, <1>2, <1>3, <1>4, <1>5, <1>6 DEF Environment, Restart, Reboot

LEMMA NextFloats ==
  Inv /\ Moored /\ OneInstance /\ Floats /\ [Next]_vars /\ [CleanCreates]_vars => OneInstance' /\ Floats'
<1> SUFFICES ASSUME Inv, Moored, OneInstance, Floats, [Next]_vars, [CleanCreates]_vars PROVE OneInstance' /\ Floats'
  OBVIOUS
<1>1. ASSUME Free # {}, Issue(CHOOSE c \in Callers : c \in Free), CleanCreates PROVE OneInstance' /\ Floats'
  <2> DEFINE who == CHOOSE c \in Callers : c \in Free
  <2>1. who \in Callers
    BY <1>1 DEF Free
  <2>2. Issue(who)
    BY <1>1
  <2> HIDE DEF who
  <2> QED
    BY <1>1, <2>1, <2>2, IssueHere, OtherFloats DEF CleanCreates
<1>2. ASSUME NEW c \in Callers, CallStep(c) PROVE OneInstance' /\ Floats'
  BY <1>2, CallStepHere, CallStepFloats DEF OneInstance
<1>3. CASE Environment
  BY <1>3, EnvironmentHere, OtherFloats
<1>4. CASE UNCHANGED vars
  BY <1>4, OtherFloats DEF vars, drv, OneInstance, Here, Known, Called
<1> QED
  BY <1>1, <1>2, <1>3, <1>4 DEF Next

LEMMA InitFloats == Init => OneInstance /\ Floats
<1> SUFFICES ASSUME Init PROVE OneInstance /\ Floats
  OBVIOUS
<1>1. \A id \in Ids : ~Known(id) /\ disk[id] = NoRecord /\ ~Alive(id)
  BY DEF Init, Known, NoInstance, Alive
<1>2. \A c \in Callers : calls[c].id = 0 /\ calls[c].pc = "idle"
  BY NoCallIs DEF Init, NoCall
<1> QED
  BY <1>1, <1>2, Numbers DEF OneInstance, Floats, Here, Called, Starting

--------------------
\* The theorems.

\* The inductive invariant: the types, the claims by which the calls of
\* one instance keep out of each other's way (the flags resuming and
\* destroying, the reservation of a create), and who holds each slot.
THEOREM Invariant == Spec => []Inv
  BY InitInv, NextInv, PTL DEF Spec

\* What is in memory and on disk of an instance, the pool, the engine's
\* evidence and the calls are what the code declares them to be: a record
\* names an index of the pool or none, and a checkpoint the store may have
\* (instanceRecord, netslot.Pool).
THEOREM TypeCorrect == Spec => []TypeOK
<1>1. Inv => TypeOK
  <2> SUFFICES ASSUME Inv PROVE TypeOK
    OBVIOUS
  <2>1. PoolTypeOK /\ RecordsFine /\ EngineFine /\ WorkFine /\ CallsFine
    BY DEF Inv, Types
  <2>2. \A id \in Ids : Persistable(inst[id]) \in RecordType /\ disk[id] \in RecordType /\ inst[id].slot \in 0 .. SlotCount
    <3> TAKE id \in Ids
    <3>1. inst[id] \in Instances
      BY <2>1 DEF RecordsFine
    <3> QED
      BY <2>1, <3>1, Persisted DEF RecordsFine, Instances
  <2>3. \A c \in Callers : calls[c].slot \in 0 .. SlotCount /\ calls[c].id \in Ids \cup {0}
    BY <2>1 DEF CallsFine, CallType
  <2> QED
    BY <2>1, <2>2, <2>3 DEF TypeOK, EngineFine, WorkFine, Machines
<1> QED
  BY <1>1, Invariant, PTL

\* No slot of the pool is lost.  Whatever Create, Suspend, resume,
\* Destroy, Inspect and the restarts of the runner do around each other,
\* and wherever one of them fails, an index in use with no call in flight
\* is the slot of the record that holds it (netslot Allocate and Release,
\* reserveSlot, commitSlot, reassociateSlot).
THEOREM SlotsNeverLost == Spec => []NoSlotLost
<1>1. Inv => NoSlotLost
  <2> SUFFICES ASSUME Inv, \A c \in Callers : calls[c] = NoCall, NEW i \in Slots, inUse[i] # Nobody
               PROVE  inUse[i] \in Ids /\ inst[inUse[i]].slot = i
    BY DEF NoSlotLost
  <2>1. \A c \in Callers : ~Holds(calls[c])
    BY NoCallIs DEF Holds
  <2> QED
    BY <2>1 DEF Inv, SlotsHeld
<1> QED
  BY <1>1, Invariant, PTL

\* What a VM stands on: while its process is there, or may be, the record
\* on disk names its slot, the namespace of that slot is its own, its root
\* filesystem is there, and a call in flight or the record in memory
\* answers for them (launch, refuse, recoverDiskInstances).
THEOREM VMsMoored == Spec => []Moored
<1>1. Init => Moored
  BY InitMoors
<1> QED
  BY <1>1, NextInv, Invariant, PTL DEF Spec

\* Nothing is pulled away from a VM, whatever Create, Suspend, resume,
\* Destroy, Inspect, Snapshot and the restarts of the runner do around
\* each other and wherever one of them fails - as long as a session is
\* created again only once no record of an earlier instance is left on
\* disk.  Without that premise a Destroy of the leftover record deletes
\* the workspace of the create in flight (RemoveWorkspace).
THEOREM NothingIsPulledAway == Spec /\ [][CleanCreates]_vars => []NothingPulledAway
<1>1. Inv /\ Moored /\ Floats => NothingPulledAway
  BY MooredSays DEF NothingPulledAway, Floats
<1>2. Spec /\ [][CleanCreates]_vars => [](Inv /\ Moored)
  BY Invariant, VMsMoored, PTL
<1>3. Spec /\ [][CleanCreates]_vars => [](OneInstance /\ Floats)
  BY InitFloats, NextFloats, <1>2, PTL DEF Spec
<1> QED
  BY <1>1, <1>2, <1>3, PTL

=============================================================================
