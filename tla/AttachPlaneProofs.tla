------------------------- MODULE AttachPlaneProofs -------------------------
\* Theorems about AttachPlane for any attachments, commands, policies,
\* replicas and bounds: the types, the generations anybody knows, the pty
\* fence as an implementation of InputFence, what a client believes when
\* nobody is talking to it, and where the control of a won generation is.
\*
\* The first inductive invariant follows the authority of a generation
\* through every place that may carry it - the row's history, a claim
\* under way, a binding on its way to the sandbox, the plane's own state,
\* an answer not yet sent, the sandbox's binding - and says of each that
\* whoever carries "control" under a generation has won that generation.
\* The second says who is still going to tell a client that does not
\* believe what its plane holds, and the third where the winner of the
\* row's generation stands.
EXTENDS AttachPlane, SequenceTheorems, TLAPS

--------------------
\* The invariant.

\* A mode under a generation, carried for the attach a, is one it may have
\* when the row is at generation n and w says who won each.
HoldsIn(n, w, a, m, g) == /\ m \in Modes /\ g \in Nat /\ g <= n
                          /\ m = "control" /\ ~Shared => w[g] = a
Holds(a, m, g) == HoldsIn(store.gen, won, a, m, g)
WillHold(a, m, g) == HoldsIn(store'.gen, won', a, m, g)

RunType == [pc : Places, g : Nat, m : Modes, won : Nat, k : Continuations]

\* What a process carries is a claim it has won, or a binding on its way.
Carries(r) == \/ r.pc \in {"grant_renew", "claim_renew", "claim_won"}
              \/ r.pc \in {"lock", "wait", "parked", "claim_check"} /\ r.m = "control"

RunIn(n, w, x, r) == /\ r \in RunType /\ r.g <= n
                     /\ Carries(r) /\ ~Shared => w[r.g] = Target(x)
                     /\ r.pc = "claim_won" => r.m = "control"
RunGood(x, r) == RunIn(store.gen, won, x, r)
WillRun(x, r) == RunIn(store'.gen, won', x, r)

StoreOK == /\ store \in [gen : Nat, holder : Attaches \cup {None}, fresh : BOOLEAN]
           /\ won \in [0..store.gen -> Attaches \cup {None}]
OwnOK == /\ own \in [Attaches -> [m : Modes, g : Nat, told : BOOLEAN, reg : BOOLEAN]]
         /\ \A a \in Attaches : Holds(a, own[a].m, own[a].g)
HoldOK == /\ hold \in [Attaches -> [by : Procs \cup {None}, m : Modes, g : Nat, won : Nat]]
          /\ \A a \in Attaches : Holds(a, hold[a].m, hold[a].g)
FramesOK == /\ toBox \in [Attaches -> Seq(Frame)]
            /\ \A a \in Attaches : \A i \in DOMAIN toBox[a] : Holds(a, toBox[a][i].m, toBox[a][i].g)
BoxOK == /\ box \in [gen : Nat, bind : [Attaches -> Binding \cup {None}]]
         /\ box.gen <= store.gen
         /\ \A a \in Attaches : box.bind[a] # None => Holds(a, box.bind[a].m, box.bind[a].g)
BeliefOK == /\ belief \in [Attaches -> [m : Modes \cup {"none"}, g : Nat, lost : BOOLEAN]]
            /\ \A a \in Attaches : belief[a].g <= store.gen
RunOK == run \in [Procs -> RunType] /\ \A x \in Procs : RunGood(x, run[x])
OthersOK == /\ setup \in Setups
            /\ link \in [Attaches -> {"none", "up", "down"}]
            /\ handoff \in [Attaches -> Procs \cup {None}]
            /\ ack \in [Attaches -> Nat \cup {None}]
            /\ spent \subseteq Faults \cup {"ask"}

Authority == StoreOK /\ OwnOK /\ HoldOK /\ FramesOK /\ BoxOK /\ BeliefOK /\ RunOK /\ OthersOK

\* The row only moves forward, and who won a generation is settled.
Forward == /\ UNCHANGED setup /\ StoreOK'
           /\ store.gen <= store'.gen
           /\ \A g \in 0..store.gen : won'[g] = won[g]

--------------------
\* What a step leaves alone stays lawful.

\* A carried mode stays lawful when the row moves forward.
LEMMA HoldsForward ==
  ASSUME StoreOK, Forward, NEW a, NEW m, NEW g, Holds(a, m, g)
  PROVE  WillHold(a, m, g)
<1>1. g \in 0..store.gen
  BY DEF Holds, HoldsIn, StoreOK
<1>2. store.gen \in Nat /\ store'.gen \in Nat
  BY DEF Forward, StoreOK
<1> QED
  BY <1>1, <1>2 DEF Holds, WillHold, HoldsIn, Forward, Shared

\* So does what a process carries.
LEMMA RunGoodForward ==
  ASSUME StoreOK, Forward, NEW x, NEW r, RunGood(x, r)
  PROVE  WillRun(x, r)
<1>1. r.g \in Nat /\ r.g <= store.gen /\ store.gen \in Nat /\ store'.gen \in Nat
  BY DEF RunGood, RunIn, RunType, Forward, StoreOK
<1>2. r.g \in 0..store.gen
  BY <1>1
<1>3. r.g <= store'.gen
  BY <1>1 DEF Forward
<1> QED
  BY <1>2, <1>3 DEF RunGood, WillRun, RunIn, Forward, Shared

\* Whatever a step leaves unchanged keeps its part of the invariant.
LEMMA Kept ==
  ASSUME Authority, Forward
  PROVE  /\ UNCHANGED own => OwnOK'
         /\ UNCHANGED hold => HoldOK'
         /\ UNCHANGED toBox => FramesOK'
         /\ UNCHANGED box => BoxOK'
         /\ UNCHANGED belief => BeliefOK'
         /\ UNCHANGED run => RunOK'
         /\ UNCHANGED <<link, handoff, ack, spent>> => OthersOK'
<1>a. StoreOK /\ store.gen \in Nat /\ store'.gen \in Nat /\ store.gen <= store'.gen /\ Shared' = Shared
  BY DEF Authority, Forward, StoreOK, Shared
<1>1. UNCHANGED own => OwnOK'
  BY <1>a, HoldsForward DEF Authority, OwnOK, Holds, WillHold, HoldsIn
<1>2. UNCHANGED hold => HoldOK'
  BY <1>a, HoldsForward DEF Authority, HoldOK, Holds, WillHold, HoldsIn
<1>3. UNCHANGED toBox => FramesOK'
  <2>1. ASSUME NEW a \in Attaches, NEW i \in DOMAIN toBox[a] PROVE WillHold(a, toBox[a][i].m, toBox[a][i].g)
    BY <1>a, HoldsForward DEF Authority, FramesOK
  <2> QED
    BY <1>a, <2>1 DEF Authority, FramesOK, Holds, WillHold, HoldsIn
<1>4. UNCHANGED box => BoxOK'
  <2>1. box.gen \in Nat
    BY DEF Authority, BoxOK
  <2> QED
    BY <1>a, <2>1, HoldsForward DEF Authority, BoxOK, Holds, WillHold, HoldsIn
<1>5. UNCHANGED belief => BeliefOK'
  <2>1. \A a \in Attaches : belief[a].g \in Nat /\ belief[a].g <= store.gen
    BY DEF Authority, BeliefOK
  <2> QED
    BY <1>a, <2>1 DEF Authority, BeliefOK
<1>6. UNCHANGED run => RunOK'
  BY <1>a, RunGoodForward DEF Authority, RunOK, RunGood, WillRun, RunIn
<1>7. UNCHANGED <<link, handoff, ack, spent>> => OthersOK'
  BY DEF Authority, OthersOK, Forward
<1> QED
  BY <1>1, <1>2, <1>3, <1>4, <1>5, <1>6, <1>7

\* A step that leaves the row's generation alone moves it forward.
LEMMA SameRow ==
  ASSUME StoreOK, UNCHANGED <<setup, won>>
  PROVE  /\ UNCHANGED store => Forward
         /\ \A a \in Attaches : RenewLease(a) => Forward
<1>1. store.gen \in Nat
  BY DEF StoreOK
<1>2. UNCHANGED store => Forward
  BY <1>1 DEF StoreOK, Forward
<1>3. ASSUME NEW a \in Attaches, RenewLease(a) PROVE Forward
  <2>1. store' \in [gen : Nat, holder : Attaches \cup {None}, fresh : BOOLEAN] /\ store'.gen = store.gen
    BY <1>3 DEF RenewLease, StoreOK
  <2> QED
    BY <1>1, <2>1 DEF StoreOK, Forward
<1> QED
  BY <1>2, <1>3

\* An advance moves the row forward, and settles who won the generation.
LEMMA AdvanceRow ==
  ASSUME StoreOK, UNCHANGED setup, NEW a, NEW g, NEW b \in Attaches \cup {None}, CompareAndAdvance(a, g, b)
  PROVE  Forward /\ store.gen = g /\ store'.gen = g + 1 /\ won'[g + 1] = b
<1>1. store.gen \in Nat /\ store.gen = g
  BY DEF StoreOK, CompareAndAdvance
<1>2. store' \in [gen : Nat, holder : Attaches \cup {None}, fresh : BOOLEAN] /\ store'.gen = g + 1
  BY <1>1 DEF CompareAndAdvance
<1>3. won' = [h \in 0..g + 1 |-> IF h = g + 1 THEN b ELSE won[h]]
  BY DEF CompareAndAdvance
<1>4. \A h \in 0..g + 1 : won'[h] \in Attaches \cup {None}
  <2>1. \A h \in 0..g + 1 : h = g + 1 \/ h \in 0..g
    BY <1>1
  <2> QED
    BY <1>1, <1>3, <2>1 DEF StoreOK
<1>5. won' \in [0..store'.gen -> Attaches \cup {None}]
  BY <1>2, <1>3, <1>4
<1>6. \A h \in 0..store.gen : won'[h] = won[h]
  BY <1>1, <1>3
<1>7. g + 1 \in 0..g + 1
  BY <1>1
<1> QED
  BY <1>1, <1>2, <1>3, <1>5, <1>6, <1>7 DEF Forward, StoreOK

\* The first record of an attach holds nothing, and an idle process nothing.
LEMMA Nothing ==
  ASSUME StoreOK
  PROVE  /\ \A x : RunGood(x, Idle)
         /\ \A a \in Attaches : Holds(a, "view", 0)
         /\ NotAttached \in [m : Modes, g : Nat, told : BOOLEAN, reg : BOOLEAN]
<1>1. store.gen \in Nat /\ 0 <= store.gen
  BY DEF StoreOK
<1>2. Idle \in RunType /\ ~Carries(Idle) /\ Idle.g = 0 /\ Idle.pc = "idle"
  BY DEF Idle, RunType, Places, Continuations, Modes, Carries
<1>3. \A x : RunGood(x, Idle)
  BY <1>1, <1>2 DEF RunGood, RunIn
<1>4. \A a \in Attaches : Holds(a, "view", 0)
  BY <1>1 DEF Holds, HoldsIn, Modes
<1>5. NotAttached \in [m : Modes, g : Nat, told : BOOLEAN, reg : BOOLEAN]
  BY DEF NotAttached, Modes
<1> QED
  BY <1>3, <1>4, <1>5

\* Processes are named apart.
LEMMA ProcNames ==
  /\ \A a \in Attaches : /\ Pump(a) \in Procs /\ Target(Pump(a)) = a /\ Pump(a)[1] = "pump"
                         /\ Beat(a) \in Procs /\ Target(Beat(a)) = a /\ Beat(a)[1] = "beat"
                         /\ Pump(a) # Beat(a)
  /\ \A w, p \in Attaches : Peer(w, p) \in Procs /\ Target(Peer(w, p)) = p
  /\ \A x \in Procs : Target(x) \in Attaches
  BY DEF Procs, Pump, Beat, Peer, Target

\* One process moves to a lawful record.
LEMMA SetRun ==
  ASSUME Authority, Forward, NEW x \in Procs, NEW r, WillRun(x, r), run' = [run EXCEPT ![x] = r]
  PROVE  RunOK'
<1>1. run \in [Procs -> RunType] /\ \A y \in Procs : RunGood(y, run[y])
  BY DEF Authority, RunOK
<1>2. \A y \in Procs : WillRun(y, run'[y])
  <2>1. ASSUME NEW y \in Procs, y # x PROVE WillRun(y, run'[y])
    <3>1. run'[y] = run[y]
      BY <1>1, <2>1
    <3>2. RunGood(y, run[y])
      BY <1>1
    <3> QED
      BY <3>1, <3>2, RunGoodForward DEF Authority
  <2>2. run'[x] = r
    BY <1>1
  <2> QED
    BY <2>1, <2>2
<1>3. run' \in [Procs -> RunType]
  BY <1>1 DEF WillRun, RunIn
<1>4. Shared' = Shared
  BY DEF Shared, Forward
<1> QED
  BY <1>2, <1>3, <1>4 DEF RunOK, WillRun, RunGood, RunIn

\* The places where a process carries nothing.
Plain == Places \ {"grant_renew", "claim_renew", "claim_won", "lock", "wait", "parked", "claim_check"}

\* A process goes to such a place.
LEMMA GoPlain ==
  ASSUME Authority, Forward, NEW x \in Procs, NEW pc \in Plain, Goto(x, pc)
  PROVE  RunOK'
<1> DEFINE r == [run[x] EXCEPT !.pc = pc]
<1>1. run[x] \in RunType /\ run[x].g <= store.gen
  BY DEF Authority, RunOK, RunGood, RunIn
<1>2. r \in RunType /\ r.pc = pc /\ r.g = run[x].g
  BY <1>1 DEF RunType, Plain
<1>3. r.g <= store'.gen
  BY <1>1, <1>2 DEF Forward, StoreOK, Authority, RunType
<1>4. ~Carries(r) /\ r.pc # "claim_won"
  BY <1>2 DEF Carries, Plain
<1>5. run' = [run EXCEPT ![x] = r]
  BY DEF Goto
<1> HIDE DEF r
<1>6. WillRun(x, r)
  BY <1>2, <1>3, <1>4 DEF WillRun, RunIn
<1> QED
  BY <1>5, <1>6, SetRun

\* A process goes to such a place with a generation the row has reached.
LEMMA GoPlainWith ==
  ASSUME Authority, Forward, NEW x \in Procs, NEW pc \in Plain, NEW g \in Nat, g <= store'.gen, GotoG(x, pc, g)
  PROVE  RunOK'
<1> DEFINE r == [run[x] EXCEPT !.pc = pc, !.g = g]
<1>1. run[x] \in RunType
  BY DEF Authority, RunOK
<1>2. r \in RunType /\ r.pc = pc /\ r.g = g
  BY <1>1 DEF RunType, Plain
<1>4. ~Carries(r) /\ r.pc # "claim_won"
  BY <1>2 DEF Carries, Plain
<1>5. run' = [run EXCEPT ![x] = r]
  BY DEF GotoG
<1> HIDE DEF r
<1>6. WillRun(x, r)
  BY <1>2, <1>4 DEF WillRun, RunIn
<1> QED
  BY <1>5, <1>6, SetRun

\* A pump has won the generation it goes on with.
LEMMA GoWinning ==
  ASSUME Authority, Forward, NEW a \in Attaches, NEW pc \in {"grant_renew", "claim_renew"}, NEW g \in Nat,
         g <= store'.gen, won'[g] = a, GotoG(Pump(a), pc, g)
  PROVE  RunOK'
<1> DEFINE r == [run[Pump(a)] EXCEPT !.pc = pc, !.g = g]
<1>1. run[Pump(a)] \in RunType
  BY ProcNames DEF Authority, RunOK
<1>2. r \in RunType /\ r.pc = pc /\ r.g = g
  BY <1>1 DEF RunType, Places
<1>3. run' = [run EXCEPT ![Pump(a)] = r]
  BY DEF GotoG
<1> HIDE DEF r
<1>4. WillRun(Pump(a), r)
  BY <1>2, ProcNames DEF WillRun, RunIn
<1> QED
  BY <1>3, <1>4, ProcNames, SetRun

\* One attach's state is replaced by one it may have.
LEMMA SetOwn ==
  ASSUME Authority, Forward, NEW a \in Attaches,
         NEW o \in [m : Modes, g : Nat, told : BOOLEAN, reg : BOOLEAN], WillHold(a, o.m, o.g),
         own' = [own EXCEPT ![a] = o]
  PROVE  OwnOK'
<1>1. own \in [Attaches -> [m : Modes, g : Nat, told : BOOLEAN, reg : BOOLEAN]]
  BY DEF Authority, OwnOK
<1>2. \A b \in Attaches : WillHold(b, own'[b].m, own'[b].g)
  <2>1. ASSUME NEW b \in Attaches, b # a PROVE WillHold(b, own'[b].m, own'[b].g)
    <3>1. own'[b] = own[b] /\ Holds(b, own[b].m, own[b].g)
      BY <1>1, <2>1 DEF Authority, OwnOK
    <3> QED
      BY <3>1, HoldsForward DEF Authority
  <2> QED
    BY <1>1, <2>1
<1>3. Shared' = Shared
  BY DEF Shared, Forward
<1> QED
  BY <1>1, <1>2, <1>3 DEF OwnOK, Holds, WillHold, HoldsIn

\* A frame the attach may send is sent.
LEMMA SendFrame ==
  ASSUME Authority, Forward, NEW a \in Attaches, NEW f \in Frame, WillHold(a, f.m, f.g), Sent(a, f)
  PROVE  FramesOK'
<1>1. toBox \in [Attaches -> Seq(Frame)]
  BY DEF Authority, FramesOK
<1>2. toBox' = [toBox EXCEPT ![a] = Append(toBox[a], f)]
  BY DEF Sent
<1>3. toBox' \in [Attaches -> Seq(Frame)]
  BY <1>1, <1>2
<1>4. ASSUME NEW b \in Attaches, NEW i \in DOMAIN toBox'[b] PROVE WillHold(b, toBox'[b][i].m, toBox'[b][i].g)
  <2>1. CASE b # a
    <3>1. toBox'[b] = toBox[b]
      BY <1>1, <1>2, <2>1
    <3>2. Holds(b, toBox[b][i].m, toBox[b][i].g)
      BY <1>4, <3>1 DEF Authority, FramesOK
    <3> QED
      BY <3>1, <3>2, HoldsForward DEF Authority
  <2>2. CASE b = a
    <3>1. toBox'[a] = Append(toBox[a], f) /\ toBox[a] \in Seq(Frame)
      BY <1>1, <1>2
    <3>2. CASE i \in DOMAIN toBox[a]
      <4>1. toBox'[a][i] = toBox[a][i]
        BY <3>1, <3>2
      <4>2. Holds(a, toBox[a][i].m, toBox[a][i].g)
        BY <3>2 DEF Authority, FramesOK
      <4> QED
        BY <2>2, <4>1, <4>2, HoldsForward DEF Authority
    <3>3. CASE i \notin DOMAIN toBox[a]
      <4>1. toBox'[a][i] = f
        BY <1>4, <2>2, <3>1, <3>3
      <4> QED
        BY <2>2, <4>1
    <3> QED
      BY <3>2, <3>3
  <2> QED
    BY <2>1, <2>2
<1>5. Shared' = Shared
  BY DEF Shared, Forward
<1> QED
  BY <1>3, <1>4, <1>5 DEF FramesOK, Holds, WillHold, HoldsIn

\* What happens once is one of the kinds there are.
LEMMA SpentOK ==
  ASSUME OthersOK
  PROVE  /\ \A f \in Faults : Fault(f) => spent' \subseteq Faults \cup {"ask"}
         /\ StoreFails => spent' \subseteq Faults \cup {"ask"}
         /\ Once("ask") => spent' \subseteq Faults \cup {"ask"}
         /\ UNCHANGED spent => spent' \subseteq Faults \cup {"ask"}
  BY DEF OthersOK, Fault, StoreFails, Once, Faults

\* Records of all attaches, or of all processes, are replaced by lawful ones.
LEMMA SetAll ==
  ASSUME Forward
  PROVE  /\ /\ own' \in [Attaches -> [m : Modes, g : Nat, told : BOOLEAN, reg : BOOLEAN]]
            /\ \A a \in Attaches : WillHold(a, own'[a].m, own'[a].g)
            => OwnOK'
         /\ /\ hold' \in [Attaches -> [by : Procs \cup {None}, m : Modes, g : Nat, won : Nat]]
            /\ \A a \in Attaches : WillHold(a, hold'[a].m, hold'[a].g)
            => HoldOK'
         /\ /\ run' \in [Procs -> RunType]
            /\ \A x \in Procs : WillRun(x, run'[x])
            => RunOK'
<1>1. Shared' = Shared
  BY DEF Shared, Forward
<1>2. /\ own' \in [Attaches -> [m : Modes, g : Nat, told : BOOLEAN, reg : BOOLEAN]]
      /\ \A a \in Attaches : WillHold(a, own'[a].m, own'[a].g)
      => OwnOK'
  BY <1>1 DEF OwnOK, Holds, WillHold, HoldsIn
<1>3. /\ hold' \in [Attaches -> [by : Procs \cup {None}, m : Modes, g : Nat, won : Nat]]
      /\ \A a \in Attaches : WillHold(a, hold'[a].m, hold'[a].g)
      => HoldOK'
  BY <1>1 DEF HoldOK, Holds, WillHold, HoldsIn
<1>4. /\ run' \in [Procs -> RunType]
      /\ \A x \in Procs : WillRun(x, run'[x])
      => RunOK'
  BY <1>1 DEF RunOK, RunGood, WillRun, RunIn
<1> QED
  BY <1>2, <1>3, <1>4

\* A record that carries nothing is lawful for any process.
LEMMA PlainRecord ==
  ASSUME NEW x, NEW r \in RunType, r.g <= store'.gen, ~Carries(r)
  PROVE  WillRun(x, r)
  BY DEF WillRun, RunIn, Carries

\* The fan-out of a handoff moves the peers' states and starts their
\* processes, none of which carries control.
LEMMA Displaces ==
  ASSUME Authority, Forward, NEW w \in Attaches, NEW o, NEW g \in Nat, NEW wait, NEW k \in Continuations,
         o \in [Attaches -> [m : Modes, g : Nat, told : BOOLEAN, reg : BOOLEAN]],
         \A p \in Attaches : WillHold(p, o[p].m, o[p].g),
         g <= store'.gen, StartDisplace(w, o, g, wait, k)
  PROVE  OwnOK' /\ RunOK'
<1>1. OwnOK'
  <2>1. own' = [p \in Attaches |-> IF p \in Peers(w) THEN Displaced(o[p], g) ELSE o[p]]
    BY DEF StartDisplace
  <2>2. ASSUME NEW p \in Attaches
        PROVE  /\ Displaced(o[p], g) \in [m : Modes, g : Nat, told : BOOLEAN, reg : BOOLEAN]
               /\ WillHold(p, Displaced(o[p], g).m, Displaced(o[p], g).g)
    <3>1. CASE o[p].g >= g
      BY <3>1 DEF Displaced
    <3>2. CASE ~(o[p].g >= g)
      <4>1. Displaced(o[p], g) = [o[p] EXCEPT !.m = "view", !.g = g]
        BY <3>2 DEF Displaced
      <4>a. o[p] \in [m : Modes, g : Nat, told : BOOLEAN, reg : BOOLEAN] /\ "view" \in Modes
        BY DEF Modes
      <4>2. /\ Displaced(o[p], g) \in [m : Modes, g : Nat, told : BOOLEAN, reg : BOOLEAN]
            /\ Displaced(o[p], g).m = "view" /\ Displaced(o[p], g).g = g
        BY <4>1, <4>a
      <4> QED
        BY <4>2 DEF WillHold, HoldsIn
    <3> QED
      BY <3>1, <3>2
  <2>3. \A p \in Attaches : own'[p] = IF p \in Peers(w) THEN Displaced(o[p], g) ELSE o[p]
    BY <2>1
  <2>4. own' \in [Attaches -> [m : Modes, g : Nat, told : BOOLEAN, reg : BOOLEAN]]
    BY <2>1, <2>2
  <2>5. \A p \in Attaches : WillHold(p, own'[p].m, own'[p].g)
    BY <2>2, <2>3
  <2> QED
    BY <2>4, <2>5, SetAll
<1>2. RunOK'
  <2>a. run \in [Procs -> RunType] /\ \A x \in Procs : RunGood(x, run[x])
    BY DEF Authority, RunOK
  <2>b. store.gen \in Nat /\ store'.gen \in Nat /\ store.gen <= store'.gen
    BY DEF Authority, StoreOK, Forward
  <2>1. ASSUME NEW x \in Procs
        PROVE  run'[x] \in RunType /\ WillRun(x, run'[x])
    <3>1. CASE x = Pump(w)
      <4> DEFINE r == [run[x] EXCEPT !.pc = "fanout", !.k = k]
      <4>1. run'[x] = r
        BY <3>1 DEF StartDisplace
      <4>2. r \in RunType /\ r.pc = "fanout" /\ r.g = run[x].g
        BY <2>a DEF RunType, Places
      <4>3. run[x].g <= store'.gen
        BY <2>a, <2>b DEF RunGood, RunIn, RunType
      <4> HIDE DEF r
      <4> QED
        BY <4>1, <4>2, <4>3, PlainRecord DEF Carries
    <3>2. CASE x # Pump(w) /\ x[1] = "peer" /\ x[2] = w /\ Target(x) \in Peers(w)
      <4>1. PICK pc \in {"lock", "install", "hold"} : run'[x] = [Idle EXCEPT !.g = g, !.pc = pc]
        BY <3>2 DEF StartDisplace
      <4>a. run'[x] = [pc |-> pc, g |-> g, m |-> "view", won |-> 0, k |-> "idle"]
        BY <4>1 DEF Idle
      <4>2. run'[x] \in RunType /\ run'[x].m = "view" /\ run'[x].g = g /\ run'[x].pc = pc
        BY <4>a DEF RunType, Places, Continuations, Modes
      <4> QED
        BY <4>2, PlainRecord DEF Carries
    <3>3. CASE x # Pump(w) /\ ~(x[1] = "peer" /\ x[2] = w /\ Target(x) \in Peers(w))
      <4>1. run'[x] = run[x]
        BY <3>3 DEF StartDisplace
      <4> QED
        BY <2>a, <4>1, RunGoodForward DEF Authority
    <3> QED
      BY <3>1, <3>2, <3>3
  <2>2. run' \in [Procs -> RunType]
    <3>1. DOMAIN run' = Procs /\ run' = [x \in Procs |-> run'[x]]
      BY DEF StartDisplace
    <3> QED
      BY <2>1, <3>1
  <2> QED
    BY <2>1, <2>2, SetAll
<1> QED
  BY <1>1, <1>2

\* The states the attaches have may start a fan-out.
LEMMA OwnMay ==
  ASSUME Authority, Forward
  PROVE  /\ own \in [Attaches -> [m : Modes, g : Nat, told : BOOLEAN, reg : BOOLEAN]]
         /\ \A p \in Attaches : WillHold(p, own[p].m, own[p].g) /\ own[p].g <= store'.gen
         /\ \A x \in Procs : run[x] \in RunType /\ run[x].g \in Nat /\ run[x].g <= store'.gen
         /\ store.gen \in Nat /\ store'.gen \in Nat /\ store.gen <= store'.gen
<1>1. store.gen \in Nat /\ store'.gen \in Nat /\ store.gen <= store'.gen
  BY DEF Authority, StoreOK, Forward
<1>2. own \in [Attaches -> [m : Modes, g : Nat, told : BOOLEAN, reg : BOOLEAN]]
  BY DEF Authority, OwnOK
<1>3. \A p \in Attaches : WillHold(p, own[p].m, own[p].g)
  BY HoldsForward DEF Authority, OwnOK
<1>4. \A x \in Procs : run[x] \in RunType /\ run[x].g \in Nat /\ run[x].g <= store.gen
  BY DEF Authority, RunOK, RunGood, RunIn, RunType
<1> QED
  BY <1>1, <1>2, <1>3, <1>4 DEF WillHold, HoldsIn

\* A pump answers with what its attach is.
LEMMA Answers ==
  ASSUME Authority, Forward, NEW a \in Attaches, NEW k \in Continuations, Answer(a, k)
  PROVE  RunOK'
<1> DEFINE r == [run[Pump(a)] EXCEPT !.pc = "hold", !.k = k, !.won = 0]
<1>1. run[Pump(a)] \in RunType /\ run[Pump(a)].g <= store'.gen
  BY ProcNames, OwnMay
<1>2. r \in RunType /\ r.pc = "hold" /\ r.g = run[Pump(a)].g
  BY <1>1 DEF RunType, Places
<1>3. run' = [run EXCEPT ![Pump(a)] = r]
  BY DEF Answer
<1> HIDE DEF r
<1>4. WillRun(Pump(a), r)
  BY <1>1, <1>2, PlainRecord DEF Carries
<1> QED
  BY <1>3, <1>4, ProcNames, SetRun

\* A pump goes back to its client.
LEMMA GoesLive ==
  ASSUME Authority, Forward, NEW a \in Attaches,
         \/ run' = [run EXCEPT ![Pump(a)] = [Idle EXCEPT !.pc = "live"]]
         \/ run' = [run EXCEPT ![Pump(a)] = Idle]
  PROVE  RunOK'
<1>1. PICK pc \in {"live", "idle"} : run' = [run EXCEPT ![Pump(a)] = [Idle EXCEPT !.pc = pc]]
  BY DEF Idle
<1> DEFINE r == [Idle EXCEPT !.pc = pc]
<1>2. r \in RunType /\ r.pc = pc /\ r.g = 0
  BY DEF Idle, RunType, Places, Continuations, Modes
<1> HIDE DEF r
<1>3. WillRun(Pump(a), r)
  BY <1>2, OwnMay, PlainRecord DEF Carries
<1> QED
  BY <1>1, <1>3, ProcNames, SetRun DEF r

\* A grant is what the claim has won, or viewing.
LEMMA Grants ==
  ASSUME Authority, Forward, NEW a \in Attaches, NEW m \in Modes, NEW g \in Nat, WillHold(a, m, g), Granted(a, m, g)
  PROVE  OwnOK' /\ RunOK'
<1> DEFINE o == [NotAttached EXCEPT !.m = m, !.g = g]
<1>1. o \in [m : Modes, g : Nat, told : BOOLEAN, reg : BOOLEAN] /\ o.m = m /\ o.g = g
  BY DEF NotAttached, Modes
<1>2. own' = [own EXCEPT ![a] = o]
  BY DEF Granted
<1> HIDE DEF o
<1>3. OwnOK'
  BY <1>1, <1>2, SetOwn
<1>4. RunOK'
  BY ProcNames, GoPlain DEF Granted, Plain, Places
<1> QED
  BY <1>3, <1>4

--------------------
\* The steps of an attach.

\* What the opening steps leave alone.
LEMMA OpeningKept ==
  ASSUME Authority, Forward, UNCHANGED Rest, OwnOK', RunOK', BeliefOK', spent' \subseteq Faults \cup {"ask"}
  PROVE  Authority'
<1>1. HoldOK' /\ FramesOK' /\ BoxOK'
  BY Kept DEF Rest
<1>2. OthersOK' /\ StoreOK'
  BY DEF Rest, Authority, OthersOK, Forward
<1> QED
  BY <1>1, <1>2 DEF Authority

\* Opening, up to the pairing.
LEMMA OpeningStep ==
  ASSUME Authority, NEW a \in Attaches,
         \/ AttachTerminal(a) \/ GrantLegacy(a) \/ GrantClaim(a) \/ GrantRenew(a) \/ GrantLost(a)
         \/ Register(a) \/ FirstResize(a) \/ FirstFails(a) \/ NoDialBack(a)
  PROVE  Authority' /\ Forward /\ UNCHANGED box
<1>a. StoreOK /\ OthersOK /\ store.gen \in Nat /\ Pump(a) \in Procs
  BY ProcNames DEF Authority, StoreOK
<1>b. UNCHANGED Rest => UNCHANGED setup /\ UNCHANGED box
  BY DEF Rest
<1>c. run[Pump(a)] \in RunType /\ RunGood(Pump(a), run[Pump(a)]) /\ run[Pump(a)].g \in Nat
  BY <1>a DEF Authority, RunOK, RunType
<1>1. CASE AttachTerminal(a)
  <2>1. Forward /\ UNCHANGED Rest /\ UNCHANGED <<belief, spent>>
    BY <1>1, <1>a, <1>b, SameRow DEF AttachTerminal
  <2>2. CASE \E m \in Modes : (m = "control" => Shared) /\ Granted(a, m, store.gen)
    <3>1. PICK m \in Modes : (m = "control" => Shared) /\ Granted(a, m, store.gen)
      BY <2>2
    <3>2. WillHold(a, m, store.gen)
      BY <1>a, <2>1, <3>1, OwnMay DEF WillHold, HoldsIn
    <3> QED
      BY <1>a, <1>b, <2>1, <3>1, <3>2, Grants, Kept, SpentOK, OpeningKept
  <2>3. CASE UNCHANGED own /\ \E pc \in {"grant", "take"} : GotoG(Pump(a), pc, store.gen)
    <3>1. RunOK'
      BY <1>a, <2>1, <2>3, OwnMay, GoPlainWith DEF Plain, Places
    <3> QED
      BY <1>a, <1>b, <2>1, <2>3, <3>1, Kept, SpentOK, OpeningKept
  <2>4. Asked(a) \in Modes
    <3>1. setup \in Setups
      BY <1>a DEF OthersOK
    <3>2. setup.cmd[a] \in Commands
      BY <3>1, AttachPlaneAssumption DEF AttachPlaneAssumption
    <3>3. setup.cmd[a].mode \in Modes /\ "view" \in Modes
      BY <3>2 DEF Commands, Modes
    <3> QED
      BY <3>3 DEF Asked, Admitted, Cmd
  <2>5. (IF Shared THEN Asked(a) ELSE "view") \in Modes
    BY <2>4 DEF Modes
  <2>6. (IF Shared THEN Asked(a) ELSE "view") = "control" => Shared
    OBVIOUS
  <2>7. \/ \E m \in Modes : (m = "control" => Shared) /\ Granted(a, m, store.gen)
        \/ UNCHANGED own /\ \E pc \in {"grant", "take"} : GotoG(Pump(a), pc, store.gen)
    <3>1. CASE Granted(a, IF Shared THEN Asked(a) ELSE "view", store.gen)
      BY <2>5, <2>6, <3>1
    <3>2. CASE GotoG(Pump(a), IF Keeper(a) THEN "grant" ELSE "take", store.gen) /\ UNCHANGED own
      BY <3>2 DEF Modes
    <3> QED
      BY <1>1, <3>1, <3>2 DEF AttachTerminal
  <2> QED
    BY <2>2, <2>3, <2>7
<1>2. CASE GrantLegacy(a)
  <2>1. CompareAndAdvance(a, store.gen, a) /\ UNCHANGED Rest /\ UNCHANGED <<belief, spent>>
    BY <1>2 DEF GrantLegacy, NextGeneration
  <2>2. Forward /\ store'.gen = store.gen + 1 /\ won'[store.gen + 1] = a
    BY <1>a, <1>b, <2>1, AdvanceRow
  <2>3. WillHold(a, "control", store.gen + 1) /\ store.gen + 1 \in Nat
    BY <1>a, <2>2 DEF WillHold, HoldsIn, Modes
  <2>4. Granted(a, "control", store.gen + 1)
    BY <1>2 DEF GrantLegacy
  <2>5. OwnOK' /\ RunOK'
    BY <2>2, <2>3, <2>4, Grants DEF Modes
  <2> QED
    BY <1>a, <1>b, <2>1, <2>2, <2>5, Kept, SpentOK, OpeningKept
<1>3. CASE GrantClaim(a)
  <2> DEFINE g == run[Pump(a)].g
  <2>1. UNCHANGED Rest /\ UNCHANGED <<own, belief, spent>>
    BY <1>3 DEF GrantClaim
  <2>2. CASE CompareAndAdvance(a, g, a) /\ GotoG(Pump(a), "grant_renew", g + 1)
    <3>1. Forward /\ store'.gen = g + 1 /\ won'[g + 1] = a
      BY <1>a, <1>b, <2>1, <2>2, AdvanceRow
    <3>2. g + 1 \in Nat /\ g + 1 <= store'.gen
      BY <1>c, <3>1
    <3>3. RunOK'
      BY <2>2, <3>1, <3>2, GoWinning
    <3> QED
      BY <1>a, <1>b, <2>1, <3>1, <3>3, Kept, SpentOK, OpeningKept
  <2>3. CASE Goto(Pump(a), "grant_lost") /\ UNCHANGED <<store, won>>
    <3>1. Forward
      BY <1>a, <1>b, <2>1, <2>3, SameRow
    <3>2. RunOK'
      BY <1>a, <2>3, <3>1, GoPlain DEF Plain, Places
    <3> QED
      BY <1>a, <1>b, <2>1, <3>1, <3>2, Kept, SpentOK, OpeningKept
  <2> QED
    BY <1>3, <2>2, <2>3 DEF GrantClaim
<1>4. CASE GrantRenew(a)
  <2> DEFINE g == run[Pump(a)].g
  <2>1. UNCHANGED Rest /\ UNCHANGED <<belief, won>> /\ spent' \subseteq Faults \cup {"ask"}
    BY <1>4, <1>a, SpentOK DEF GrantRenew
  <2>2. Forward
    BY <1>4, <1>a, <1>b, <2>1, SameRow DEF GrantRenew
  <2>3. CASE Granted(a, "control", g)
    <3>1. ~Shared => won[g] = a
      BY <1>4, <1>c, ProcNames DEF GrantRenew, RunGood, RunIn, Carries
    <3>2. Holds(a, "control", g)
      BY <1>c, <3>1 DEF Holds, HoldsIn, RunGood, RunIn, Modes
    <3>3. WillHold(a, "control", g)
      BY <1>a, <2>2, <3>2, HoldsForward
    <3>4. OwnOK' /\ RunOK'
      BY <1>c, <2>2, <2>3, <3>3, Grants DEF Modes
    <3> QED
      BY <1>b, <2>1, <2>2, <3>4, Kept, OpeningKept
  <2>4. CASE Goto(Pump(a), "grant_lost") /\ UNCHANGED own
    <3>1. RunOK'
      BY <1>a, <2>2, <2>4, GoPlain DEF Plain, Places
    <3> QED
      BY <1>b, <2>1, <2>2, <2>4, <3>1, Kept, OpeningKept
  <2> QED
    BY <1>4, <2>3, <2>4 DEF GrantRenew
<1>5. CASE GrantLost(a)
  <2>1. UNCHANGED Rest /\ UNCHANGED <<belief, spent>> /\ Forward
    BY <1>5, <1>a, <1>b, SameRow DEF GrantLost
  <2>2. WillHold(a, "view", store.gen)
    BY <1>a, <2>1, OwnMay DEF WillHold, HoldsIn, Modes
  <2>3. OwnOK' /\ RunOK'
    BY <1>5, <1>a, <2>1, <2>2, Grants DEF GrantLost, Modes
  <2> QED
    BY <1>a, <1>b, <2>1, <2>3, Kept, SpentOK, OpeningKept
<1>6. CASE Register(a)
  <2>1. UNCHANGED Rest /\ UNCHANGED <<belief, spent>> /\ Forward
    BY <1>6, <1>a, <1>b, SameRow DEF Register
  <2>2. OwnOK'
    <3> DEFINE o == [own[a] EXCEPT !.reg = TRUE]
    <3>1. o \in [m : Modes, g : Nat, told : BOOLEAN, reg : BOOLEAN] /\ o.m = own[a].m /\ o.g = own[a].g
      BY DEF Authority, OwnOK
    <3>2. own' = [own EXCEPT ![a] = o]
      BY <1>6 DEF Register
    <3> HIDE DEF o
    <3>3. WillHold(a, o.m, o.g)
      BY <2>1, <3>1, OwnMay
    <3> QED
      BY <2>1, <3>1, <3>2, <3>3, SetOwn
  <2>3. RunOK'
    BY <1>6, <1>a, <2>1, GoPlain DEF Register, Plain, Places
  <2> QED
    BY <1>a, <1>b, <2>1, <2>2, <2>3, Kept, SpentOK, OpeningKept
<1>7. CASE FirstResize(a)
  <2>1. UNCHANGED Rest /\ UNCHANGED <<belief, spent>> /\ Forward
    BY <1>7, <1>a, <1>b, SameRow DEF FirstResize
  <2>2. OwnOK' /\ RunOK'
    <3>1. CASE StartDisplace(a, own, own[a].g, TRUE, "parked")
      <4>1. own[a].g \in Nat /\ own[a].g <= store'.gen
        BY <2>1, OwnMay
      <4> QED
        BY <2>1, <3>1, <4>1, OwnMay, Displaces DEF Continuations
    <3>2. CASE Answer(a, "parked") /\ UNCHANGED own
      BY <2>1, <3>2, Answers, Kept DEF Continuations
    <3> QED
      BY <1>7, <3>1, <3>2 DEF FirstResize
  <2> QED
    BY <1>a, <1>b, <2>1, <2>2, Kept, SpentOK, OpeningKept
<1>8. CASE FirstFails(a) \/ NoDialBack(a)
  <2>1. UNCHANGED Rest /\ UNCHANGED <<own, belief>> /\ Forward /\ spent' \subseteq Faults \cup {"ask"}
    BY <1>8, <1>a, <1>b, SameRow, SpentOK DEF FirstFails, NoDialBack, Faults
  <2>2. RunOK'
    BY <1>8, <1>a, <2>1, GoPlain DEF FirstFails, NoDialBack, Plain, Places
  <2> QED
    BY <1>b, <2>1, <2>2, Kept, OpeningKept
<1> QED
  BY <1>1, <1>2, <1>3, <1>4, <1>5, <1>6, <1>7, <1>8

\* The parts of the invariant a step has re-established make it whole.
LEMMA Whole ==
  ASSUME Authority, Forward, UNCHANGED box, OwnOK', HoldOK', FramesOK', BeliefOK', RunOK',
         link' \in [Attaches -> {"none", "up", "down"}],
         handoff' \in [Attaches -> Procs \cup {None}],
         ack' \in [Attaches -> Nat \cup {None}],
         spent' \subseteq Faults \cup {"ask"}
  PROVE  Authority'
<1>1. BoxOK'
  BY Kept
<1>2. OthersOK'
  BY DEF Authority, OthersOK, Forward
<1>3. StoreOK'
  BY DEF Forward
<1> QED
  BY <1>1, <1>2, <1>3 DEF Authority

\* A process carries only what its attach may have.
LEMMA CarriedMay ==
  ASSUME Authority, Forward, NEW x \in Procs, run[x].m = "control" => Carries(run[x])
  PROVE  WillHold(Target(x), run[x].m, run[x].g)
<1>1. RunGood(x, run[x])
  BY DEF Authority, RunOK
<1>2. Holds(Target(x), run[x].m, run[x].g)
  BY <1>1 DEF RunGood, RunIn, RunType, Holds, HoldsIn
<1> QED
  BY <1>2, HoldsForward DEF Authority

\* A pump goes to read the row before it answers.
LEMMA GoesStale ==
  ASSUME Authority, Forward, NEW a \in Attaches, NEW k \in Continuations,
         run' = [run EXCEPT ![Pump(a)].pc = "stale", ![Pump(a)].k = k]
  PROVE  RunOK'
<1> DEFINE r == [run[Pump(a)] EXCEPT !.pc = "stale", !.k = k]
<1>1. run[Pump(a)] \in RunType /\ run[Pump(a)].g <= store'.gen
  BY ProcNames, OwnMay
<1>2. r \in RunType /\ r.pc = "stale" /\ r.g = run[Pump(a)].g
  BY <1>1 DEF RunType, Places
<1>3. run' = [run EXCEPT ![Pump(a)] = r]
  OBVIOUS
<1> HIDE DEF r
<1>4. WillRun(Pump(a), r)
  BY <1>1, <1>2, PlainRecord DEF Carries
<1> QED
  BY <1>3, <1>4, ProcNames, SetRun

\* A pump goes to install the generation it has won.
LEMMA GoesInstalling ==
  ASSUME Authority, Forward, NEW a \in Attaches, run[Pump(a)].pc = "claim_renew", ToInstall(a, run[Pump(a)].g)
  PROVE  RunOK'
<1> DEFINE r == [run[Pump(a)] EXCEPT !.pc = "lock", !.m = "control", !.g = run[Pump(a)].g]
<1>1. run[Pump(a)] \in RunType /\ run[Pump(a)].g <= store'.gen
  BY ProcNames, OwnMay
<1>2. r \in RunType /\ r.pc = "lock" /\ r.m = "control" /\ r.g = run[Pump(a)].g
  BY <1>1 DEF RunType, Places, Modes
<1>3. run' = [run EXCEPT ![Pump(a)] = r]
  BY DEF ToInstall
<1>4. ~Shared => won'[run[Pump(a)].g] = a
  <2>1. RunGood(Pump(a), run[Pump(a)])
    BY ProcNames DEF Authority, RunOK
  <2>2. WillRun(Pump(a), run[Pump(a)])
    BY <2>1, RunGoodForward DEF Authority
  <2> QED
    BY <2>2, ProcNames DEF WillRun, RunIn, Carries
<1> HIDE DEF r
<1>5. WillRun(Pump(a), r)
  BY <1>1, <1>2, <1>4, ProcNames DEF WillRun, RunIn
<1> QED
  BY <1>3, <1>5, ProcNames, SetRun

\* Giving a generation back advances the row for nobody, or leaves it.
LEMMA ReleaseRow ==
  ASSUME Authority, NEW a \in Attaches, UNCHANGED setup, Release(a, TRUE)
  PROVE  Forward /\ spent' \subseteq Faults \cup {"ask"}
<1>a. StoreOK /\ OthersOK
  BY DEF Authority
<1>1. CASE CompareAndAdvance(a, run[Pump(a)].g, None) /\ UNCHANGED spent
  BY <1>1, <1>a, AdvanceRow, SpentOK
<1>2. CASE UNCHANGED <<store, won>> /\ (UNCHANGED spent \/ StoreFails)
  BY <1>2, <1>a, SameRow, SpentOK
<1> QED
  BY <1>1, <1>2 DEF Release

\* The pairing: the runner opens the attachment with what was answered.
LEMMA DialBackStep ==
  ASSUME Authority, NEW a \in Attaches, DialBack(a)
  PROVE  Authority' /\ Forward /\ UNCHANGED box
<1>1. Forward /\ UNCHANGED <<box, own, belief, hold, handoff, ack, spent>>
  BY SameRow DEF DialBack, Authority
<1>2. FramesOK'
  <2> DEFINE f == [t |-> "open", m |-> run[Pump(a)].m, g |-> run[Pump(a)].g]
  <2>1. run[Pump(a)] \in RunType
    BY <1>1, ProcNames, OwnMay
  <2>2. f \in Frame /\ f.m = run[Pump(a)].m /\ f.g = run[Pump(a)].g
    BY <2>1 DEF Frame, RunType
  <2>3. WillHold(a, f.m, f.g)
    BY <1>1, <2>2, ProcNames, CarriedMay DEF DialBack, Carries
  <2>4. Sent(a, f)
    BY DEF DialBack
  <2> HIDE DEF f
  <2> QED
    BY <1>1, <2>2, <2>3, <2>4, SendFrame
<1>3. RunOK'
  BY <1>1, GoesLive DEF DialBack
<1>4. link' \in [Attaches -> {"none", "up", "down"}]
  BY DEF DialBack, Authority, OthersOK
<1> QED
  BY <1>1, <1>2, <1>3, <1>4, Kept, Whole DEF Authority, OthersOK

\* A claim, up to the answer of the sandbox.
LEMMA ClaimStep ==
  ASSUME Authority, NEW a \in Attaches,
         ClaimAnswered(a) \/ ClaimBegins(a) \/ Claim(a) \/ ClaimRenew(a)
  PROVE  Authority' /\ Forward /\ UNCHANGED box
<1>a. StoreOK /\ OthersOK /\ store.gen \in Nat /\ Pump(a) \in Procs
  BY ProcNames DEF Authority, StoreOK
<1>b. UNCHANGED Rest => UNCHANGED <<setup, box>>
  BY DEF Rest
<1>c. run[Pump(a)] \in RunType /\ run[Pump(a)].g \in Nat
  BY <1>a DEF Authority, RunOK, RunType
<1>1. CASE ClaimAnswered(a)
  <2>1. UNCHANGED Rest /\ UNCHANGED <<own, belief>> /\ Forward /\ spent' \subseteq Faults \cup {"ask"}
    BY <1>1, <1>a, <1>b, SameRow, SpentOK DEF ClaimAnswered
  <2>2. Answer(a, "live") \/ run' = [run EXCEPT ![Pump(a)].pc = "stale", ![Pump(a)].k = "live"]
    BY <1>1 DEF ClaimAnswered
  <2>3. RunOK'
    BY <2>1, <2>2, Answers, GoesStale DEF Continuations
  <2> QED
    BY <1>b, <2>1, <2>3, Kept, OpeningKept
<1>2. CASE ClaimBegins(a)
  <2>1. UNCHANGED Rest /\ UNCHANGED <<own, belief, spent>> /\ Forward
    BY <1>2, <1>a, <1>b, SameRow DEF ClaimBegins
  <2>2. PICK e \in {belief[a].g, own[a].g} : GotoG(Pump(a), "claim", e)
    BY <1>2 DEF ClaimBegins
  <2>3. belief[a].g \in Nat /\ belief[a].g <= store.gen
    BY DEF Authority, BeliefOK
  <2>4. own[a].g \in Nat /\ own[a].g <= store'.gen
    BY <2>1, OwnMay
  <2>5. e \in Nat /\ e <= store'.gen
    BY <1>2, <2>3, <2>4 DEF ClaimBegins
  <2>6. RunOK'
    BY <1>a, <2>1, <2>2, <2>5, GoPlainWith DEF Plain, Places
  <2> QED
    BY <1>a, <1>b, <2>1, <2>6, Kept, SpentOK, OpeningKept
<1>3. CASE Claim(a)
  <2> DEFINE e == run[Pump(a)].g
  <2>1. UNCHANGED Rest /\ UNCHANGED <<own, belief>>
    BY <1>3 DEF Claim
  <2>2. CASE CompareAndAdvance(a, e, a) /\ GotoG(Pump(a), "claim_renew", e + 1) /\ UNCHANGED spent
    <3>1. Forward /\ store'.gen = e + 1 /\ won'[e + 1] = a
      BY <1>a, <1>b, <2>1, <2>2, AdvanceRow
    <3>2. e + 1 \in Nat /\ e + 1 <= store'.gen
      BY <1>c, <3>1
    <3>3. RunOK'
      BY <2>2, <3>1, <3>2, GoWinning
    <3> QED
      BY <1>a, <1>b, <2>1, <2>2, <3>1, <3>3, Kept, SpentOK, OpeningKept
  <2>3. CASE ToStale(a) /\ UNCHANGED <<store, won>> /\ (UNCHANGED spent \/ StoreFails)
    <3>1. Forward /\ spent' \subseteq Faults \cup {"ask"}
      BY <1>a, <1>b, <2>1, <2>3, SameRow, SpentOK
    <3>2. RunOK'
      BY <2>3, <3>1, GoesStale DEF ToStale, Continuations
    <3> QED
      BY <1>b, <2>1, <3>1, <3>2, Kept, OpeningKept
  <2> QED
    BY <1>3, <2>2, <2>3 DEF Claim
<1>4. CASE ClaimRenew(a)
  <2>1. UNCHANGED Rest /\ UNCHANGED <<own, belief, won>>
    BY <1>4 DEF ClaimRenew
  <2>2. (UNCHANGED store \/ RenewLease(a)) /\ (UNCHANGED spent \/ StoreFails)
    BY <1>4 DEF ClaimRenew
  <2>3. Forward /\ spent' \subseteq Faults \cup {"ask"}
    BY <1>a, <1>b, <2>1, <2>2, SameRow, SpentOK
  <2>4. RunOK'
    <3>1. ToStale(a) \/ ToInstall(a, run[Pump(a)].g)
      BY <1>4 DEF ClaimRenew
    <3>2. run[Pump(a)].pc = "claim_renew"
      BY <1>4 DEF ClaimRenew
    <3> QED
      BY <2>3, <3>1, <3>2, GoesStale, GoesInstalling DEF ToStale, Continuations
  <2> QED
    BY <1>b, <2>1, <2>3, <2>4, Kept, OpeningKept
<1> QED
  BY <1>1, <1>2, <1>3, <1>4

\* The state of one attach displaced to a generation the row has reached
\* is one it may have, and so is a demoted one.
LEMMA StepsDown ==
  ASSUME Authority, Forward, NEW a \in Attaches, NEW g \in Nat, g <= store'.gen, NEW from \in Nat
  PROVE  /\ own' = [own EXCEPT ![a] = Displaced(own[a], g)] => OwnOK'
         /\ own' = [own EXCEPT ![a] = Demoted(own[a], from, g)] => OwnOK'
         /\ Demoted(own[a], from, g).g \in Nat /\ Demoted(own[a], from, g).g <= store'.gen
<1> DEFINE T == [m : Modes, g : Nat, told : BOOLEAN, reg : BOOLEAN]
<1>1. own[a] \in T /\ own[a].g <= store'.gen /\ WillHold(a, own[a].m, own[a].g) /\ own[a].g \in Nat
  BY OwnMay
<1>2. \A n \in Nat : n <= store'.gen => WillHold(a, "view", n)
  BY DEF WillHold, HoldsIn, Modes
<1>3. \A n \in Nat : LET o == [own[a] EXCEPT !.m = "view", !.g = n]
                     IN  o \in T /\ o.m = "view" /\ o.g = n
  BY <1>1 DEF Modes
<1>4. Max2(own[a].g, g) \in Nat /\ Max2(own[a].g, g) <= store'.gen
  BY <1>1 DEF Max2
<1>5. /\ Displaced(own[a], g) \in T
      /\ WillHold(a, Displaced(own[a], g).m, Displaced(own[a], g).g)
  BY <1>1, <1>2, <1>3 DEF Displaced
<1>6. /\ Demoted(own[a], from, g) \in T
      /\ WillHold(a, Demoted(own[a], from, g).m, Demoted(own[a], from, g).g)
      /\ Demoted(own[a], from, g).g \in Nat /\ Demoted(own[a], from, g).g <= store'.gen
  BY <1>1, <1>2, <1>3, <1>4 DEF Demoted
<1> HIDE DEF T
<1>7. own' = [own EXCEPT ![a] = Displaced(own[a], g)] => OwnOK'
  BY <1>5, SetOwn DEF T
<1>8. own' = [own EXCEPT ![a] = Demoted(own[a], from, g)] => OwnOK'
  BY <1>6, SetOwn DEF T
<1> QED
  BY <1>6, <1>7, <1>8

\* A claim the sandbox has answered, or could not be told of.
LEMMA ClaimEndsStep ==
  ASSUME Authority, NEW a \in Attaches,
         ClaimWon(a) \/ ClaimCheck(a) \/ ClaimGivenBack(a) \/ BackTold(a) \/ SendStale(a)
  PROVE  Authority' /\ Forward /\ UNCHANGED box
<1>a. StoreOK /\ OthersOK /\ store.gen \in Nat /\ Pump(a) \in Procs
  BY ProcNames DEF Authority, StoreOK
<1>b. UNCHANGED Rest => UNCHANGED <<setup, box>>
  BY DEF Rest
<1>c. run[Pump(a)] \in RunType /\ run[Pump(a)].g \in Nat
  BY <1>a DEF Authority, RunOK, RunType
<1>1. CASE ClaimWon(a)
  <2> DEFINE g == run[Pump(a)].g
  <2>1. UNCHANGED Rest /\ UNCHANGED <<store, belief, won, spent>>
    BY <1>1 DEF ClaimWon
  <2>2. Forward
    BY <1>a, <1>b, <2>1, SameRow
  <2>3. WillHold(a, "control", g) /\ g \in Nat /\ g <= store'.gen
    <3>1. run[Pump(a)].m = "control" /\ Carries(run[Pump(a)])
      BY <1>1, <1>a DEF ClaimWon, Authority, RunOK, RunGood, RunIn, Carries
    <3>2. WillHold(Target(Pump(a)), "control", g)
      BY <1>a, <2>2, <3>1, CarriedMay
    <3> QED
      BY <1>a, <1>c, <2>2, <3>2, OwnMay, ProcNames
  <2>4. OwnOK' /\ RunOK'
    <3>1. CASE own[a].g <= g
      <4> DEFINE o == [own EXCEPT ![a] = Advanced(@, "control", g)]
      <4>1. own[a] \in [m : Modes, g : Nat, told : BOOLEAN, reg : BOOLEAN] /\ own[a].g \in Nat
        BY <2>2, OwnMay
      <4>2. Advanced(own[a], "control", g) = [own[a] EXCEPT !.m = "control", !.g = g]
        BY <2>3, <3>1, <4>1 DEF Advanced
      <4>3. /\ Advanced(own[a], "control", g) \in [m : Modes, g : Nat, told : BOOLEAN, reg : BOOLEAN]
            /\ Advanced(own[a], "control", g).m = "control" /\ Advanced(own[a], "control", g).g = g
        BY <2>3, <4>1, <4>2 DEF Modes
      <4>4. o \in [Attaches -> [m : Modes, g : Nat, told : BOOLEAN, reg : BOOLEAN]]
        BY <2>2, <4>3, OwnMay
      <4>5. \A p \in Attaches : o[p] = IF p = a THEN Advanced(own[a], "control", g) ELSE own[p]
        BY <2>2, OwnMay
      <4>6. \A p \in Attaches : WillHold(p, o[p].m, o[p].g)
        BY <2>2, <2>3, <4>3, <4>5, OwnMay
      <4>7. StartDisplace(a, o, g, TRUE, "claim_check")
        BY <1>1, <3>1 DEF ClaimWon
      <4> HIDE DEF o
      <4> QED
        BY <2>2, <2>3, <4>4, <4>6, <4>7, Displaces DEF Continuations
    <3>2. CASE ~(own[a].g <= g)
      <4> DEFINE r == [run[Pump(a)] EXCEPT !.pc = "hold", !.won = g, !.k = "claim_check"]
      <4>1. r \in RunType /\ r.pc = "hold" /\ r.g = g
        BY <1>c DEF RunType, Places, Continuations
      <4>2. run' = [run EXCEPT ![Pump(a)] = r] /\ UNCHANGED own
        BY <1>1, <3>2 DEF ClaimWon
      <4> HIDE DEF r
      <4>3. WillRun(Pump(a), r)
        BY <2>3, <4>1, PlainRecord DEF Carries
      <4> QED
        BY <1>a, <2>2, <4>2, <4>3, SetRun, Kept
    <3> QED
      BY <3>1, <3>2
  <2> QED
    BY <1>a, <1>b, <2>1, <2>2, <2>4, Kept, SpentOK, OpeningKept
<1>2. CASE ClaimCheck(a)
  <2> DEFINE r == run[Pump(a)]
  <2>1. UNCHANGED <<setup, store, own, link, belief, hold, handoff, ack, box, won, spent>>
    BY <1>2 DEF ClaimCheck
  <2>2. Forward
    BY <1>a, <2>1, SameRow
  <2>3. FramesOK'
    <3>1. CASE UNCHANGED toBox
      BY <2>2, <3>1, Kept
    <3>2. CASE Sent(a, ControlFrame(r.m, r.g))
      <4>1. WillHold(a, r.m, r.g)
        BY <1>2, <1>a, <2>2, ProcNames, CarriedMay DEF ClaimCheck, Carries
      <4>2. ControlFrame(r.m, r.g) \in Frame /\ ControlFrame(r.m, r.g).m = r.m /\ ControlFrame(r.m, r.g).g = r.g
        BY <1>c DEF ControlFrame, Frame, RunType
      <4> QED
        BY <2>2, <3>2, <4>1, <4>2, SendFrame
    <3> QED
      BY <1>2, <3>1, <3>2 DEF ClaimCheck
  <2>4. RunOK'
    BY <1>2, <2>2, GoesLive DEF ClaimCheck
  <2> QED
    BY <1>a, <2>1, <2>2, <2>3, <2>4, Kept, Whole DEF OthersOK
<1>3. CASE ClaimGivenBack(a)
  <2>1. UNCHANGED Rest /\ UNCHANGED <<own, belief>> /\ Release(a, TRUE)
        /\ run' = [run EXCEPT ![Pump(a)].pc = "stale", ![Pump(a)].k = "back_told"]
    BY <1>3 DEF ClaimGivenBack, Release
  <2>2. Forward /\ spent' \subseteq Faults \cup {"ask"}
    BY <1>b, <2>1, ReleaseRow
  <2>3. RunOK'
    BY <2>1, <2>2, GoesStale DEF Continuations
  <2> QED
    BY <1>b, <2>1, <2>2, <2>3, Kept, OpeningKept
<1>4. CASE BackTold(a)
  <2>1. UNCHANGED Rest /\ UNCHANGED <<store, belief, won, spent>>
        /\ StartDisplace(a, own, run[Pump(a)].g, TRUE, "live")
    BY <1>4 DEF BackTold
  <2>2. Forward
    BY <1>a, <1>b, <2>1, SameRow
  <2>3. OwnOK' /\ RunOK'
    BY <1>a, <1>c, <2>1, <2>2, OwnMay, Displaces DEF Continuations
  <2> QED
    BY <1>a, <1>b, <2>1, <2>2, <2>3, Kept, SpentOK, OpeningKept
<1>5. CASE SendStale(a)
  <2>1. UNCHANGED Rest /\ UNCHANGED <<store, belief, won>> /\ Answer(a, run[Pump(a)].k)
        /\ (UNCHANGED spent \/ StoreFails)
        /\ (UNCHANGED own \/ own' = [own EXCEPT ![a] = Displaced(own[a], store.gen)])
    BY <1>5 DEF SendStale
  <2>2. Forward /\ spent' \subseteq Faults \cup {"ask"}
    BY <1>a, <1>b, <2>1, SameRow, SpentOK
  <2>3. OwnOK'
    BY <1>a, <2>1, <2>2, StepsDown, OwnMay, Kept
  <2>4. RunOK'
    BY <1>c, <2>1, <2>2, Answers DEF RunType
  <2> QED
    BY <1>b, <2>1, <2>2, <2>3, <2>4, Kept, OpeningKept
<1> QED
  BY <1>1, <1>2, <1>3, <1>4, <1>5

\* Giving control back, and the end of an attach.
LEMMA LeavingStep ==
  ASSUME Authority, NEW a \in Attaches,
         \/ ReleaseBegins(a) \/ ReleaseControl(a) \/ Released(a)
         \/ SpliceEnds(a) \/ Finish(a) \/ FinishRelease(a) \/ FinishTell(a)
  PROVE  Authority' /\ Forward /\ UNCHANGED box
<1>a. StoreOK /\ OthersOK /\ store.gen \in Nat /\ Pump(a) \in Procs
  BY ProcNames DEF Authority, StoreOK
<1>b. UNCHANGED Rest => UNCHANGED <<setup, box>>
  BY DEF Rest
<1>c. run[Pump(a)] \in RunType /\ run[Pump(a)].g \in Nat
  BY <1>a DEF Authority, RunOK, RunType
<1>1. CASE ReleaseBegins(a)
  <2>1. UNCHANGED Rest /\ UNCHANGED <<store, own, belief, won, spent>>
    BY <1>1 DEF ReleaseBegins
  <2>2. Forward
    BY <1>a, <1>b, <2>1, SameRow
  <2>3. RunOK'
    <3>1. PICK pc \in {"demote", "release"}, k \in {"live", "released"} :
            run' = [run EXCEPT ![Pump(a)] = [Idle EXCEPT !.g = own[a].g, !.pc = pc, !.k = k]]
      BY <1>1 DEF ReleaseBegins
    <3> DEFINE r == [Idle EXCEPT !.g = own[a].g, !.pc = pc, !.k = k]
    <3>2. own[a].g \in Nat /\ own[a].g <= store'.gen
      BY <2>2, OwnMay
    <3>3. Idle \in RunType /\ pc \in Places /\ k \in Continuations
      BY DEF Idle, RunType, Places, Continuations, Modes
    <3>4. r \in RunType /\ r.g = own[a].g /\ r.pc = pc
      BY <3>2, <3>3 DEF RunType
    <3> HIDE DEF r
    <3>5. WillRun(Pump(a), r)
      BY <3>2, <3>4, PlainRecord DEF Carries
    <3> QED
      BY <1>a, <2>2, <3>1, <3>5, SetRun DEF r
  <2> QED
    BY <1>a, <1>b, <2>1, <2>2, <2>3, Kept, SpentOK, OpeningKept
<1>2. CASE ReleaseControl(a) \/ FinishRelease(a)
  <2>1. UNCHANGED Rest /\ UNCHANGED <<own, belief>> /\ Release(a, TRUE)
        /\ (Goto(Pump(a), "demote") \/ Goto(Pump(a), "left"))
    BY <1>2 DEF ReleaseControl, FinishRelease, Release
  <2>2. Forward /\ spent' \subseteq Faults \cup {"ask"}
    BY <1>b, <2>1, ReleaseRow
  <2>3. RunOK'
    BY <1>a, <2>1, <2>2, GoPlain DEF Plain, Places
  <2> QED
    BY <1>b, <2>1, <2>2, <2>3, Kept, OpeningKept
<1>3. CASE Released(a)
  <2>1. UNCHANGED Rest /\ UNCHANGED <<store, belief, won, spent>>
        /\ StartDisplace(a, own, run[Pump(a)].g, FALSE, "live")
    BY <1>3 DEF Released
  <2>2. Forward
    BY <1>a, <1>b, <2>1, SameRow
  <2>3. OwnOK' /\ RunOK'
    BY <1>a, <1>c, <2>1, <2>2, OwnMay, Displaces DEF Continuations
  <2> QED
    BY <1>a, <1>b, <2>1, <2>2, <2>3, Kept, SpentOK, OpeningKept
<1>4. CASE SpliceEnds(a)
  <2>1. UNCHANGED Rest /\ UNCHANGED <<store, own, belief, won, spent>> /\ Goto(Pump(a), "finish")
    BY <1>4 DEF SpliceEnds
  <2>2. Forward
    BY <1>a, <1>b, <2>1, SameRow
  <2>3. RunOK'
    BY <1>a, <2>1, <2>2, GoPlain DEF Plain, Places
  <2> QED
    BY <1>a, <1>b, <2>1, <2>2, <2>3, Kept, SpentOK, OpeningKept
<1>5. CASE Finish(a)
  <2>1. UNCHANGED Rest /\ UNCHANGED <<store, belief, won, spent>>
    BY <1>5 DEF Finish
  <2>2. Forward
    BY <1>a, <1>b, <2>1, SameRow
  <2>3. OwnOK'
    <3> DEFINE o == [own[a] EXCEPT !.reg = FALSE]
    <3>1. o \in [m : Modes, g : Nat, told : BOOLEAN, reg : BOOLEAN] /\ o.m = own[a].m /\ o.g = own[a].g
      BY <2>2, OwnMay
    <3>2. own' = [own EXCEPT ![a] = o]
      BY <1>5 DEF Finish
    <3> HIDE DEF o
    <3>3. WillHold(a, o.m, o.g)
      BY <2>2, <3>1, OwnMay
    <3> QED
      BY <2>2, <3>1, <3>2, <3>3, SetOwn
  <2>4. RunOK'
    <3>1. PICK pc \in {"leave", "gone"} : GotoG(Pump(a), pc, own[a].g)
      BY <1>5 DEF Finish
    <3>2. own[a].g \in Nat /\ own[a].g <= store'.gen
      BY <2>2, OwnMay
    <3> QED
      BY <1>a, <2>2, <3>1, <3>2, GoPlainWith DEF Plain, Places
  <2> QED
    BY <1>a, <1>b, <2>1, <2>2, <2>3, <2>4, Kept, SpentOK, OpeningKept
<1>6. CASE FinishTell(a)
  <2>1. UNCHANGED Rest /\ UNCHANGED <<store, belief, won>> /\ (UNCHANGED spent \/ StoreFails)
    BY <1>6 DEF FinishTell
  <2>2. Forward /\ spent' \subseteq Faults \cup {"ask"}
    BY <1>a, <1>b, <2>1, SameRow, SpentOK
  <2>3. OwnOK' /\ RunOK'
    <3>1. CASE StartDisplace(a, own, store.gen, FALSE, "gone")
      BY <1>a, <2>2, <3>1, OwnMay, Displaces DEF Continuations
    <3>2. CASE Goto(Pump(a), "gone") /\ UNCHANGED own
      BY <1>a, <2>2, <3>2, GoPlain, Kept DEF Plain, Places
    <3> QED
      BY <1>6, <3>1, <3>2 DEF FinishTell
  <2> QED
    BY <1>b, <2>1, <2>2, <2>3, Kept, OpeningKept
<1> QED
  BY <1>1, <1>2, <1>3, <1>4, <1>5, <1>6

\* A process stops, and with it what it carried.
LEMMA Stops ==
  ASSUME Authority, Forward, NEW x \in Procs, run' = [run EXCEPT ![x] = Idle]
  PROVE  RunOK'
<1>1. RunGood(x, Idle)
  BY Nothing DEF Authority
<1>2. WillRun(x, Idle)
  BY <1>1, RunGoodForward DEF Authority
<1> QED
  BY <1>2, SetRun

\* The heartbeat, from a tick to the end of the splice.
LEMMA BeatStep ==
  ASSUME Authority, NEW a \in Attaches, BeatTick(a) \/ BeatEnds(a)
  PROVE  Authority' /\ Forward /\ UNCHANGED box
<1>a. StoreOK /\ OthersOK /\ Beat(a) \in Procs
  BY ProcNames DEF Authority
<1>b. UNCHANGED Rest => UNCHANGED <<setup, box>>
  BY DEF Rest
<1>1. CASE BeatTick(a)
  <2>1. UNCHANGED Rest /\ UNCHANGED <<own, belief, won, spent>> /\ (UNCHANGED store \/ RenewLease(a))
    BY <1>1 DEF BeatTick
  <2>2. Forward
    BY <1>a, <1>b, <2>1, SameRow
  <2>3. RunOK'
    <3>1. own[a].g \in Nat /\ own[a].g <= store'.gen
      BY <2>2, OwnMay
    <3>2. UNCHANGED run \/ GotoG(Beat(a), "demote", own[a].g)
      BY <1>1 DEF BeatTick, GotoG
    <3> QED
      BY <1>a, <2>2, <3>1, <3>2, GoPlainWith, Kept DEF Plain, Places
  <2> QED
    BY <1>a, <1>b, <2>1, <2>2, <2>3, Kept, SpentOK, OpeningKept
<1>2. CASE BeatEnds(a)
  <2>1. UNCHANGED <<setup, store, own, link, belief, ack, toBox, box, won, spent>>
    BY <1>2 DEF BeatEnds
  <2>2. Forward
    BY <1>a, <2>1, SameRow
  <2>3. RunOK'
    BY <1>2, <1>a, <2>2, Stops DEF BeatEnds
  <2>4. HoldOK'
    <3> DEFINE T == [by : Procs \cup {None}, m : Modes, g : Nat, won : Nat]
    <3>1. hold \in [Attaches -> T] /\ \A b \in Attaches : WillHold(b, hold[b].m, hold[b].g)
      BY <1>a, <2>2, HoldsForward DEF Authority, HoldOK
    <3>2. FreeHold \in T /\ FreeHold.m = "view" /\ FreeHold.g = 0
      BY DEF FreeHold, Modes
    <3>3. WillHold(a, "view", 0)
      BY <1>a, <2>2, Nothing, HoldsForward
    <3>4. UNCHANGED hold \/ hold' = [hold EXCEPT ![a] = FreeHold]
      <4>1. hold' = [hold EXCEPT ![a] = IF hold[a].by = Beat(a) THEN FreeHold ELSE hold[a]]
        BY <1>2 DEF BeatEnds
      <4> QED
        BY <3>1, <4>1
    <3> HIDE DEF T
    <3>5. hold' \in [Attaches -> T]
      BY <3>1, <3>2, <3>4
    <3>6. \A b \in Attaches : WillHold(b, hold'[b].m, hold'[b].g)
      BY <3>1, <3>2, <3>3, <3>4
    <3> QED
      BY <2>2, <3>5, <3>6, SetAll DEF T
  <2>5. handoff' \in [Attaches -> Procs \cup {None}]
    BY <1>2, <1>a DEF BeatEnds, OthersOK
  <2> QED
    BY <1>a, <2>1, <2>2, <2>3, <2>4, <2>5, Kept, Whole DEF OthersOK
<1> QED
  BY <1>1, <1>2

\* A demotion: a viewer under the newest of what it knows and was told.
LEMMA DemoteStep ==
  ASSUME Authority, NEW x \in Procs, Demote(x)
  PROVE  Authority' /\ Forward /\ UNCHANGED box
<1> DEFINE a == Target(x)
           from == run[x].g
<1>a. StoreOK /\ OthersOK /\ a \in Attaches
  BY ProcNames DEF Authority
<1>1. UNCHANGED Rest /\ UNCHANGED <<store, belief, won>>
  BY DEF Demote
<1>2. Forward /\ UNCHANGED <<setup, box>>
  BY <1>a, <1>1, SameRow DEF Rest
<1>3. from \in Nat /\ from <= store'.gen /\ store.gen \in Nat /\ store.gen <= store'.gen /\ run[x] \in RunType
  BY <1>2, OwnMay
<1> HIDE DEF a, from
<1>4. PICK cur \in {store.gen, from} :
        /\ cur # store.gen => StoreFails
        /\ cur = store.gen => UNCHANGED spent
        /\ own' = [own EXCEPT ![a] = Demoted(own[a], from, cur)]
        /\ run' = [run EXCEPT ![x].m = "view", ![x].won = 0, ![x].g = Demoted(own[a], from, cur).g,
                              ![x].pc = IF own[a].g > from THEN "hold" ELSE "lock"]
  BY DEF Demote, a, from
<1>5. cur \in Nat /\ cur <= store'.gen
  BY <1>3, <1>4
<1>6. /\ OwnOK'
      /\ Demoted(own[a], from, cur).g \in Nat /\ Demoted(own[a], from, cur).g <= store'.gen
  BY <1>a, <1>2, <1>3, <1>4, <1>5, StepsDown
<1>7. spent' \subseteq Faults \cup {"ask"}
  BY <1>a, <1>4, SpentOK
<1>8. RunOK'
  <2> DEFINE g == Demoted(own[a], from, cur).g
             pc == IF own[a].g > from THEN "hold" ELSE "lock"
             r == [run[x] EXCEPT !.m = "view", !.won = 0, !.g = g, !.pc = pc]
  <2>1. pc \in {"hold", "lock"}
    OBVIOUS
  <2>2. run' = [run EXCEPT ![x] = r]
    BY <1>4
  <2>3. g \in Nat /\ g <= store'.gen
    BY <1>6
  <2> HIDE DEF g, pc
  <2>4. r \in RunType /\ r.m = "view" /\ r.g = g /\ r.pc = pc
    BY <1>3, <2>1, <2>3 DEF RunType, Places, Modes
  <2> HIDE DEF r
  <2>5. WillRun(x, r)
    BY <2>1, <2>3, <2>4, PlainRecord DEF Carries
  <2> QED
    BY <1>2, <2>2, <2>5, SetRun
<1> QED
  BY <1>1, <1>2, <1>6, <1>7, <1>8, Kept, OpeningKept

\* Installing a binding, and the wait for the sandbox.
LEMMA InstallStep ==
  ASSUME Authority, NEW x \in Procs, Install(x) \/ AckSeen(x) \/ AckTimeout(x) \/ InstallNoWait(x)
  PROVE  Authority' /\ Forward /\ UNCHANGED box
<1> DEFINE a == Target(x)
<1>a. StoreOK /\ OthersOK /\ a \in Attaches
  BY ProcNames DEF Authority
<1>b. UNCHANGED <<setup, store, own, link, belief, hold, box, won>>
  BY DEF Install, AckSeen, AckTimeout, InstallNoWait
<1>c. Forward
  BY <1>a, <1>b, SameRow
<1>d. run[x] \in RunType /\ run[x].g \in Nat /\ run[x].g <= store'.gen /\ RunGood(x, run[x])
  BY <1>c, OwnMay DEF Authority, RunOK
<1> HIDE DEF a
<1>e. ASSUME NEW pc \in {"wait", "claim_won"}, Goto(x, pc), run[x].pc \in {"lock", "wait"},
             pc = "claim_won" => run[x].m = "control"
      PROVE  RunOK'
  <2> DEFINE r == [run[x] EXCEPT !.pc = pc]
  <2>1. r \in RunType /\ r.pc = pc /\ r.g = run[x].g /\ r.m = run[x].m
    BY <1>d DEF RunType, Places
  <2>2. run' = [run EXCEPT ![x] = r]
    BY <1>e DEF Goto
  <2>3. WillRun(x, run[x])
    BY <1>a, <1>c, <1>d, RunGoodForward
  <2> HIDE DEF r
  <2>4. WillRun(x, r)
    BY <1>e, <2>1, <2>3 DEF WillRun, RunIn, Carries
  <2> QED
    BY <1>c, <2>2, <2>4, SetRun
<1>f. ASSUME Goto(x, AfterWait(x)), run[x].pc = "wait" PROVE RunOK'
  <2>1. CASE x[1] = "pump" /\ run[x].m = "control"
    BY <1>e, <1>f, <2>1 DEF AfterWait
  <2>2. CASE ~(x[1] = "pump" /\ run[x].m = "control")
    BY <1>c, <1>f, <2>2, GoPlain DEF AfterWait, Plain, Places
  <2> QED
    BY <2>1, <2>2
<1>1. CASE Install(x)
  <2>1. CASE Spliced(a)
    <3>1. Sent(a, ControlFrame(run[x].m, run[x].g)) /\ ack' = [ack EXCEPT ![a] = None]
          /\ handoff' = [handoff EXCEPT ![a] = x] /\ Goto(x, "wait") /\ UNCHANGED spent /\ run[x].pc = "lock"
      BY <1>1, <2>1 DEF Install, a
    <3>2. ControlFrame(run[x].m, run[x].g) \in Frame
          /\ ControlFrame(run[x].m, run[x].g).m = run[x].m /\ ControlFrame(run[x].m, run[x].g).g = run[x].g
      BY <1>d DEF ControlFrame, Frame, RunType
    <3>3. WillHold(a, run[x].m, run[x].g)
      BY <1>c, <3>1, CarriedMay DEF Carries, a
    <3>4. FramesOK'
      BY <1>a, <1>c, <3>1, <3>2, <3>3, SendFrame
    <3>5. RunOK'
      BY <1>e, <3>1
    <3>6. ack' \in [Attaches -> Nat \cup {None}] /\ handoff' \in [Attaches -> Procs \cup {None}]
      BY <1>a, <3>1 DEF OthersOK
    <3> QED
      BY <1>a, <1>b, <1>c, <3>1, <3>4, <3>5, <3>6, Kept, Whole DEF OthersOK
  <2>2. CASE ~Spliced(a)
    <3>1. UNCHANGED <<toBox, ack, handoff, spent>>
          /\ Goto(x, IF AfterWait(x) = "claim_won" THEN "claim_back" ELSE AfterWait(x))
      BY <1>1, <2>2 DEF Install, a
    <3>2. Goto(x, "claim_back") \/ Goto(x, "hold")
      BY <3>1 DEF AfterWait
    <3>3. RunOK'
      BY <1>c, <3>2, GoPlain DEF Plain, Places
    <3> QED
      BY <1>a, <1>b, <1>c, <3>1, <3>3, Kept, Whole DEF OthersOK
  <2> QED
    BY <2>1, <2>2
<1>2. CASE AckSeen(x)
  <2>1. ack' = [ack EXCEPT ![a] = None] /\ UNCHANGED <<toBox, spent>>
        /\ \/ UNCHANGED <<handoff, run>>
           \/ handoff' = [handoff EXCEPT ![a] = None] /\ Goto(x, AfterWait(x)) /\ run[x].pc = "wait"
    BY <1>2 DEF AckSeen, a
  <2>2. RunOK'
    BY <1>c, <1>f, <2>1, Kept
  <2>3. ack' \in [Attaches -> Nat \cup {None}] /\ handoff' \in [Attaches -> Procs \cup {None}]
    BY <1>a, <2>1 DEF OthersOK
  <2> QED
    BY <1>a, <1>b, <1>c, <2>1, <2>2, <2>3, Kept, Whole DEF OthersOK
<1>3. CASE AckTimeout(x)
  <2>1. handoff' = [handoff EXCEPT ![a] = None] /\ Goto(x, AfterWait(x)) /\ run[x].pc = "wait"
        /\ UNCHANGED <<toBox, ack>> /\ (UNCHANGED spent \/ Fault("ack"))
    BY <1>3 DEF AckTimeout, a
  <2>2. RunOK'
    BY <1>f, <2>1
  <2>3. handoff' \in [Attaches -> Procs \cup {None}] /\ spent' \subseteq Faults \cup {"ask"}
    BY <1>a, <2>1, SpentOK DEF OthersOK, Faults
  <2> QED
    BY <1>a, <1>b, <1>c, <2>1, <2>2, <2>3, Kept, Whole DEF OthersOK
<1>4. CASE InstallNoWait(x)
  <2>1. Goto(x, "hold") /\ UNCHANGED <<handoff, ack, spent>>
        /\ (UNCHANGED toBox \/ Sent(a, ControlFrame("view", run[x].g)))
    BY <1>4 DEF InstallNoWait, a
  <2>2. ControlFrame("view", run[x].g) \in Frame
        /\ ControlFrame("view", run[x].g).m = "view" /\ ControlFrame("view", run[x].g).g = run[x].g
    BY <1>d DEF ControlFrame, Frame, Modes
  <2>3. WillHold(a, "view", run[x].g)
    BY <1>d DEF WillHold, HoldsIn, Modes
  <2>4. FramesOK'
    BY <1>a, <1>c, <2>1, <2>2, <2>3, SendFrame, Kept
  <2>5. RunOK'
    BY <1>c, <2>1, GoPlain DEF Plain, Places
  <2> QED
    BY <1>a, <1>b, <1>c, <2>1, <2>4, <2>5, Kept, Whole DEF OthersOK
<1> QED
  BY <1>1, <1>2, <1>3, <1>4

\* Telling a client: the state is read under the hold, sent, and read
\* again.
LEMMA TakeHoldStep ==
  ASSUME Authority, NEW x \in Procs, TakeHold(x)
  PROVE  Authority' /\ Forward /\ UNCHANGED box
<1> DEFINE a == Target(x)
           T == [by : Procs \cup {None}, m : Modes, g : Nat, won : Nat]
<1>a. StoreOK /\ OthersOK /\ a \in Attaches
  BY ProcNames DEF Authority
<1>b. UNCHANGED <<setup, store, link, belief, handoff, ack, toBox, box, won, spent>>
  BY DEF TakeHold
<1>c. Forward
  BY <1>a, <1>b, SameRow
<1>d. /\ own[a] \in [m : Modes, g : Nat, told : BOOLEAN, reg : BOOLEAN] /\ WillHold(a, own[a].m, own[a].g)
      /\ run[x] \in RunType
  BY <1>a, <1>c, OwnMay
<1>1. OwnOK'
  <2> DEFINE o == [own[a] EXCEPT !.told = TRUE]
  <2>1. o \in [m : Modes, g : Nat, told : BOOLEAN, reg : BOOLEAN] /\ o.m = own[a].m /\ o.g = own[a].g
    BY <1>d
  <2>2. own' = [own EXCEPT ![a] = o]
    BY DEF TakeHold
  <2> HIDE DEF o, a
  <2> QED
    BY <1>a, <1>c, <1>d, <2>1, <2>2, SetOwn
<1>2. HoldOK'
  <2> DEFINE h == [by |-> x, m |-> own[a].m, g |-> own[a].g, won |-> run[x].won]
  <2>1. h \in T /\ h.m = own[a].m /\ h.g = own[a].g
    BY <1>d DEF RunType
  <2>2. hold' = [hold EXCEPT ![a] = h]
    BY DEF TakeHold
  <2>3. hold \in [Attaches -> T] /\ \A b \in Attaches : WillHold(b, hold[b].m, hold[b].g)
    BY <1>a, <1>c, HoldsForward DEF Authority, HoldOK
  <2> HIDE DEF h, a, T
  <2>4. hold' \in [Attaches -> T] /\ \A b \in Attaches : WillHold(b, hold'[b].m, hold'[b].g)
    BY <1>a, <1>d, <2>1, <2>2, <2>3
  <2> QED
    BY <1>c, <2>4, SetAll DEF T
<1>3. RunOK'
  BY <1>c, GoPlain DEF TakeHold, Plain, Places
<1> QED
  BY <1>a, <1>b, <1>c, <1>1, <1>2, <1>3, Kept, Whole DEF OthersOK

\* The send: the client hears what the hold took, and what the process
\* goes on with is what was heard.
LEMMA SayStep ==
  ASSUME Authority, NEW x \in Procs, Say(x)
  PROVE  Authority' /\ Forward /\ UNCHANGED box
<1> DEFINE a == Target(x)
           h == hold[a]
           T == [by : Procs \cup {None}, m : Modes, g : Nat, won : Nat]
<1>a. StoreOK /\ OthersOK /\ a \in Attaches
  BY ProcNames DEF Authority
<1>b. UNCHANGED <<setup, store, own, link, handoff, ack, toBox, box, won, spent>>
  BY DEF Say
<1>c. Forward
  BY <1>a, <1>b, SameRow
<1>d. /\ own[a] \in [m : Modes, g : Nat, told : BOOLEAN, reg : BOOLEAN] /\ WillHold(a, own[a].m, own[a].g)
      /\ run[x] \in RunType
  BY <1>a, <1>c, OwnMay
<1>e. hold \in [Attaches -> T] /\ \A b \in Attaches : WillHold(b, hold[b].m, hold[b].g)
  BY <1>a, <1>c, HoldsForward DEF Authority, HoldOK
<1>f. h \in T /\ WillHold(a, h.m, h.g) /\ h.m \in Modes /\ h.g \in Nat /\ h.g <= store'.gen
  BY <1>a, <1>e DEF WillHold, HoldsIn
<1>g. store'.gen = store.gen
  BY <1>b
<1>1. BeliefOK'
  <2> DEFINE B == [m : Modes \cup {"none"}, g : Nat, lost : BOOLEAN]
  <2>1. Heard(h) \in B /\ Heard(h).g = h.g
    BY <1>f DEF Heard, Modes
  <2>2. belief \in [Attaches -> B] /\ \A b \in Attaches : belief[b].g <= store.gen
    BY DEF Authority, BeliefOK
  <2>3. UNCHANGED belief \/ belief' = [belief EXCEPT ![a] = Heard(h)]
    BY DEF Say
  <2> HIDE DEF B, a, h, T
  <2>4. belief' \in [Attaches -> B] /\ \A b \in Attaches : belief'[b].g <= store'.gen
    BY <1>a, <1>f, <1>g, <2>1, <2>2, <2>3
  <2> QED
    BY <2>4 DEF BeliefOK, B
<1>2. HoldOK'
  <2> DEFINE c == [h EXCEPT !.m = own[a].m, !.g = own[a].g, !.won = 0]
  <2>1. c \in T /\ c.m = own[a].m /\ c.g = own[a].g
    BY <1>d, <1>f
  <2>2. FreeHold \in T /\ FreeHold.m = "view" /\ FreeHold.g = 0 /\ WillHold(a, "view", 0)
    BY <1>a, <1>c, Nothing, HoldsForward DEF FreeHold, Modes
  <2>3. hold' = [hold EXCEPT ![a] = FreeHold] \/ hold' = [hold EXCEPT ![a] = c]
    BY DEF Say
  <2> HIDE DEF c, a, h, T
  <2>4. hold' \in [Attaches -> T] /\ \A b \in Attaches : WillHold(b, hold'[b].m, hold'[b].g)
    BY <1>a, <1>d, <1>e, <2>1, <2>2, <2>3
  <2> QED
    BY <1>c, <2>4, SetAll DEF T
<1>3. RunOK'
  <2> DEFINE l == [Idle EXCEPT !.pc = "live"]
             r == [run[x] EXCEPT !.pc = run[x].k, !.m = h.m, !.g = h.g]
  <2>1. l \in RunType /\ l.pc = "live" /\ l.g = 0
    BY DEF Idle, RunType, Places, Continuations, Modes
  <2>2. r \in RunType /\ r.pc = run[x].k /\ r.m = h.m /\ r.g = h.g /\ run[x].k \in Continuations
    <3>1. run[x].k \in Continuations /\ run[x].k \in Places
      BY <1>d DEF RunType, Continuations, Places
    <3> HIDE DEF a, h
    <3> QED
      BY <1>d, <1>f, <3>1 DEF RunType
  <2>3. \/ UNCHANGED run
        \/ run' = [run EXCEPT ![x] = Idle]
        \/ run' = [run EXCEPT ![x] = l]
        \/ run' = [run EXCEPT ![x] = r]
    BY DEF Say
  <2> HIDE DEF l, r, h, a, T
  <2>4. WillRun(x, l)
    BY <1>c, <2>1, OwnMay, PlainRecord DEF Carries
  <2>5. WillRun(x, r)
    BY <1>f, <2>2 DEF WillRun, RunIn, WillHold, HoldsIn, Carries, Continuations, a
  <2> QED
    BY <1>c, <2>3, <2>4, <2>5, SetRun, Stops, Kept
<1> QED
  BY <1>a, <1>b, <1>c, <1>1, <1>2, <1>3, Kept, Whole DEF OthersOK

\* A message is lost: what the client believes is what it did, or what was
\* written, and nobody corrects it.
LEMMA LostMoves ==
  ASSUME Authority, NEW x \in Procs, MessageLost(x)
  PROVE  LET a == Target(x) IN
         /\ run[x].pc = "say" /\ hold' = [hold EXCEPT ![a] = FreeHold]
         /\ UNCHANGED <<setup, store, own, link, handoff, ack, toBox, box, won>>
         /\ Fault("notice") \/ Fault("pair")
         /\ \E r \in RunType : /\ run' = [run EXCEPT ![x] = r] /\ r.g <= store.gen
                             /\ \/ x[1] = "peer" /\ r = Idle
                                \/ /\ x[1] = "pump" /\ run[x].k = "parked" /\ r.pc = "finish"
                                   /\ r.k = "parked" /\ r.won = run[x].won /\ r.m = run[x].m
         /\ \E b \in [m : Modes \cup {"none"}, g : Nat, lost : BOOLEAN] :
              /\ belief' = [belief EXCEPT ![a] = b] /\ b.g <= store.gen
              /\ Keeper(a) /\ link[a] # "down" => b.lost
              /\ ~Keeper(a) => b = belief[a]
<1> DEFINE a == Target(x)
           B == [m : Modes \cup {"none"}, g : Nat, lost : BOOLEAN]
<1>a. a \in Attaches /\ run \in [Procs -> RunType] /\ run[x].g <= store.gen /\ store.gen \in Nat
  BY ProcNames DEF Authority, RunOK, RunGood, RunIn, StoreOK
<1>b. belief \in [Attaches -> B] /\ belief[a].g <= store.gen
  BY <1>a DEF Authority, BeliefOK
<1>c. Heard(hold[a]) \in B /\ Heard(hold[a]).g = hold[a].g /\ hold[a].g <= store.gen
  BY <1>a DEF Authority, HoldOK, Holds, HoldsIn, Heard, Modes
<1>1. \E r \in RunType : /\ run' = [run EXCEPT ![x] = r] /\ r.g <= store.gen
                       /\ \/ x[1] = "peer" /\ r = Idle
                          \/ /\ x[1] = "pump" /\ run[x].k = "parked" /\ r.pc = "finish"
                             /\ r.k = "parked" /\ r.won = run[x].won /\ r.m = run[x].m
  <2>1. CASE x[1] = "peer"
    <3>1. run' = [run EXCEPT ![x] = Idle] /\ Idle \in RunType /\ Idle.g = 0
      BY <2>1 DEF MessageLost, Idle, RunType, Places, Continuations, Modes
    <3>2. Idle.g <= store.gen
      BY <1>a, <3>1
    <3> QED
      BY <2>1, <3>1, <3>2
  <2>2. CASE x[1] # "peer"
    <3> DEFINE r == [run[x] EXCEPT !.pc = "finish"]
    <3>1. x[1] = "pump" /\ run[x].k = "parked" /\ run' = [run EXCEPT ![x] = r]
      BY <2>2 DEF MessageLost, Goto
    <3>2. /\ r \in RunType /\ r.pc = "finish" /\ r.k = run[x].k /\ r.g = run[x].g
          /\ r.won = run[x].won /\ r.m = run[x].m
      BY <1>a DEF RunType, Places
    <3> HIDE DEF r
    <3> QED
      BY <1>a, <3>1, <3>2
  <2> QED
    BY <2>1, <2>2
<1>2. \E b \in B : /\ belief' = [belief EXCEPT ![a] = b] /\ b.g <= store.gen
                   /\ Keeper(a) /\ link[a] # "down" => b.lost
                   /\ ~Keeper(a) => b = belief[a]
  <2>1. CASE Keeper(a) /\ link[a] # "down"
    <3>1. PICK b \in {belief[a], Heard(hold[a])} : belief' = [belief EXCEPT ![a] = [b EXCEPT !.lost = TRUE]]
      BY <2>1 DEF MessageLost
    <3>2. b \in B /\ b.g <= store.gen
      BY <1>a, <1>b, <1>c
    <3> DEFINE c == [b EXCEPT !.lost = TRUE]
    <3>3. c \in B /\ c.g = b.g /\ c.lost
      BY <3>2
    <3> HIDE DEF c
    <3> QED
      BY <2>1, <3>1, <3>2, <3>3 DEF c
  <2>2. CASE ~(Keeper(a) /\ link[a] # "down")
    <3>1. belief' = [belief EXCEPT ![a] = belief[a]]
      BY <1>a, <1>b, <2>2 DEF MessageLost
    <3> QED
      BY <1>a, <1>b, <2>2, <3>1
  <2> QED
    BY <2>1, <2>2
<1>3. /\ run[x].pc = "say" /\ hold' = [hold EXCEPT ![a] = FreeHold]
      /\ UNCHANGED <<setup, store, own, link, handoff, ack, toBox, box, won>>
      /\ Fault("notice") \/ Fault("pair")
  BY DEF MessageLost
<1> HIDE DEF a, B
<1> QED
  BY <1>1, <1>2, <1>3 DEF a, B

LEMMA LostStep ==
  ASSUME Authority, NEW x \in Procs, MessageLost(x)
  PROVE  Authority' /\ Forward /\ UNCHANGED box
<1> DEFINE a == Target(x)
<1>a. StoreOK /\ OthersOK /\ a \in Attaches
  BY ProcNames DEF Authority
<1>b. UNCHANGED <<setup, store, own, link, handoff, ack, toBox, box, won>>
      /\ hold' = [hold EXCEPT ![a] = FreeHold] /\ (Fault("notice") \/ Fault("pair"))
  BY LostMoves
<1>c. Forward /\ spent' \subseteq Faults \cup {"ask"} /\ store'.gen = store.gen
  BY <1>a, <1>b, SameRow, SpentOK DEF Faults
<1>1. HoldOK'
  <2> DEFINE T == [by : Procs \cup {None}, m : Modes, g : Nat, won : Nat]
  <2>1. hold \in [Attaches -> T] /\ \A b \in Attaches : WillHold(b, hold[b].m, hold[b].g)
    BY <1>a, <1>c, HoldsForward DEF Authority, HoldOK
  <2>2. FreeHold \in T /\ FreeHold.m = "view" /\ FreeHold.g = 0 /\ WillHold(a, "view", 0)
    BY <1>a, <1>c, Nothing, HoldsForward DEF FreeHold, Modes
  <2> HIDE DEF T
  <2>3. hold' \in [Attaches -> T] /\ \A b \in Attaches : WillHold(b, hold'[b].m, hold'[b].g)
    BY <1>a, <1>b, <2>1, <2>2
  <2> QED
    BY <1>c, <2>3, SetAll DEF T
<1>2. BeliefOK'
  <2>1. PICK b \in [m : Modes \cup {"none"}, g : Nat, lost : BOOLEAN] :
              belief' = [belief EXCEPT ![a] = b] /\ b.g <= store.gen
    BY LostMoves
  <2>2. belief \in [Attaches -> [m : Modes \cup {"none"}, g : Nat, lost : BOOLEAN]]
        /\ \A c \in Attaches : belief[c].g <= store.gen
    BY DEF Authority, BeliefOK
  <2> QED
    BY <1>a, <1>c, <2>1, <2>2 DEF BeliefOK
<1>3. RunOK'
  <2>1. PICK r \in RunType : run' = [run EXCEPT ![x] = r] /\ r.g <= store.gen /\ (r = Idle \/ r.pc = "finish")
    BY LostMoves
  <2>2. ~Carries(r)
    BY <2>1 DEF Carries, Idle
  <2> QED
    BY <1>c, <2>1, <2>2, PlainRecord, SetRun
<1> QED
  BY <1>a, <1>b, <1>c, <1>1, <1>2, <1>3, Kept, Whole DEF OthersOK

\* What else happens: notices given up, the end of a fan-out, a lease that
\* runs out, a socket that drops, an attach that is gone, keystrokes.
LEMMA OtherStep ==
  ASSUME Authority,
         \/ \E x \in Procs : NoticeSkipped(x) \/ NoticeGivesUp(x)
         \/ \E a \in Attaches : FanoutDone(a) \/ Disconnect(a) \/ Gone(a) \/ Type(a)
         \/ LeaseExpires
         \/ UNCHANGED vars
  PROVE  Authority' /\ Forward /\ UNCHANGED box
<1>a. StoreOK /\ OthersOK
  BY DEF Authority
<1>1. ASSUME NEW x \in Procs, NoticeSkipped(x) \/ NoticeGivesUp(x) PROVE Authority' /\ Forward /\ UNCHANGED box
  <2>1. UNCHANGED <<setup, store, own, link, belief, hold, handoff, ack, toBox, box, won>>
        /\ run' = [run EXCEPT ![x] = Idle] /\ (UNCHANGED spent \/ Fault("hold"))
    BY <1>1 DEF NoticeSkipped, NoticeGivesUp
  <2>2. Forward /\ spent' \subseteq Faults \cup {"ask"}
    BY <1>a, <2>1, SameRow, SpentOK DEF Faults
  <2> QED
    BY <1>a, <2>1, <2>2, Stops, Kept, Whole DEF OthersOK
<1>2. ASSUME NEW a \in Attaches, FanoutDone(a) PROVE Authority' /\ Forward /\ UNCHANGED box
  <2> DEFINE r == run[Pump(a)]
             rp == [r EXCEPT !.pc = "hold", !.won = 0]
             rc == [r EXCEPT !.pc = "hold", !.won = r.g]
             ro == [r EXCEPT !.pc = r.k]
  <2>1. UNCHANGED <<setup, store, own, link, belief, hold, handoff, ack, toBox, box, won, spent>>
    BY <1>2 DEF FanoutDone
  <2>2. Forward
    BY <1>a, <2>1, SameRow
  <2>3. r \in RunType /\ r.g \in Nat /\ r.g <= store'.gen
    BY <2>2, ProcNames, OwnMay
  <2>4. r.k \in Continuations /\ r.k \in Places
    BY <2>3 DEF RunType, Continuations, Places
  <2>5. \/ run' = [run EXCEPT ![Pump(a)] = rp]
        \/ run' = [run EXCEPT ![Pump(a)] = rc]
        \/ run' = [run EXCEPT ![Pump(a)] = [Idle EXCEPT !.pc = "live"]]
        \/ run' = [run EXCEPT ![Pump(a)] = ro] /\ r.k \notin {"parked", "claim_check", "live"}
    BY <1>2 DEF FanoutDone
  <2> HIDE DEF r
  <2>6. rp \in RunType /\ rp.pc = "hold" /\ rp.g = r.g
    BY <2>3 DEF RunType, Places
  <2>7. rc \in RunType /\ rc.pc = "hold" /\ rc.g = r.g
    BY <2>3 DEF RunType, Places
  <2>8. ro \in RunType /\ ro.pc = r.k /\ ro.g = r.g
    BY <2>3, <2>4 DEF RunType
  <2> HIDE DEF rp, rc, ro
  <2>9. WillRun(Pump(a), rp) /\ WillRun(Pump(a), rc)
    BY <2>3, <2>6, <2>7, PlainRecord DEF Carries
  <2>10. r.k \notin {"parked", "claim_check", "live"} => WillRun(Pump(a), ro)
    BY <2>3, <2>4, <2>8, PlainRecord DEF Carries, Continuations
  <2>11. RunOK'
    BY <2>2, <2>5, <2>9, <2>10, SetRun, GoesLive, ProcNames
  <2> QED
    BY <1>a, <2>1, <2>2, <2>11, Kept, Whole DEF OthersOK
<1>3. ASSUME NEW a \in Attaches, Disconnect(a) \/ Type(a) PROVE Authority' /\ Forward /\ UNCHANGED box
  <2>1. UNCHANGED <<setup, store, own, belief, run, hold, handoff, ack, box, won>>
        /\ (UNCHANGED spent \/ Fault("drop"))
    BY <1>3 DEF Disconnect, Type
  <2>2. Forward /\ spent' \subseteq Faults \cup {"ask"}
    BY <1>a, <2>1, SameRow, SpentOK DEF Faults
  <2>3. PICK f : f \in Frame /\ f.m = "view" /\ (f.g = 0 \/ f.g = own[a].g) /\ Sent(a, f)
    <3>1. own[a].g \in Nat
      BY <2>2, OwnMay
    <3>2. CASE Sent(a, [t |-> "close", m |-> "view", g |-> 0])
      BY <3>2 DEF Frame, Modes
    <3>3. CASE Sent(a, [t |-> "stdin", m |-> "view", g |-> own[a].g])
      BY <3>1, <3>3 DEF Frame, Modes
    <3> QED
      BY <1>3, <3>2, <3>3 DEF Disconnect, Type
  <2>4. WillHold(a, f.m, f.g)
    <3>1. f.g \in Nat /\ f.g <= store'.gen
      BY <2>2, <2>3, OwnMay
    <3> QED
      BY <2>3, <3>1 DEF WillHold, HoldsIn, Modes
  <2>5. FramesOK'
    BY <2>2, <2>3, <2>4, SendFrame
  <2>6. link' \in [Attaches -> {"none", "up", "down"}]
    BY <1>3, <1>a DEF Disconnect, Type, OthersOK
  <2> QED
    BY <1>a, <2>1, <2>2, <2>5, <2>6, Kept, Whole DEF OthersOK
<1>4. ASSUME NEW a \in Attaches, Gone(a) PROVE Authority' /\ Forward /\ UNCHANGED box
  <2>1. UNCHANGED <<setup, store, belief, hold, handoff, toBox, box, won, spent>>
        /\ run' = [run EXCEPT ![Pump(a)] = Idle] /\ own' = [own EXCEPT ![a] = NotAttached]
        /\ link' = [link EXCEPT ![a] = "none"] /\ ack' = [ack EXCEPT ![a] = None]
    BY <1>4 DEF Gone
  <2>2. Forward
    BY <1>a, <2>1, SameRow
  <2>3. WillHold(a, NotAttached.m, NotAttached.g)
    BY <1>a, <2>2, Nothing, HoldsForward DEF NotAttached
  <2>4. OwnOK'
    BY <1>a, <2>1, <2>2, <2>3, Nothing, SetOwn
  <2>5. RunOK'
    BY <2>1, <2>2, GoesLive
  <2>6. link' \in [Attaches -> {"none", "up", "down"}] /\ ack' \in [Attaches -> Nat \cup {None}]
    BY <1>a, <2>1 DEF OthersOK
  <2> QED
    BY <1>a, <2>1, <2>2, <2>4, <2>5, <2>6, Kept, Whole DEF OthersOK
<1>5. CASE LeaseExpires
  <2>1. store' = [store EXCEPT !.fresh = FALSE]
        /\ UNCHANGED <<setup, own, link, belief, run, hold, handoff, ack, toBox, box, won, spent>>
    BY <1>5 DEF LeaseExpires
  <2>2. Forward
    <3>1. store' \in [gen : Nat, holder : Attaches \cup {None}, fresh : BOOLEAN] /\ store'.gen = store.gen
      BY <1>a, <2>1 DEF StoreOK
    <3> QED
      BY <1>a, <2>1, <3>1 DEF StoreOK, Forward
  <2> QED
    BY <1>a, <2>1, <2>2, Kept, Whole DEF OthersOK
<1>6. CASE UNCHANGED vars
  <2>1. Forward
    BY <1>6, <1>a, SameRow DEF vars
  <2> QED
    BY <1>6, <1>a, <2>1, Kept, Whole DEF vars, OthersOK
<1> QED
  BY <1>1, <1>2, <1>3, <1>4, <1>5, <1>6

--------------------
\* The sandbox.

\* One frame of the connection: the sandbox takes a binding somebody was
\* entitled to send, and its generation never moves back.
LEMMA SandboxStep ==
  ASSUME Authority, NEW a \in Attaches, BoxStep(a)
  PROVE  Authority' /\ Forward /\ box'.gen >= box.gen
<1> DEFINE f == Head(toBox[a])
           B == [gen : Nat, bind : [Attaches -> Binding \cup {None}]]
<1>a. StoreOK /\ OthersOK /\ store.gen \in Nat
  BY DEF Authority, StoreOK
<1>b. UNCHANGED <<setup, store, own, link, belief, run, hold, handoff, won, spent>>
  BY DEF BoxStep
<1>c. Forward
  BY <1>a, <1>b, SameRow
<1>d. toBox \in [Attaches -> Seq(Frame)] /\ toBox[a] # <<>> /\ toBox' = [toBox EXCEPT ![a] = Tail(toBox[a])]
  BY DEF BoxStep, Authority, FramesOK
<1>e. \A b \in Attaches : \A i \in DOMAIN toBox[b] : WillHold(b, toBox[b][i].m, toBox[b][i].g)
  BY <1>a, <1>c, HoldsForward DEF Authority, FramesOK
<1>f. f \in Frame /\ WillHold(a, f.m, f.g)
  <2>1. toBox[a] \in Seq(Frame) /\ Len(toBox[a]) \in Nat /\ Len(toBox[a]) > 0
    BY <1>d
  <2>2. 1 \in DOMAIN toBox[a] /\ f = toBox[a][1]
    BY <2>1
  <2> QED
    BY <1>e, <2>1, <2>2
<1>g. f.m \in Modes /\ f.g \in Nat /\ f.g <= store'.gen
  BY <1>f DEF Frame, WillHold, HoldsIn
<1>h. box \in B /\ box.gen \in Nat /\ box.gen <= store'.gen
  BY <1>b DEF Authority, BoxOK
<1>i. \A b \in Attaches : box.bind[b] # None => WillHold(b, box.bind[b].m, box.bind[b].g)
  BY <1>a, <1>c, HoldsForward DEF Authority, BoxOK
<1> HIDE DEF f
<1>1. FramesOK'
  <2>1. toBox' \in [Attaches -> Seq(Frame)]
    BY <1>d
  <2>2. ASSUME NEW b \in Attaches, NEW i \in DOMAIN toBox'[b] PROVE WillHold(b, toBox'[b][i].m, toBox'[b][i].g)
    <3>1. CASE b # a
      BY <1>d, <1>e, <2>2, <3>1
    <3>2. CASE b = a
      <4>1. toBox'[a] = Tail(toBox[a]) /\ toBox[a] \in Seq(Frame)
        BY <1>d
      <4>2. i + 1 \in DOMAIN toBox[a] /\ toBox'[a][i] = toBox[a][i + 1]
        BY <1>d, <2>2, <3>2, <4>1
      <4> QED
        BY <1>e, <3>2, <4>2
    <3> QED
      BY <3>1, <3>2
  <2>3. Shared' = Shared
    BY <1>b DEF Shared
  <2> QED
    BY <2>1, <2>2, <2>3 DEF FramesOK, Holds, WillHold, HoldsIn
<1>2. \/ UNCHANGED box \/ box' = Bound(a, f) \/ box' = [box EXCEPT !.bind[a] = None]
  BY DEF BoxStep, f
<1>3. ack' \in [Attaches -> Nat \cup {None}]
  <2>1. PICK n : (ack' = [ack EXCEPT ![a] = n] /\ (n = ack[a] \/ n = f.g)) \/ UNCHANGED ack
    BY DEF BoxStep, f
  <2> QED
    BY <1>a, <1>g, <2>1 DEF OthersOK
<1>4. /\ box' \in B /\ box'.gen >= box.gen /\ box'.gen <= store'.gen
      /\ \A b \in Attaches : box'.bind[b] # None => WillHold(b, box'.bind[b].m, box'.bind[b].g)
  <2>1. CASE UNCHANGED box
    BY <1>h, <1>i, <2>1
  <2>2. CASE box' = Bound(a, f)
    <3> DEFINE n == [m |-> f.m, g |-> f.g]
               bind == [box.bind EXCEPT ![a] = n]
    <3>1. n \in Binding /\ n.m = f.m /\ n.g = f.g
      BY <1>g DEF Binding
    <3> HIDE DEF n
    <3>2. bind \in [Attaches -> Binding \cup {None}]
          /\ \A b \in Attaches : bind[b] = IF b = a THEN n ELSE box.bind[b]
      BY <1>h, <3>1
    <3>3. box'.gen = Max2(box.gen, f.g) /\ box'.bind = bind /\ box' = [gen |-> Max2(box.gen, f.g), bind |-> bind]
      BY <2>2 DEF Bound, n
    <3>4. Max2(box.gen, f.g) \in Nat /\ Max2(box.gen, f.g) >= box.gen /\ Max2(box.gen, f.g) <= store'.gen
      BY <1>g, <1>h DEF Max2
    <3> HIDE DEF bind
    <3>5. box' \in B
      BY <3>2, <3>3, <3>4
    <3>6. ASSUME NEW b \in Attaches, bind[b] # None PROVE WillHold(b, bind[b].m, bind[b].g)
      BY <1>f, <1>i, <3>1, <3>2, <3>6
    <3> QED
      BY <3>3, <3>4, <3>5, <3>6
  <2>3. CASE box' = [box EXCEPT !.bind[a] = None]
    <3>1. box' \in B /\ box'.gen = box.gen
          /\ \A b \in Attaches : box'.bind[b] = IF b = a THEN None ELSE box.bind[b]
      BY <1>h, <2>3
    <3> QED
      BY <1>h, <1>i, <3>1
  <2> QED
    BY <1>2, <2>1, <2>2, <2>3
<1>5. BoxOK'
  <2>1. Shared' = Shared
    BY <1>b DEF Shared
  <2> QED
    BY <1>4, <2>1 DEF BoxOK, Holds, WillHold, HoldsIn
<1>6. OthersOK'
  BY <1>a, <1>b, <1>3 DEF OthersOK
<1> QED
  BY <1>b, <1>c, <1>1, <1>4, <1>5, <1>6, Kept DEF Authority, Forward

--------------------
\* The invariant, and what it gives.

\* Nobody has anything at the start.
LEMMA AuthorityInit == Init => Authority
<1> SUFFICES ASSUME Init PROVE Authority
  OBVIOUS
<1>1. StoreOK /\ store.gen = 0
  <2>1. store = [gen |-> 0, holder |-> None, fresh |-> FALSE] /\ won = [g \in {0} |-> None]
    BY DEF Init
  <2>2. 0..0 = {0}
    OBVIOUS
  <2> QED
    BY <2>1, <2>2 DEF StoreOK
<1>2. \A a \in Attaches : Holds(a, "view", 0)
  BY <1>1, Nothing
<1>3. OwnOK
  BY <1>1, <1>2, Nothing DEF Init, OwnOK, NotAttached
<1>4. HoldOK
  BY <1>2 DEF Init, HoldOK, FreeHold, Modes
<1>5. FramesOK
  BY DEF Init, FramesOK
<1>6. BoxOK
  BY <1>1 DEF Init, BoxOK
<1>7. BeliefOK
  BY <1>1 DEF Init, BeliefOK
<1>8. RunOK
  BY <1>1, Nothing DEF Init, RunOK, RunGood, RunIn
<1>9. OthersOK
  BY DEF Init, OthersOK
<1> QED
  BY <1>1, <1>3, <1>4, <1>5, <1>6, <1>7, <1>8, <1>9 DEF Authority

\* Every step keeps the invariant, and moves the row and the sandbox only
\* forward.
LEMMA AuthorityStep ==
  ASSUME Authority, [Next]_vars
  PROVE  Authority' /\ Forward /\ box'.gen >= box.gen
<1>a. box.gen \in Nat
  BY DEF Authority, BoxOK
<1>b. UNCHANGED box => box'.gen >= box.gen
  BY <1>a
<1>1. ASSUME NEW a \in Attaches, PumpStep(a) PROVE Authority' /\ Forward /\ box'.gen >= box.gen
  BY <1>1, <1>b, OpeningStep, DialBackStep, ClaimStep, ClaimEndsStep, LeavingStep, OtherStep DEF PumpStep
<1>2. ASSUME NEW a \in Attaches, ClientStep(a) PROVE Authority' /\ Forward /\ box'.gen >= box.gen
  BY <1>2, <1>b, OpeningStep, ClaimStep, LeavingStep, OtherStep DEF ClientStep
<1>3. ASSUME NEW a \in Attaches, BeatTick(a) \/ BeatEnds(a) PROVE Authority' /\ Forward /\ box'.gen >= box.gen
  BY <1>3, <1>b, BeatStep
<1>4. ASSUME NEW a \in Attaches, BoxStep(a) PROVE Authority' /\ Forward /\ box'.gen >= box.gen
  BY <1>4, SandboxStep
<1>5. ASSUME NEW x \in Procs, ProcStep(x) PROVE Authority' /\ Forward /\ box'.gen >= box.gen
  BY <1>5, <1>b, InstallStep, TakeHoldStep, SayStep, LostStep, DemoteStep, OtherStep DEF ProcStep
<1>6. CASE LeaseExpires \/ UNCHANGED vars
  BY <1>6, <1>b, OtherStep
<1> QED
  BY <1>1, <1>2, <1>3, <1>4, <1>5, <1>6 DEF Next

\* Whoever carries control under a generation - as a claim under way, a
\* frame on its way to the sandbox, a plane's state, an answer not yet
\* sent, or the sandbox's binding - has won that generation.
THEOREM AuthorityHolds == Spec => []Authority
<1>1. Authority /\ [Next]_vars => Authority'
  BY AuthorityStep
<1> QED
  BY <1>1, AuthorityInit, PTL DEF Spec

\* The variables keep their types.
THEOREM TypeCorrect == Spec => []TypeOK
<1>1. Authority => TypeOK
  BY DEF Authority, StoreOK, OwnOK, HoldOK, FramesOK, BoxOK, BeliefOK, RunOK, OthersOK, TypeOK, RunType
<1> QED
  BY <1>1, AuthorityHolds, PTL

\* No plane, message, client or sandbox knows a generation the row has not
\* reached.
THEOREM GenerationsKnown == Spec => []KnownGenerations
<1>1. Authority => KnownGenerations
  BY DEF Authority, OwnOK, HoldOK, FramesOK, BoxOK, BeliefOK, RunOK, RunGood, RunIn, Holds, HoldsIn,
         KnownGenerations
<1> QED
  BY <1>1, AuthorityHolds, PTL

\* Those whose keystrokes the sandbox executes are attaches of the session
\* and, under the exclusive policy, nobody but the winner of its generation.
LawfulWriters == /\ Writers \subseteq Attaches
                 /\ Fence!Lawful(setup.policy, won[box.gen], Writers)
                 /\ box.gen \in 0..store.gen

\* The invariant makes the writers lawful.
LEMMA WritersLawful == Authority => LawfulWriters
<1> SUFFICES ASSUME Authority PROVE LawfulWriters
  OBVIOUS
<1>1. store.gen \in Nat /\ box.gen \in 0..store.gen
  BY DEF Authority, StoreOK, BoxOK
<1>2. ASSUME setup.policy = "exclusive", NEW a \in Writers PROVE a = won[box.gen]
  <2>1. a \in Attaches /\ box.bind[a] # None /\ box.bind[a].m = "control" /\ box.bind[a].g = box.gen
    BY DEF Writers, MayWrite
  <2>2. Holds(a, "control", box.gen)
    BY <2>1 DEF Authority, BoxOK
  <2>3. ~Shared
    BY <1>2 DEF Shared
  <2> QED
    BY <2>2, <2>3 DEF Holds, HoldsIn
<1> QED
  BY <1>1, <1>2 DEF LawfulWriters, Writers, Fence!Lawful

\* The pty fence implements InputFence: however the handoffs, the drops
\* and the heartbeats of any number of attaches on any replicas cross, the
\* keystrokes that execute are those of the one attach that won the
\* sandbox's generation, and a passed generation never comes back.
THEOREM FenceHolds == Spec => FenceImplemented
<1>1. Init => Fence!Init
  <2> SUFFICES ASSUME Init PROVE Fence!Init
    OBVIOUS
  <2>1. setup.policy \in {"shared", "exclusive"}
    BY AttachPlaneAssumption DEF Init, AttachPlaneAssumption
  <2>2. box.gen = 0 /\ won[box.gen] = None
    BY DEF Init
  <2>3. Writers = {}
    BY DEF Init, Writers, MayWrite
  <2> QED
    BY <2>1, <2>2, <2>3 DEF Fence!Init
<1>2. Authority /\ [Next]_vars => [Fence!Next]_(Fence!fence)
  <2> SUFFICES ASSUME Authority, [Next]_vars PROVE Fence!Next
    OBVIOUS
  <2>1. Authority' /\ Forward /\ box'.gen >= box.gen
    BY AuthorityStep
  <2>2. /\ Writers \subseteq Attaches /\ box.gen \in 0..store.gen
        /\ Fence!Lawful(setup.policy, won[box.gen], Writers)
    BY WritersLawful DEF LawfulWriters
  <2>a. LawfulWriters'
    BY <2>1, WritersLawful, PTL
  <2>3. /\ Writers' \subseteq Attaches /\ box'.gen \in 0..store'.gen
        /\ Fence!Lawful(setup'.policy, won'[box'.gen], Writers')
    BY <2>a DEF LawfulWriters, Fence!Lawful
  <2>4. won' \in [0..store'.gen -> Attaches \cup {None}] /\ UNCHANGED setup
    BY <2>1 DEF Forward, StoreOK
  <2>5. store.gen \in Nat /\ store'.gen \in Nat
    BY <2>1 DEF Authority, StoreOK, Forward
  <2>6. CASE box'.gen > box.gen
    BY <2>3, <2>4, <2>6 DEF Fence!Next, Fence!Advance
  <2>7. CASE box'.gen = box.gen
    <3>1. won'[box'.gen] = won[box.gen]
      BY <2>1, <2>2, <2>7 DEF Forward
    <3> QED
      BY <2>3, <2>4, <2>7, <3>1 DEF Fence!Next, Fence!Admit
  <2> QED
    BY <2>1, <2>2, <2>3, <2>5, <2>6, <2>7
<1> QED
  BY <1>1, <1>2, AuthorityHolds, PTL DEF Spec, FenceImplemented, Fence!Spec

--------------------
\* Who talks to a client, and what about.

\* Who is not a pump tells one thing and is done.
Errand(x, r) == x[1] # "pump" =>
  /\ r.k = "idle" /\ r.won = 0 /\ r.m = "view"
  /\ r.pc \in {"idle", "demote", "lock", "wait", "install", "hold", "say"}
  /\ x[1] = "peer" => r.pc # "demote"

\* The places of a claim, before its attach is the controller.
Claims(r) == \/ r.pc \in {"claim", "claim_renew", "claim_won", "claim_back"}
             \/ r.pc \in {"lock", "wait"} /\ r.m = "control"

\* Nobody is the controller before its claim is done, and what its client
\* is told then is about the generation the claim has won.
ClaimTold(r, o) ==
  /\ Claims(r) => o.m = "view"
  /\ r.pc = "fanout" /\ r.k = "claim_check" /\ o.m = "control" => o.g = r.g
  /\ r.won # 0 => /\ r.pc \in {"hold", "say", "claim_check"} /\ r.k = "claim_check"
                  /\ o.m = "control" => o.g = r.won

Unopened == {"idle", "take", "grant", "grant_renew", "grant_lost"}

\* The places of an attach that is not spliced yet.
Opening(r) == \/ r.pc \in Unopened \cup {"register", "first", "parked"}
              \/ r.pc \in {"fanout", "hold", "say"} /\ r.k = "parked"

\* The places of a pump from which an answer may follow, and what it may
\* go on with.
Answering(r) == \/ r.pc \in {"hold", "say", "stale", "install", "demote", "release"}
                \/ r.pc \in {"lock", "wait"} /\ r.m = "view"
AfterAnswer == {"live", "parked", "claim_check", "back_told", "released"}

\* Where a pump stands, and what its attach has.
Placed(r, o, l) ==
  /\ Answering(r) => r.k \in AfterAnswer
  /\ r.pc \in Unopened => o = NotAttached
  /\ r.pc \in {"say", "parked"} \/ l = "up" => o.told
  /\ r.pc \in Ending => l # "up"
  /\ r.pc = "fanout" => r.k # "idle" /\ (r.k = "gone" => l # "up")
  /\ Opening(r) => l = "none"
  /\ r.k = "parked" => Opening(r) \/ r.pc \in Ending

\* The holder of an announce hold is talking.
HoldTold(a, h) == h.won # 0 /\ h.m = "control" => h.g = h.won

Talking ==
  /\ \A x \in Procs : Errand(x, run[x])
  /\ \A w, p \in Attaches : run[Peer(w, p)].pc # "idle" => run[Pump(w)].pc = "fanout"
  /\ \A a \in Attaches :
       /\ ClaimTold(run[Pump(a)], own[a])
       /\ Placed(run[Pump(a)], own[a], link[a])
       /\ run[Beat(a)].pc # "idle" => link[a] # "none"
       /\ hold[a].by # None => Target(hold[a].by) = a /\ run[hold[a].by].pc = "say"
       /\ HoldTold(a, hold[a])

\* A process that will read the state of its attach, and tell the client.
WillTell(r) == \/ r.pc \in {"lock", "wait", "install", "hold", "say", "claim_won", "claim_back", "stale"}
               \/ r.pc = "fanout" /\ r.k \in {"parked", "claim_check"}

Hears(a, o, l) == Keeper(a) /\ o.told /\ l # "down"
Believes(o, b) == b.lost \/ (b.m = o.m /\ b.g = o.g)

\* A client that can hear believes what its plane holds, or will be told,
\* or a message meant for it was lost.
Truth == \A a \in Attaches : Hears(a, own[a], link[a]) =>
           \/ Believes(own[a], belief[a])
           \/ \E x \in Procs : Target(x) = a /\ WillTell(run[x])

Telling == Talking /\ Truth

\* The kinds of process.
LEMMA ProcKinds ==
  /\ \A x \in Procs : /\ x[1] \in {"pump", "beat", "peer"} /\ Target(x) \in Attaches
                      /\ x[1] = "pump" => x = Pump(Target(x))
                      /\ x[1] = "beat" => x = Beat(Target(x))
                      /\ x[1] = "peer" => \E w \in Attaches : x = Peer(w, Target(x))
  /\ \A a, b \in Attaches : /\ Pump(a) = Pump(b) => a = b
                            /\ Beat(a) = Beat(b) => a = b
                            /\ Pump(a) # Beat(b)
  /\ \A w, p, a \in Attaches : Peer(w, p) # Pump(a) /\ Peer(w, p) # Beat(a) /\ Peer(w, p)[1] = "peer"
  /\ \A w, p, u, q \in Attaches : Peer(w, p) = Peer(u, q) => w = u /\ p = q
  BY DEF Procs, Pump, Beat, Peer, Target

\* A step of the process x: its record becomes r, and the state, the link,
\* the hold and the belief of its attach o, l, h and b.
Moves(x, r, o, l, h, b) ==
  LET a == Target(x)
  IN  /\ run' = [run EXCEPT ![x] = r]
      /\ own' = [own EXCEPT ![a] = o]
      /\ link' = [link EXCEPT ![a] = l]
      /\ hold' = [hold EXCEPT ![a] = h]
      /\ belief' = [belief EXCEPT ![a] = b]
      /\ UNCHANGED setup

\* What such a step owes to Talking, and to Truth.
TalkMove(x, r, o, l, h) ==
  LET a == Target(x)
      p == IF x = Pump(a) THEN r ELSE run[Pump(a)]
  IN  /\ Errand(x, r)
      /\ x[1] = "peer" /\ r.pc # "idle" => run[x].pc # "idle"
      /\ x = Pump(a) /\ run[x].pc = "fanout" /\ r.pc # "fanout" => \A q \in Attaches : run[Peer(a, q)].pc = "idle"
      /\ ClaimTold(p, o) /\ Placed(p, o, l)
      /\ (IF x = Beat(a) THEN r ELSE run[Beat(a)]).pc # "idle" => l # "none"
      /\ h.by # None => h.by \in Procs /\ Target(h.by) = a /\ (IF h.by = x THEN r ELSE run[h.by]).pc = "say"
      /\ HoldTold(a, h)
TellMove(x, r, o, l, b) ==
  LET a == Target(x)
  IN  Hears(a, o, l) => \/ Believes(o, b)
                        \/ WillTell(r)
                        \/ /\ Hears(a, own[a], link[a]) /\ ~WillTell(run[x])
                           /\ o.m = own[a].m /\ o.g = own[a].g /\ b = belief[a]

\* The shape of the variables.
LEMMA Shapes ==
  ASSUME Authority
  PROVE  /\ run \in [Procs -> RunType]
         /\ own \in [Attaches -> [m : Modes, g : Nat, told : BOOLEAN, reg : BOOLEAN]]
         /\ link \in [Attaches -> {"none", "up", "down"}]
         /\ hold \in [Attaches -> [by : Procs \cup {None}, m : Modes, g : Nat, won : Nat]]
         /\ belief \in [Attaches -> [m : Modes \cup {"none"}, g : Nat, lost : BOOLEAN]]
         /\ store.gen \in Nat
  BY DEF Authority, RunOK, OwnOK, OthersOK, HoldOK, BeliefOK, StoreOK

\* A step that pays what it owes keeps both.
LEMMA MoveTalks ==
  ASSUME Authority, Talking, NEW x \in Procs, NEW r, NEW o, NEW l, NEW h, NEW b,
         Moves(x, r, o, l, h, b), TalkMove(x, r, o, l, h)
  PROVE  Talking'
<1> DEFINE a == Target(x)
<1>1. a \in Attaches
  BY ProcKinds
<1>2. /\ run'[x] = r /\ \A y \in Procs : y # x => run'[y] = run[y]
      /\ own'[a] = o /\ link'[a] = l /\ hold'[a] = h
      /\ \A c \in Attaches : c # a => own'[c] = own[c] /\ link'[c] = link[c] /\ hold'[c] = hold[c]
  BY <1>1, Shapes DEF Moves
<1>3. \A y \in Procs : Errand(y, run'[y])
  BY <1>2 DEF Talking, TalkMove
<1>4. ASSUME NEW w \in Attaches, NEW p \in Attaches, run'[Peer(w, p)].pc # "idle"
      PROVE  run'[Pump(w)].pc = "fanout"
  <2>1. Peer(w, p) \in Procs /\ Pump(w) \in Procs /\ Target(Peer(w, p)) = p /\ Target(Pump(w)) = w
    BY ProcNames
  <2>2. run[Peer(w, p)].pc # "idle"
    BY <1>2, <1>4, <2>1, ProcKinds DEF TalkMove
  <2>3. run[Pump(w)].pc = "fanout"
    BY <2>2 DEF Talking
  <2>4. CASE x = Pump(w)
    <3>1. Target(x) = w /\ Peer(w, p) # x
      BY <2>1, <2>4, ProcKinds
    <3> QED
      BY <1>2, <2>2, <2>3, <2>4, <3>1 DEF TalkMove
  <2> QED
    BY <1>2, <2>1, <2>3, <2>4
<1>5. ASSUME NEW c \in Attaches
      PROVE  /\ ClaimTold(run'[Pump(c)], own'[c])
             /\ Placed(run'[Pump(c)], own'[c], link'[c])
             /\ run'[Beat(c)].pc # "idle" => link'[c] # "none"
             /\ hold'[c].by # None => Target(hold'[c].by) = c /\ run'[hold'[c].by].pc = "say"
             /\ HoldTold(c, hold'[c])
  <2>1. Pump(c) \in Procs /\ Beat(c) \in Procs /\ Target(Pump(c)) = c /\ Target(Beat(c)) = c
    BY ProcNames
  <2>2. CASE c = a
    <3>1. /\ run'[Pump(a)] = IF x = Pump(a) THEN r ELSE run[Pump(a)]
          /\ run'[Beat(a)] = IF x = Beat(a) THEN r ELSE run[Beat(a)]
      BY <1>2, <2>1, <2>2
    <3>2. hold'[a].by # None => Target(hold'[a].by) = a /\ run'[hold'[a].by].pc = "say"
      <4> SUFFICES ASSUME h.by # None PROVE Target(h.by) = a /\ run'[h.by].pc = "say"
        BY <1>2
      <4>1. h.by \in Procs /\ Target(h.by) = a /\ (IF h.by = x THEN r ELSE run[h.by]).pc = "say"
        BY DEF TalkMove
      <4> QED
        BY <1>2, <4>1
    <3> QED
      BY <1>2, <2>2, <3>1, <3>2 DEF TalkMove
  <2>3. CASE c # a
    <3>1. x # Pump(c) /\ x # Beat(c)
      BY <2>1, <2>3
    <3>2. run'[Pump(c)] = run[Pump(c)] /\ run'[Beat(c)] = run[Beat(c)]
      BY <1>2, <2>1, <3>1
    <3>3. ASSUME hold[c].by # None PROVE run'[hold[c].by] = run[hold[c].by]
      <4>1. hold[c].by \in Procs /\ Target(hold[c].by) = c
        BY <3>3, Shapes DEF Talking
      <4> QED
        BY <1>2, <2>3, <4>1
    <3> QED
      BY <1>2, <2>3, <3>2, <3>3 DEF Talking
  <2> QED
    BY <2>2, <2>3
<1> QED
  BY <1>3, <1>4, <1>5 DEF Talking

\* And the client's side of it.
LEMMA MoveTells ==
  ASSUME Authority, Truth, NEW x \in Procs, NEW r, NEW o, NEW l, NEW h, NEW b,
         Moves(x, r, o, l, h, b), TellMove(x, r, o, l, b)
  PROVE  Truth'
<1> DEFINE a == Target(x)
<1>1. a \in Attaches
  BY ProcKinds
<1>2. /\ run'[x] = r /\ \A y \in Procs : y # x => run'[y] = run[y]
      /\ own'[a] = o /\ link'[a] = l /\ belief'[a] = b
      /\ \A c \in Attaches : c # a => own'[c] = own[c] /\ link'[c] = link[c] /\ belief'[c] = belief[c]
      /\ setup' = setup
  BY <1>1, Shapes DEF Moves
<1>3. \A c : Keeper(c)' = Keeper(c)
  BY <1>2 DEF Keeper, Cmd
<1>4. ASSUME NEW c \in Attaches, Hears(c, own'[c], link'[c])
      PROVE  \/ Believes(own'[c], belief'[c])
             \/ \E y \in Procs : Target(y) = c /\ WillTell(run'[y])
  <2>1. CASE c # a
    <3>1. \/ Believes(own[c], belief[c])
          \/ \E y \in Procs : Target(y) = c /\ WillTell(run[y])
      BY <1>2, <1>4, <2>1 DEF Truth
    <3> QED
      BY <1>2, <2>1, <3>1
  <2>2. CASE c = a
    <3>1. \/ Believes(o, b)
          \/ WillTell(r)
          \/ /\ Hears(a, own[a], link[a]) /\ ~WillTell(run[x])
             /\ o.m = own[a].m /\ o.g = own[a].g /\ b = belief[a]
      BY <1>2, <1>4, <2>2 DEF TellMove
    <3>2. CASE /\ Hears(a, own[a], link[a]) /\ ~WillTell(run[x])
               /\ o.m = own[a].m /\ o.g = own[a].g /\ b = belief[a]
      <4>1. \/ Believes(own[a], belief[a])
            \/ \E y \in Procs : Target(y) = a /\ WillTell(run[y])
        BY <1>1, <3>2 DEF Truth
      <4> QED
        BY <1>2, <2>2, <3>2, <4>1 DEF Believes
    <3> QED
      BY <1>2, <2>2, <3>1, <3>2
  <2> QED
    BY <2>1, <2>2
<1> QED
  BY <1>3, <1>4 DEF Truth, Hears

--------------------
\* The steps, one by one.

\* A step of a pump that is not talking.
LEMMA PumpMoves ==
  ASSUME Authority, Telling, NEW a \in Attaches, NEW r, NEW o, NEW l,
         run' = [run EXCEPT ![Pump(a)] = r], own' = [own EXCEPT ![a] = o], link' = [link EXCEPT ![a] = l],
         UNCHANGED <<setup, hold, belief>>, run[Pump(a)].pc # "say",
         run[Pump(a)].pc = "fanout" => \A q \in Attaches : run[Peer(a, q)].pc = "idle",
         ClaimTold(r, o), Placed(r, o, l), run[Beat(a)].pc # "idle" => l # "none",
         TellMove(Pump(a), r, o, l, belief[a])
  PROVE  Telling'
<1>1. Pump(a) \in Procs /\ Target(Pump(a)) = a /\ Pump(a)[1] = "pump" /\ Pump(a) # Beat(a)
  BY ProcNames
<1>2. hold = [hold EXCEPT ![a] = hold[a]] /\ belief = [belief EXCEPT ![a] = belief[a]]
  BY Shapes
<1>3. Moves(Pump(a), r, o, l, hold[a], belief[a])
  BY <1>1, <1>2 DEF Moves
<1>4. hold[a].by # None => hold[a].by \in Procs /\ Target(hold[a].by) = a /\ run[hold[a].by].pc = "say"
  BY Shapes DEF Telling, Talking
<1>5. HoldTold(a, hold[a])
  BY DEF Telling, Talking
<1>6. TalkMove(Pump(a), r, o, l, hold[a])
  BY <1>1, <1>4, <1>5 DEF TalkMove, Errand
<1> QED
  BY <1>1, <1>3, <1>6, MoveTalks, MoveTells DEF Telling

\* One that goes to another place, and changes nothing but its record.
LEMMA PumpGoes ==
  ASSUME Authority, Telling, NEW a \in Attaches, NEW r,
         run' = [run EXCEPT ![Pump(a)] = r], UNCHANGED <<setup, own, link, hold, belief>>,
         run[Pump(a)].pc # "say",
         run[Pump(a)].pc = "fanout" => \A q \in Attaches : run[Peer(a, q)].pc = "idle",
         ClaimTold(r, own[a]), Placed(r, own[a], link[a]), WillTell(run[Pump(a)]) => WillTell(r)
  PROVE  Telling'
<1>1. own = [own EXCEPT ![a] = own[a]] /\ link = [link EXCEPT ![a] = link[a]]
  BY Shapes
<1>2. run[Beat(a)].pc # "idle" => link[a] # "none"
  BY DEF Telling, Talking
<1>3. TellMove(Pump(a), r, own[a], link[a], belief[a])
  BY ProcNames DEF TellMove
<1> QED
  BY <1>1, <1>2, <1>3, PumpMoves

\* What is known of a pump's place.
LEMMA PumpAt ==
  ASSUME Authority, Telling, NEW a \in Attaches
  PROVE  /\ run[Pump(a)] \in RunType /\ Pump(a) \in Procs
         /\ ClaimTold(run[Pump(a)], own[a]) /\ Placed(run[Pump(a)], own[a], link[a])
         /\ run[Beat(a)].pc # "idle" => link[a] # "none"
         /\ own[a] \in [m : Modes, g : Nat, told : BOOLEAN, reg : BOOLEAN]
  BY ProcNames, Shapes DEF Telling, Talking

\* A pump goes on, with its record otherwise the same.
LEMMA PumpGoto ==
  ASSUME Authority, Telling, NEW a \in Attaches, NEW pc \in Places, NEW g \in Nat,
         GotoG(Pump(a), pc, g), UNCHANGED <<setup, own, link, hold, belief>>,
         run[Pump(a)].pc \notin {"say", "fanout", "hold", "claim_check"},
         pc \notin {"say", "parked", "fanout", "hold", "claim_check", "lock", "wait", "install", "stale", "release"},
         pc = "demote" => run[Pump(a)].pc = "release",
         ~WillTell(run[Pump(a)]) \/ pc \in {"claim_won", "claim_back"},
         pc \in {"claim", "claim_renew", "claim_won", "claim_back"} => own[a].m = "view",
         pc \in Unopened => own[a] = NotAttached,
         pc \in Unopened \cup {"register", "first"} => link[a] = "none",
         pc \in Ending => link[a] # "up",
         run[Pump(a)].pc \in Ending \cup Unopened \cup {"register", "first", "parked"}
            => pc \in Ending \cup Unopened \cup {"register", "first", "parked"}
  PROVE  Telling'
<1> DEFINE r == [run[Pump(a)] EXCEPT !.pc = pc, !.g = g]
<1>1. run[Pump(a)] \in RunType /\ ClaimTold(run[Pump(a)], own[a]) /\ Placed(run[Pump(a)], own[a], link[a])
  BY PumpAt
<1>2. r \in RunType /\ r.pc = pc /\ r.won = run[Pump(a)].won /\ r.m = run[Pump(a)].m /\ r.k = run[Pump(a)].k
  BY <1>1 DEF RunType
<1>3. run' = [run EXCEPT ![Pump(a)] = r]
  BY DEF GotoG
<1>4. r.won = 0
  BY <1>1, <1>2 DEF ClaimTold
<1> HIDE DEF r
<1>5. ClaimTold(r, own[a])
  BY <1>2, <1>4 DEF ClaimTold, Claims
<1>6. Placed(r, own[a], link[a])
  BY <1>1, <1>2 DEF Placed, Answering, AfterAnswer, Opening, Unopened, Ending
<1>7. WillTell(run[Pump(a)]) => WillTell(r)
  BY <1>2 DEF WillTell
<1> QED
  BY <1>3, <1>5, <1>6, <1>7, PumpGoes

\* A pump that only changes its place keeps the generation it works under.
LEMMA PumpGotoSame ==
  ASSUME Authority, Telling, NEW a \in Attaches, NEW pc, Goto(Pump(a), pc)
  PROVE  GotoG(Pump(a), pc, run[Pump(a)].g) /\ run[Pump(a)].g \in Nat
<1>1. run[Pump(a)] \in RunType /\ run \in [Procs -> RunType] /\ Pump(a) \in Procs
  BY PumpAt, Shapes
<1>2. [run[Pump(a)] EXCEPT !.pc = pc] = [run[Pump(a)] EXCEPT !.pc = pc, !.g = run[Pump(a)].g]
  BY <1>1 DEF RunType
<1> QED
  BY <1>1, <1>2 DEF Goto, GotoG, RunType

\* A pump answers its client.
LEMMA AnswerTells ==
  ASSUME Authority, Telling, NEW a \in Attaches, NEW k \in AfterAnswer, Answer(a, k),
         UNCHANGED <<setup, own, link, hold, belief>>,
         run[Pump(a)].pc \notin {"say", "fanout"}, k = "parked" => link[a] = "none" 
  PROVE  Telling'
<1> DEFINE r == [run[Pump(a)] EXCEPT !.pc = "hold", !.k = k, !.won = 0]
<1>1. run[Pump(a)] \in RunType /\ ClaimTold(run[Pump(a)], own[a]) /\ Placed(run[Pump(a)], own[a], link[a])
  BY PumpAt
<1>2. r.pc = "hold" /\ r.won = 0 /\ r.k = k
  BY <1>1 DEF RunType
<1>3. run' = [run EXCEPT ![Pump(a)] = r]
  BY DEF Answer
<1> HIDE DEF r
<1>5. ClaimTold(r, own[a]) /\ WillTell(r)
  BY <1>2 DEF ClaimTold, Claims, WillTell
<1>6. Placed(r, own[a], link[a])
  BY <1>1, <1>2 DEF Placed, Answering, AfterAnswer, Opening, Unopened, Ending
<1> QED
  BY <1>2, <1>3, <1>5, <1>6, PumpGoes

\* A pump goes to read the row before it answers.
LEMMA StaleTells ==
  ASSUME Authority, Telling, NEW a \in Attaches, NEW k \in {"live", "back_told"},
         run' = [run EXCEPT ![Pump(a)].pc = "stale", ![Pump(a)].k = k],
         UNCHANGED <<setup, own, link, hold, belief>>,
         run[Pump(a)].pc \notin {"say", "fanout", "hold", "claim_check"}
  PROVE  Telling'
<1> DEFINE r == [run[Pump(a)] EXCEPT !.pc = "stale", !.k = k]
<1>1. run[Pump(a)] \in RunType /\ ClaimTold(run[Pump(a)], own[a]) /\ Placed(run[Pump(a)], own[a], link[a])
  BY PumpAt
<1>2. r.pc = "stale" /\ r.won = 0 /\ r.k = k
  BY <1>1 DEF RunType, ClaimTold
<1>3. run' = [run EXCEPT ![Pump(a)] = r]
  OBVIOUS
<1> HIDE DEF r
<1>5. ClaimTold(r, own[a]) /\ WillTell(r)
  BY <1>2 DEF ClaimTold, Claims, WillTell
<1>6. Placed(r, own[a], link[a])
  BY <1>1, <1>2 DEF Placed, Answering, AfterAnswer, Opening, Unopened, Ending
<1> QED
  BY <1>2, <1>3, <1>5, <1>6, PumpGoes

\* A grant is the first state of an attach.
LEMMA GrantTells ==
  ASSUME Authority, Telling, NEW a \in Attaches, NEW m, NEW g, Granted(a, m, g),
         UNCHANGED <<setup, link, hold, belief>>, run[Pump(a)].pc \in Unopened
  PROVE  Telling'
<1> DEFINE r == [run[Pump(a)] EXCEPT !.pc = "register"]
           o == [NotAttached EXCEPT !.m = m, !.g = g]
<1>1. run[Pump(a)] \in RunType /\ ClaimTold(run[Pump(a)], own[a]) /\ Placed(run[Pump(a)], own[a], link[a])
  BY PumpAt
<1>2. r.pc = "register" /\ r.won = 0 /\ o.told = FALSE
  BY <1>1 DEF RunType, ClaimTold, NotAttached, Unopened
<1>3. run' = [run EXCEPT ![Pump(a)] = r] /\ own' = [own EXCEPT ![a] = o]
  BY DEF Granted, Goto
<1>4. link = [link EXCEPT ![a] = link[a]]
  BY Shapes
<1>7. link[a] = "none"
  BY <1>1 DEF Placed, Answering, AfterAnswer, Opening
<1>8. run[Pump(a)].pc # "say" /\ run[Pump(a)].pc # "fanout"
  BY DEF Unopened
<1> HIDE DEF r, o
<1>5. ClaimTold(r, o)
  BY <1>2 DEF ClaimTold, Claims
<1>6. Placed(r, o, link[a])
  BY <1>2, <1>7 DEF Placed, Answering, AfterAnswer, Opening, Unopened, Ending
<1>9. TellMove(Pump(a), r, o, link[a], belief[a])
  BY <1>2, ProcNames DEF TellMove, Hears
<1> QED
  BY <1>3, <1>4, <1>5, <1>6, <1>8, <1>9, PumpAt, PumpMoves

\* Opening, up to the pairing; the fan-out of a grant is below.
LEMMA OpeningTells ==
  ASSUME Authority, Telling, NEW a \in Attaches,
         \/ AttachTerminal(a) \/ GrantLegacy(a) \/ GrantClaim(a) \/ GrantRenew(a) \/ GrantLost(a)
         \/ Register(a) \/ FirstFails(a) \/ DialBack(a) \/ NoDialBack(a)
  PROVE  Telling'
<1>a. /\ run[Pump(a)] \in RunType /\ Pump(a) \in Procs
      /\ ClaimTold(run[Pump(a)], own[a]) /\ Placed(run[Pump(a)], own[a], link[a])
      /\ store.gen \in Nat
  BY PumpAt, Shapes
<1>b. UNCHANGED Rest => UNCHANGED <<setup, link, hold>>
  BY DEF Rest
<1>c. run[Pump(a)].pc \in Unopened => own[a] = NotAttached /\ link[a] = "none"
  BY <1>a DEF Placed, Answering, AfterAnswer, Opening
<1>1. CASE AttachTerminal(a)
  <2>1. run[Pump(a)].pc = "idle" /\ UNCHANGED <<setup, link, hold, belief>>
    BY <1>1, <1>b DEF AttachTerminal, Idle
  <2>2. CASE Granted(a, IF Shared THEN Asked(a) ELSE "view", store.gen)
    BY <2>1, <2>2, GrantTells DEF Unopened
  <2>3. CASE GotoG(Pump(a), IF Keeper(a) THEN "grant" ELSE "take", store.gen) /\ UNCHANGED own
    <3>1. PICK pc \in {"grant", "take"} : GotoG(Pump(a), pc, store.gen)
      BY <2>3
    <3>2. own[a] = NotAttached /\ link[a] = "none"
      BY <1>c, <2>1 DEF Unopened
    <3> QED
      BY <1>a, <2>1, <2>3, <3>1, <3>2, PumpGoto DEF Places, Unopened, Ending, WillTell
  <2> QED
    BY <1>1, <2>2, <2>3 DEF AttachTerminal
<1>2. CASE GrantLegacy(a)
  BY <1>2, <1>b, GrantTells DEF GrantLegacy, Unopened
<1>3. CASE GrantClaim(a)
  <2>1. run[Pump(a)].pc = "grant" /\ UNCHANGED <<setup, link, hold, belief, own>>
    BY <1>3, <1>b DEF GrantClaim
  <2>2. own[a] = NotAttached /\ link[a] = "none"
    BY <1>c, <2>1 DEF Unopened
  <2>3. \/ GotoG(Pump(a), "grant_renew", run[Pump(a)].g + 1)
        \/ GotoG(Pump(a), "grant_lost", run[Pump(a)].g)
    BY <1>3, PumpGotoSame DEF GrantClaim
  <2>4. run[Pump(a)].g + 1 \in Nat /\ run[Pump(a)].g \in Nat
    BY <1>a DEF RunType
  <2> QED
    BY <1>a, <2>1, <2>2, <2>3, <2>4, PumpGoto DEF Places, Unopened, Ending, WillTell
<1>4. CASE GrantRenew(a)
  <2>1. run[Pump(a)].pc = "grant_renew" /\ UNCHANGED <<setup, link, hold, belief>>
    BY <1>4, <1>b DEF GrantRenew
  <2>2. CASE Granted(a, "control", run[Pump(a)].g)
    BY <2>1, <2>2, GrantTells DEF Unopened
  <2>3. CASE Goto(Pump(a), "grant_lost") /\ UNCHANGED own
    <3>1. own[a] = NotAttached /\ link[a] = "none"
      BY <1>c, <2>1 DEF Unopened
    <3>2. GotoG(Pump(a), "grant_lost", run[Pump(a)].g) /\ run[Pump(a)].g \in Nat
      BY <2>3, PumpGotoSame
    <3> QED
      BY <1>a, <2>1, <2>3, <3>1, <3>2, PumpGoto DEF Places, Unopened, Ending, WillTell
  <2> QED
    BY <1>4, <2>2, <2>3 DEF GrantRenew
<1>5. CASE GrantLost(a)
  BY <1>5, <1>b, GrantTells DEF GrantLost, Unopened
<1>6. CASE Register(a)
  <2> DEFINE r == [run[Pump(a)] EXCEPT !.pc = "first"]
             o == [own[a] EXCEPT !.reg = TRUE]
  <2>1. run[Pump(a)].pc = "register" /\ UNCHANGED <<setup, link, hold, belief>>
    BY <1>6, <1>b DEF Register
  <2>2. run' = [run EXCEPT ![Pump(a)] = r] /\ own' = [own EXCEPT ![a] = o] /\ link' = [link EXCEPT ![a] = link[a]]
    BY <1>6, <2>1, Shapes DEF Register, Goto
  <2>3. r.pc = "first" /\ r.won = run[Pump(a)].won /\ o.m = own[a].m /\ o.g = own[a].g /\ o.told = own[a].told
    BY <1>a, PumpAt DEF RunType
  <2> HIDE DEF r, o
  <2>4. ClaimTold(r, o) /\ Placed(r, o, link[a])
    BY <1>a, <2>1, <2>3 DEF ClaimTold, Claims, Placed, Answering, AfterAnswer, Opening, Unopened, Ending
  <2>5. TellMove(Pump(a), r, o, link[a], belief[a])
    BY <2>1, <2>3, ProcNames DEF TellMove, Hears, WillTell
  <2> QED
    BY <2>1, <2>2, <2>4, <2>5, PumpAt, PumpMoves
<1>7. CASE FirstFails(a) \/ NoDialBack(a)
  <2>1. run[Pump(a)].pc \in {"first", "parked"} /\ UNCHANGED <<setup, link, hold, belief, own>>
    BY <1>7, <1>b DEF FirstFails, NoDialBack
  <2>2. GotoG(Pump(a), "finish", run[Pump(a)].g) /\ run[Pump(a)].g \in Nat
    BY <1>7, PumpGotoSame DEF FirstFails, NoDialBack
  <2>3. link[a] # "up"
    BY <1>a, <2>1 DEF Placed, Answering, AfterAnswer, Opening
  <2>4. /\ "finish" \in Places /\ "finish" \in Ending
        /\ "finish" \notin Unopened \cup {"say", "parked", "fanout", "hold", "claim_check"}
    BY DEF Places, Unopened, Ending
  <2>5. ~WillTell(run[Pump(a)])
    BY <2>1 DEF WillTell
  <2> QED
    BY <2>1, <2>2, <2>3, <2>4, <2>5, PumpGoto
<1>8. CASE DialBack(a)
  <2> DEFINE r == [Idle EXCEPT !.pc = "live"]
  <2>1. run[Pump(a)].pc = "parked" /\ UNCHANGED <<setup, hold, belief, own>>
    BY <1>8 DEF DialBack
  <2>2. run' = [run EXCEPT ![Pump(a)] = r] /\ own' = [own EXCEPT ![a] = own[a]] /\ link' = [link EXCEPT ![a] = "up"]
    BY <1>8, <2>1, Shapes DEF DialBack
  <2>3. r.pc = "live" /\ r.won = 0 /\ r.k = "idle"
    BY DEF Idle
  <2> HIDE DEF r
  <2>4. own[a].told
    BY <1>a, <2>1 DEF Placed, Answering, AfterAnswer
  <2>5. ClaimTold(r, own[a]) /\ Placed(r, own[a], "up")
    BY <2>3, <2>4 DEF ClaimTold, Claims, Placed, Answering, AfterAnswer, Opening, Unopened, Ending
  <2>6. link[a] # "down"
    BY <1>a, <2>1 DEF Placed, Answering, AfterAnswer, Opening
  <2>7. TellMove(Pump(a), r, own[a], "up", belief[a])
    BY <2>1, <2>3, <2>4, <2>6, ProcNames DEF TellMove, Hears, WillTell
  <2> QED
    BY <2>1, <2>2, <2>5, <2>7, PumpMoves
<1> QED
  BY <1>1, <1>2, <1>3, <1>4, <1>5, <1>6, <1>7, <1>8

\* A process of a fan-out starts on its errand.
Errands(g) == [pc : {"lock", "install", "hold"}, g : {g}, m : {"view"}, won : {0}, k : {"idle"}]

\* What a fan-out does to the states and to the processes.
Fans(w, o, g, r) ==
  /\ \A p \in Attaches : own'[p] = IF p \in Peers(w) THEN Displaced(o[p], g) ELSE o[p]
  /\ run'[Pump(w)] = r
  /\ \A x \in Procs : x # Pump(w) => IF x[1] = "peer" /\ x[2] = w /\ Target(x) \in Peers(w)
                                     THEN run'[x] \in Errands(g) ELSE run'[x] = run[x]
LEMMA FanMoves ==
  ASSUME NEW w, Pump(w) \in Procs, NEW o, NEW g, NEW wait, NEW k, StartDisplace(w, o, g, wait, k)
  PROVE  Fans(w, o, g, [run[Pump(w)] EXCEPT !.pc = "fanout", !.k = k])
<1>1. own' = [p \in Attaches |-> IF p \in Peers(w) THEN Displaced(o[p], g) ELSE o[p]]
  BY DEF StartDisplace
<1>2. \A p \in Attaches : own'[p] = IF p \in Peers(w) THEN Displaced(o[p], g) ELSE o[p]
  BY <1>1
<1>3. ASSUME NEW x \in Procs, x = Pump(w) PROVE run'[x] = [run[x] EXCEPT !.pc = "fanout", !.k = k]
  BY <1>3 DEF StartDisplace
<1>4. ASSUME NEW x \in Procs, x # Pump(w), x[1] = "peer" /\ x[2] = w /\ Target(x) \in Peers(w)
      PROVE  run'[x] \in Errands(g)
  <2>1. PICK pc \in {"lock", "install", "hold"} : run'[x] = [Idle EXCEPT !.g = g, !.pc = pc]
    BY <1>4 DEF StartDisplace
  <2>2. run'[x] = [pc |-> pc, g |-> g, m |-> "view", won |-> 0, k |-> "idle"]
    BY <2>1 DEF Idle
  <2> QED
    BY <2>2 DEF Errands
<1>5. ASSUME NEW x \in Procs, x # Pump(w), ~(x[1] = "peer" /\ x[2] = w /\ Target(x) \in Peers(w))
      PROVE  run'[x] = run[x]
  BY <1>5 DEF StartDisplace
<1> QED
  BY <1>2, <1>3, <1>4, <1>5 DEF Fans

\* A fan-out: every peer whose state is moved is reached by a process that
\* will tell its client.
LEMMA FanTells ==
  ASSUME Authority, Telling, NEW w \in Attaches, NEW u, NEW o, NEW g, NEW k, NEW r,
         o[w] = u, \A p \in Attaches : p # w => o[p] = own[p], u \in [m : Modes, g : Nat, told : BOOLEAN, reg : BOOLEAN],
         Fans(w, o, g, r),
         UNCHANGED <<setup, link, hold, belief>>, run[Pump(w)].pc \notin {"say", "fanout"},
         r.pc = "fanout", r.k = k, ClaimTold(r, u), Placed(r, u, link[w]),
         u.told = own[w].told,
         \/ k \in {"parked", "claim_check"}
         \/ u = own[w] /\ ~WillTell(run[Pump(w)])
  PROVE  Telling'
<1> DEFINE T == [m : Modes, g : Nat, told : BOOLEAN, reg : BOOLEAN]
<1>a. /\ run \in [Procs -> RunType] /\ own \in [Attaches -> T] /\ link \in [Attaches -> {"none", "up", "down"}]
      /\ Pump(w) \in Procs /\ Target(Pump(w)) = w
  BY Shapes, ProcNames
<1>b. o[w] = u /\ \A p \in Attaches : p # w => o[p] = own[p]
  BY <1>a
<1>c. w \notin Peers(w) /\ \A p \in Peers(w) : p \in Attaches /\ own[p].reg
  BY DEF Peers
<1>d. /\ own'[w] = u
      /\ \A p \in Peers(w) : own'[p] = Displaced(own[p], g)
      /\ \A p \in Attaches : p # w /\ p \notin Peers(w) => own'[p] = own[p]
  <2>2. \A p \in Attaches : own'[p] = IF p \in Peers(w) THEN Displaced(o[p], g) ELSE o[p]
    BY DEF Fans
  <2> HIDE DEF Displaced
  <2>3. \A p \in Peers(w) : Displaced(o[p], g) = Displaced(own[p], g)
    BY <1>b, <1>c
  <2> QED
    BY <1>b, <1>c, <2>2, <2>3
<1>f. \A x \in Procs :
         /\ x = Pump(w) => run'[x] = r
         /\ x # Pump(w) => IF x[1] = "peer" /\ x[2] = w /\ Target(x) \in Peers(w)
                           THEN run'[x] \in Errands(g) ELSE run'[x] = run[x]
  BY DEF Fans
<1>g. \A e \in Errands(g) : e.k = "idle" /\ e.won = 0 /\ e.m = "view" /\ e.pc \in {"lock", "install", "hold"}
  BY DEF Errands
<1>h. /\ run'[Pump(w)] = r
      /\ \A p \in Peers(w) : run'[Peer(w, p)] \in Errands(g)
      /\ \A x \in Procs : \/ x = Pump(w) \/ run'[x] = run[x]
                          \/ \E p \in Peers(w) : x = Peer(w, p) /\ run'[x] \in Errands(g)
  <2>1. \A p \in Attaches : Peer(w, p) \in Procs /\ Peer(w, p)[1] = "peer" /\ Peer(w, p)[2] = w
                            /\ Target(Peer(w, p)) = p /\ Peer(w, p) # Pump(w)
    BY ProcNames, ProcKinds DEF Peer
  <2>2. ASSUME NEW x \in Procs, x # Pump(w), run'[x] # run[x]
        PROVE  \E p \in Peers(w) : x = Peer(w, p) /\ run'[x] \in Errands(g)
    <3>1. x[1] = "peer" /\ x[2] = w /\ Target(x) \in Peers(w) /\ run'[x] \in Errands(g)
      BY <1>f, <2>2
    <3>2. PICK v \in Attaches : x = Peer(v, Target(x))
      BY <3>1, ProcKinds
    <3>3. v = w
      BY <3>1, <3>2 DEF Peer
    <3> QED
      BY <3>1, <3>2, <3>3
  <2> QED
    BY <1>a, <1>c, <1>f, <2>1, <2>2
<1>i. \A p \in Attaches : run[Peer(w, p)].pc = "idle"
  BY DEF Telling, Talking
<1>j. \A x \in Procs : run[x].pc # "idle" /\ x # Pump(w) => run'[x] = run[x]
  BY <1>c, <1>h, <1>i
<1>k. \A p \in Attaches : p # w => run'[Pump(p)] = run[Pump(p)] /\ run'[Beat(p)] = run[Beat(p)]
  BY <1>h, ProcNames, ProcKinds, <1>c
<1>l. run'[Beat(w)] = run[Beat(w)]
  BY <1>h, ProcNames, ProcKinds, <1>c
<1>1. ASSUME NEW x \in Procs PROVE Errand(x, run'[x])
  <2>1. CASE x = Pump(w)
    BY <2>1, ProcKinds, ProcNames DEF Errand
  <2>2. CASE run'[x] = run[x]
    BY <2>2 DEF Errand, Telling, Talking
  <2>3. ASSUME NEW p \in Peers(w), run'[x] \in Errands(g) PROVE Errand(x, run'[x])
    BY <2>3, <1>c, <1>g DEF Errand
  <2> QED
    BY <1>h, <2>1, <2>2, <2>3
<1>2. ASSUME NEW v \in Attaches, NEW p \in Attaches, run'[Peer(v, p)].pc # "idle" PROVE run'[Pump(v)].pc = "fanout"
  <2>1. CASE v = w
    BY <1>h, <2>1
  <2>2. CASE v # w
    <3>1. Peer(v, p) \in Procs /\ Peer(v, p) # Pump(w) /\ \A q \in Attaches : Peer(v, p) # Peer(w, q)
      BY <2>2, ProcNames, ProcKinds
    <3>2. run'[Peer(v, p)] = run[Peer(v, p)]
      BY <1>c, <1>h, <3>1
    <3>3. run[Pump(v)].pc = "fanout"
      BY <1>2, <3>2 DEF Telling, Talking
    <3> QED
      BY <1>k, <2>2, <3>3
  <2> QED
    BY <2>1, <2>2
<1>3. ASSUME NEW p \in Attaches, p # w
      PROVE  ClaimTold(run'[Pump(p)], own'[p]) /\ Placed(run'[Pump(p)], own'[p], link[p])
  <2>1. ClaimTold(run[Pump(p)], own[p]) /\ Placed(run[Pump(p)], own[p], link[p]) /\ run'[Pump(p)] = run[Pump(p)]
    BY <1>3, <1>k DEF Telling, Talking
  <2>2. CASE own'[p] = own[p]
    BY <2>1, <2>2
  <2>3. CASE p \in Peers(w) /\ own'[p] # own[p]
    <3>1. own'[p].m = "view" /\ own'[p].told = own[p].told /\ own[p] # NotAttached
      <4>1. own[p] \in T /\ own[p].reg /\ own'[p] = Displaced(own[p], g)
        BY <1>a, <1>c, <1>d, <2>3
      <4>2. own'[p] = [own[p] EXCEPT !.m = "view", !.g = g]
        BY <2>3, <4>1 DEF Displaced
      <4> QED
        BY <4>1, <4>2 DEF NotAttached
    <3> QED
      BY <2>1, <3>1 DEF ClaimTold, Placed, Answering, AfterAnswer
  <2> QED
    BY <1>3, <1>d, <2>2, <2>3
<1>4. ASSUME NEW c \in Attaches
      PROVE  /\ ClaimTold(run'[Pump(c)], own'[c])
             /\ Placed(run'[Pump(c)], own'[c], link'[c])
             /\ run'[Beat(c)].pc # "idle" => link'[c] # "none"
             /\ hold'[c].by # None => Target(hold'[c].by) = c /\ run'[hold'[c].by].pc = "say"
             /\ HoldTold(c, hold'[c])
  <2>1. ClaimTold(run'[Pump(c)], own'[c]) /\ Placed(run'[Pump(c)], own'[c], link'[c])
    BY <1>3, <1>d, <1>h
  <2>2. run'[Beat(c)].pc # "idle" => link'[c] # "none"
    BY <1>k, <1>l DEF Telling, Talking
  <2>3. ASSUME hold[c].by # None PROVE Target(hold[c].by) = c /\ run'[hold[c].by].pc = "say"
    <3>1. hold[c].by \in Procs /\ Target(hold[c].by) = c /\ run[hold[c].by].pc = "say"
      BY <2>3, Shapes DEF Telling, Talking
    <3> QED
      BY <1>j, <3>1
  <2>4. HoldTold(c, hold[c])
    BY DEF Telling, Talking
  <2> QED
    BY <2>1, <2>2, <2>3, <2>4
<1>5. Talking'
  BY <1>1, <1>2, <1>4 DEF Talking
<1>6. ASSUME NEW c \in Attaches, Hears(c, own'[c], link[c])
      PROVE  \/ Believes(own'[c], belief[c])
             \/ \E x \in Procs : Target(x) = c /\ WillTell(run'[x])
  <2>1. CASE c \in Peers(w)
    <3>1. Peer(w, c) \in Procs /\ Target(Peer(w, c)) = c
      BY ProcNames
    <3>2. WillTell(run'[Peer(w, c)])
      BY <1>g, <1>h, <2>1 DEF WillTell
    <3> QED
      BY <3>1, <3>2
  <2>2. CASE c = w /\ k \in {"parked", "claim_check"}
    <3>1. WillTell(run'[Pump(w)])
      BY <1>h, <2>2 DEF WillTell
    <3> QED
      BY <1>a, <2>2, <3>1
  <2>3. CASE c \notin Peers(w) /\ (c = w => u = own[w] /\ ~WillTell(run[Pump(w)]))
    <3>1. own'[c] = own[c] /\ Hears(c, own[c], link[c])
      BY <1>6, <1>d, <2>3
    <3>2. \/ Believes(own[c], belief[c])
          \/ \E x \in Procs : Target(x) = c /\ WillTell(run[x])
      BY <3>1 DEF Telling, Truth
    <3>3. ASSUME NEW x \in Procs, Target(x) = c, WillTell(run[x]) PROVE WillTell(run'[x])
      <4>1. x # Pump(w)
        BY <1>a, <2>3, <3>3
      <4>2. run[x].pc # "idle"
        BY <3>3 DEF WillTell
      <4> QED
        BY <1>j, <3>3, <4>1, <4>2
    <3> QED
      BY <3>1, <3>2, <3>3
  <2> QED
    BY <2>1, <2>2, <2>3
<1>7. Truth'
  <2>1. \A c : Keeper(c)' = Keeper(c)
    BY DEF Keeper, Cmd
  <2> QED
    BY <1>6, <2>1 DEF Truth, Hears
<1> QED
  BY <1>5, <1>7 DEF Telling

\* The fan-out of a pump whose own state stays as it is.
LEMMA OwnFanTells ==
  ASSUME Authority, Telling, NEW w \in Attaches, NEW g, NEW wait, NEW k \in {"live", "parked", "gone"},
         StartDisplace(w, own, g, wait, k), UNCHANGED <<setup, link, hold, belief>>,
         run[Pump(w)].pc \in {"first", "back_told", "released", "left"},
         k = "parked" => run[Pump(w)].pc = "first", k = "gone" => run[Pump(w)].pc = "left"
  PROVE  Telling'
<1> DEFINE r == [run[Pump(w)] EXCEPT !.pc = "fanout", !.k = k]
<1>1. /\ run[Pump(w)] \in RunType /\ Pump(w) \in Procs
      /\ ClaimTold(run[Pump(w)], own[w]) /\ Placed(run[Pump(w)], own[w], link[w])
      /\ own[w] \in [m : Modes, g : Nat, told : BOOLEAN, reg : BOOLEAN]
  BY PumpAt
<1>2. Fans(w, own, g, r)
  BY <1>1, FanMoves
<1>3. r.pc = "fanout" /\ r.k = k /\ r.won = 0
  BY <1>1 DEF RunType, ClaimTold
<1> HIDE DEF r
<1>4. ClaimTold(r, own[w])
  BY <1>3 DEF ClaimTold, Claims
<1>5. Placed(r, own[w], link[w])
  BY <1>1, <1>3 DEF Placed, Answering, AfterAnswer, Opening, Unopened, Ending
<1>6. ~WillTell(run[Pump(w)]) /\ run[Pump(w)].pc \notin {"say", "fanout"}
  BY DEF WillTell
<1> QED
  BY <1>1, <1>2, <1>3, <1>4, <1>5, <1>6, FanTells

\* The first message of a client, and the end of a fan-out.
LEMMA FirstTells ==
  ASSUME Authority, Telling, NEW a \in Attaches, FirstResize(a) \/ FanoutDone(a)
  PROVE  Telling'
<1>a. /\ run[Pump(a)] \in RunType /\ Pump(a) \in Procs
      /\ ClaimTold(run[Pump(a)], own[a]) /\ Placed(run[Pump(a)], own[a], link[a])
  BY PumpAt
<1>1. CASE FirstResize(a)
  <2>1. run[Pump(a)].pc = "first" /\ UNCHANGED <<setup, link, hold, belief>>
    BY <1>1 DEF FirstResize, Rest
  <2>2. "parked" \in AfterAnswer /\ link[a] = "none"
    BY <1>a, <2>1 DEF Continuations, Placed, Answering, AfterAnswer, Opening
  <2>3. CASE StartDisplace(a, own, own[a].g, TRUE, "parked")
    BY <2>1, <2>2, <2>3, OwnFanTells
  <2>4. CASE Answer(a, "parked") /\ UNCHANGED own
    BY <2>1, <2>2, <2>4, AnswerTells
  <2> QED
    BY <1>1, <2>3, <2>4 DEF FirstResize
<1>2. CASE FanoutDone(a)
  <2> DEFINE k == run[Pump(a)].k
  <2>1. /\ run[Pump(a)].pc = "fanout" /\ \A p \in Attaches : run[Peer(a, p)].pc = "idle"
        /\ UNCHANGED <<setup, own, link, hold, belief>>
    BY <1>2 DEF FanoutDone
  <2>2. k \in Continuations
    BY <1>a DEF RunType
  <2>3. run[Pump(a)].won = 0
    BY <1>a, <2>1 DEF ClaimTold
  <2>4. CASE k \in {"parked", "claim_check"}
    <3> DEFINE n == IF k = "parked" THEN 0 ELSE run[Pump(a)].g
               r == [run[Pump(a)] EXCEPT !.pc = "hold", !.won = n]
    <3>1. run' = [run EXCEPT ![Pump(a)] = r]
      BY <1>2, <2>4 DEF FanoutDone
    <3>2. r.pc = "hold" /\ r.won = n /\ r.k = k
      BY <1>a DEF RunType
    <3> HIDE DEF r
    <3>3. ClaimTold(r, own[a])
      BY <1>a, <2>1, <2>4, <3>2 DEF ClaimTold, Claims
    <3>4. Placed(r, own[a], link[a])
      BY <1>a, <2>1, <2>4, <3>2 DEF Placed, Answering, AfterAnswer, Opening, Unopened, Ending
    <3> QED
      BY <2>1, <3>1, <3>2, <3>3, <3>4, PumpGoes DEF WillTell
  <2>5. CASE k = "live"
    <3> DEFINE r == [Idle EXCEPT !.pc = "live"]
    <3>1. run' = [run EXCEPT ![Pump(a)] = r]
      BY <1>2, <2>5 DEF FanoutDone
    <3>2. r.pc = "live" /\ r.won = 0 /\ r.k = "idle"
      BY DEF Idle
    <3> HIDE DEF r
    <3>3. ClaimTold(r, own[a]) /\ Placed(r, own[a], link[a])
      BY <1>a, <3>2 DEF ClaimTold, Claims, Placed, Answering, AfterAnswer, Opening, Unopened, Ending
    <3>4. ~WillTell(run[Pump(a)])
      BY <2>1, <2>5 DEF WillTell
    <3> QED
      BY <2>1, <3>1, <3>2, <3>3, <3>4, PumpGoes
  <2>6. CASE k \in {"back_told", "released", "gone"}
    <3> DEFINE r == [run[Pump(a)] EXCEPT !.pc = k]
    <3>1. run' = [run EXCEPT ![Pump(a)] = r]
      BY <1>2, <2>6 DEF FanoutDone
    <3>2. r.pc = k /\ r.won = 0 /\ r.k = k
      BY <1>a, <2>3 DEF RunType
    <3> HIDE DEF r
    <3>3. ClaimTold(r, own[a]) /\ Placed(r, own[a], link[a])
      BY <1>a, <2>1, <2>6, <3>2 DEF ClaimTold, Claims, Placed, Answering, AfterAnswer, Opening, Unopened, Ending
    <3>4. ~WillTell(run[Pump(a)])
      BY <2>1, <2>6 DEF WillTell
    <3> QED
      BY <2>1, <3>1, <3>2, <3>3, <3>4, PumpGoes
  <2> QED
    BY <1>a, <2>1, <2>2, <2>4, <2>5, <2>6 DEF Continuations, Placed, Answering, AfterAnswer
<1> QED
  BY <1>1, <1>2

\* A claim, from the key to the answer.
LEMMA ClaimTells ==
  ASSUME Authority, Telling, NEW a \in Attaches,
         \/ ClaimAnswered(a) \/ ClaimBegins(a) \/ Claim(a) \/ ClaimRenew(a) \/ ClaimWon(a)
         \/ ClaimCheck(a) \/ ClaimGivenBack(a) \/ BackTold(a) \/ SendStale(a)
  PROVE  Telling'
<1> DEFINE x == Pump(a)
           T == [m : Modes, g : Nat, told : BOOLEAN, reg : BOOLEAN]
<1>a. /\ run[x] \in RunType /\ x \in Procs /\ Target(x) = a /\ run \in [Procs -> RunType]
      /\ ClaimTold(run[x], own[a]) /\ Placed(run[x], own[a], link[a]) /\ own[a] \in T
      /\ run[x].g \in Nat /\ own[a].g \in Nat /\ run[x].k \in Continuations
      /\ store.gen \in Nat
  BY PumpAt, Shapes, ProcNames DEF RunType
<1>b. UNCHANGED Rest => UNCHANGED <<setup, link, hold>>
  BY DEF Rest
<1>1. CASE ClaimAnswered(a)
  <2>1. run[x].pc = "live" /\ UNCHANGED <<setup, own, link, hold, belief>> /\ "live" \in AfterAnswer
    BY <1>1, <1>b DEF ClaimAnswered, AtLive, AfterAnswer
  <2>2. CASE Answer(a, "live")
    BY <2>1, <2>2, AnswerTells
  <2>3. CASE run' = [run EXCEPT ![Pump(a)].pc = "stale", ![Pump(a)].k = "live"]
    BY <2>1, <2>3, StaleTells
  <2> QED
    BY <1>1, <2>2, <2>3 DEF ClaimAnswered
<1>2. CASE ClaimBegins(a)
  <2>1. run[x].pc = "live" /\ own[a].m = "view" /\ UNCHANGED <<setup, own, link, hold, belief>>
    BY <1>2, <1>b DEF ClaimBegins, AtLive
  <2>2. PICK e \in {belief[a].g, own[a].g} : GotoG(x, "claim", e)
    BY <1>2 DEF ClaimBegins
  <2>3. e \in Nat
    BY <1>a, Shapes
  <2>4. ~WillTell(run[x])
    BY <2>1 DEF WillTell
  <2>5. "claim" \in Places
    BY DEF Places
  <2> QED
    BY <2>1, <2>2, <2>3, <2>4, <2>5, PumpGoto DEF Unopened, Ending
<1>3. CASE Claim(a)
  <2>1. run[x].pc = "claim" /\ UNCHANGED <<setup, own, link, hold, belief>>
    BY <1>3, <1>b DEF Claim
  <2>2. own[a].m = "view" /\ ~WillTell(run[x]) /\ run[x].g + 1 \in Nat
    BY <1>a, <2>1 DEF ClaimTold, Claims, WillTell
  <2>3. CASE GotoG(x, "claim_renew", run[x].g + 1)
    <3>1. "claim_renew" \in Places
      BY DEF Places
    <3> QED
      BY <2>1, <2>2, <2>3, <3>1, PumpGoto DEF Unopened, Ending
  <2>4. CASE ToStale(a)
    BY <2>1, <2>4, StaleTells DEF ToStale
  <2> QED
    BY <1>3, <2>3, <2>4 DEF Claim
<1>4. CASE ClaimRenew(a)
  <2>1. run[x].pc = "claim_renew" /\ UNCHANGED <<setup, own, link, hold, belief>>
    BY <1>4, <1>b DEF ClaimRenew
  <2>2. own[a].m = "view" /\ run[x].won = 0 /\ ~WillTell(run[x])
    BY <1>a, <2>1 DEF ClaimTold, Claims, WillTell
  <2>3. CASE ToInstall(a, run[x].g)
    <3> DEFINE r == [run[x] EXCEPT !.pc = "lock", !.m = "control", !.g = run[x].g]
    <3>1. run' = [run EXCEPT ![Pump(a)] = r] /\ r.pc = "lock" /\ r.m = "control" /\ r.won = 0 /\ r.k = run[x].k
      BY <1>a, <2>2, <2>3 DEF ToInstall, RunType
    <3> HIDE DEF r
    <3>2. ClaimTold(r, own[a]) /\ Placed(r, own[a], link[a])
      BY <1>a, <2>1, <2>2, <3>1 DEF ClaimTold, Placed, Answering, AfterAnswer, Opening, Unopened, Ending
    <3> QED
      BY <2>1, <2>2, <3>1, <3>2, PumpGoes
  <2>4. CASE ToStale(a)
    BY <2>1, <2>4, StaleTells DEF ToStale
  <2> QED
    BY <1>4, <2>3, <2>4 DEF ClaimRenew
<1>5. CASE ClaimWon(a)
  <2> DEFINE g == run[x].g
  <2>1. run[x].pc = "claim_won" /\ UNCHANGED <<setup, link, hold, belief>>
    BY <1>5, <1>b DEF ClaimWon
  <2>2. own[a].m = "view" /\ run[x].won = 0
    BY <1>a, <2>1 DEF ClaimTold, Claims
  <2>3. CASE own[a].g <= g
    <3> DEFINE u == [own[a] EXCEPT !.m = "control", !.g = g]
               r == [run[x] EXCEPT !.pc = "fanout", !.k = "claim_check"]
               o == [own EXCEPT ![a] = u]
    <3>1. StartDisplace(a, o, g, TRUE, "claim_check")
      <4>1. Advanced(own[a], "control", g) = u
        BY <1>a, <2>3 DEF Advanced
      <4>2. o = [own EXCEPT ![a] = Advanced(own[a], "control", g)]
        BY <4>1
      <4>3. StartDisplace(a, [own EXCEPT ![a] = Advanced(own[a], "control", g)], g, TRUE, "claim_check")
        BY <1>5, <2>3 DEF ClaimWon
      <4> QED
        BY <4>2, <4>3
    <3>2. o[a] = u /\ \A p \in Attaches : p # a => o[p] = own[p]
      BY Shapes
    <3>3. u \in T /\ u.m = "control" /\ u.g = g /\ u.told = own[a].told
      BY <1>a DEF Modes
    <3>4. r.pc = "fanout" /\ r.k = "claim_check" /\ r.g = g /\ r.won = 0
      BY <1>a, <2>2 DEF RunType
    <3> HIDE DEF u, o
    <3>5. Fans(a, o, g, r)
      BY <1>a, <3>1, FanMoves
    <3> HIDE DEF r
    <3>6. ClaimTold(r, u)
      BY <3>3, <3>4 DEF ClaimTold, Claims
    <3>7. Placed(r, u, link[a])
      BY <1>a, <2>1, <3>3, <3>4 DEF Placed, Answering, AfterAnswer, Opening, Unopened, Ending
    <3> QED
      BY <2>1, <3>2, <3>3, <3>4, <3>5, <3>6, <3>7, FanTells
  <2>4. CASE ~(own[a].g <= g)
    <3> DEFINE r == [run[x] EXCEPT !.pc = "hold", !.won = g, !.k = "claim_check"]
    <3>1. run' = [run EXCEPT ![Pump(a)] = r] /\ UNCHANGED own
      BY <1>5, <2>4 DEF ClaimWon
    <3>2. r.pc = "hold" /\ r.won = g /\ r.k = "claim_check"
      BY <1>a DEF RunType
    <3> HIDE DEF r
    <3>3. ClaimTold(r, own[a]) /\ Placed(r, own[a], link[a])
      BY <1>a, <2>1, <2>2, <3>2 DEF ClaimTold, Claims, Placed, Answering, AfterAnswer, Opening, Unopened, Ending
    <3>4. WillTell(r)
      BY <3>2 DEF WillTell
    <3> QED
      BY <2>1, <3>1, <3>3, <3>4, PumpGoes
  <2> QED
    BY <2>3, <2>4
<1>6. CASE ClaimCheck(a)
  <2> DEFINE r == [Idle EXCEPT !.pc = "live"]
  <2>1. run[x].pc = "claim_check" /\ UNCHANGED <<setup, own, link, hold, belief>> /\ run' = [run EXCEPT ![Pump(a)] = r]
    BY <1>6 DEF ClaimCheck
  <2>2. r.pc = "live" /\ r.won = 0 /\ r.k = "idle"
    BY DEF Idle
  <2> HIDE DEF r
  <2>3. ClaimTold(r, own[a]) /\ Placed(r, own[a], link[a]) /\ ~WillTell(run[x])
    BY <1>a, <2>1, <2>2 DEF ClaimTold, Claims, Placed, Answering, AfterAnswer, Opening, Unopened, Ending, WillTell
  <2> QED
    BY <2>1, <2>3, PumpGoes
<1>7. CASE ClaimGivenBack(a)
  <2>1. run[x].pc = "claim_back" /\ UNCHANGED <<setup, own, link, hold, belief>>
    BY <1>7, <1>b DEF ClaimGivenBack
  <2>2. run' = [run EXCEPT ![Pump(a)].pc = "stale", ![Pump(a)].k = "back_told"]
    BY <1>7 DEF ClaimGivenBack, Release
  <2> QED
    BY <2>1, <2>2, StaleTells
<1>8. CASE BackTold(a)
  <2>1. run[x].pc = "back_told" /\ UNCHANGED <<setup, link, hold, belief>>
    BY <1>8, <1>b DEF BackTold
  <2>2. StartDisplace(a, own, run[x].g, TRUE, "live")
    BY <1>8 DEF BackTold
  <2> QED
    BY <2>1, <2>2, OwnFanTells
<1>9. CASE SendStale(a)
  <2> DEFINE r == [run[x] EXCEPT !.pc = "hold", !.k = run[x].k, !.won = 0]
  <2>1. run[x].pc = "stale" /\ UNCHANGED <<setup, link, hold, belief>> /\ run' = [run EXCEPT ![Pump(a)] = r]
    BY <1>9, <1>b DEF SendStale, Answer
  <2>2. PICK o \in {own[a], Displaced(own[a], store.gen)} : own' = [own EXCEPT ![a] = o]
    BY <1>9, Shapes DEF SendStale
  <2>3. o = own[a] \/ (o.m = "view" /\ o.told = own[a].told)
    <3>1. o = own[a] \/ o = [own[a] EXCEPT !.m = "view", !.g = store.gen]
      BY <2>2 DEF Displaced
    <3> QED
      BY <1>a, <3>1
  <2>4. r.pc = "hold" /\ r.won = 0 /\ r.k = run[x].k
    BY <1>a DEF RunType
  <2> HIDE DEF r
  <2>5. ClaimTold(r, o) /\ WillTell(r)
    BY <2>4 DEF ClaimTold, Claims, WillTell
  <2>6. Placed(r, o, link[a])
    BY <1>a, <2>1, <2>3, <2>4 DEF Placed, Answering, AfterAnswer, Opening, Unopened, Ending
  <2>7. TellMove(Pump(a), r, o, link[a], belief[a]) /\ link' = [link EXCEPT ![a] = link[a]]
    BY <2>1, <2>5, Shapes DEF TellMove
  <2> QED
    BY <2>1, <2>2, <2>5, <2>6, <2>7, PumpAt, PumpMoves
<1> QED
  BY <1>1, <1>2, <1>3, <1>4, <1>5, <1>6, <1>7, <1>8, <1>9

\* Leaving, and giving control up.
LEMMA LeavingTells ==
  ASSUME Authority, Telling, NEW a \in Attaches,
         \/ ReleaseBegins(a) \/ ReleaseControl(a) \/ Released(a)
         \/ SpliceEnds(a) \/ Finish(a) \/ FinishRelease(a) \/ FinishTell(a) \/ Gone(a)
  PROVE  Telling'
<1> DEFINE x == Pump(a)
           T == [m : Modes, g : Nat, told : BOOLEAN, reg : BOOLEAN]
<1>a. /\ run[x] \in RunType /\ x \in Procs /\ Target(x) = a
      /\ ClaimTold(run[x], own[a]) /\ Placed(run[x], own[a], link[a]) /\ own[a] \in T
      /\ run[x].g \in Nat /\ own[a].g \in Nat /\ store.gen \in Nat
  BY PumpAt, Shapes, ProcNames DEF RunType
<1>b. UNCHANGED Rest => UNCHANGED <<setup, link, hold>>
  BY DEF Rest
<1>c. {"demote", "release", "finish", "leave", "left", "gone"} \subseteq Places
  BY DEF Places
<1>1. CASE ReleaseBegins(a)
  <2> DEFINE pc == IF Shared THEN "demote" ELSE "release"
             k == IF Shared THEN "live" ELSE "released"
             r == [Idle EXCEPT !.g = own[a].g, !.pc = pc, !.k = k]
  <2>1. run[x].pc = "live" /\ UNCHANGED <<setup, own, link, hold, belief>> /\ run' = [run EXCEPT ![Pump(a)] = r]
    BY <1>1, <1>b DEF ReleaseBegins, AtLive
  <2>2. r.pc = pc /\ r.k = k /\ r.won = 0
    BY DEF Idle
  <2> HIDE DEF r
  <2>3. ClaimTold(r, own[a]) /\ Placed(r, own[a], link[a])
    BY <1>a, <2>1, <2>2 DEF ClaimTold, Claims, Placed, Answering, AfterAnswer, Opening, Unopened, Ending
  <2> QED
    BY <2>1, <2>3, PumpGoes DEF WillTell
<1>2. CASE ReleaseControl(a) \/ SpliceEnds(a) \/ FinishRelease(a)
  <2>1. PICK pc \in {"demote", "finish", "left"} : Goto(x, pc) /\ UNCHANGED <<setup, own, link, hold, belief>>
                     /\ run[x].pc \in {"release", "live", "leave"}
                     /\ (pc = "demote" => run[x].pc = "release")
                     /\ (pc = "finish" => link[a] = "down" /\ run[x].pc = "live") /\ (pc = "left" => run[x].pc = "leave")
    <3>1. CASE ReleaseControl(a)
      BY <3>1, <1>b DEF ReleaseControl, Release
    <3>2. CASE SpliceEnds(a)
      BY <3>2, <1>b DEF SpliceEnds, AtLive
    <3>3. CASE FinishRelease(a)
      BY <3>3, <1>b DEF FinishRelease, Release
    <3> QED
      BY <1>2, <3>1, <3>2, <3>3
  <2>2. GotoG(x, pc, run[x].g)
    BY <2>1, PumpGotoSame
  <2>3. ~WillTell(run[x]) /\ (run[x].pc = "leave" => link[a] # "up" /\ pc = "left")
    BY <1>a, <2>1 DEF WillTell, Placed, Answering, AfterAnswer, Ending
  <2>4. pc \in Ending => link[a] # "up"
    BY <2>1, <2>3 DEF Ending
  <2> QED
    BY <1>a, <1>c, <2>1, <2>2, <2>3, <2>4, PumpGoto DEF Unopened, Ending
<1>3. CASE Released(a)
  BY <1>3, <1>b, OwnFanTells DEF Released
<1>4. CASE FinishTell(a)
  <2>1. run[x].pc = "left" /\ UNCHANGED <<setup, link, hold, belief>>
    BY <1>4, <1>b DEF FinishTell
  <2>2. CASE StartDisplace(a, own, store.gen, FALSE, "gone")
    BY <2>1, <2>2, OwnFanTells
  <2>3. CASE Goto(Pump(a), "gone") /\ UNCHANGED own
    <3>1. GotoG(x, "gone", run[x].g)
      BY <2>3, PumpGotoSame
    <3>2. link[a] # "up" /\ ~WillTell(run[x])
      BY <1>a, <2>1 DEF Placed, Answering, AfterAnswer, Ending, WillTell
    <3> QED
      BY <1>a, <1>c, <2>1, <2>3, <3>1, <3>2, PumpGoto DEF Unopened, Ending
  <2> QED
    BY <1>4, <2>2, <2>3 DEF FinishTell
<1>5. CASE Finish(a)
  <2> DEFINE pc == IF Keeper(a) /\ own[a].m = "control" /\ ~Shared THEN "leave" ELSE "gone"
             r == [run[x] EXCEPT !.pc = pc, !.g = own[a].g]
             o == [own[a] EXCEPT !.reg = FALSE]
  <2>1. run[x].pc = "finish" /\ UNCHANGED <<setup, link, hold, belief>>
    BY <1>5, <1>b DEF Finish
  <2>2. run' = [run EXCEPT ![Pump(a)] = r] /\ own' = [own EXCEPT ![a] = o] /\ link' = [link EXCEPT ![a] = link[a]]
    BY <1>5, <2>1, Shapes DEF Finish, GotoG
  <2>3. /\ r.pc = pc /\ r.won = 0 /\ r.k = run[x].k
        /\ o.m = own[a].m /\ o.g = own[a].g /\ o.told = own[a].told
    BY <1>a, <2>1 DEF RunType, ClaimTold
  <2> HIDE DEF r, o
  <2>4. ClaimTold(r, o) /\ Placed(r, o, link[a])
    BY <1>a, <2>1, <2>3 DEF ClaimTold, Claims, Placed, Answering, AfterAnswer, Opening, Unopened, Ending
  <2>5. TellMove(Pump(a), r, o, link[a], belief[a])
    BY <1>a, <2>1, <2>3 DEF TellMove, Hears, WillTell
  <2> QED
    BY <2>1, <2>2, <2>4, <2>5, PumpAt, PumpMoves
<1>6. CASE Gone(a)
  <2>1. /\ run[x].pc = "gone" /\ run[Beat(a)] = Idle /\ UNCHANGED <<setup, hold, belief>>
        /\ run' = [run EXCEPT ![Pump(a)] = Idle] /\ own' = [own EXCEPT ![a] = NotAttached]
        /\ link' = [link EXCEPT ![a] = "none"]
    BY <1>6 DEF Gone
  <2>2. ClaimTold(Idle, NotAttached) /\ Placed(Idle, NotAttached, "none")
    BY DEF ClaimTold, Claims, Placed, Answering, AfterAnswer, Opening, Unopened, Ending, Idle, NotAttached
  <2>3. TellMove(Pump(a), Idle, NotAttached, "none", belief[a])
    BY <1>a DEF TellMove, Hears, NotAttached
  <2>4. run[Beat(a)].pc = "idle"
    BY <2>1 DEF Idle
  <2> QED
    BY <2>1, <2>2, <2>3, <2>4, PumpMoves
<1> QED
  BY <1>1, <1>2, <1>3, <1>4, <1>5, <1>6

\* A socket drops: its client hears nothing more.
LEMMA DropTells ==
  ASSUME Authority, Telling, NEW a \in Attaches, Disconnect(a)
  PROVE  Telling'
<1>1. /\ UNCHANGED <<setup, own, run, hold, belief>> /\ link' = [link EXCEPT ![a] = "down"] /\ link[a] = "up"
  BY DEF Disconnect, Spliced
<1>2. \A c \in Attaches : link'[c] = IF c = a THEN "down" ELSE link[c]
  BY <1>1, Shapes
<1>3. \A c : Keeper(c)' = Keeper(c)
  BY <1>1 DEF Keeper, Cmd
<1>4. Truth'
  BY <1>1, <1>2, <1>3 DEF Telling, Truth, Hears
<1>5. ASSUME NEW c \in Attaches
      PROVE  /\ Placed(run[Pump(c)], own[c], link'[c])
             /\ run[Beat(c)].pc # "idle" => link'[c] # "none"
  <2>1. Placed(run[Pump(c)], own[c], link[c]) /\ (run[Beat(c)].pc # "idle" => link[c] # "none")
    BY DEF Telling, Talking
  <2> QED
    BY <1>1, <1>2, <2>1 DEF Placed, Answering, AfterAnswer
<1> QED
  BY <1>1, <1>4, <1>5 DEF Telling, Talking

\* What moves no process of an attach, nor its state, link, hold or belief.
LEMMA QuietTells ==
  ASSUME Telling, UNCHANGED <<setup, own, link, run, hold, belief>>
  PROVE  Telling'
<1>1. \A c : Keeper(c)' = Keeper(c)
  BY DEF Keeper, Cmd
<1> QED
  BY <1>1 DEF Telling, Talking, Truth, Hears

\* What is known of a process and of its attach.
LEMMA ProcAt ==
  ASSUME Authority, Telling, NEW x \in Procs
  PROVE  LET a == Target(x)
         IN  /\ a \in Attaches /\ Pump(a) \in Procs /\ Beat(a) \in Procs
             /\ run[x] \in RunType /\ run[Pump(a)] \in RunType /\ Errand(x, run[x])
             /\ ClaimTold(run[Pump(a)], own[a]) /\ Placed(run[Pump(a)], own[a], link[a])
             /\ run[Beat(a)].pc # "idle" => link[a] # "none"
             /\ hold[a].by # None => hold[a].by \in Procs /\ Target(hold[a].by) = a /\ run[hold[a].by].pc = "say"
             /\ HoldTold(a, hold[a])
             /\ own[a] \in [m : Modes, g : Nat, told : BOOLEAN, reg : BOOLEAN]
             /\ hold[a] \in [by : Procs \cup {None}, m : Modes, g : Nat, won : Nat]
             /\ own = [own EXCEPT ![a] = own[a]] /\ link = [link EXCEPT ![a] = link[a]]
             /\ hold = [hold EXCEPT ![a] = hold[a]] /\ belief = [belief EXCEPT ![a] = belief[a]]
<1> DEFINE a == Target(x)
<1>1. a \in Attaches /\ Pump(a) \in Procs /\ Beat(a) \in Procs
  BY ProcKinds, ProcNames
<1>2. /\ run[x] \in RunType /\ run[Pump(a)] \in RunType
      /\ own[a] \in [m : Modes, g : Nat, told : BOOLEAN, reg : BOOLEAN]
      /\ hold[a] \in [by : Procs \cup {None}, m : Modes, g : Nat, won : Nat]
      /\ own = [own EXCEPT ![a] = own[a]] /\ link = [link EXCEPT ![a] = link[a]]
      /\ hold = [hold EXCEPT ![a] = hold[a]] /\ belief = [belief EXCEPT ![a] = belief[a]]
  BY <1>1, Shapes
<1>3. /\ Errand(x, run[x])
      /\ ClaimTold(run[Pump(a)], own[a]) /\ Placed(run[Pump(a)], own[a], link[a])
      /\ run[Beat(a)].pc # "idle" => link[a] # "none"
      /\ hold[a].by # None => Target(hold[a].by) = a /\ run[hold[a].by].pc = "say"
      /\ HoldTold(a, hold[a])
  BY <1>1 DEF Telling, Talking
<1> QED
  BY <1>1, <1>2, <1>3

\* A process goes on, and changes nothing but its record.
LEMMA ProcGoes ==
  ASSUME Authority, Telling, NEW x \in Procs, NEW r,
         run' = [run EXCEPT ![x] = r], UNCHANGED <<setup, own, link, hold, belief>>,
         run[x].pc \notin {"idle", "say", "fanout"}, Errand(x, r),
         x = Pump(Target(x)) => ClaimTold(r, own[Target(x)]) /\ Placed(r, own[Target(x)], link[Target(x)]),
         \/ WillTell(run[x]) => WillTell(r)
         \/ ~own[Target(x)].told
         \/ hold[Target(x)].by # None
  PROVE  Telling'
<1> DEFINE a == Target(x)
<1>0. a \in Attaches
  BY ProcAt
<1>1. Moves(x, r, own[a], link[a], hold[a], belief[a])
  BY ProcAt DEF Moves
<1>2. TalkMove(x, r, own[a], link[a], hold[a])
  BY ProcAt DEF TalkMove
<1>3. Talking'
  BY <1>1, <1>2, MoveTalks DEF Telling
<1>4. CASE (WillTell(run[x]) => WillTell(r)) \/ ~own[a].told
  <2>1. TellMove(x, r, own[a], link[a], belief[a])
    BY <1>4 DEF TellMove, Hears
  <2> QED
    BY <1>1, <1>3, <2>1, MoveTells DEF Telling
<1>5. CASE hold[a].by # None
  <2>1. hold[a].by \in Procs /\ Target(hold[a].by) = a /\ run[hold[a].by].pc = "say"
    BY <1>5, ProcAt
  <2>2. run'[hold[a].by] = run[hold[a].by]
    BY <2>1, Shapes
  <2>3. \A c : Keeper(c)' = Keeper(c)
    BY DEF Keeper, Cmd
  <2>4. ASSUME NEW c \in Attaches, Hears(c, own[c], link[c])
        PROVE  \/ Believes(own[c], belief[c])
               \/ \E y \in Procs : Target(y) = c /\ WillTell(run'[y])
    <3>1. CASE c = a
      BY <2>1, <2>2, <3>1 DEF WillTell
    <3>2. CASE c # a
      <4>1. \/ Believes(own[c], belief[c])
            \/ \E y \in Procs : Target(y) = c /\ WillTell(run[y])
        BY <2>4 DEF Telling, Truth
      <4>2. \A y \in Procs : Target(y) = c => run'[y] = run[y]
        BY <3>2, Shapes
      <4> QED
        BY <4>1, <4>2
    <3> QED
      BY <3>1, <3>2
  <2>5. Truth'
    BY <2>3, <2>4 DEF Truth, Hears
  <2> QED
    BY <1>3, <2>5 DEF Telling
<1> QED
  BY <1>4, <1>5

\* Installing a binding: whoever waits for the sandbox tells the client
\* afterwards.
LEMMA InstallTells ==
  ASSUME Authority, Telling, NEW x \in Procs,
         Install(x) \/ AckSeen(x) \/ AckTimeout(x) \/ InstallNoWait(x)
  PROVE  Telling'
<1> DEFINE a == Target(x)
<1>a. UNCHANGED <<setup, own, link, hold, belief>>
  BY DEF Install, AckSeen, AckTimeout, InstallNoWait
<1>b. run[x].pc \in {"lock", "wait", "install"}
  BY DEF Install, AckSeen, AckTimeout, InstallNoWait
<1>c. AfterWait(x) \in {"claim_won", "hold"} /\ (AfterWait(x) = "claim_won" <=> x[1] = "pump" /\ run[x].m = "control")
  BY DEF AfterWait
<1>1. \/ UNCHANGED run
      \/ \E pc \in {"wait", "claim_won", "claim_back", "hold"} :
           /\ Goto(x, pc)
           /\ pc \in {"claim_won", "claim_back"} => x[1] = "pump" /\ run[x].m = "control" /\ run[x].pc # "install"
           /\ pc = "hold" => ~(x[1] = "pump" /\ run[x].m = "control") \/ run[x].pc = "install"
           /\ pc = "wait" => run[x].pc = "lock"
  <2>1. CASE Install(x)
    BY <1>c, <2>1 DEF Install
  <2>2. CASE AckSeen(x)
    BY <1>c, <2>2 DEF AckSeen
  <2>3. CASE AckTimeout(x)
    BY <1>c, <2>3 DEF AckTimeout
  <2>4. CASE InstallNoWait(x)
    BY <2>4 DEF InstallNoWait
  <2> QED
    BY <2>1, <2>2, <2>3, <2>4
<1>2. CASE UNCHANGED run
  BY <1>2, <1>a, QuietTells
<1>3. ASSUME NEW pc \in {"wait", "claim_won", "claim_back", "hold"}, Goto(x, pc),
             pc \in {"claim_won", "claim_back"} => x[1] = "pump" /\ run[x].m = "control" /\ run[x].pc # "install",
             pc = "hold" => ~(x[1] = "pump" /\ run[x].m = "control") \/ run[x].pc = "install",
             pc = "wait" => run[x].pc = "lock"
      PROVE  Telling'
  <2> DEFINE r == [run[x] EXCEPT !.pc = pc]
  <2>1. run' = [run EXCEPT ![x] = r]
    BY <1>3 DEF Goto
  <2>2. r.pc = pc /\ r.m = run[x].m /\ r.k = run[x].k /\ r.won = run[x].won /\ r.g = run[x].g
    BY ProcAt DEF RunType
  <2> HIDE DEF r
  <2>3. Errand(x, r)
    BY <1>3, <2>2, ProcAt DEF Errand
  <2>4. ASSUME x = Pump(a) PROVE ClaimTold(r, own[a]) /\ Placed(r, own[a], link[a])
    <3>1. ClaimTold(run[x], own[a]) /\ Placed(run[x], own[a], link[a]) /\ x[1] = "pump"
      BY <2>4, ProcAt, ProcNames
    <3>2. run[x].won = 0 /\ (pc \in {"wait", "claim_won", "claim_back"} /\ run[x].m = "control" => own[a].m = "view")
      BY <1>3, <1>b, <3>1 DEF ClaimTold, Claims
    <3>3. ClaimTold(r, own[a])
      BY <1>3, <2>2, <3>2 DEF ClaimTold, Claims
    <3>4. Placed(r, own[a], link[a])
      <4>1. run[x].m \in {"view", "control"}
        BY ProcAt DEF RunType, Modes
      <4> QED
        BY <1>3, <1>b, <2>2, <3>1, <4>1 DEF Placed, Answering, AfterAnswer, Opening, Unopened, Ending
    <3> QED
      BY <3>3, <3>4
  <2>5. WillTell(r)
    BY <2>2 DEF WillTell
  <2> QED
    BY <1>a, <1>b, <2>1, <2>3, <2>4, <2>5, ProcGoes
<1> QED
  BY <1>1, <1>2, <1>3

\* A notice that is not given: the client is told otherwise.
LEMMA NoticeTells ==
  ASSUME Authority, Telling, NEW x \in Procs, NoticeSkipped(x) \/ NoticeGivesUp(x)
  PROVE  Telling'
<1>1. /\ UNCHANGED <<setup, own, link, hold, belief>> /\ run' = [run EXCEPT ![x] = Idle]
      /\ x[1] = "peer" /\ run[x].pc = "hold" /\ (~own[Target(x)].told \/ hold[Target(x)].by # None)
  BY DEF NoticeSkipped, NoticeGivesUp
<1>2. x # Pump(Target(x)) /\ Errand(x, Idle)
  BY <1>1, ProcAt, ProcNames DEF Errand, Idle
<1> QED
  BY <1>1, <1>2, ProcGoes

\* A step that pays both keeps both.
LEMMA ProcMoves ==
  ASSUME Authority, Telling, NEW x \in Procs, NEW r, NEW o, NEW l, NEW h, NEW b,
         Moves(x, r, o, l, h, b), TalkMove(x, r, o, l, h), TellMove(x, r, o, l, b)
  PROVE  Telling'
  BY MoveTalks, MoveTells DEF Telling

\* A notice begins: what its holder is going to say is what the attach is.
LEMMA TakeHoldTells ==
  ASSUME Authority, Telling, NEW x \in Procs, TakeHold(x)
  PROVE  Telling'
<1> DEFINE a == Target(x)
           r == [run[x] EXCEPT !.pc = "say"]
           o == [own[a] EXCEPT !.told = TRUE]
           h == [by |-> x, m |-> own[a].m, g |-> own[a].g, won |-> run[x].won]
           l == link[a]
           b == belief[a]
<1>1. /\ run[x].pc = "hold" /\ hold[a].by = None /\ (x[1] = "peer" => own[a].told)
      /\ run' = [run EXCEPT ![x] = r] /\ own' = [own EXCEPT ![a] = o] /\ hold' = [hold EXCEPT ![a] = h]
      /\ UNCHANGED <<setup, link, belief>>
  BY DEF TakeHold, Goto
<1>2. Moves(x, r, o, l, h, b)
  BY <1>1, ProcAt DEF Moves
<1>3. /\ r.pc = "say" /\ r.k = run[x].k /\ r.won = run[x].won /\ r.m = run[x].m
      /\ o.m = own[a].m /\ o.g = own[a].g /\ o.told
      /\ h.by = x /\ h.won = run[x].won /\ h.m = own[a].m /\ h.g = own[a].g
  BY ProcAt DEF RunType
<1> HIDE DEF r, h
<1>4. Errand(x, r)
  BY <1>1, <1>3, ProcAt DEF Errand
<1>5. x = Pump(a) => x[1] = "pump" /\ x # Beat(a)
  BY ProcAt, ProcNames
<1>6. x # Pump(a) => x[1] # "pump" /\ run[x].won = 0
  BY <1>1, ProcAt, ProcKinds DEF Errand
<1>7. x # Pump(a) => run[Pump(a)].pc \notin Unopened
  <2>1. SUFFICES ASSUME x # Pump(a), run[Pump(a)].pc \in Unopened PROVE FALSE
    OBVIOUS
  <2>2. own[a] = NotAttached /\ link[a] = "none"
    BY <2>1, ProcAt DEF Placed, Opening
  <2>3. x[1] = "beat" \/ x[1] = "peer"
    BY <1>6, <2>1, ProcKinds
  <2>4. CASE x[1] = "peer"
    BY <1>1, <2>2, <2>4 DEF NotAttached
  <2>5. CASE x[1] = "beat"
    BY <1>1, <2>2, <2>5, ProcAt, ProcKinds
  <2> QED
    BY <2>3, <2>4, <2>5
<1> DEFINE p == IF x = Pump(a) THEN r ELSE run[Pump(a)]
<1>8. ClaimTold(p, o)
  <2>1. CASE x = Pump(a)
    BY <1>1, <1>3, <2>1, ProcAt DEF ClaimTold, Claims
  <2>2. CASE x # Pump(a)
    BY <1>3, <2>2, ProcAt DEF ClaimTold
  <2> QED
    BY <2>1, <2>2
<1>9. Placed(p, o, l)
  <2>1. CASE x = Pump(a)
    BY <1>1, <1>3, <2>1, ProcAt DEF Placed, Answering, AfterAnswer, Opening, Unopened, Ending
  <2>2. CASE x # Pump(a)
    BY <1>3, <1>7, <2>2, ProcAt DEF Placed
  <2> QED
    BY <2>1, <2>2
<1>10. HoldTold(a, h)
  <2>1. CASE x = Pump(a)
    BY <1>1, <1>3, <2>1, ProcAt DEF HoldTold, ClaimTold
  <2>2. CASE x # Pump(a)
    BY <1>3, <1>6, <2>2 DEF HoldTold
  <2> QED
    BY <2>1, <2>2
<1>11. (IF x = Beat(a) THEN r ELSE run[Beat(a)]).pc # "idle" => l # "none"
  BY <1>1, ProcAt
<1>12. TalkMove(x, r, o, l, h)
  BY <1>1, <1>3, <1>4, <1>8, <1>9, <1>10, <1>11, ProcAt DEF TalkMove
<1>13. TellMove(x, r, o, l, b)
  BY <1>3 DEF TellMove, WillTell
<1> QED
  BY <1>2, <1>12, <1>13, ProcMoves

\* A message is written: what the client believes then is what the attach
\* was when it was read, and the client is corrected if it is that no more.
LEMMA SayTells ==
  ASSUME Authority, Telling, NEW x \in Procs, Say(x)
  PROVE  Telling'
<1> DEFINE a == Target(x)
           o == own[a]
           l == link[a]
           b == IF Keeper(a) /\ link[a] # "down" THEN Heard(hold[a]) ELSE belief[a]
<1>a. run[x].pc = "say" /\ UNCHANGED <<setup, own, link>>
  BY DEF Say
<1>b. belief' = [belief EXCEPT ![a] = b]
  BY ProcAt DEF Say
<1>c. x = Pump(a) => x[1] = "pump" /\ x # Beat(a)
  BY ProcAt, ProcNames
<1>d. x # Pump(a) => x[1] # "pump" /\ run[x].k = "idle"
  BY <1>a, ProcAt, ProcKinds DEF Errand
<1>1. CASE Settled(own[a], hold[a])
  <2> DEFINE r == IF x[1] # "pump" /\ run[x].k = "idle" THEN Idle
                  ELSE IF run[x].k = "live" THEN [Idle EXCEPT !.pc = "live"]
                  ELSE [run[x] EXCEPT !.pc = run[x].k, !.m = hold[a].m, !.g = hold[a].g]
             h == FreeHold
  <2>1. run' = [run EXCEPT ![x] = r] /\ hold' = [hold EXCEPT ![a] = h]
    <3>1. run' = [run EXCEPT ![x] = IF x[1] # "pump" /\ run[x].k = "idle" THEN Idle
                         ELSE IF run[x].k = "live" THEN [Idle EXCEPT !.pc = "live"]
                         ELSE [@ EXCEPT !.pc = run[x].k, !.m = hold[a].m, !.g = hold[a].g]]
          /\ hold' = [hold EXCEPT ![a] = h]
      BY <1>1 DEF Say
    <3>2. x \in DOMAIN run
      BY Shapes
    <3> QED
      BY <3>1, <3>2
  <2>2. Moves(x, r, o, l, h, b)
    BY <1>a, <1>b, <2>1, ProcAt DEF Moves
  <2>3. ASSUME x = Pump(a)
        PROVE  /\ r.pc = run[x].k /\ r.pc \in AfterAnswer
               /\ run[x].k # "live" => r.k = run[x].k /\ r.won = run[x].won
               /\ run[x].k = "live" => r.k = "idle" /\ r.won = 0
    <3>1. run[x].k \in AfterAnswer
      BY <1>a, <2>3, ProcAt DEF Placed, Answering
    <3> QED
      BY <1>c, <2>3, <3>1, ProcAt DEF RunType, Idle, AfterAnswer
  <2>4. x # Pump(a) => r = Idle
    BY <1>d
  <2> HIDE DEF r
  <2>5. Errand(x, r)
    BY <1>c, <1>d, <2>4 DEF Errand, Idle
  <2> DEFINE p == IF x = Pump(a) THEN r ELSE run[Pump(a)]
  <2>6. ClaimTold(p, o)
    <3>1. CASE x = Pump(a)
      BY <1>a, <2>3, <3>1, ProcAt DEF ClaimTold, Claims, AfterAnswer
    <3>2. CASE x # Pump(a)
      BY <3>2, ProcAt
    <3> QED
      BY <3>1, <3>2
  <2>7. Placed(p, o, l)
    <3>1. CASE x = Pump(a)
      BY <1>a, <2>3, <3>1, ProcAt DEF Placed, Answering, AfterAnswer, Opening, Unopened, Ending
    <3>2. CASE x # Pump(a)
      BY <3>2, ProcAt
    <3> QED
      BY <3>1, <3>2
  <2>8. (IF x = Beat(a) THEN r ELSE run[Beat(a)]).pc # "idle" => l # "none"
    BY <1>a, ProcAt
  <2>9. TalkMove(x, r, o, l, h)
    BY <1>a, <2>5, <2>6, <2>7, <2>8 DEF TalkMove, HoldTold, FreeHold
  <2>10. Believes(o, Heard(hold[a]))
    <3>1. hold[a].m = o.m /\ hold[a].g = o.g /\ o.m \in {"view", "control"}
      BY <1>1, ProcAt DEF Settled, Modes
    <3>2. HoldTold(a, hold[a])
      BY ProcAt
    <3> QED
      BY <3>1, <3>2 DEF Believes, Heard, HoldTold
  <2>11. TellMove(x, r, o, l, b)
    BY <2>10 DEF TellMove, Hears
  <2> QED
    BY <2>2, <2>9, <2>11, ProcMoves
<1>2. CASE ~Settled(own[a], hold[a])
  <2> DEFINE r == run[x]
             h == [hold[a] EXCEPT !.m = own[a].m, !.g = own[a].g, !.won = 0]
  <2>1. UNCHANGED run /\ hold' = [hold EXCEPT ![a].m = own[a].m, ![a].g = own[a].g, ![a].won = 0]
    BY <1>2 DEF Say
  <2>2. hold' = [hold EXCEPT ![a] = h]
    BY <2>1, ProcAt, Shapes
  <2>3. run = [run EXCEPT ![x] = r]
    BY Shapes
  <2>4. h.by = hold[a].by /\ h.won = 0
    BY ProcAt
  <2> HIDE DEF h
  <2>5. Moves(x, r, o, l, h, b)
    BY <1>a, <1>b, <2>1, <2>2, <2>3, ProcAt DEF Moves
  <2>6. TalkMove(x, r, o, l, h)
    BY <1>a, <2>4, ProcAt DEF TalkMove, HoldTold
  <2>7. TellMove(x, r, o, l, b)
    BY <1>a DEF TellMove, WillTell
  <2> QED
    BY <2>5, <2>6, <2>7, ProcMoves
<1> QED
  BY <1>1, <1>2

\* A message is lost: its client is owed nothing any more.
LEMMA LostTells ==
  ASSUME Authority, Telling, NEW x \in Procs, MessageLost(x)
  PROVE  Telling'
<1> DEFINE a == Target(x)
           o == own[a]
           l == link[a]
           h == FreeHold
<1>a. /\ run[x].pc = "say" /\ UNCHANGED <<setup, own, link>>
      /\ hold' = [hold EXCEPT ![a] = h]
  BY LostMoves
<1>1. PICK r \in RunType : /\ run' = [run EXCEPT ![x] = r]
                          /\ \/ x[1] = "peer" /\ r = Idle
                             \/ /\ x[1] = "pump" /\ run[x].k = "parked" /\ r.pc = "finish"
                                /\ r.k = "parked" /\ r.won = run[x].won
  BY LostMoves
<1>2. PICK b \in [m : Modes \cup {"none"}, g : Nat, lost : BOOLEAN] :
              /\ belief' = [belief EXCEPT ![a] = b]
              /\ Keeper(a) /\ link[a] # "down" => b.lost
  BY LostMoves
<1>3. Moves(x, r, o, l, h, b)
  BY <1>a, <1>1, <1>2, ProcAt DEF Moves
<1>4. (x = Pump(a) <=> x[1] = "pump") /\ (x[1] = "pump" \/ r = Idle) /\ (x[1] = "pump" => x # Beat(a))
  BY <1>1, ProcAt, ProcNames, ProcKinds
<1>5. Errand(x, r)
  BY <1>4 DEF Errand, Idle
<1> DEFINE p == IF x = Pump(a) THEN r ELSE run[Pump(a)]
<1>6. ClaimTold(p, o) /\ Placed(p, o, l)
  <2>1. CASE x = Pump(a)
    <3>1. r.pc = "finish" /\ r.k = "parked" /\ run[x].k = "parked" /\ r.won = run[x].won
      BY <1>1, <1>4, <2>1 DEF Idle
    <3>2. ClaimTold(run[x], o) /\ Placed(run[x], o, l)
      BY <2>1, ProcAt
    <3> QED
      BY <1>a, <2>1, <3>1, <3>2 DEF ClaimTold, Claims, Placed, Answering, AfterAnswer, Opening, Unopened, Ending
  <2>2. CASE x # Pump(a)
    BY <2>2, ProcAt
  <2> QED
    BY <2>1, <2>2
<1>7. (IF x = Beat(a) THEN r ELSE run[Beat(a)]).pc # "idle" => l # "none"
  BY <1>a, ProcAt
<1>8. x = Pump(a) /\ run[x].pc = "fanout" => FALSE
  BY <1>a
<1>9. TalkMove(x, r, o, l, h)
  BY <1>a, <1>1, <1>5, <1>6, <1>7, ProcAt DEF TalkMove, HoldTold, FreeHold
<1>10. TellMove(x, r, o, l, b)
  BY <1>2 DEF TellMove, Hears, Believes
<1> QED
  BY <1>3, <1>9, <1>10, ProcMoves

\* A demotion: whatever comes of it, the client is told.
LEMMA DemoteTells ==
  ASSUME Authority, Telling, NEW x \in Procs, Demote(x)
  PROVE  Telling'
<1> DEFINE a == Target(x)
           from == run[x].g
           T == [m : Modes, g : Nat, told : BOOLEAN, reg : BOOLEAN]
<1>1. PICK cur \in {store.gen, from} :
         /\ own' = [own EXCEPT ![a] = Demoted(own[a], from, cur)]
         /\ run' = [run EXCEPT ![x].m = "view", ![x].won = 0, ![x].g = Demoted(own[a], from, cur).g,
                               ![x].pc = IF own[a].g > from THEN "hold" ELSE "lock"]
  BY Shapes, ProcAt DEF Demote
<1> DEFINE o == Demoted(own[a], from, cur)
           pc == IF own[a].g > from THEN "hold" ELSE "lock"
           r == [run[x] EXCEPT !.m = "view", !.won = 0, !.g = o.g, !.pc = pc]
           l == link[a]
           b == belief[a]
           h == hold[a]
<1>2. run[x].pc = "demote" /\ UNCHANGED <<setup, link, hold, belief>>
  BY DEF Demote, Rest
<1>3. o.told = own[a].told /\ (o = own[a] \/ (o.m = "view" /\ own[a].g <= from))
  <2>1. store.gen \in Nat /\ from \in Nat /\ own[a] \in T /\ cur \in Nat
    BY ProcAt, Shapes DEF RunType
  <2> QED
    BY <2>1 DEF Demoted
<1>4. r.pc = pc /\ r.m = "view" /\ r.won = 0 /\ r.k = run[x].k
  BY ProcAt DEF RunType
<1>5. run' = [run EXCEPT ![x] = r]
  BY <1>1, Shapes
<1>6. own' = [own EXCEPT ![a] = o]
  BY <1>1
<1> HIDE DEF r, o
<1>7. Moves(x, r, o, l, h, b)
  BY <1>2, <1>5, <1>6, ProcAt DEF Moves
<1>8. Errand(x, r)
  BY <1>2, <1>4, ProcAt DEF Errand
<1>9. x = Pump(a) => x[1] = "pump" /\ x # Beat(a)
  BY ProcAt, ProcNames
<1>10. x # Pump(a) /\ run[Pump(a)].pc \in Unopened => o = NotAttached
  <2>1. SUFFICES ASSUME x # Pump(a), run[Pump(a)].pc \in Unopened PROVE o = NotAttached
    OBVIOUS
  <2>2. own[a] = NotAttached
    BY <2>1, ProcAt DEF Placed
  <2>3. link[a] = "none"
    BY <2>1, ProcAt DEF Placed, Opening
  <2>4. x[1] # "pump"
    BY <2>1, ProcAt, ProcKinds
  <2>5. x = Beat(a) \/ \E w \in Attaches : x = Peer(w, a)
    BY <2>4, ProcKinds
  <2>6. CASE x = Beat(a)
    BY <1>2, <2>3, <2>6, ProcAt
  <2>7. ASSUME NEW w \in Attaches, x = Peer(w, a) PROVE FALSE
    <3>1. x[1] = "peer"
      BY <1>2, <2>7, ProcAt, ProcKinds
    <3> QED
      BY <1>2, <3>1, ProcAt DEF Errand
  <2> QED
    BY <2>5, <2>6, <2>7
<1> DEFINE p == IF x = Pump(a) THEN r ELSE run[Pump(a)]
<1>11. ClaimTold(p, o)
  <2>1. CASE x = Pump(a)
    BY <1>4, <2>1 DEF ClaimTold, Claims
  <2>2. CASE x # Pump(a)
    BY <1>3, <2>2, ProcAt DEF ClaimTold
  <2> QED
    BY <2>1, <2>2
<1>12. Placed(p, o, l)
  <2>1. CASE x = Pump(a)
    BY <1>2, <1>3, <1>4, <2>1, ProcAt DEF Placed, Answering, AfterAnswer, Opening, Unopened, Ending
  <2>2. CASE x # Pump(a)
    BY <1>3, <1>10, <2>2, ProcAt DEF Placed
  <2> QED
    BY <2>1, <2>2
<1>13. (IF x = Beat(a) THEN r ELSE run[Beat(a)]).pc # "idle" => l # "none"
  BY <1>2, ProcAt
<1>14. TalkMove(x, r, o, l, h)
  BY <1>2, <1>8, <1>9, <1>11, <1>12, <1>13, ProcAt DEF TalkMove
<1>15. TellMove(x, r, o, l, b)
  BY <1>4 DEF TellMove, WillTell
<1> QED
  BY <1>7, <1>14, <1>15, ProcMoves

\* A heartbeat beats only while there is a socket to beat for.
LEMMA BeatTells ==
  ASSUME Authority, Telling, NEW a \in Attaches, BeatTick(a)
  PROVE  Telling'
<1> DEFINE x == Beat(a)
           r == [run[x] EXCEPT !.pc = "demote", !.g = own[a].g]
<1>1. UNCHANGED <<setup, own, link, hold, belief>> /\ run[x] = Idle /\ link[a] # "none"
  BY DEF BeatTick, Rest, Beating
<1>2. UNCHANGED run \/ run' = [run EXCEPT ![x] = r]
  <2>1. UNCHANGED run \/ run' = [run EXCEPT ![Beat(a)].pc = "demote", ![Beat(a)].g = own[a].g]
    BY DEF BeatTick
  <2> QED
    BY <2>1, ProcNames, Shapes
<1>3. CASE UNCHANGED run
  BY <1>1, <1>3, QuietTells
<1>4. CASE run' = [run EXCEPT ![x] = r]
  <2>1. x \in Procs /\ Target(x) = a /\ x # Pump(a) /\ x[1] = "beat"
    BY ProcNames, ProcKinds
  <2>2. r.pc = "demote" /\ r.k = "idle" /\ r.won = 0 /\ r.m = "view" /\ run[x].pc = "idle"
    BY <1>1 DEF Idle
  <2> HIDE DEF r
  <2>3. Moves(x, r, own[a], link[a], hold[a], belief[a])
    BY <1>1, <1>4, <2>1, ProcAt DEF Moves
  <2>4. Errand(x, r)
    BY <2>1, <2>2 DEF Errand
  <2>5. hold[a].by # None => hold[a].by # x
    BY <2>1, <2>2, ProcAt
  <2>6. TalkMove(x, r, own[a], link[a], hold[a])
    BY <1>1, <2>1, <2>4, <2>5, ProcAt DEF TalkMove
  <2>7. TellMove(x, r, own[a], link[a], belief[a])
    BY <2>1, <2>2 DEF TellMove, WillTell
  <2> QED
    BY <2>1, <2>3, <2>6, <2>7, ProcMoves
<1> QED
  BY <1>2, <1>3, <1>4

\* One that ends where it stands leaves a client that hears nothing more.
LEMMA BeatEndTells ==
  ASSUME Authority, Telling, NEW a \in Attaches, BeatEnds(a)
  PROVE  Telling'
<1> DEFINE x == Beat(a)
           h == IF hold[a].by = Beat(a) THEN FreeHold ELSE hold[a]
<1>1. /\ run[Pump(a)].pc \in Ending /\ run' = [run EXCEPT ![x] = Idle]
      /\ hold' = [hold EXCEPT ![a] = h] /\ UNCHANGED <<setup, own, link, belief>>
  BY Shapes DEF BeatEnds
<1>2. x \in Procs /\ Target(x) = a /\ x # Pump(a) /\ x[1] = "beat"
  BY ProcNames, ProcKinds
<1> HIDE DEF x
<1>3. Moves(x, Idle, own[a], link[a], h, belief[a])
  BY <1>1, <1>2, ProcAt DEF Moves
<1>4. Errand(x, Idle) /\ Idle.pc = "idle"
  BY DEF Errand, Idle
<1>5. h.by # None => h.by \in Procs /\ Target(h.by) = a /\ (IF h.by = x THEN Idle ELSE run[h.by]).pc = "say"
  BY <1>2, ProcAt DEF x, FreeHold
<1>6. HoldTold(a, h)
  BY <1>2, ProcAt DEF HoldTold, FreeHold
<1>7. TalkMove(x, Idle, own[a], link[a], h)
  BY <1>2, <1>4, <1>5, <1>6, ProcAt DEF TalkMove, x
<1>8. link[a] # "up"
  BY <1>1, <1>2, ProcAt DEF Placed
<1>9. TellMove(x, Idle, own[a], link[a], belief[a])
  <2>1. CASE run[x].pc = "idle"
    BY <1>2, <2>1 DEF TellMove, WillTell
  <2>2. CASE run[x].pc # "idle"
    <3>1. link[a] # "none"
      BY <1>2, <2>2, ProcAt DEF x
    <3> QED
      BY <1>2, <1>8, <3>1, Shapes DEF TellMove, Hears
  <2> QED
    BY <2>1, <2>2
<1> QED
  BY <1>2, <1>3, <1>7, <1>9, ProcMoves

LEMMA TellingInit == Init => Telling
<1> SUFFICES ASSUME Init PROVE Telling
  OBVIOUS
<1>1. \A x \in Procs : run[x] = Idle
  BY DEF Init
<1>2. \A a \in Attaches : own[a] = NotAttached /\ link[a] = "none" /\ hold[a] = FreeHold
  BY DEF Init
<1>3. \A a \in Attaches : Pump(a) \in Procs /\ Beat(a) \in Procs /\ \A w \in Attaches : Peer(w, a) \in Procs
  BY ProcNames
<1>4. Talking
  BY <1>1, <1>2, <1>3 DEF Talking, Errand, ClaimTold, Claims, Placed, Answering, Opening, Unopened, Ending,
                          HoldTold, Idle, NotAttached, FreeHold
<1>5. Truth
  BY <1>2 DEF Truth, Hears, NotAttached
<1> QED
  BY <1>4, <1>5 DEF Telling

LEMMA TellingStep ==
  ASSUME Authority, Telling, [Next]_vars
  PROVE  Telling'
<1>1. CASE \E a \in Attaches : PumpStep(a)
  <2>1. PICK a \in Attaches : PumpStep(a)
    BY <1>1
  <2> QED
    BY <2>1, OpeningTells, FirstTells, ClaimTells, LeavingTells DEF PumpStep
<1>2. CASE \E a \in Attaches : ClientStep(a)
  <2>1. PICK a \in Attaches : ClientStep(a)
    BY <1>2
  <2>2. Type(a) => UNCHANGED <<setup, own, link, run, hold, belief>>
    BY DEF Type
  <2> QED
    BY <2>1, <2>2, OpeningTells, ClaimTells, LeavingTells, DropTells, QuietTells DEF ClientStep
<1>3. CASE \E a \in Attaches : BoxStep(a) \/ BeatTick(a) \/ BeatEnds(a)
  <2>1. PICK a \in Attaches : BoxStep(a) \/ BeatTick(a) \/ BeatEnds(a)
    BY <1>3
  <2>2. BoxStep(a) => UNCHANGED <<setup, own, link, run, hold, belief>>
    BY DEF BoxStep
  <2> QED
    BY <2>1, <2>2, QuietTells, BeatTells, BeatEndTells
<1>4. CASE \E x \in Procs : ProcStep(x)
  <2>1. PICK x \in Procs : ProcStep(x)
    BY <1>4
  <2> QED
    BY <2>1, InstallTells, TakeHoldTells, SayTells, LostTells, NoticeTells, DemoteTells DEF ProcStep
<1>5. CASE LeaseExpires \/ UNCHANGED vars
  <2>1. UNCHANGED <<setup, own, link, run, hold, belief>>
    BY <1>5 DEF LeaseExpires, vars
  <2> QED
    BY <2>1, QuietTells
<1> QED
  BY <1>1, <1>2, <1>3, <1>4, <1>5 DEF Next

\* Whenever nobody is talking to a negotiated client and the last message
\* meant for it was not lost, it believes exactly what its plane holds: a
\* client that can hear either believes it already or has somebody on the
\* way who reads the plane's state and then writes it, whatever crossed
\* and whichever notice gave up its turn (announceAs, displace, sendStale).
THEOREM TruthHolds == Spec => []TruthTold
<1>1. Init => Telling
  BY TellingInit
<1>2. Authority /\ Telling /\ [Next]_vars => Telling'
  BY TellingStep
<1>3. Authority /\ Telling => TruthTold
  <2> SUFFICES ASSUME Authority, Telling, NEW a \in Attaches, AtRest(a), Keeper(a), Spliced(a), ~belief[a].lost
               PROVE  belief[a].m = own[a].m /\ belief[a].g = own[a].g
    BY DEF TruthTold
  <2>1. link[a] = "up" /\ run[Pump(a)].pc = "live" /\ run[Beat(a)] = Idle /\ \A w \in Attaches : run[Peer(w, a)] = Idle
    BY DEF AtRest, AtLive, Spliced
  <2>2. own[a].told
    BY <2>1, PumpAt DEF Placed
  <2>3. ASSUME NEW x \in Procs, Target(x) = a PROVE ~WillTell(run[x])
    <3>1. x = Pump(a) \/ x = Beat(a) \/ \E w \in Attaches : x = Peer(w, a)
      BY <2>3, ProcKinds
    <3>2. ~WillTell(Idle) /\ ~WillTell(run[Pump(a)])
      BY <2>1 DEF WillTell, Idle
    <3> QED
      BY <2>1, <3>1, <3>2
  <2>4. Hears(a, own[a], link[a])
    BY <2>1, <2>2 DEF Hears
  <2> QED
    BY <2>3, <2>4 DEF Telling, Truth, Believes
<1>4. Spec => []Authority
  BY AuthorityHolds
<1> QED
  BY <1>1, <1>2, <1>3, <1>4, PTL DEF Spec

--------------------
\* Who won the generation of the row, and where its control is.

\* The places of a claim the row has granted and the plane does not show.
Winning(r) == \/ r.pc \in {"grant_renew", "claim_renew", "claim_won", "claim_back"}
              \/ r.pc \in {"lock", "wait"} /\ r.m = "control"

\* The winner of the generation g is taking control or has it, or it is an
\* unnegotiated attach that has left and will take a generation again.
StandsAt(a, r, o, g) == \/ Winning(r)
                        \/ o.m = "control" /\ o.g = g
                        \/ ~Keeper(a) /\ r.pc \in {"idle", "take"}

\* What it is about is g, and a keeper does not leave before it has given
\* g back.
KeepsAt(a, r, o, g) ==
  /\ StandsAt(a, r, o, g)
  /\ Winning(r) \/ r.pc \in {"leave", "release"} => r.g = g
  /\ Keeper(a) => r.pc \notin {"left", "gone"} /\ ~(r.pc = "fanout" /\ r.k = "gone")
  /\ r.pc = "demote" => r.g < g

Keeps(a) == won[store.gen] = a => /\ KeepsAt(a, run[Pump(a)], own[a], store.gen)
                                  /\ run[Beat(a)].pc = "demote" => run[Beat(a)].g < store.gen
                                  /\ ~Keeper(a) => Admitted(a) = "control"

\* Only keepers compare and claim; who takes without asking was admitted
\* to control, and is never told otherwise.
Comes(a, r) == /\ r.pc \in {"grant", "claim"} => Keeper(a)
               /\ r.pc = "take" /\ ~Keeper(a) => Admitted(a) = "control"

Winners == ~Shared =>
  /\ store.holder # None => won[store.gen] = store.holder
  /\ \A a \in Attaches : Comes(a, run[Pump(a)]) /\ (~Keeper(a) => belief[a].m = "none")
  /\ "store" \notin spent => \A a \in Attaches : Keeps(a)

--------------------
\* A step of the attach a touches no other attach that has won what the
\* row is at.
Around(a) ==
  /\ UNCHANGED setup /\ spent \subseteq spent'
  /\ \A c \in Attaches : ~Keeper(c) => belief'[c] = belief[c]
  /\ \A c \in Attaches \ {a} :
       /\ run'[Pump(c)] = run[Pump(c)]
       /\ (own'[c].m = own[c].m /\ own'[c].g = own[c].g) \/ own[c].g < store.gen
       /\ run'[Beat(c)] = run[Beat(c)]
  /\ run'[Beat(a)] = run[Beat(a)] \/ run'[Beat(a)].pc # "demote" \/ run'[Beat(a)].g \in 0..store.gen - 1

\* The policy and the commands stay.
LEMMA SetupStays ==
  ASSUME UNCHANGED setup
  PROVE  /\ Shared' = Shared
         /\ \A a : Keeper(a)' = Keeper(a) /\ Admitted(a)' = Admitted(a) /\ Cmd(a)' = Cmd(a)
  BY DEF Shared, Keeper, Admitted, Cmd

\* The winner of the generation the row stays at.
LEMMA WinsSame ==
  ASSUME Authority, Winners, NEW a \in Attaches, Around(a), UNCHANGED won, store'.gen = store.gen,
         store'.holder = store.holder \/ (~Shared => won[store.gen] = store'.holder),
         ~Shared => Comes(a, run'[Pump(a)]),
         ~Shared /\ "store" \notin spent' /\ won[store.gen] = a /\ KeepsAt(a, run[Pump(a)], own[a], store.gen)
           => KeepsAt(a, run'[Pump(a)], own'[a], store.gen)
  PROVE  Winners'
<1> SUFFICES ASSUME ~Shared PROVE Winners'
  BY SetupStays DEF Winners, Around
<1>1. store'.holder # None => won'[store'.gen] = store'.holder
  BY DEF Winners
<1>2. ASSUME NEW c \in Attaches PROVE Comes(c, run'[Pump(c)]) /\ (~Keeper(c) => belief'[c].m = "none")
  BY <1>2 DEF Winners, Around
<1>3. ASSUME "store" \notin spent', NEW c \in Attaches, won[store.gen] = c
      PROVE  /\ KeepsAt(c, run'[Pump(c)], own'[c], store.gen)
             /\ run'[Beat(c)].pc = "demote" => run'[Beat(c)].g < store.gen
             /\ ~Keeper(c) => Admitted(c) = "control"
  <2>1. /\ KeepsAt(c, run[Pump(c)], own[c], store.gen)
        /\ run[Beat(c)].pc = "demote" => run[Beat(c)].g < store.gen
        /\ ~Keeper(c) => Admitted(c) = "control"
    BY <1>3 DEF Winners, Keeps, Around
  <2>2. CASE c = a
    BY <1>3, <2>1, <2>2, Shapes DEF Around
  <2>3. CASE c # a
    <3>1. own[c].g < store.gen => own[c].g # store.gen
      BY Shapes
    <3> QED
      BY <2>1, <2>3, <3>1 DEF Around, KeepsAt, StandsAt
  <2> QED
    BY <2>2, <2>3
<1>4. Shared' = Shared /\ \A c : Keeper(c)' = Keeper(c) /\ Admitted(c)' = Admitted(c)
  BY SetupStays DEF Around
<1>5. \A c \in Attaches : Comes(c, run[Pump(c)])' <=> Comes(c, run'[Pump(c)])
  BY <1>4 DEF Comes
<1>6. ASSUME "store" \notin spent', NEW c \in Attaches PROVE Keeps(c)'
  BY <1>3, <1>4, <1>6 DEF Keeps, KeepsAt, StandsAt
<1> QED
  BY <1>1, <1>2, <1>4, <1>5, <1>6 DEF Winners

\* An advance ends the reign of whoever won the generation before: only
\* the winner of the new one has something to show.
LEMMA WinsAdvance ==
  ASSUME Authority, Winners, NEW a \in Attaches, Around(a), NEW winner \in {a, None},
         CompareAndAdvance(a, store.gen, winner),
         ~Shared => Comes(a, run'[Pump(a)]),
         ~Shared /\ winner = a => /\ KeepsAt(a, run'[Pump(a)], own'[a], store.gen + 1)
                                  /\ ~Keeper(a) => Admitted(a) = "control"
  PROVE  Winners'
<1> SUFFICES ASSUME ~Shared PROVE Winners'
  BY SetupStays DEF Winners, Around
<1>0. store.gen \in Nat
  BY Shapes
<1>1. store'.gen = store.gen + 1 /\ store'.holder = None /\ won'[store.gen + 1] = winner
  BY <1>0 DEF CompareAndAdvance
<1>2. ASSUME NEW c \in Attaches PROVE Comes(c, run'[Pump(c)]) /\ (~Keeper(c) => belief'[c].m = "none")
  BY <1>2 DEF Winners, Around
<1>3. Shared' = Shared /\ \A c : Keeper(c)' = Keeper(c) /\ Admitted(c)' = Admitted(c)
  BY SetupStays DEF Around
<1>4. \A c \in Attaches : Comes(c, run[Pump(c)])' <=> Comes(c, run'[Pump(c)])
  BY <1>3 DEF Comes
<1>5. ASSUME NEW c \in Attaches, won'[store'.gen] = c PROVE Keeps(c)'
  <2>1. c = a /\ winner = a
    BY <1>1, <1>5, AttachPlaneAssumption
  <2>2. Beat(a) \in Procs /\ run[Beat(a)].g \in Nat /\ run[Beat(a)].g <= store.gen
    BY ProcNames DEF Authority, RunOK, RunGood, RunIn, RunType
  <2>3. run'[Beat(a)].pc = "demote" => run'[Beat(a)].g < store.gen + 1
    <3>1. CASE run'[Beat(a)] = run[Beat(a)]
      BY <1>0, <2>2, <3>1
    <3>2. ASSUME run'[Beat(a)].g \in 0..store.gen - 1 PROVE run'[Beat(a)].g < store.gen + 1
      BY <1>0, <3>2
    <3> QED
      BY <3>1, <3>2 DEF Around
  <2> QED
    BY <1>1, <1>3, <2>1, <2>3 DEF Keeps, KeepsAt, StandsAt
<1>6. \A c \in Attaches : Keeps(c)'
  BY <1>5 DEF Keeps
<1> QED
  BY <1>1, <1>2, <1>3, <1>4, <1>6 DEF Winners

\* What is known of the winner.
LEMMA WinnerAt ==
  ASSUME Authority, Telling, Winners, NEW a \in Attaches
  PROVE  /\ run[Pump(a)] \in RunType /\ Pump(a) \in Procs /\ Target(Pump(a)) = a
         /\ own[a] \in [m : Modes, g : Nat, told : BOOLEAN, reg : BOOLEAN]
         /\ own[a].g \in Nat /\ own[a].g <= store.gen /\ store.gen \in Nat
         /\ run[Pump(a)].g \in Nat /\ run[Pump(a)].g <= store.gen
         /\ run[Pump(a)].pc \in Unopened => own[a] = NotAttached
         /\ ~Shared => /\ Comes(a, run[Pump(a)])
                       /\ store.holder # None => won[store.gen] = store.holder
                       /\ ~Keeper(a) => belief[a].m = "none"
                       /\ own[a].m = "control" => won[own[a].g] = a
                       /\ Carries(run[Pump(a)]) => won[run[Pump(a)].g] = a
         /\ own = [own EXCEPT ![a] = own[a]]
<1>1. /\ run[Pump(a)] \in RunType /\ Pump(a) \in Procs /\ Target(Pump(a)) = a
      /\ own[a] \in [m : Modes, g : Nat, told : BOOLEAN, reg : BOOLEAN]
      /\ own = [own EXCEPT ![a] = own[a]] /\ store.gen \in Nat
  BY Shapes, ProcNames
<1>2. own[a].g <= store.gen /\ (own[a].m = "control" /\ ~Shared => won[own[a].g] = a)
  BY DEF Authority, OwnOK, Holds, HoldsIn
<1>3. run[Pump(a)].g <= store.gen /\ (Carries(run[Pump(a)]) /\ ~Shared => won[run[Pump(a)].g] = a)
  BY <1>1 DEF Authority, RunOK, RunGood, RunIn
<1>4. run[Pump(a)].pc \in Unopened => own[a] = NotAttached
  BY DEF Telling, Talking, Placed
<1> QED
  BY <1>1, <1>2, <1>3, <1>4 DEF Winners, RunType

\* A pump moves.
LEMMA PumpAround ==
  ASSUME Authority, NEW a \in Attaches, NEW r, NEW o,
         run' = [run EXCEPT ![Pump(a)] = r], own' = [own EXCEPT ![a] = o],
         UNCHANGED <<setup, belief>>, spent \subseteq spent'
  PROVE  Around(a) /\ run'[Pump(a)] = r /\ own'[a] = o
  BY Shapes, ProcNames, ProcKinds DEF Around

\* A pump starts a fan-out of a generation the row has had.
LEMMA FanAround ==
  ASSUME Authority, NEW a \in Attaches, NEW u, NEW o, NEW g \in Nat, NEW r,
         o[a] = u, \A p \in Attaches : p # a => o[p] = own[p], g <= store.gen,
         Fans(a, o, g, r),
         UNCHANGED <<setup, belief>>, spent \subseteq spent'
  PROVE  Around(a) /\ own'[a] = u /\ run'[Pump(a)] = r
<1>2. Fans(a, o, g, r)
  OBVIOUS
<1>3. a \notin Peers(a)
  BY DEF Peers
<1>4. own'[a] = u /\ run'[Pump(a)] = r
  BY <1>2, <1>3 DEF Fans
<1>5. ASSUME NEW c \in Attaches
      PROVE  /\ run'[Beat(c)] = run[Beat(c)]
             /\ c # a => run'[Pump(c)] = run[Pump(c)]
  <2>1. /\ Beat(c) \in Procs /\ Pump(c) \in Procs /\ Beat(c)[1] = "beat" /\ Pump(c)[1] = "pump"
        /\ Beat(c) # Pump(a) /\ (c # a => Pump(c) # Pump(a))
    BY ProcNames, ProcKinds
  <2> QED
    BY <1>2, <2>1 DEF Fans
<1>6. ASSUME NEW c \in Attaches \ {a}
      PROVE  (own'[c].m = own[c].m /\ own'[c].g = own[c].g) \/ own[c].g < store.gen
  <2>1. own'[c] = own[c] \/ own'[c] = Displaced(own[c], g)
    <3>1. own'[c] = IF c \in Peers(a) THEN Displaced(o[c], g) ELSE o[c]
      BY <1>2 DEF Fans
    <3>2. o[c] = own[c]
      OBVIOUS
    <3> HIDE DEF Displaced
    <3> QED
      BY <3>1, <3>2
  <2>2. own[c].g \in Nat /\ store.gen \in Nat
    BY Shapes
  <2>3. own'[c] = own[c] \/ own[c].g < g
    BY <2>1, <2>2 DEF Displaced
  <2> QED
    BY <2>2, <2>3
<1> QED
  BY <1>4, <1>5, <1>6 DEF Around

\* A process that is no pump moves, and leaves what the attach is.
LEMMA ProcAround ==
  ASSUME Authority, NEW x \in Procs, NEW r, NEW o,
         run' = [run EXCEPT ![x] = r], x # Pump(Target(x)),
         own' = [own EXCEPT ![Target(x)] = o],
         r.pc # "demote" \/ r.g \in 0..store.gen - 1,
         UNCHANGED setup, \A c \in Attaches : ~Keeper(c) => belief'[c] = belief[c], spent \subseteq spent'
  PROVE  Around(Target(x)) /\ run'[Pump(Target(x))] = run[Pump(Target(x))] /\ own'[Target(x)] = o
<1> DEFINE a == Target(x)
<1>1. a \in Attaches /\ Pump(a) \in Procs /\ Beat(a) \in Procs
  BY ProcKinds, ProcNames
<1>2. \A c \in Attaches \ {a} : x # Pump(c) /\ x # Beat(c) /\ Pump(c) \in Procs /\ Beat(c) \in Procs
  BY ProcNames
<1> QED
  BY <1>1, <1>2, Shapes DEF Around

\* What a fan-out from the states as they are does.
LEMMA OwnFanAround ==
  ASSUME Authority, NEW a \in Attaches, NEW g \in Nat, NEW wait, NEW k \in {"live", "parked", "gone"}, g <= store.gen,
         StartDisplace(a, own, g, wait, k),
         UNCHANGED <<setup, belief>>, spent \subseteq spent'
  PROVE  /\ Around(a) /\ own'[a] = own[a]
         /\ run'[Pump(a)].pc = "fanout" /\ run'[Pump(a)].k = k
<1> DEFINE r == [run[Pump(a)] EXCEPT !.pc = "fanout", !.k = k]
<1>1. Pump(a) \in Procs
  BY ProcNames
<1>2. Fans(a, own, g, r)
  BY <1>1, FanMoves
<1>3. r.pc = "fanout" /\ r.k = k
  BY <1>1, Shapes DEF RunType
<1> HIDE DEF r
<1>4. Around(a) /\ own'[a] = own[a] /\ run'[Pump(a)] = r
  <2>1. own[a] = own[a] /\ \A p \in Attaches : p # a => own[p] = own[p]
    OBVIOUS
  <2> QED
    BY <1>2, <2>1, FanAround
<1> QED
  BY <1>3, <1>4

\* An attach gets its first state.
LEMMA GrantAround ==
  ASSUME Authority, NEW a \in Attaches, NEW m, NEW g, Granted(a, m, g),
         UNCHANGED <<setup, belief>>, spent \subseteq spent'
  PROVE  Around(a) /\ run'[Pump(a)].pc = "register" /\ own'[a].m = m /\ own'[a].g = g
<1> DEFINE r == [run[Pump(a)] EXCEPT !.pc = "register"]
           o == [NotAttached EXCEPT !.m = m, !.g = g]
<1>1. run' = [run EXCEPT ![Pump(a)] = r] /\ own' = [own EXCEPT ![a] = o]
  BY DEF Granted, Goto
<1>2. r.pc = "register" /\ o.m = m /\ o.g = g
  BY Shapes, ProcNames DEF RunType, NotAttached
<1> HIDE DEF r, o
<1> QED
  BY <1>1, <1>2, PumpAround

\* A pump goes to another place, and changes nothing but its record.
LEMMA GotoGAround ==
  ASSUME Authority, NEW a \in Attaches, NEW pc, NEW g, GotoG(Pump(a), pc, g),
         UNCHANGED <<setup, own, belief>>, spent \subseteq spent'
  PROVE  /\ Around(a) /\ own'[a] = own[a]
         /\ run'[Pump(a)].pc = pc /\ run'[Pump(a)].g = g
<1>0. run[Pump(a)] \in RunType /\ Pump(a) \in Procs
  BY Shapes, ProcNames
<1> DEFINE r == [run[Pump(a)] EXCEPT !.pc = pc, !.g = g]
<1>1. run' = [run EXCEPT ![Pump(a)] = r]
  BY DEF GotoG
<1>2. r.pc = pc /\ r.g = g
  BY <1>0 DEF RunType
<1>3. own' = [own EXCEPT ![a] = own[a]]
  BY Shapes
<1> HIDE DEF r
<1> QED
  BY <1>1, <1>2, <1>3, PumpAround

\* The same, under the generation it is at.
LEMMA GotoAround ==
  ASSUME Authority, NEW a \in Attaches, NEW pc, Goto(Pump(a), pc),
         UNCHANGED <<setup, own, belief>>, spent \subseteq spent'
  PROVE  /\ Around(a) /\ own'[a] = own[a]
         /\ run'[Pump(a)].pc = pc
<1>0. run[Pump(a)] \in RunType /\ Pump(a) \in Procs
  BY Shapes, ProcNames
<1> DEFINE r == [run[Pump(a)] EXCEPT !.pc = pc]
<1>1. run' = [run EXCEPT ![Pump(a)] = r]
  BY DEF Goto
<1>2. r.pc = pc
  BY <1>0 DEF RunType
<1>3. own' = [own EXCEPT ![a] = own[a]]
  BY Shapes
<1> HIDE DEF r
<1> QED
  BY <1>1, <1>2, <1>3, PumpAround

\* Opening: the pump that wins the row's generation ends as its
\* controller, and the one that lost it never was its winner.
LEMMA OpeningWins ==
  ASSUME Authority, Telling, Winners, NEW a \in Attaches,
         \/ AttachTerminal(a) \/ GrantLegacy(a) \/ GrantClaim(a) \/ GrantRenew(a) \/ GrantLost(a)
         \/ Register(a) \/ FirstFails(a) \/ DialBack(a) \/ NoDialBack(a)
  PROVE  Winners'
<1> DEFINE x == Pump(a)
<1>a. UNCHANGED setup /\ (UNCHANGED Rest => UNCHANGED <<setup, link, hold>>)
  BY DEF Rest, AttachTerminal, GrantLegacy, GrantClaim, GrantRenew, GrantLost, Register, FirstFails, DialBack, NoDialBack
<1>b. NotAttached.m = "view" /\ NotAttached.g = 0
  BY DEF NotAttached
<1>c. /\ store.gen \in Nat /\ run[x].g \in Nat /\ run[x].g <= store.gen
      /\ run[x].pc \in Unopened => own[a].m = "view"
      /\ ~Shared => Comes(a, run[x])
  BY <1>b, WinnerAt
<1>1. CASE AttachTerminal(a)
  <2>1. run[x] = Idle /\ UNCHANGED <<store, won, belief, spent>>
    BY <1>1 DEF AttachTerminal
  <2>2. own[a].m = "view" /\ run[x].pc = "idle"
    BY <1>c, <2>1 DEF Unopened, Idle
  <2>3. ~Shared /\ ~Keeper(a) => Asked(a) = Admitted(a)
    BY WinnerAt DEF Asked
  <2>4. CASE /\ \/ Asked(a) = "view"
                \/ Shared
                \/ Keeper(a) /\ LeaseLive /\ Expected(a) # store.gen
             /\ Granted(a, IF Shared THEN Asked(a) ELSE "view", store.gen)
    <3>1. Around(a) /\ run'[x].pc = "register"
      BY <1>a, <2>1, <2>4, GrantAround
    <3>2. ASSUME ~Shared, won[store.gen] = a, "store" \notin spent PROVE FALSE
      <4>1. /\ StandsAt(a, run[x], own[a], store.gen) /\ (~Keeper(a) => Admitted(a) = "control")
        BY <3>2 DEF Winners, Keeps, KeepsAt
      <4>2. ~Keeper(a)
        BY <2>2, <4>1 DEF StandsAt, Winning
      <4> QED
        BY <2>3, <2>4, <3>2, <4>1, <4>2
    <3> QED
      BY <2>1, <3>1, <3>2, WinsSame DEF Comes
  <2>5. CASE /\ Asked(a) = "control" /\ ~Shared
             /\ GotoG(x, IF Keeper(a) THEN "grant" ELSE "take", store.gen) /\ UNCHANGED own
    <3> DEFINE pc == IF Keeper(a) THEN "grant" ELSE "take"
    <3>0. GotoG(x, pc, store.gen) /\ UNCHANGED <<setup, own, belief>> /\ spent \subseteq spent'
      BY <1>a, <2>1, <2>5
    <3> HIDE DEF pc
    <3>4. Around(a) /\ run'[x].pc = pc /\ own'[a] = own[a]
      BY <3>0, GotoGAround
    <3>1. Around(a) /\ run'[x].pc = (IF Keeper(a) THEN "grant" ELSE "take") /\ own'[a] = own[a]
      BY <3>4 DEF pc
    <3>2. Comes(a, run'[x])
      BY <2>3, <2>5, <3>1 DEF Comes
    <3>3. KeepsAt(a, run[x], own[a], store.gen) => KeepsAt(a, run'[x], own'[a], store.gen)
      BY <2>2, <3>1 DEF KeepsAt, StandsAt, Winning
    <3> QED
      BY <2>1, <3>1, <3>2, <3>3, WinsSame
  <2> QED
    BY <1>1, <2>4, <2>5 DEF AttachTerminal
<1>2. CASE GrantLegacy(a)
  <2>1. /\ run[x].pc = "take" /\ CompareAndAdvance(a, store.gen, a) /\ UNCHANGED <<belief, spent>>
        /\ Granted(a, "control", store.gen + 1)
    BY <1>2 DEF GrantLegacy, NextGeneration
  <2>2. Around(a) /\ run'[x].pc = "register" /\ own'[a].m = "control" /\ own'[a].g = store.gen + 1
    BY <1>a, <2>1, GrantAround
  <2>3. KeepsAt(a, run'[x], own'[a], store.gen + 1) /\ Comes(a, run'[x])
    BY <2>2 DEF KeepsAt, StandsAt, Winning, Comes
  <2>4. ~Shared /\ ~Keeper(a) => Admitted(a) = "control"
    BY <1>c, <2>1 DEF Comes
  <2> QED
    BY <2>1, <2>2, <2>3, <2>4, WinsAdvance
<1>3. CASE GrantClaim(a)
  <2>1. run[x].pc = "grant" /\ UNCHANGED <<own, belief, spent>>
    BY <1>3 DEF GrantClaim
  <2>2. ~Shared => Keeper(a)
    BY <1>c, <2>1 DEF Comes
  <2>3. CASE CompareAndAdvance(a, run[x].g, a) /\ GotoG(x, "grant_renew", run[x].g + 1)
    <3>1. run[x].g = store.gen
      BY <2>3 DEF CompareAndAdvance
    <3>2. Around(a) /\ run'[x].pc = "grant_renew" /\ run'[x].g = store.gen + 1
      BY <1>a, <2>1, <2>3, <3>1, GotoGAround
    <3>3. KeepsAt(a, run'[x], own'[a], store.gen + 1) /\ Comes(a, run'[x])
      BY <3>2 DEF KeepsAt, StandsAt, Winning, Comes
    <3> QED
      BY <2>2, <2>3, <3>1, <3>2, <3>3, WinsAdvance
  <2>4. CASE Goto(x, "grant_lost") /\ UNCHANGED <<store, won>>
    <3>1. Around(a) /\ run'[x].pc = "grant_lost"
      BY <1>a, <2>1, <2>4, GotoAround
    <3>2. ~KeepsAt(a, run[x], own[a], store.gen)
      BY <1>c, <2>1 DEF KeepsAt, StandsAt, Winning, Unopened
    <3>3. Comes(a, run'[x])
      BY <3>1 DEF Comes
    <3> QED
      BY <2>4, <3>1, <3>2, <3>3, WinsSame
  <2> QED
    BY <1>3, <2>3, <2>4 DEF GrantClaim
<1>4. CASE GrantRenew(a)
  <2> DEFINE g == run[x].g
  <2>1. run[x].pc = "grant_renew" /\ UNCHANGED <<belief, won>>
    BY <1>4 DEF GrantRenew
  <2>2. ~Shared => won[g] = a
    BY <2>1, WinnerAt DEF Carries
  <2>3. ASSUME ~Shared, won[store.gen] = a, KeepsAt(a, run[x], own[a], store.gen)
        PROVE  g = store.gen /\ Renewable(a, g)
    <3>1. g = store.gen
      BY <2>1, <2>3 DEF KeepsAt, Winning
    <3> QED
      BY <2>3, <3>1, WinnerAt DEF Renewable
  <2>4. CASE Granted(a, "control", g) /\ UNCHANGED store /\ StoreFails
    <3>1. spent \subseteq spent' /\ "store" \in spent'
      BY <2>4 DEF StoreFails, Fault, Once
    <3>2. Around(a) /\ run'[x].pc = "register"
      BY <1>a, <2>1, <2>4, <3>1, GrantAround
    <3> QED
      BY <2>1, <2>4, <3>1, <3>2, WinsSame DEF Comes
  <2>5. CASE Renewable(a, g) /\ RenewLease(a) /\ Granted(a, "control", g) /\ UNCHANGED spent
    <3>1. store'.gen = store.gen /\ store'.holder = a /\ g = store.gen
      BY <2>5 DEF RenewLease, Renewable, Authority, StoreOK
    <3>2. Around(a) /\ run'[x].pc = "register" /\ own'[a].m = "control" /\ own'[a].g = g
      BY <1>a, <2>1, <2>5, GrantAround
    <3>3. KeepsAt(a, run'[x], own'[a], store.gen) /\ Comes(a, run'[x])
      BY <3>1, <3>2 DEF KeepsAt, StandsAt, Winning, Comes
    <3> QED
      BY <2>1, <2>2, <3>1, <3>2, <3>3, WinsSame
  <2>6. CASE ~Renewable(a, g) /\ Goto(x, "grant_lost") /\ UNCHANGED <<store, own, spent>>
    <3>1. Around(a) /\ run'[x].pc = "grant_lost"
      BY <1>a, <2>1, <2>6, GotoAround
    <3> QED
      BY <2>1, <2>3, <2>6, <3>1, WinsSame DEF Comes
  <2> QED
    BY <1>4, <2>4, <2>5, <2>6 DEF GrantRenew
<1>5. CASE GrantLost(a)
  <2>1. run[x].pc = "grant_lost" /\ Granted(a, "view", store.gen) /\ UNCHANGED <<store, belief, won, spent>>
    BY <1>5 DEF GrantLost
  <2>2. Around(a) /\ run'[x].pc = "register"
    BY <1>a, <2>1, GrantAround
  <2>3. ~KeepsAt(a, run[x], own[a], store.gen)
    BY <1>c, <2>1 DEF KeepsAt, StandsAt, Winning, Unopened
  <2> QED
    BY <2>1, <2>2, <2>3, WinsSame DEF Comes
<1>6. CASE Register(a) \/ FirstFails(a) \/ DialBack(a) \/ NoDialBack(a)
  <2>1. /\ UNCHANGED <<store, belief, won>> /\ spent \subseteq spent'
        /\ run[x].pc \in {"register", "first", "parked"}
    BY <1>6 DEF Register, FirstFails, DialBack, NoDialBack, Fault, Once
  <2>2. /\ Around(a) /\ run'[x].pc \in {"first", "finish", "live"}
        /\ own'[a].m = own[a].m /\ own'[a].g = own[a].g
    <3>1. CASE Register(a)
      <4> DEFINE o == [own[a] EXCEPT !.reg = TRUE]
                 r == [run[x] EXCEPT !.pc = "first"]
      <4>1. own' = [own EXCEPT ![a] = o] /\ run' = [run EXCEPT ![x] = r]
        BY <3>1, Shapes DEF Register, Goto
      <4>2. o.m = own[a].m /\ o.g = own[a].g /\ r.pc = "first"
        BY WinnerAt DEF RunType
      <4> HIDE DEF o, r
      <4> QED
        BY <1>a, <2>1, <4>1, <4>2, PumpAround
    <3>2. CASE FirstFails(a) \/ NoDialBack(a)
      <4>1. Goto(x, "finish") /\ UNCHANGED own
        BY <3>2 DEF FirstFails, NoDialBack
      <4> QED
        BY <1>a, <2>1, <4>1, GotoAround
    <3>3. CASE DialBack(a)
      <4> DEFINE r == [Idle EXCEPT !.pc = "live"]
      <4>1. own' = [own EXCEPT ![a] = own[a]] /\ run' = [run EXCEPT ![x] = r]
        BY <3>3, Shapes DEF DialBack
      <4>2. r.pc = "live"
        BY DEF Idle
      <4> HIDE DEF r
      <4> QED
        BY <1>a, <2>1, <4>1, <4>2, PumpAround
    <3> QED
      BY <1>6, <3>1, <3>2, <3>3
  <2>3. KeepsAt(a, run[x], own[a], store.gen) => KeepsAt(a, run'[x], own'[a], store.gen)
    BY <2>1, <2>2 DEF KeepsAt, StandsAt, Winning
  <2> QED
    BY <2>1, <2>2, <2>3, WinsSame DEF Comes
<1> QED
  BY <1>1, <1>2, <1>3, <1>4, <1>5, <1>6

\* A pump changes its record only.
LEMMA RecordAround ==
  ASSUME Authority, NEW a \in Attaches, NEW r, run' = [run EXCEPT ![Pump(a)] = r],
         UNCHANGED <<setup, own, belief>>, spent \subseteq spent'
  PROVE  Around(a) /\ run'[Pump(a)] = r /\ own'[a] = own[a]
<1>1. own' = [own EXCEPT ![a] = own[a]]
  BY Shapes
<1> QED
  BY <1>1, PumpAround

\* An answer, and the way to one through the row.
LEMMA AnswerAround ==
  ASSUME Authority, NEW a \in Attaches, NEW k,
         Answer(a, k) \/ run' = [run EXCEPT ![Pump(a)].pc = "stale", ![Pump(a)].k = k],
         UNCHANGED <<setup, own, belief>>, spent \subseteq spent'
  PROVE  Around(a) /\ run'[Pump(a)].pc \in {"hold", "stale"} /\ own'[a] = own[a]
<1>1. run[Pump(a)] \in RunType
  BY Shapes, ProcNames
<1>2. PICK r : run' = [run EXCEPT ![Pump(a)] = r] /\ r.pc \in {"hold", "stale"}
  <2> DEFINE r1 == [run[Pump(a)] EXCEPT !.pc = "hold", !.k = k, !.won = 0]
             r2 == [run[Pump(a)] EXCEPT !.pc = "stale", !.k = k]
  <2>1. r1.pc = "hold" /\ r2.pc = "stale"
    BY <1>1 DEF RunType
  <2>2. run' = [run EXCEPT ![Pump(a)] = r1] \/ run' = [run EXCEPT ![Pump(a)] = r2]
    BY DEF Answer
  <2> HIDE DEF r1, r2
  <2> QED
    BY <2>1, <2>2
<1> QED
  BY <1>2, RecordAround

\* A pump that is neither winning nor on its way in or out keeps what its
\* attach has by its state.
LEMMA StaysWins ==
  ASSUME Authority, Telling, Winners, NEW a \in Attaches, Around(a), UNCHANGED <<store, won>>,
         own'[a].m = own[a].m, own'[a].g = own[a].g,
         run[Pump(a)].pc \notin {"idle", "take", "grant_renew", "claim_renew", "claim_won", "claim_back", "lock", "wait"},
         run'[Pump(a)].pc \notin {"take", "grant", "claim", "demote", "leave", "release", "left", "gone",
                                  "grant_renew", "claim_renew", "claim_won", "claim_back", "lock", "wait"},
         run'[Pump(a)].pc = "fanout" => run'[Pump(a)].k # "gone" \/ run[Pump(a)].pc = "left"
  PROVE  Winners'
<1>1. Comes(a, run'[Pump(a)])
  BY DEF Comes
<1>2. KeepsAt(a, run[Pump(a)], own[a], store.gen) => KeepsAt(a, run'[Pump(a)], own'[a], store.gen)
  BY DEF KeepsAt, StandsAt, Winning
<1> QED
  BY <1>1, <1>2, WinsSame

\* The first fan-out, and the end of any.
LEMMA FanWins ==
  ASSUME Authority, Telling, Winners, NEW a \in Attaches, FirstResize(a) \/ FanoutDone(a)
  PROVE  Winners'
<1> DEFINE x == Pump(a)
<1>1. CASE FirstResize(a)
  <2>1. run[x].pc = "first" /\ UNCHANGED <<setup, store, belief, won, spent>>
    BY <1>1 DEF FirstResize, Rest
  <2>2. CASE StartDisplace(a, own, own[a].g, TRUE, "parked")
    <3>1. own[a].g \in Nat /\ own[a].g <= store.gen /\ run[x] \in RunType
      BY WinnerAt
    <3>2. Around(a) /\ own'[a] = own[a]
      BY <2>1, <2>2, <3>1, OwnFanAround
    <3>3. run'[x].pc = "fanout" /\ run'[x].k = "parked"
      BY <2>1, <2>2, <3>1, OwnFanAround
    <3> QED
      BY <2>1, <3>2, <3>3, StaysWins
  <2>3. CASE Answer(a, "parked") /\ UNCHANGED own
    <3>1. Around(a) /\ run'[x].pc \in {"hold", "stale"} /\ own'[a] = own[a]
      BY <2>1, <2>3, AnswerAround
    <3> QED
      BY <2>1, <3>1, StaysWins
  <2> QED
    BY <1>1, <2>2, <2>3 DEF FirstResize
<1>2. CASE FanoutDone(a)
  <2> DEFINE r == CASE run[x].k = "parked"      -> [run[x] EXCEPT !.pc = "hold", !.won = 0]
                    [] run[x].k = "claim_check" -> [run[x] EXCEPT !.pc = "hold", !.won = run[x].g]
                    [] run[x].k = "live"        -> [Idle EXCEPT !.pc = "live"]
                    [] OTHER                    -> [run[x] EXCEPT !.pc = run[x].k]
  <2>1. run[x].pc = "fanout" /\ run' = [run EXCEPT ![x] = r] /\ UNCHANGED <<setup, own, store, belief, won, spent>>
    BY <1>2 DEF FanoutDone
  <2>2. run[x] \in RunType /\ run[x].k \in Continuations \ {"idle"}
    BY <2>1, PumpAt DEF RunType, Placed
  <2>3. r.pc = "hold" \/ (r.pc = run[x].k /\ r.pc \in {"live", "back_told", "released", "gone"})
    BY <2>2 DEF RunType, Idle, Continuations
  <2> HIDE DEF r
  <2>4. Around(a) /\ run'[x] = r /\ own'[a] = own[a]
    BY <2>1, RecordAround
  <2>5. KeepsAt(a, run[x], own[a], store.gen) => KeepsAt(a, r, own'[a], store.gen)
    BY <2>1, <2>3, <2>4 DEF KeepsAt, StandsAt, Winning
  <2>6. Comes(a, r)
    BY <2>3 DEF Comes
  <2> QED
    BY <2>1, <2>4, <2>5, <2>6, WinsSame
<1> QED
  BY <1>1, <1>2

\* A generation given back: nobody has won the next one.
LEMMA ReleaseWins ==
  ASSUME Authority, Telling, Winners, NEW a \in Attaches, NEW k, Release(a, k), Around(a),
         run[Pump(a)].pc \in {"claim_back", "release", "leave"},
         run'[Pump(a)].pc \notin {"take", "grant", "claim"}
  PROVE  Winners'
<1>1. Comes(a, run'[Pump(a)])
  BY DEF Comes
<1>2. CASE CompareAndAdvance(a, run[Pump(a)].g, None)
  <2>1. run[Pump(a)].g = store.gen /\ a # None
    BY <1>2, AttachPlaneAssumption DEF CompareAndAdvance
  <2> QED
    BY <1>1, <1>2, <2>1, WinsAdvance
<1>3. CASE store.gen # run[Pump(a)].g /\ UNCHANGED <<store, won, spent>>
  <2>1. ~KeepsAt(a, run[Pump(a)], own[a], store.gen)
    BY <1>3 DEF KeepsAt, Winning
  <2> QED
    BY <1>1, <1>3, <2>1, WinsSame
<1>4. CASE StoreFails /\ UNCHANGED <<store, won>>
  <2>1. "store" \in spent'
    BY <1>4 DEF StoreFails, Fault, Once
  <2> QED
    BY <1>1, <1>4, <2>1, WinsSame
<1> QED
  BY <1>2, <1>3, <1>4 DEF Release

\* A claim: from the row to the answer its winner stands for what it won.
LEMMA ClaimWins ==
  ASSUME Authority, Telling, Winners, NEW a \in Attaches,
         \/ ClaimAnswered(a) \/ ClaimBegins(a) \/ Claim(a) \/ ClaimRenew(a) \/ ClaimWon(a)
         \/ ClaimCheck(a) \/ ClaimGivenBack(a) \/ BackTold(a) \/ SendStale(a)
  PROVE  Winners'
<1> DEFINE x == Pump(a)
           T == [m : Modes, g : Nat, told : BOOLEAN, reg : BOOLEAN]
<1>a. /\ store.gen \in Nat /\ run[x].g \in Nat /\ run[x].g <= store.gen /\ run[x] \in RunType
      /\ own[a].g \in Nat /\ own[a].g <= store.gen /\ own[a] \in T
  BY WinnerAt
<1>b. UNCHANGED Rest => UNCHANGED setup
  BY DEF Rest
<1>1. CASE ClaimAnswered(a)
  <2>1. run[x].pc = "live" /\ UNCHANGED <<setup, own, belief, store, won>> /\ spent \subseteq spent'
    BY <1>1, <1>b DEF ClaimAnswered, AtLive, Once
  <2>2. Answer(a, "live") \/ run' = [run EXCEPT ![x].pc = "stale", ![x].k = "live"]
    BY <1>1 DEF ClaimAnswered
  <2>3. Around(a) /\ run'[x].pc \in {"hold", "stale"} /\ own'[a] = own[a]
    BY <2>1, <2>2, AnswerAround
  <2> QED
    BY <2>1, <2>3, StaysWins
<1>2. CASE ClaimBegins(a)
  <2>1. run[x].pc = "live" /\ own[a].m = "view" /\ Keeper(a) /\ UNCHANGED <<setup, own, belief, store, won, spent>>
    BY <1>2, <1>b DEF ClaimBegins, AtLive, MayClaim, Keeper
  <2>2. PICK e : GotoG(x, "claim", e)
    BY <1>2 DEF ClaimBegins
  <2>3. Around(a) /\ run'[x].pc = "claim"
    BY <2>1, <2>2, GotoGAround
  <2>4. ~KeepsAt(a, run[x], own[a], store.gen)
    BY <2>1 DEF KeepsAt, StandsAt, Winning
  <2> QED
    BY <2>1, <2>3, <2>4, WinsSame DEF Comes
<1>3. CASE Claim(a)
  <2>1. run[x].pc = "claim" /\ UNCHANGED <<setup, own, belief>>
    BY <1>3, <1>b DEF Claim
  <2>2. ~Shared => Keeper(a)
    BY <2>1, WinnerAt DEF Comes
  <2>3. CASE CompareAndAdvance(a, run[x].g, a) /\ GotoG(x, "claim_renew", run[x].g + 1) /\ UNCHANGED spent
    <3>1. run[x].g = store.gen
      BY <2>3 DEF CompareAndAdvance
    <3>2. Around(a) /\ run'[x].pc = "claim_renew" /\ run'[x].g = store.gen + 1
      BY <2>1, <2>3, <3>1, GotoGAround
    <3>3. KeepsAt(a, run'[x], own'[a], store.gen + 1) /\ Comes(a, run'[x])
      BY <3>2 DEF KeepsAt, StandsAt, Winning, Comes
    <3> QED
      BY <2>2, <2>3, <3>1, <3>2, <3>3, WinsAdvance
  <2>4. CASE ToStale(a) /\ UNCHANGED <<store, won>> /\ spent \subseteq spent'
    <3>1. Around(a) /\ run'[x].pc \in {"hold", "stale"} /\ own'[a] = own[a]
      BY <2>1, <2>4, AnswerAround DEF ToStale
    <3> QED
      BY <2>1, <2>4, <3>1, StaysWins
  <2> QED
    BY <1>3, <2>3, <2>4 DEF Claim, StoreFails, Fault, Once
<1>4. CASE ClaimRenew(a)
  <2> DEFINE g == run[x].g
             r == [run[x] EXCEPT !.pc = "lock", !.m = "control", !.g = g]
  <2>1. run[x].pc = "claim_renew" /\ UNCHANGED <<setup, own, belief, won>>
    BY <1>4, <1>b DEF ClaimRenew
  <2>2. ~Shared => won[g] = a
    BY <2>1, WinnerAt DEF Carries
  <2>3. ASSUME ~Shared, won[store.gen] = a, KeepsAt(a, run[x], own[a], store.gen)
        PROVE  g = store.gen /\ Renewable(a, g)
    <3>1. g = store.gen
      BY <2>1, <2>3 DEF KeepsAt, Winning
    <3> QED
      BY <2>3, <3>1, WinnerAt DEF Renewable
  <2>4. r.pc = "lock" /\ r.m = "control" /\ r.g = g
    BY <1>a DEF RunType
  <2>5. ToInstall(a, g) => run' = [run EXCEPT ![x] = r]
    BY DEF ToInstall
  <2> HIDE DEF r
  <2>6. CASE ToInstall(a, g) /\ Renewable(a, g) /\ RenewLease(a) /\ UNCHANGED spent
    <3>1. store'.gen = store.gen /\ store'.holder = a /\ g = store.gen
      BY <2>6 DEF RenewLease, Renewable, Authority, StoreOK
    <3>2. Around(a) /\ run'[x] = r
      BY <2>1, <2>5, <2>6, RecordAround
    <3>3. KeepsAt(a, r, own'[a], store.gen) /\ Comes(a, r)
      BY <2>4, <3>1 DEF KeepsAt, StandsAt, Winning, Comes
    <3> QED
      BY <2>1, <2>2, <3>1, <3>2, <3>3, WinsSame
  <2>7. CASE ~Renewable(a, g) /\ ToStale(a) /\ UNCHANGED <<store, spent>>
    <3>1. Around(a) /\ run'[x].pc \in {"hold", "stale"}
      BY <2>1, <2>7, AnswerAround DEF ToStale
    <3>2. Comes(a, run'[x])
      BY <3>1 DEF Comes
    <3> QED
      BY <2>1, <2>3, <2>7, <3>1, <3>2, WinsSame
  <2>8. CASE StoreFails /\ ToInstall(a, g) /\ UNCHANGED store
    <3>1. spent \subseteq spent' /\ "store" \in spent'
      BY <2>8 DEF StoreFails, Fault, Once
    <3>2. Around(a) /\ run'[x] = r
      BY <2>1, <2>5, <2>8, <3>1, RecordAround
    <3>3. Comes(a, r)
      BY <2>4 DEF Comes
    <3> QED
      BY <2>1, <2>8, <3>1, <3>2, <3>3, WinsSame
  <2> QED
    BY <1>4, <2>6, <2>7, <2>8 DEF ClaimRenew
<1>5. CASE ClaimWon(a)
  <2> DEFINE g == run[x].g
  <2>1. run[x].pc = "claim_won" /\ UNCHANGED <<setup, belief, store, won, spent>>
    BY <1>5, <1>b DEF ClaimWon
  <2>2. CASE own[a].g <= g
    <3> DEFINE u == Advanced(own[a], "control", g)
               o == [own EXCEPT ![a] = u]
    <3>1. StartDisplace(a, o, g, TRUE, "claim_check")
      BY <1>5, <2>2, Shapes DEF ClaimWon
    <3>2. u.m = "control" /\ u.g = g
      BY <1>a, <2>2 DEF Advanced
    <3> HIDE DEF u
    <3>3. o[a] = u /\ \A p \in Attaches : p # a => o[p] = own[p]
      BY Shapes
    <3> HIDE DEF o
    <3>4. PICK r : Fans(a, o, g, r) /\ r.pc = "fanout" /\ r.k = "claim_check"
      <4> DEFINE r == [run[x] EXCEPT !.pc = "fanout", !.k = "claim_check"]
      <4>1. Fans(a, o, g, r)
        BY <3>1, WinnerAt, FanMoves
      <4>2. r.pc = "fanout" /\ r.k = "claim_check"
        BY <1>a DEF RunType
      <4> HIDE DEF r
      <4> QED
        BY <4>1, <4>2
    <3>5. Around(a) /\ own'[a] = u /\ run'[x] = r
      <4>1. g \in Nat /\ g <= store.gen /\ UNCHANGED <<setup, belief>> /\ spent \subseteq spent'
        BY <1>a, <2>1
      <4>2. Fans(a, o, g, r) /\ o[a] = u /\ \A p \in Attaches : p # a => o[p] = own[p]
        BY <3>3, <3>4
      <4> HIDE DEF g
      <4> QED
        BY <4>1, <4>2, FanAround
    <3>6. KeepsAt(a, run[x], own[a], store.gen) => KeepsAt(a, run'[x], own'[a], store.gen)
      BY <2>1, <3>2, <3>4, <3>5 DEF KeepsAt, StandsAt, Winning
    <3> QED
      BY <2>1, <3>4, <3>5, <3>6, WinsSame DEF Comes
  <2>3. CASE ~(own[a].g <= g)
    <3> DEFINE r == [run[x] EXCEPT !.pc = "hold", !.won = g, !.k = "claim_check"]
    <3>1. run' = [run EXCEPT ![x] = r] /\ UNCHANGED own
      BY <1>5, <2>3 DEF ClaimWon
    <3>2. r.pc = "hold"
      BY <1>a DEF RunType
    <3> HIDE DEF r
    <3>3. Around(a) /\ run'[x] = r
      BY <2>1, <3>1, RecordAround
    <3>4. ~KeepsAt(a, run[x], own[a], store.gen)
      BY <1>a, <2>1, <2>3 DEF KeepsAt, Winning
    <3> QED
      BY <2>1, <3>2, <3>3, <3>4, WinsSame DEF Comes
  <2> QED
    BY <2>2, <2>3
<1>6. CASE ClaimCheck(a)
  <2> DEFINE r == [Idle EXCEPT !.pc = "live"]
  <2>1. run[x].pc = "claim_check" /\ UNCHANGED <<setup, own, belief, store, won, spent>> /\ run' = [run EXCEPT ![x] = r]
    BY <1>6 DEF ClaimCheck
  <2>2. r.pc = "live"
    BY DEF Idle
  <2> HIDE DEF r
  <2>3. Around(a) /\ run'[x] = r /\ own'[a] = own[a]
    BY <2>1, RecordAround
  <2> QED
    BY <2>1, <2>2, <2>3, StaysWins
<1>7. CASE ClaimGivenBack(a)
  <2>1. run[x].pc = "claim_back" /\ UNCHANGED <<setup, own, belief>>
    BY <1>7, <1>b DEF ClaimGivenBack
  <2>2. PICK k : Release(a, k) /\ k
    BY <1>7 DEF ClaimGivenBack, Release
  <2>3. run' = [run EXCEPT ![x].pc = "stale", ![x].k = "back_told"] /\ spent \subseteq spent'
    BY <1>7 DEF ClaimGivenBack, Release, StoreFails, Fault, Once
  <2>4. Around(a) /\ run'[x].pc \in {"hold", "stale"}
    BY <2>1, <2>3, AnswerAround
  <2> QED
    BY <2>1, <2>2, <2>4, ReleaseWins
<1>8. CASE BackTold(a)
  <2>1. run[x].pc = "back_told" /\ UNCHANGED <<setup, store, belief, won, spent>>
        /\ StartDisplace(a, own, run[x].g, TRUE, "live")
    BY <1>8, <1>b DEF BackTold
  <2>2. Around(a) /\ own'[a] = own[a] /\ run'[x].pc = "fanout" /\ run'[x].k = "live"
    BY <1>a, <2>1, OwnFanAround
  <2> QED
    BY <2>1, <2>2, StaysWins
<1>9. CASE SendStale(a)
  <2> DEFINE r == [run[x] EXCEPT !.pc = "hold", !.k = run[x].k, !.won = 0]
  <2>1. /\ run[x].pc = "stale" /\ UNCHANGED <<setup, store, belief, won>> /\ run' = [run EXCEPT ![x] = r]
        /\ spent \subseteq spent'
    BY <1>9, <1>b DEF SendStale, Answer, StoreFails, Fault, Once
  <2>2. PICK o \in {own[a], Displaced(own[a], store.gen)} : own' = [own EXCEPT ![a] = o]
    BY <1>9, Shapes DEF SendStale
  <2>3. r.pc = "hold"
    BY <1>a DEF RunType
  <2> HIDE DEF r
  <2>4. Around(a) /\ run'[x] = r /\ own'[a] = o
    BY <2>1, <2>2, PumpAround
  <2>5. KeepsAt(a, run[x], own[a], store.gen) => KeepsAt(a, r, o, store.gen)
    <3>1. own[a].g = store.gen => o = own[a]
      BY <1>a, <2>2 DEF Displaced
    <3> QED
      BY <2>1, <2>3, <3>1 DEF KeepsAt, StandsAt, Winning
  <2> QED
    BY <2>1, <2>3, <2>4, <2>5, WinsSame DEF Comes
<1> QED
  BY <1>1, <1>2, <1>3, <1>4, <1>5, <1>6, <1>7, <1>8, <1>9

\* Leaving, and giving control up.
LEMMA LeavingWins ==
  ASSUME Authority, Telling, Winners, NEW a \in Attaches,
         \/ ReleaseBegins(a) \/ ReleaseControl(a) \/ Released(a)
         \/ SpliceEnds(a) \/ Finish(a) \/ FinishRelease(a) \/ FinishTell(a) \/ Gone(a)
  PROVE  Winners'
<1> DEFINE x == Pump(a)
           T == [m : Modes, g : Nat, told : BOOLEAN, reg : BOOLEAN]
<1>a. /\ store.gen \in Nat /\ run[x].g \in Nat /\ run[x].g <= store.gen /\ run[x] \in RunType
      /\ own[a].g \in Nat /\ own[a].g <= store.gen /\ own[a] \in T
  BY WinnerAt
<1>b. UNCHANGED Rest => UNCHANGED setup
  BY DEF Rest
<1>1. CASE ReleaseBegins(a)
  <2> DEFINE r == [Idle EXCEPT !.g = own[a].g, !.pc = IF Shared THEN "demote" ELSE "release",
                               !.k = IF Shared THEN "live" ELSE "released"]
  <2>1. run[x].pc = "live" /\ run' = [run EXCEPT ![x] = r] /\ UNCHANGED <<setup, own, belief, store, won, spent>>
    BY <1>1, <1>b DEF ReleaseBegins, AtLive
  <2>2. r.g = own[a].g /\ (~Shared => r.pc = "release")
    BY DEF Idle
  <2> HIDE DEF r
  <2>3. Around(a) /\ run'[x] = r /\ own'[a] = own[a]
    BY <2>1, RecordAround
  <2>4. ~Shared => Comes(a, r) /\ (KeepsAt(a, run[x], own[a], store.gen) => KeepsAt(a, r, own[a], store.gen))
    BY <2>1, <2>2 DEF Comes, KeepsAt, StandsAt, Winning
  <2> QED
    BY <2>1, <2>3, <2>4, WinsSame
<1>2. CASE ReleaseControl(a) \/ FinishRelease(a)
  <2>1. PICK pc \in {"demote", "left"} : /\ Goto(x, pc) /\ UNCHANGED <<setup, own, belief>> /\ spent \subseteq spent'
                                         /\ run[x].pc \in {"release", "leave"}
    BY <1>2, <1>b DEF ReleaseControl, FinishRelease, Release, StoreFails, Fault, Once
  <2>2. PICK k : Release(a, k)
    BY <1>2 DEF ReleaseControl, FinishRelease
  <2>3. Around(a) /\ run'[x].pc = pc
    BY <2>1, GotoAround
  <2> QED
    BY <2>1, <2>2, <2>3, ReleaseWins
<1>3. CASE Released(a)
  <2>1. run[x].pc = "released" /\ UNCHANGED <<setup, store, belief, won, spent>>
        /\ StartDisplace(a, own, run[x].g, FALSE, "live")
    BY <1>3, <1>b DEF Released
  <2>2. Around(a) /\ own'[a] = own[a] /\ run'[x].pc = "fanout" /\ run'[x].k = "live"
    BY <1>a, <2>1, OwnFanAround
  <2> QED
    BY <2>1, <2>2, StaysWins
<1>4. CASE SpliceEnds(a)
  <2>1. run[x].pc = "live" /\ Goto(x, "finish") /\ UNCHANGED <<setup, own, store, belief, won, spent>>
    BY <1>4, <1>b DEF SpliceEnds, AtLive
  <2>2. Around(a) /\ own'[a] = own[a] /\ run'[x].pc = "finish"
    BY <2>1, GotoAround
  <2> QED
    BY <2>1, <2>2, StaysWins
<1>5. CASE Finish(a)
  <2> DEFINE pc == IF Keeper(a) /\ own[a].m = "control" /\ ~Shared THEN "leave" ELSE "gone"
             r == [run[x] EXCEPT !.pc = pc, !.g = own[a].g]
             o == [own[a] EXCEPT !.reg = FALSE]
  <2>1. /\ run[x].pc = "finish" /\ UNCHANGED <<setup, store, belief, won, spent>>
        /\ run' = [run EXCEPT ![x] = r] /\ own' = [own EXCEPT ![a] = o]
    BY <1>5, <1>b, Shapes DEF Finish, GotoG
  <2>2. r.pc = pc /\ r.g = own[a].g /\ o.m = own[a].m /\ o.g = own[a].g
    BY <1>a DEF RunType
  <2> HIDE DEF r, o
  <2>3. Around(a) /\ run'[x] = r /\ own'[a] = o
    BY <2>1, PumpAround
  <2>4. Comes(a, r)
    BY <2>2 DEF Comes
  <2>5. ~Shared /\ KeepsAt(a, run[x], own[a], store.gen) => KeepsAt(a, r, o, store.gen)
    BY <2>1, <2>2 DEF KeepsAt, StandsAt, Winning
  <2> QED
    BY <2>1, <2>3, <2>4, <2>5, WinsSame
<1>6. CASE FinishTell(a)
  <2>1. run[x].pc = "left" /\ UNCHANGED <<setup, store, belief, won>> /\ spent \subseteq spent'
    BY <1>6, <1>b DEF FinishTell, StoreFails, Fault, Once
  <2>2. Around(a) /\ own'[a] = own[a] /\ run'[x].pc \in {"fanout", "gone"}
    <3>1. CASE StartDisplace(a, own, store.gen, FALSE, "gone")
      <4>1. store.gen <= store.gen
        BY <1>a
      <4>2. Around(a) /\ own'[a] = own[a] /\ run'[x].pc = "fanout" /\ run'[x].k = "gone"
        BY <1>a, <2>1, <3>1, <4>1, OwnFanAround
      <4> QED
        BY <4>2
    <3>2. CASE Goto(x, "gone") /\ UNCHANGED own
      BY <2>1, <3>2, GotoAround
    <3> QED
      BY <1>6, <3>1, <3>2 DEF FinishTell
  <2>3. KeepsAt(a, run[x], own[a], store.gen) => KeepsAt(a, run'[x], own'[a], store.gen)
    BY <2>1, <2>2 DEF KeepsAt, StandsAt, Winning
  <2> QED
    BY <2>1, <2>2, <2>3, WinsSame DEF Comes
<1>7. CASE Gone(a)
  <2>1. /\ run[x].pc = "gone" /\ UNCHANGED <<setup, store, belief, won, spent>>
        /\ run' = [run EXCEPT ![x] = Idle] /\ own' = [own EXCEPT ![a] = NotAttached]
    BY <1>7 DEF Gone
  <2>2. Around(a) /\ run'[x] = Idle /\ own'[a] = NotAttached
    BY <2>1, PumpAround
  <2>3. Idle.pc = "idle"
    BY DEF Idle
  <2>4. KeepsAt(a, run[x], own[a], store.gen) => KeepsAt(a, Idle, NotAttached, store.gen)
    BY <2>1, <2>3 DEF KeepsAt, StandsAt, Winning
  <2> QED
    BY <2>1, <2>2, <2>3, <2>4, WinsSame DEF Comes
<1> QED
  BY <1>1, <1>2, <1>3, <1>4, <1>5, <1>6, <1>7

\* What moves neither the row, nor a state, nor a process.
LEMMA QuietWins ==
  ASSUME Winners, UNCHANGED <<setup, own, run, belief, won>>, spent \subseteq spent',
         store'.gen = store.gen, store'.holder = store.holder
  PROVE  Winners'
  BY SetupStays DEF Winners, Keeps, KeepsAt, StandsAt, Comes

\* A process that is no pump moves, and what its attach is stays.
LEMMA ProcWins ==
  ASSUME Authority, Telling, Winners, NEW x \in Procs, NEW r, NEW o,
         run' = [run EXCEPT ![x] = r], x # Pump(Target(x)), own' = [own EXCEPT ![Target(x)] = o],
         o.m = own[Target(x)].m, o.g = own[Target(x)].g,
         r.pc # "demote" \/ r.g \in 0..store.gen - 1,
         UNCHANGED <<setup, store, won>>, \A c \in Attaches : ~Keeper(c) => belief'[c] = belief[c],
         spent \subseteq spent'
  PROVE  Winners'
<1> DEFINE a == Target(x)
<1>1. a \in Attaches
  BY ProcKinds
<1>2. Around(a) /\ run'[Pump(a)] = run[Pump(a)] /\ own'[a] = o
  <2>1. Pump(a) \in Procs /\ Beat(a) \in Procs
    BY <1>1, ProcNames
  <2>2. \A c \in Attaches \ {a} : x # Pump(c) /\ x # Beat(c) /\ Pump(c) \in Procs /\ Beat(c) \in Procs
    BY ProcNames
  <2> QED
    BY <1>1, <2>1, <2>2, Shapes DEF Around
<1>3. KeepsAt(a, run[Pump(a)], own[a], store.gen) => KeepsAt(a, run[Pump(a)], o, store.gen)
  BY DEF KeepsAt, StandsAt
<1>4. ~Shared => Comes(a, run[Pump(a)])
  BY <1>1, WinnerAt
<1> QED
  BY <1>1, <1>2, <1>3, <1>4, WinsSame

\* A heartbeat: a controller that may not renew is behind the row.
LEMMA BeatWins ==
  ASSUME Authority, Telling, Winners, NEW a \in Attaches, BeatTick(a) \/ BeatEnds(a)
  PROVE  Winners'
<1> DEFINE x == Beat(a)
<1>a. x \in Procs /\ Target(x) = a /\ x # Pump(Target(x)) /\ own = [own EXCEPT ![a] = own[a]]
  BY ProcNames, ProcKinds, Shapes
<1>1. CASE BeatEnds(a)
  <2>1. run' = [run EXCEPT ![x] = Idle] /\ UNCHANGED <<setup, store, own, belief, won, spent>>
    BY <1>1 DEF BeatEnds
  <2>2. Idle.pc # "demote"
    BY DEF Idle
  <2> QED
    BY <1>a, <2>1, <2>2, ProcWins
<1>2. CASE BeatTick(a)
  <2>1. UNCHANGED <<setup, own, belief, won, spent>> /\ own[a].m = "control" /\ run[x] = Idle
    BY <1>2 DEF BeatTick, Rest, Beating
  <2>2. CASE RenewLease(a) /\ UNCHANGED run /\ Renewable(a, own[a].g) /\ ~Shared
    <3>1. store'.gen = store.gen /\ store'.holder = a /\ own[a].g = store.gen
      BY <2>2 DEF RenewLease, Renewable, Authority, StoreOK
    <3>2. won[store.gen] = a
      BY <2>1, <2>2, <3>1, WinnerAt
    <3>3. Around(a) /\ run'[Pump(a)] = run[Pump(a)] /\ own'[a] = own[a]
      BY <2>1, <2>2 DEF Around
    <3> QED
      BY <2>1, <2>2, <3>1, <3>2, <3>3, WinnerAt, WinsSame
  <2>3. CASE /\ IF Shared THEN store.gen > own[a].g ELSE ~Renewable(a, own[a].g)
             /\ run' = [run EXCEPT ![Beat(a)].pc = "demote", ![Beat(a)].g = own[a].g]
             /\ UNCHANGED store
    <3> DEFINE r == [run[x] EXCEPT !.pc = "demote", !.g = own[a].g]
    <3>1. run' = [run EXCEPT ![x] = r]
      BY <1>a, <2>3, Shapes
    <3>2. r.g = own[a].g
      BY <2>1 DEF Idle
    <3>3. own[a].g \in Nat /\ store.gen \in Nat /\ own[a].g < store.gen
      <4>1. CASE Shared
        BY <2>3, <4>1, WinnerAt
      <4>2. CASE ~Shared
        BY <2>1, <2>3, <4>2, WinnerAt DEF Renewable
      <4> QED
        BY <4>1, <4>2
    <3> HIDE DEF r
    <3>4. r.g \in 0..store.gen - 1
      BY <3>2, <3>3
    <3> QED
      BY <1>a, <2>1, <2>3, <3>1, <3>4, ProcWins
  <2> QED
    BY <1>2, <2>2, <2>3 DEF BeatTick
<1> QED
  BY <1>1, <1>2

\* The processes of handoffs and notices leave what their attach has to
\* whom it belongs.
LEMMA NoticesWin ==
  ASSUME Authority, Telling, Winners, NEW x \in Procs,
         \/ Install(x) \/ AckSeen(x) \/ AckTimeout(x) \/ InstallNoWait(x) \/ NoticeSkipped(x) \/ NoticeGivesUp(x)
  PROVE  Winners'
<1> DEFINE a == Target(x)
<1>a. UNCHANGED <<setup, own, belief, store, won>> /\ spent \subseteq spent'
  BY DEF Install, AckSeen, AckTimeout, InstallNoWait, NoticeSkipped, NoticeGivesUp, Fault, Once
<1>b. a \in Attaches /\ own = [own EXCEPT ![a] = own[a]]
  BY ProcAt
<1>1. CASE NoticeSkipped(x) \/ NoticeGivesUp(x)
  <2>1. run' = [run EXCEPT ![x] = Idle] /\ x[1] = "peer"
    BY <1>1 DEF NoticeSkipped, NoticeGivesUp
  <2>2. x # Pump(a) /\ Idle.pc # "demote"
    BY <1>b, <2>1, ProcNames DEF Idle
  <2> QED
    BY <1>a, <1>b, <2>1, <2>2, ProcWins
<1>2. CASE Install(x) \/ AckSeen(x) \/ AckTimeout(x) \/ InstallNoWait(x)
  <2>a. run[x].pc \in {"lock", "wait", "install"}
    BY <1>2 DEF Install, AckSeen, AckTimeout, InstallNoWait
  <2>b. AfterWait(x) \in {"claim_won", "hold"} /\ (AfterWait(x) = "claim_won" <=> x[1] = "pump" /\ run[x].m = "control")
    BY DEF AfterWait
  <2>1. \/ UNCHANGED run
        \/ \E pc \in {"wait", "claim_won", "claim_back", "hold"} :
             /\ Goto(x, pc)
             /\ pc = "hold" => ~(x[1] = "pump" /\ run[x].m = "control") \/ run[x].pc = "install"
             /\ pc \in {"claim_won", "claim_back"} => x[1] = "pump" /\ run[x].m = "control" /\ run[x].pc # "install"
             /\ pc = "wait" => run[x].pc = "lock"
    <3>1. CASE Install(x)
      BY <2>b, <3>1 DEF Install
    <3>2. CASE AckSeen(x)
      BY <2>b, <3>2 DEF AckSeen
    <3>3. CASE AckTimeout(x)
      BY <2>b, <3>3 DEF AckTimeout
    <3>4. CASE InstallNoWait(x)
      BY <3>4 DEF InstallNoWait
    <3> QED
      BY <1>2, <3>1, <3>2, <3>3, <3>4
  <2>2. CASE UNCHANGED run
    BY <1>a, <2>2, QuietWins
  <2>3. ASSUME NEW pc \in {"wait", "claim_won", "claim_back", "hold"}, Goto(x, pc),
               pc = "hold" => ~(x[1] = "pump" /\ run[x].m = "control") \/ run[x].pc = "install",
               pc \in {"claim_won", "claim_back"} => x[1] = "pump" /\ run[x].m = "control" /\ run[x].pc # "install",
               pc = "wait" => run[x].pc = "lock"
        PROVE  Winners'
    <3> DEFINE r == [run[x] EXCEPT !.pc = pc]
    <3>1. run' = [run EXCEPT ![x] = r]
      BY <2>3 DEF Goto
    <3>2. r.pc = pc /\ r.m = run[x].m /\ r.g = run[x].g
      BY ProcAt DEF RunType
    <3> HIDE DEF r
    <3>3. CASE x # Pump(a)
      BY <1>a, <1>b, <3>1, <3>2, <3>3, ProcWins
    <3>4. CASE x = Pump(a)
      <4>1. Around(a) /\ run'[Pump(a)] = r /\ own'[a] = own[a]
        BY <1>a, <1>b, <3>1, <3>4, RecordAround
      <4>2. Comes(a, r)
        BY <3>2 DEF Comes
      <4>3. KeepsAt(a, run[Pump(a)], own[a], store.gen) => KeepsAt(a, r, own[a], store.gen)
        <5>1. x[1] = "pump"
          BY <1>b, <3>4, ProcNames
        <5> QED
          BY <2>a, <2>3, <3>2, <3>4, <5>1 DEF KeepsAt, StandsAt, Winning
      <4> QED
        BY <1>a, <1>b, <4>1, <4>2, <4>3, WinsSame
    <3> QED
      BY <3>3, <3>4
  <2> QED
    BY <2>1, <2>2, <2>3
<1> QED
  BY <1>1, <1>2

\* So does telling a client.
LEMMA SayingWins ==
  ASSUME Authority, Telling, Winners, NEW x \in Procs, TakeHold(x) \/ Say(x)
  PROVE  Winners'
<1> DEFINE a == Target(x)
<1>b. a \in Attaches /\ own = [own EXCEPT ![a] = own[a]] /\ run[x] \in RunType
  BY ProcAt
<1>c. x = Pump(a) => x[1] = "pump"
  BY <1>b, ProcNames
<1>1. CASE TakeHold(x)
  <2> DEFINE r == [run[x] EXCEPT !.pc = "say"]
             o == [own[a] EXCEPT !.told = TRUE]
  <2>1. /\ run[x].pc = "hold" /\ run' = [run EXCEPT ![x] = r] /\ own' = [own EXCEPT ![a] = o]
        /\ UNCHANGED <<setup, belief, store, won, spent>>
    BY <1>1 DEF TakeHold, Goto
  <2>2. r.pc = "say" /\ o.m = own[a].m /\ o.g = own[a].g
    BY ProcAt DEF RunType
  <2> HIDE DEF r, o
  <2>3. CASE x # Pump(a)
    BY <1>b, <2>1, <2>2, <2>3, ProcWins
  <2>4. CASE x = Pump(a)
    <3>1. Around(a) /\ run'[Pump(a)] = r /\ own'[a] = o
      BY <1>b, <2>1, <2>4, PumpAround
    <3> QED
      BY <1>b, <2>1, <2>2, <2>4, <3>1, StaysWins
  <2> QED
    BY <2>3, <2>4
<1>2. CASE Say(x)
  <2>1. run[x].pc = "say" /\ UNCHANGED <<setup, own, store, won, spent>>
    BY <1>2 DEF Say
  <2>2. \A c \in Attaches : ~Keeper(c) => belief'[c] = belief[c]
    <3>1. UNCHANGED belief \/ (Keeper(a) /\ \E h : belief' = [belief EXCEPT ![a] = h])
      BY <1>2 DEF Say
    <3> QED
      BY <3>1, Shapes
  <2>3. CASE UNCHANGED run
    <3>1. Around(a) /\ own'[a] = own[a] /\ run'[Pump(a)] = run[Pump(a)]
      BY <2>1, <2>2, <2>3 DEF Around
    <3> QED
      BY <1>b, <2>1, <3>1, WinnerAt, WinsSame
  <2>4. ASSUME NEW r, run' = [run EXCEPT ![x] = r],
               r.pc # "demote", x = Pump(a) => r.pc \in AfterAnswer
        PROVE  Winners'
    <3>1. CASE x # Pump(a)
      BY <1>b, <2>1, <2>2, <2>4, <3>1, ProcWins
    <3>2. CASE x = Pump(a)
      <4>1. Around(a) /\ run'[Pump(a)] = r /\ own'[a] = own[a]
        BY <1>b, <2>1, <2>2, <2>4, <3>2, Shapes, ProcNames, ProcKinds DEF Around
      <4> QED
        BY <1>b, <2>1, <2>4, <3>2, <4>1, StaysWins DEF AfterAnswer
    <3> QED
      BY <3>1, <3>2
  <2>5. UNCHANGED run \/ \E r : run' = [run EXCEPT ![x] = r] /\ r.pc # "demote" /\ (x = Pump(a) => r.pc \in AfterAnswer)
    <3> SUFFICES ASSUME Settled(own[a], hold[a])
                 PROVE  \E r : run' = [run EXCEPT ![x] = r] /\ r.pc # "demote" /\ (x = Pump(a) => r.pc \in AfterAnswer)
      BY <1>2 DEF Say
    <3> DEFINE r == IF x[1] # "pump" /\ run[x].k = "idle" THEN Idle
                    ELSE IF run[x].k = "live" THEN [Idle EXCEPT !.pc = "live"]
                    ELSE [run[x] EXCEPT !.pc = run[x].k, !.m = hold[a].m, !.g = hold[a].g]
    <3>1. run' = [run EXCEPT ![x] = r]
      <4>1. run' = [run EXCEPT ![x] = IF x[1] # "pump" /\ run[x].k = "idle" THEN Idle
                         ELSE IF run[x].k = "live" THEN [Idle EXCEPT !.pc = "live"]
                         ELSE [@ EXCEPT !.pc = run[x].k, !.m = hold[a].m, !.g = hold[a].g]]
        BY <1>2 DEF Say
      <4>2. x \in DOMAIN run
        BY Shapes
      <4> QED
        BY <4>1, <4>2
    <3>2. r.pc \in {"idle", "live"} \/ r.pc = run[x].k
      BY <1>b DEF RunType, Idle
    <3>3. x = Pump(a) => r.pc = run[x].k
      BY <1>b, <1>c DEF RunType, Idle
    <3>4. x = Pump(a) => run[x].k \in AfterAnswer
      BY <2>1, ProcAt DEF Placed, Answering
    <3>5. run[x].k # "demote"
      BY <1>b DEF RunType, Continuations
    <3> HIDE DEF r
    <3> QED
      BY <3>1, <3>2, <3>3, <3>4, <3>5
  <2> QED
    BY <2>3, <2>4, <2>5
<1> QED
  BY <1>1, <1>2

\* A message that is lost takes control from nobody.
LEMMA LosingWins ==
  ASSUME Authority, Telling, Winners, NEW x \in Procs, MessageLost(x)
  PROVE  Winners'
<1> DEFINE a == Target(x)
<1>b. a \in Attaches /\ own = [own EXCEPT ![a] = own[a]]
  BY ProcAt
<1>1. /\ run[x].pc = "say" /\ UNCHANGED <<setup, own, store, won>> /\ spent \subseteq spent'
  BY LostMoves DEF Fault, Once
<1>2. PICK r \in RunType : run' = [run EXCEPT ![x] = r]
                         /\ ((x[1] = "peer" /\ r = Idle) \/ (x[1] = "pump" /\ r.pc = "finish"))
  BY LostMoves
<1>3. PICK b : belief' = [belief EXCEPT ![a] = b] /\ (~Keeper(a) => b = belief[a])
  BY LostMoves
<1>4. \A c \in Attaches : ~Keeper(c) => belief'[c] = belief[c]
  BY <1>b, <1>3, Shapes
<1>5. CASE x # Pump(a)
  <2>1. r.pc # "demote"
    BY <1>2 DEF Idle
  <2> QED
    BY <1>b, <1>1, <1>2, <1>4, <1>5, <2>1, ProcWins
<1>6. CASE x = Pump(a)
  <2>1. x[1] = "pump" /\ r.pc = "finish"
    BY <1>b, <1>2, <1>6, ProcNames
  <2>2. Around(a) /\ run'[Pump(a)] = r /\ own'[a] = own[a]
    BY <1>b, <1>1, <1>2, <1>4, <1>6, Shapes, ProcNames, ProcKinds DEF Around
  <2> QED
    BY <1>b, <1>1, <1>6, <2>1, <2>2, StaysWins
<1> QED
  BY <1>5, <1>6

\* A demotion was decided at a generation the winner is past.
LEMMA DemoteWins ==
  ASSUME Authority, Telling, Winners, NEW x \in Procs, Demote(x)
  PROVE  Winners'
<1> DEFINE a == Target(x)
           from == run[x].g
<1>1. PICK cur \in {store.gen, from} :
         /\ own' = [own EXCEPT ![a] = Demoted(own[a], from, cur)]
         /\ run' = [run EXCEPT ![x].m = "view", ![x].won = 0, ![x].g = Demoted(own[a], from, cur).g,
                               ![x].pc = IF own[a].g > from THEN "hold" ELSE "lock"]
  BY Shapes, ProcAt DEF Demote
<1> DEFINE o == Demoted(own[a], from, cur)
           r == [run[x] EXCEPT !.m = "view", !.won = 0, !.g = o.g, !.pc = IF own[a].g > from THEN "hold" ELSE "lock"]
<1>2. /\ run[x].pc = "demote" /\ UNCHANGED <<setup, store, belief, won>> /\ spent \subseteq spent'
      /\ a \in Attaches
  BY ProcAt DEF Demote, Rest, StoreFails, Fault, Once
<1>3. r.pc \in {"hold", "lock"} /\ r.m = "view"
  BY ProcAt DEF RunType
<1>4. run' = [run EXCEPT ![x] = r]
  BY <1>1, Shapes
<1>5. own' = [own EXCEPT ![a] = o]
  BY <1>1
<1>6. own[a].g > from => o = own[a]
  BY DEF Demoted
<1> HIDE DEF r, o
<1>7. Around(a) /\ own'[a] = o /\ run'[Pump(a)] = IF x = Pump(a) THEN r ELSE run[Pump(a)]
  <2>1. CASE x = Pump(a)
    BY <1>2, <1>4, <1>5, <2>1, PumpAround
  <2>2. CASE x # Pump(a)
    BY <1>2, <1>3, <1>4, <1>5, <2>2, ProcAround
  <2> QED
    BY <2>1, <2>2
<1>8. ASSUME ~Shared, "store" \notin spent', won[store.gen] = a, KeepsAt(a, run[Pump(a)], own[a], store.gen)
      PROVE  KeepsAt(a, run'[Pump(a)], own'[a], store.gen)
  <2>1. x = Pump(a) \/ x = Beat(a)
    BY <1>2, ProcAt, ProcKinds DEF Errand
  <2>2. run[Beat(a)].pc = "demote" => run[Beat(a)].g < store.gen
    BY <1>2, <1>8 DEF Winners, Keeps
  <2>3. from < store.gen
    BY <1>2, <1>8, <2>1, <2>2 DEF KeepsAt
  <2>4. own[a].m = "control" /\ own[a].g = store.gen => o = own[a]
    BY <1>6, <2>3, WinnerAt, ProcAt DEF RunType
  <2>5. CASE x = Pump(a)
    BY <1>2, <1>3, <1>7, <1>8, <2>4, <2>5 DEF KeepsAt, StandsAt, Winning
  <2>6. CASE x # Pump(a)
    BY <1>7, <1>8, <2>4, <2>6 DEF KeepsAt, StandsAt, Winning
  <2> QED
    BY <2>5, <2>6
<1>9. ~Shared => Comes(a, run'[Pump(a)])
  BY <1>2, <1>3, <1>7, WinnerAt DEF Comes
<1> QED
  BY <1>2, <1>7, <1>8, <1>9, WinsSame

LEMMA WinnersInit == Init => Winners
<1> SUFFICES ASSUME Init PROVE Winners
  OBVIOUS
<1>1. store.holder = None /\ store.gen = 0 /\ won[0] = None
  BY DEF Init
<1>2. \A a \in Attaches : run[Pump(a)] = Idle /\ belief[a].m = "none"
  BY ProcNames DEF Init
<1>3. \A a \in Attaches : Comes(a, run[Pump(a)]) /\ Keeps(a)
  BY <1>1, <1>2, AttachPlaneAssumption DEF Comes, Keeps, Idle
<1> QED
  BY <1>1, <1>2, <1>3 DEF Winners

LEMMA WinnersStep ==
  ASSUME Authority, Telling, Winners, [Next]_vars
  PROVE  Winners'
<1>1. CASE \E a \in Attaches : PumpStep(a)
  <2>1. PICK a \in Attaches : PumpStep(a)
    BY <1>1
  <2> QED
    BY <2>1, OpeningWins, FanWins, ClaimWins, LeavingWins DEF PumpStep
<1>2. CASE \E a \in Attaches : ClientStep(a)
  <2>1. PICK a \in Attaches : ClientStep(a)
    BY <1>2
  <2>2. Type(a) \/ Disconnect(a) => /\ UNCHANGED <<setup, own, run, belief, store, won>> /\ spent \subseteq spent'
    BY DEF Type, Disconnect, Fault, Once
  <2> QED
    BY <2>1, <2>2, OpeningWins, ClaimWins, LeavingWins, QuietWins DEF ClientStep
<1>3. CASE \E a \in Attaches : BoxStep(a) \/ BeatTick(a) \/ BeatEnds(a)
  <2>1. PICK a \in Attaches : BoxStep(a) \/ BeatTick(a) \/ BeatEnds(a)
    BY <1>3
  <2>2. BoxStep(a) => UNCHANGED <<setup, own, run, belief, store, won, spent>>
    BY DEF BoxStep
  <2> QED
    BY <2>1, <2>2, BeatWins, QuietWins
<1>4. CASE \E x \in Procs : ProcStep(x)
  <2>1. PICK x \in Procs : ProcStep(x)
    BY <1>4
  <2> QED
    BY <2>1, NoticesWin, SayingWins, LosingWins, DemoteWins DEF ProcStep
<1>5. CASE LeaseExpires
  <2>1. store'.gen = store.gen /\ store'.holder = store.holder
    BY <1>5 DEF LeaseExpires, Authority, StoreOK
  <2> QED
    BY <1>5, <2>1, QuietWins DEF LeaseExpires
<1>6. CASE UNCHANGED vars
  BY <1>6, QuietWins DEF vars
<1> QED
  BY <1>1, <1>2, <1>3, <1>4, <1>5, <1>6 DEF Next

\* No attach is left a viewer under a generation it won itself: until it
\* gives its generation back the winner of the one the row is at is on its
\* way to control or has it, and nothing that was decided about an older
\* generation can take it (demoteTo's guard, displacedBy, the order of the
\* claim's steps).
THEOREM ControlNotOrphaned == Spec => []NoOrphanedControl
<1>1. Init => Winners
  BY WinnersInit
<1>2. Authority /\ Telling /\ Winners /\ [Next]_vars => Winners'
  BY WinnersStep
<1>3. Winners => NoOrphanedControl
  <2> SUFFICES ASSUME Winners, NEW a \in Attaches, AtRest(a), ~Shared, "store" \notin spent, won[store.gen] = a
               PROVE  own[a].m = "control" /\ own[a].g = store.gen
    BY DEF NoOrphanedControl
  <2>1. run[Pump(a)].pc = "live"
    BY DEF AtRest, AtLive
  <2> QED
    BY <2>1 DEF Winners, Keeps, KeepsAt, StandsAt, Winning
<1>4. Init => Telling
  BY TellingInit
<1>5. Authority /\ Telling /\ [Next]_vars => Telling'
  BY TellingStep
<1>6. Spec => []Authority
  BY AuthorityHolds
<1> QED
  BY <1>1, <1>2, <1>3, <1>4, <1>5, <1>6, PTL DEF Spec

=============================================================================
