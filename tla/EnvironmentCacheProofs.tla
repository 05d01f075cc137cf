----------------------- MODULE EnvironmentCacheProofs -----------------------
\* Theorems about BootChain and EnvironmentCache for any runners, sessions,
\* scripts, tokens and setups: whose verdict a watcher reports, what the
\* cached image holds, and what an agent finds.
\*
\* The invariant follows a container from the row that was placed to what
\* was committed from it.  A row placed on a runner that had its container
\* before sets past.same; until then a container, its news and its builds
\* all belong to one create.
EXTENDS EnvironmentCache, SequenceTheorems, TLAPS

--------------------
\* The invariant.

\* a shell that goes on has ended its earlier stages well; a code that can be
\* read, or was, is one its own stage has reached in this boot
ChainFine(bo, codes) ==
    /\ bo.step \in {"run", "echo"} => bo.at \in 1..Len(bo.plan)
    /\ \A i \in 1..Len(bo.plan) : i < bo.at \/ bo.step = "agent" => <<bo.plan[i], "ok">> \in bo.ended
    /\ bo.step = "echo" => <<bo.plan[bo.at], bo.rc>> \in bo.ended
    /\ \A i \in 1..Len(bo.plan) : codes[bo.plan[i]] \in Codes => <<bo.plan[i], codes[bo.plan[i]]>> \in bo.ended
    /\ bo.heard # <<>> => bo.heard \in bo.ended

\* the clone's git runs in the clone stage, over no repository or its own
CloneFine(bo, g, repo, cut) ==
    /\ g.by = "clone" => bo.pc = "up" /\ bo.step = "run" /\ bo.plan[bo.at] = "clone"
    /\ g.pc = "cloned" => g.by = "clone"
    /\ g.by = "clone" => IF g.pc = "cloned" THEN repo = "base" ELSE repo = None
    /\ ~cut => /\ repo \in {None, "branch"} \/ g.pc = "cloned"
               /\ <<"clone", "ok">> \in bo.ended => repo = "branch"

\* what is not there does not run, and what does not run is not connected
Quiet(bo, w, g, bx) == /\ ~bx.there => bo = NoBoot
                       /\ bo.pc = "off" => w = NoWire /\ g = NoGit

Elems(q) == {q[i] : i \in 1..Len(q)}

\* a container whose setup has ended well, or is said to have, holds its script
Ran(bx) == bx.script # None /\ bx.script \in Elems(bx.done)
Tells(bo, w) == "setup_done" \in Elems(bo.owes) \cup Elems(w.events) \cup Elems(w.pending)
SetupFine(bo, w, bx) ==
    bx.there => /\ bo.plan = Plan(bx.script)
                /\ <<"setup", "ok">> \in bo.ended \/ Tells(bo, w) => Ran(bx)

Local(bo, di, w, g, bx, cut) ==
    /\ ChainFine(bo, di.rc) /\ CloneFine(bo, g, di.repo, cut)
    /\ Quiet(bo, w, g, bx) /\ SetupFine(bo, w, bx)
Boots == \A b \in Boxes : Local(boot[b], disk[b], wire[b], git[b], box[b], past.cut)

\* a row and the goroutine that creates it
RowFine(ro, jo, kept) ==
    /\ ro.state = None => ro.runner = None /\ jo.pc = "idle"
    /\ ro.state # None => ro.asked \in Bases /\ ro.image # <<>>
    /\ jo.pc # "idle" \/ ro.state \in {"creating", "running", "suspended", "resuming"} => ro.runner \in Runners
    /\ ~kept => /\ ro.state = "queued" => ro.image = ro.asked
                /\ ro.image \in Bases => ro.image = ro.asked

\* the image of a row being created is the one asked for, or the cache as the pass saw it
Cached(e, image) == e.there /\ RunsCachedSnapshot(e) /\ image = e.snap.ref
SetupOf(e, image) == IF e.there /\ e.setup # None /\ (e.snap.ref = <<>> \/ image # e.snap.ref) THEN e.setup ELSE None
JobFine(ro, jo, kept) ==
    /\ jo.pc \in {"spec", "sent"} /\ ~kept => ro.image \in Bases \/ Cached(jo.env, ro.image)
    /\ jo.pc = "sent" => /\ jo.setup = SetupOf(jo.env, ro.image)
                         /\ jo.setup # None => ro.pin = ro.image \o <<jo.setup>>

SessionFine(ro, jo, kept) == RowFine(ro, jo, kept) /\ JobFine(ro, jo, kept)
SessionsFine == \A s \in Sessions : SessionFine(row[s], job[s], past.kept)

\* what is suspended can be started again
Rests(s) == LET b == <<row[s].runner, s>>
            IN  row[s].state = "suspended" => box[b].there /\ boot[b].pc = "off"
RestsFine == \A s \in Sessions : Rests(s)

\* nothing of a placement is there, or on its way, before it is created
Fresh(s) == LET b == <<row[s].runner, s>>
            IN  job[s].pc \in {"spec", "sent"} => ~box[b].there /\ \A x \in news \cup builds : x.box # b
FreshFine == ~past.same => \A s \in Sessions : Fresh(s)

\* what the container of a placement was made of
Made(bx, ro) ==
    /\ ro.image \in Bases => bx.base = ro.image /\ RanOnly(bx.done, bx.script) /\ bx.held = 0
    /\ bx.script # None => ro.pin = ro.image \o <<bx.script>>
\* what the agent that was asked for finds
Readied(bx, ro) ==
    bx.env.there => /\ bx.base \in {ro.asked, bx.env.image}
                    /\ RanOnly(bx.done, bx.env.setup)
                    /\ \/ /\ bx.script = None /\ Len(bx.done) = bx.held
                          /\ bx.env.setup # None => bx.done # <<>>
                       \/ bx.script # None /\ bx.script = bx.env.setup /\ bx.held = 0
BoxFine(bx, ro, r, kept) ==
    bx.there => /\ ro.state # None
                /\ ro.runner = r => Made(bx, ro)
                /\ ~kept => Readied(bx, ro)
BoxesFine == ~past.same => \A b \in Boxes : BoxFine(box[b], row[b[2]], b[1], past.kept)

\* the news of a setup speaks of the container that is there, or of none
NewsFine == ~past.same => \A n \in news : n.kind = "setup_done" /\ box[n.box].there => Ran(box[n.box])

\* what an image or a build is named is what it holds
Named(x, base, done) == base = <<x[1]>> /\ done # <<>> /\ RanOnly(done, x[2])
ImagesFine == /\ env.snap # NoSnap => env.snap.ref \in DOMAIN images[env.snap.holder]
              /\ \A bu \in builds : bu.pc = "made" => bu.hash \in DOMAIN images[bu.box[1]]
              /\ ~past.same => \A r \in Runners : \A x \in DOMAIN images[r] :
                                   Named(x, images[r][x].base, images[r][x].done)
BuildsFine == ~past.same => \A bu \in builds : bu.pc = "asked" /\ box[bu.box].there =>
                                Named(bu.hash, box[bu.box].base, box[bu.box].done) /\ Ran(box[bu.box])

Cache == SessionsFine /\ RestsFine /\ FreshFine /\ BoxesFine /\ NewsFine /\ ImagesFine /\ BuildsFine
IInv == TypeOK /\ Boots /\ Cache
--------------------
\* One sandbox.  Its boot bo, volume di, connection w and git g, the
\* container bx they run in, and whether a clone was ever cut off.

LEMMA ElemsConcat ==
  ASSUME NEW S, NEW p \in Seq(S), NEW q \in Seq(S)
  PROVE  p \o q \in Seq(S) /\ Elems(p \o q) = Elems(p) \cup Elems(q)
<1>1. /\ p \o q \in Seq(S) /\ Len(p \o q) = Len(p) + Len(q) /\ Len(p) \in Nat /\ Len(q) \in Nat
      /\ \A i \in 1..Len(p) + Len(q) : (p \o q)[i] = IF i <= Len(p) THEN p[i] ELSE q[i - Len(p)]
  OBVIOUS
<1>2. ASSUME NEW i \in 1..Len(p) + Len(q) PROVE (p \o q)[i] \in Elems(p) \cup Elems(q)
  <2>1. CASE i <= Len(p)
    BY <1>1, <2>1 DEF Elems
  <2>2. CASE ~(i <= Len(p))
    <3>1. i - Len(p) \in 1..Len(q)
      BY <1>1, <2>2
    <3> QED
      BY <1>1, <2>2, <3>1 DEF Elems
  <2> QED
    BY <2>1, <2>2
<1>3. ASSUME NEW i \in 1..Len(p) PROVE p[i] \in Elems(p \o q)
  <2>1. i \in 1..Len(p) + Len(q) /\ (p \o q)[i] = p[i]
    BY <1>1
  <2> QED
    BY <1>1, <2>1 DEF Elems
<1>4. ASSUME NEW i \in 1..Len(q) PROVE q[i] \in Elems(p \o q)
  <2>1. Len(p) + i \in 1..Len(p) + Len(q) /\ (p \o q)[Len(p) + i] = q[i]
    BY <1>1
  <2> QED
    BY <1>1, <2>1 DEF Elems
<1>5. Elems(p \o q) \subseteq Elems(p) \cup Elems(q)
  BY <1>1, <1>2 DEF Elems
<1>6. Elems(p) \subseteq Elems(p \o q)
  BY <1>3 DEF Elems
<1>7. Elems(q) \subseteq Elems(p \o q)
  BY <1>4 DEF Elems
<1> QED
  BY <1>1, <1>5, <1>6, <1>7

LEMMA PlanFits ==
  ASSUME TypeOK, NEW x \in Setup
  PROVE  Plan(x) \in Seq(Stages) /\ ("setup" \in Elems(Plan(x)) <=> x # None)
<1> DEFINE p == IF shape.secrets THEN <<"secrets">> ELSE <<>>
           q == IF x = None THEN <<>> ELSE <<"setup">>
           z == shape.tail
<1>1. z \in Seq(Stages) /\ "setup" \notin Elems(z)
  <2>1. z \in Seq({"clone", "agents", "init"})
    BY DEF TypeOK, Shape
  <2> QED
    BY <2>1 DEF Elems, Stages
<1>2. /\ <<"secrets">> \in Seq(Stages) /\ <<>> \in Seq(Stages) /\ <<"setup">> \in Seq(Stages)
      /\ Elems(<<"secrets">>) = {"secrets"} /\ Elems(<<"setup">>) = {"setup"} /\ Elems(<<>>) = {}
  BY DEF Elems, Stages
<1>3. p \in Seq(Stages) /\ "setup" \notin Elems(p)
  BY <1>2
<1>4. q \in Seq(Stages) /\ ("setup" \in Elems(q) <=> x # None)
  BY <1>2
<1>5. Plan(x) = p \o q \o z
  BY Zenon DEF Plan
<1> HIDE DEF p, q, z
<1>6. p \o q \in Seq(Stages) /\ Elems(p \o q) = Elems(p) \cup Elems(q)
  BY <1>3, <1>4, ElemsConcat
<1>7. p \o q \o z \in Seq(Stages) /\ Elems(p \o q \o z) = Elems(p \o q) \cup Elems(z)
  <2> DEFINE a == p \o q
  <2>1. a \in Seq(Stages)
    BY <1>6
  <2> HIDE DEF a
  <2>2. a \o z \in Seq(Stages) /\ Elems(a \o z) = Elems(a) \cup Elems(z)
    BY <1>1, <2>1, ElemsConcat
  <2> QED
    BY <2>2 DEF a
<1> QED
  BY <1>1, <1>3, <1>4, <1>5, <1>6, <1>7

\* The boot itself.
LEMMA ChainBoots ==
  ASSUME NEW plan \in Seq(Stages), NEW codes \in [Stages -> {None, "empty"} \cup Codes],
         NEW bo, bo.plan = plan, bo.at = 1, bo.ended = {}, bo.heard = <<>>,
         bo.step = IF plan = <<>> THEN "agent" ELSE "run"
  PROVE  ChainFine(bo, Cleared(codes, plan)) /\ Cleared(codes, plan) \in [Stages -> {None, "empty"} \cup Codes]
<1>3. \A i \in 1..Len(plan) : plan[i] \in Stages /\ Cleared(codes, plan)[plan[i]] = None
  BY DEF Cleared
<1>4. plan # <<>> => 1 \in 1..Len(plan)
  OBVIOUS
<1>5. plan = <<>> => Len(plan) = 0
  OBVIOUS
<1>6. ChainFine(bo, Cleared(codes, plan))
  BY <1>3, <1>4, <1>5 DEF ChainFine, Codes, None
<1> QED
  BY <1>6 DEF Cleared

\* A stage ends.
LEMMA ChainEnds ==
  ASSUME NEW bo \in BootType, NEW codes \in [Stages -> {None, "empty"} \cup Codes], ChainFine(bo, codes),
         bo.step = "run", NEW rc \in Codes, NEW st, st = bo.plan[bo.at],
         NEW next, next.plan = bo.plan, next.at = bo.at, next.step = "echo", next.rc = rc, next.heard = bo.heard,
         next.ended = bo.ended \cup {<<st, rc>>}
  PROVE  /\ st \in Stages /\ ChainFine(next, [codes EXCEPT ![st] = "empty"])
         /\ [codes EXCEPT ![st] = "empty"] \in [Stages -> {None, "empty"} \cup Codes]
<1>1. bo.plan \in Seq(Stages) /\ bo.at \in 1..Len(bo.plan) /\ st \in Stages
  BY DEF ChainFine, BootType
<1>4. \A i \in 1..Len(bo.plan) : bo.plan[i] \in Stages
  BY <1>1
<1>5. ChainFine(next, [codes EXCEPT ![st] = "empty"])
  <2>1. \A i \in 1..Len(next.plan) : [codes EXCEPT ![st] = "empty"][next.plan[i]] \in Codes
                   => <<next.plan[i], [codes EXCEPT ![st] = "empty"][next.plan[i]]>> \in next.ended
    BY <1>4 DEF ChainFine, Codes
  <2> HIDE DEF Codes
  <2> QED
    BY <1>1, <2>1 DEF ChainFine
<1> QED
  BY <1>1, <1>5

\* A code is written, a verdict is heard, a bound passes.
LEMMA ChainWrites ==
  ASSUME NEW bo \in BootType, NEW codes \in [Stages -> {None, "empty"} \cup Codes], ChainFine(bo, codes),
         bo.step = "echo", NEW st, st = bo.plan[bo.at],
         NEW next, next.plan = bo.plan, next.heard = bo.heard, next.ended = bo.ended,
         next.at = IF bo.rc = "ok" /\ bo.at < Len(bo.plan) THEN bo.at + 1 ELSE bo.at,
         next.step = IF bo.rc # "ok" THEN "ended" ELSE IF bo.at < Len(bo.plan) THEN "run" ELSE "agent"
  PROVE  /\ ChainFine(next, [codes EXCEPT ![st] = bo.rc])
         /\ [codes EXCEPT ![st] = bo.rc] \in [Stages -> {None, "empty"} \cup Codes]
<1> DEFINE code == [codes EXCEPT ![st] = bo.rc]
<1>1. /\ bo.plan \in Seq(Stages) /\ bo.at \in 1..Len(bo.plan) /\ st \in Stages /\ bo.rc \in Codes
      /\ <<st, bo.rc>> \in bo.ended /\ Len(bo.plan) \in Nat /\ bo.at \in Nat
  BY DEF ChainFine, BootType
<1>4. \A i \in 1..Len(bo.plan) : bo.plan[i] \in Stages
  BY <1>1
<1>5. \A i \in 1..Len(bo.plan) : code[bo.plan[i]] = IF bo.plan[i] = st THEN bo.rc ELSE codes[bo.plan[i]]
  BY <1>4
<1> HIDE DEF code
<1>6. \A i \in 1..Len(next.plan) : i < next.at \/ next.step = "agent" => <<next.plan[i], "ok">> \in next.ended
  <2> SUFFICES ASSUME NEW i \in 1..Len(bo.plan), i < next.at \/ next.step = "agent"
               PROVE  <<bo.plan[i], "ok">> \in bo.ended
    OBVIOUS
  <2>1. CASE bo.rc = "ok"
    <3>1. CASE i < bo.at
      BY <3>1 DEF ChainFine
    <3>2. CASE i = bo.at
      BY <1>1, <2>1, <3>2
    <3> QED
      BY <1>1, <2>1, <3>1, <3>2
  <2>2. CASE bo.rc # "ok"
    BY <1>1, <2>2 DEF ChainFine
  <2> QED
    BY <2>1, <2>2
<1>7. ChainFine(next, code)
  <2>1. next.step \in {"run", "echo"} => next.at \in 1..Len(next.plan)
    BY <1>1
  <2>2. next.step # "echo"
    OBVIOUS
  <2>3. \A i \in 1..Len(next.plan) : code[next.plan[i]] \in Codes => <<next.plan[i], code[next.plan[i]]>> \in next.ended
    BY <1>1, <1>5 DEF ChainFine
  <2>4. next.heard # <<>> => next.heard \in next.ended
    BY DEF ChainFine
  <2> QED
    BY <2>1, <2>2, <2>3, <2>4, <1>6 DEF ChainFine
<1> QED
  BY <1>1, <1>7 DEF code

LEMMA ChainHears ==
  ASSUME NEW bo \in BootType, NEW codes, ChainFine(bo, codes),
         bo.watch \in 1..Len(bo.plan), NEW st, st = bo.plan[bo.watch], codes[st] \in Codes,
         NEW next, next.plan = bo.plan, next.ended = bo.ended, next.at = bo.at, next.step = bo.step, next.rc = bo.rc,
         next.heard = <<st, codes[st]>>
  PROVE  st \in Stages /\ ChainFine(next, codes)
<1>1. st \in Stages /\ <<st, codes[st]>> \in bo.ended
  BY DEF ChainFine, BootType
<1> QED
  BY <1>1 DEF ChainFine

\* The wrapper shell is gone, and with it whatever it would have become.
LEMMA ChainStops ==
  ASSUME NEW bo \in BootType, NEW codes, ChainFine(bo, codes), NEW next, next.step \in {"off", "ended"},
         next.plan = bo.plan, next.ended = bo.ended, next.at = bo.at, next.rc = bo.rc, next.heard = bo.heard
  PROVE  ChainFine(next, codes)
  BY DEF ChainFine

LEMMA NothingThere ==
  /\ NoBoot \in BootType /\ EmptyDisk \in DiskType /\ NoWire \in WireType /\ NoGit \in GitType
  /\ \A cut, bx : ~bx.there => Local(NoBoot, EmptyDisk, NoWire, NoGit, bx, cut)
<1>1. NoBoot \in BootType
  BY DEF NoBoot, BootType, Codes, None
<1>2. EmptyDisk \in DiskType
  BY DEF EmptyDisk, DiskType
<1>3. NoWire \in WireType /\ NoGit \in GitType
  BY DEF NoWire, WireType, NoGit, GitType
<1>4. ASSUME NEW cut, NEW bx, ~bx.there PROVE Local(NoBoot, EmptyDisk, NoWire, NoGit, bx, cut)
  <2>1. ChainFine(NoBoot, EmptyDisk.rc)
    BY DEF ChainFine, NoBoot
  <2>2. CloneFine(NoBoot, NoGit, EmptyDisk.repo, cut)
    BY DEF CloneFine, NoBoot, NoGit, EmptyDisk, None
  <2>3. Quiet(NoBoot, NoWire, NoGit, bx)
    BY <1>4 DEF Quiet
  <2>4. SetupFine(NoBoot, NoWire, bx)
    BY <1>4 DEF SetupFine
  <2> QED
    BY <2>1, <2>2, <2>3, <2>4 DEF Local
<1> QED
  BY <1>1, <1>2, <1>3, <1>4

\* A clone cut off stays so.
LEMMA LocalKept ==
  ASSUME NEW bo, NEW di, NEW w, NEW g, NEW bx, NEW cut \in BOOLEAN, NEW cuts \in BOOLEAN,
         Local(bo, di, w, g, bx, cut), cut => cuts
  PROVE  Local(bo, di, w, g, bx, cuts)
  BY DEF Local, CloneFine

BootsGood == /\ boot \in [Boxes -> BootType] /\ disk \in [Boxes -> DiskType]
             /\ wire \in [Boxes -> WireType] /\ git \in [Boxes -> GitType]
             /\ Boots

\* One sandbox moves.
Only(b) == /\ boot' = [boot EXCEPT ![b] = boot'[b]] /\ disk' = [disk EXCEPT ![b] = disk'[b]]
           /\ wire' = [wire EXCEPT ![b] = wire'[b]] /\ git' = [git EXCEPT ![b] = git'[b]]
           /\ box' = [box EXCEPT ![b] = box'[b]] /\ UNCHANGED shape
Onward == /\ past'.cut \in BOOLEAN /\ (past.cut => past'.cut)
LocalAt(b) == Local(boot[b], disk[b], wire[b], git[b], box[b], past.cut)
TypesAt(b) == boot[b] \in BootType /\ disk[b] \in DiskType /\ wire[b] \in WireType /\ git[b] \in GitType

LEMMA BoxMoves ==
  ASSUME TypeOK, Boots, NEW b \in Boxes, Only(b), Onward, TypesAt(b)', LocalAt(b)'
  PROVE  BootsGood'
<1>1. /\ boot \in [Boxes -> BootType] /\ disk \in [Boxes -> DiskType] /\ past.cut \in BOOLEAN
      /\ wire \in [Boxes -> WireType] /\ git \in [Boxes -> GitType] /\ DOMAIN box = Boxes
  BY DEF TypeOK, ChainTypeOK, PastType
<1>2. ASSUME NEW c \in Boxes
      PROVE  LocalAt(c)'
  <2>1. CASE c = b
    BY <2>1
  <2>2. CASE c # b
    <3>1. /\ boot'[c] = boot[c] /\ disk'[c] = disk[c] /\ wire'[c] = wire[c] /\ git'[c] = git[c] /\ box'[c] = box[c]
      BY <1>1, <2>2 DEF Only
    <3>2. Local(boot[c], disk[c], wire[c], git[c], box[c], past.cut)
      BY DEF Boots
    <3>3. Local(boot'[c], disk'[c], wire'[c], git'[c], box'[c], past'.cut)
      BY <1>1, <3>1, <3>2, LocalKept DEF Onward
    <3> QED
      BY <3>3 DEF LocalAt, Local, SetupFine, Plan, Only
  <2> QED
    BY <2>1, <2>2
<1>3. Boots'
  BY <1>2 DEF Boots, LocalAt
<1>4. boot' \in [Boxes -> BootType] /\ disk' \in [Boxes -> DiskType]
  BY <1>1 DEF Only, TypesAt
<1>5. wire' \in [Boxes -> WireType] /\ git' \in [Boxes -> GitType]
  BY <1>1 DEF Only, TypesAt
<1> QED
  BY <1>3, <1>4, <1>5 DEF BootsGood

\* None does.
LEMMA NoBoxMoves ==
  ASSUME TypeOK, Boots, UNCHANGED <<boot, disk, wire, git, box, shape>>, Onward
  PROVE  BootsGood'
<1>1. /\ boot \in [Boxes -> BootType] /\ disk \in [Boxes -> DiskType] /\ past.cut \in BOOLEAN
      /\ wire \in [Boxes -> WireType] /\ git \in [Boxes -> GitType]
  BY DEF TypeOK, ChainTypeOK, PastType
<1>2. ASSUME NEW c \in Boxes
      PROVE  Local(boot[c], disk[c], wire[c], git[c], box[c], past'.cut)
  <2>1. Local(boot[c], disk[c], wire[c], git[c], box[c], past.cut)
    BY DEF Boots
  <2> QED
    BY <1>1, <2>1, LocalKept DEF Onward
<1>3. Boots'
  BY <1>2 DEF Boots, Local, SetupFine, Plan
<1> QED
  BY <1>1, <1>3 DEF BootsGood

\* A container that is there is a record of what it was made of.
Container == [there : {TRUE}, gen : Nat, base : Bases, done : Seq(Setup), held : Nat, script : Setup, env : EnvType]

LEMMA ContainerIs ==
  ASSUME NEW x \in BoxType
  PROVE  x = NoBox \/ x \in Container
  BY DEF BoxType, Container

LEMMA ContainerHas ==
  ASSUME NEW x \in BoxType
  PROVE  /\ x.there \in BOOLEAN /\ x.gen \in Nat /\ x.script \in Setup /\ x.env \in EnvType /\ x.done \in Seq(Setup)
         /\ x.there => x \in Container
<1>1. CASE x = NoBox
  BY <1>1 DEF NoBox, Setup, EnvType
<1>2. CASE x \in Container
  BY <1>2 DEF Container
<1> QED
  BY <1>1, <1>2, ContainerIs

\* What is known of one sandbox.
LEMMA Sandbox ==
  ASSUME TypeOK, NEW b \in Boxes
  PROVE  /\ boot[b] \in BootType /\ disk[b] \in DiskType /\ wire[b] \in WireType /\ git[b] \in GitType
         /\ boot = [boot EXCEPT ![b] = boot[b]] /\ disk = [disk EXCEPT ![b] = disk[b]]
         /\ wire = [wire EXCEPT ![b] = wire[b]] /\ git = [git EXCEPT ![b] = git[b]]
         /\ box = [box EXCEPT ![b] = box[b]] /\ past.cut \in BOOLEAN
         /\ boot \in [Boxes -> BootType] /\ disk \in [Boxes -> DiskType]
         /\ wire \in [Boxes -> WireType] /\ git \in [Boxes -> GitType] /\ TypesAt(b)
         /\ box[b].script \in Setup /\ box[b].there \in BOOLEAN /\ disk[b].rc \in [Stages -> {None, "empty"} \cup Codes]
<1>1. /\ boot \in [Boxes -> BootType] /\ disk \in [Boxes -> DiskType] /\ past \in PastType
      /\ wire \in [Boxes -> WireType] /\ git \in [Boxes -> GitType]
  BY DEF TypeOK, ChainTypeOK
<1>2. box \in [Boxes -> BoxType]
  BY DEF TypeOK
<1>3. box[b].script \in Setup /\ box[b].there \in BOOLEAN
  <2>1. box[b] \in BoxType
    BY <1>2
  <2> QED
    BY <2>1, ContainerHas
<1>4. boot[b] \in BootType /\ disk[b] \in DiskType /\ wire[b] \in WireType /\ git[b] \in GitType
  BY <1>1
<1>5. past.cut \in BOOLEAN /\ disk[b].rc \in [Stages -> {None, "empty"} \cup Codes]
  BY <1>1, <1>4 DEF PastType, DiskType
<1> QED
  BY <1>1, <1>2, <1>3, <1>4, <1>5 DEF TypesAt

--------------------
\* The steps of one sandbox.

LEMMA WriteRCGood ==
  ASSUME TypeOK, Boots, NEW b \in Boxes, WriteRC(b), UNCHANGED cacheVars
  PROVE  BootsGood'
<1> DEFINE old == boot[b]
           st == old.plan[old.at]
           at == IF old.rc = "ok" /\ old.at < Len(old.plan) THEN old.at + 1 ELSE old.at
           step == IF old.rc # "ok" THEN "ended" ELSE IF old.at < Len(old.plan) THEN "run" ELSE "agent"
           bo == [old EXCEPT !.step = step, !.at = at]
           codes == [disk[b].rc EXCEPT ![st] = old.rc]
           di == [disk[b] EXCEPT !.rc = codes]
<1>1. /\ boot' = [boot EXCEPT ![b] = bo] /\ disk' = [disk EXCEPT ![b] = di] /\ old.step = "echo" /\ old.pc = "up"
      /\ UNCHANGED <<wire, git, news, vault, left, past, box, shape>>
  BY Sandbox DEF WriteRC, GoesOn, Stage, cacheVars
<1>2. LocalAt(b)
  BY DEF Boots, LocalAt
<1>3. /\ TypesAt(b) /\ disk[b].rc \in [Stages -> {None, "empty"} \cup Codes] /\ past.cut \in BOOLEAN
      /\ boot \in [Boxes -> BootType] /\ disk \in [Boxes -> DiskType]
  BY Sandbox
<1>4. boot'[b] = bo /\ disk'[b] = di /\ Only(b) /\ Onward
  BY <1>1, <1>3, Sandbox DEF Only, Onward
<1>5. at \in Nat /\ step \in {"ended", "run", "agent"}
  BY <1>3 DEF TypesAt, BootType
<1> HIDE DEF at, step
<1>6. /\ bo \in BootType /\ bo.plan = old.plan /\ bo.ended = old.ended /\ bo.pc = "up" /\ bo.owes = old.owes
      /\ bo.heard = old.heard /\ bo.at = at /\ bo.step = step
  BY <1>1, <1>3, <1>5 DEF BootType, TypesAt
<1> HIDE DEF bo
<1>7. ChainFine(bo, codes) /\ codes \in [Stages -> {None, "empty"} \cup Codes]
  BY <1>1, <1>2, <1>3, <1>6, ChainWrites DEF LocalAt, Local, TypesAt, at, step
<1> HIDE DEF codes
<1>8. di \in DiskType /\ di.rc = codes /\ di.repo = disk[b].repo
  BY <1>3, <1>7 DEF TypesAt, DiskType
<1>9. TypesAt(b)'
  BY <1>1, <1>3, <1>4, <1>6, <1>8 DEF TypesAt
<1> HIDE DEF di
<1>10. CloneFine(bo, git[b], di.repo, past.cut)
  BY <1>1, <1>2, <1>6, <1>8 DEF LocalAt, Local, CloneFine
<1>11. box[b].there
  BY <1>1, <1>2 DEF LocalAt, Local, Quiet, NoBoot
<1>12. LocalAt(b)'
  <2>1. Local(bo, di, wire[b], git[b], box[b], past.cut)
    BY <1>2, <1>6, <1>7, <1>8, <1>10, <1>11 DEF LocalAt, Local, Quiet, SetupFine, Tells
  <2> QED
    BY <1>1, <1>4, <2>1 DEF LocalAt, Local, SetupFine, Plan
<1> QED
  BY <1>4, <1>9, <1>12, BoxMoves

LEMMA ShellMoves ==
  ASSUME TypeOK, NEW b \in Boxes, NEW rc, NEW tail, ShellHas(b, rc, tail)
  PROVE  /\ boot' = [boot EXCEPT ![b] = [boot[b] EXCEPT !.step = "echo", !.rc = rc, !.tail = tail,
                                                       !.ended = boot[b].ended \cup {<<Stage(b), rc>>}]]
         /\ boot' = [boot EXCEPT ![b] = boot'[b]]
<1>1. boot \in [Boxes -> BootType]
  BY Sandbox
<1>2. boot' = [boot EXCEPT ![b] = [boot[b] EXCEPT !.step = "echo", !.rc = rc, !.tail = tail,
                                                  !.ended = boot[b].ended \cup {<<Stage(b), rc>>}]]
  BY <1>1 DEF ShellHas
<1>3. boot' = [boot EXCEPT ![b] = boot'[b]]
  BY <1>1, <1>2
<1> QED
  BY <1>2, <1>3

\* A stage ends.
LEMMA StageEndsGood ==
  ASSUME TypeOK, Boots, NEW b \in Boxes, NEW rc \in Codes, NEW tail \in SUBSET {"auth", "proxy"},
         NEW repo \in {None, "base", "branch", "partial"},
         boot[b].pc = "up", boot[b].step = "run", ShellHas(b, rc, tail),
         disk'[b] = [rc |-> [disk[b].rc EXCEPT ![Stage(b)] = "empty"], repo |-> repo],
         Only(b), Onward, git'[b] \in GitType, wire'[b] \in WireType,
         Tells(boot[b], wire'[b]) => Tells(boot[b], wire[b]),
         git'[b].by # "clone" /\ git'[b].pc # "cloned",
         ~past'.cut => /\ repo \in {None, "branch"}
                       /\ <<"clone", "ok">> \in boot[b].ended \/ (Stage(b) = "clone" /\ rc = "ok") => repo = "branch",
         box'[b].there = box[b].there, box'[b].script = box[b].script, Elems(box[b].done) \subseteq Elems(box'[b].done),
         Stage(b) = "setup" /\ rc = "ok" /\ box[b].there => Ran(box'[b])
  PROVE  BootsGood'
<1> DEFINE old == boot[b]
           st == Stage(b)
           all == old.ended \cup {<<st, rc>>}
           bo == [old EXCEPT !.step = "echo", !.rc = rc, !.tail = tail, !.ended = all]
           codes == [disk[b].rc EXCEPT ![st] = "empty"]
           di == [rc |-> codes, repo |-> repo]
<1>0. st = old.plan[old.at]
  BY DEF Stage
<1>1. boot' = [boot EXCEPT ![b] = bo] /\ disk'[b] = di
  <2>1. boot' = [boot EXCEPT ![b] = [boot[b] EXCEPT !.step = "echo", !.rc = rc, !.tail = tail,
                                                    !.ended = boot[b].ended \cup {<<Stage(b), rc>>}]]
    BY ShellMoves
  <2> QED
    BY <2>1
<1>2. LocalAt(b)
  BY DEF Boots, LocalAt
<1>3. /\ TypesAt(b) /\ disk[b].rc \in [Stages -> {None, "empty"} \cup Codes] /\ past.cut \in BOOLEAN
      /\ boot \in [Boxes -> BootType] /\ disk \in [Boxes -> DiskType]
  BY Sandbox
<1>4. boot'[b] = bo /\ disk'[b] = di
  BY <1>1, <1>3
<1>5. st \in Stages /\ all \in SUBSET (Stages \X Codes)
  <2>1. st \in Stages /\ old.ended \in SUBSET (Stages \X Codes)
    BY <1>0, <1>2, <1>3 DEF TypesAt, BootType, LocalAt, Local, ChainFine
  <2>2. <<st, rc>> \in Stages \X Codes
    BY <2>1
  <2> QED
    BY <2>1, <2>2
<1> HIDE DEF st, all
<1>6. /\ bo \in BootType /\ bo.plan = old.plan /\ bo.ended = all /\ bo.pc = "up" /\ bo.owes = old.owes
      /\ bo.heard = old.heard /\ bo.at = old.at /\ bo.step = "echo" /\ bo.rc = rc
  BY <1>3, <1>5 DEF BootType, TypesAt
<1> HIDE DEF bo
<1>7. ChainFine(bo, codes) /\ codes \in [Stages -> {None, "empty"} \cup Codes]
  BY <1>0, <1>2, <1>3, <1>6, ChainEnds DEF LocalAt, Local, TypesAt, all
<1> HIDE DEF codes
<1>8. di \in DiskType /\ di.rc = codes /\ di.repo = repo
  BY <1>3, <1>7 DEF TypesAt, DiskType
<1> HIDE DEF di
<1>9. TypesAt(b)'
  BY <1>4, <1>6, <1>8 DEF TypesAt
<1>10. CloneFine(bo, git'[b], di.repo, past'.cut)
  BY <1>0, <1>6, <1>8 DEF CloneFine, all, st
<1>11. box[b].there
  BY <1>2 DEF LocalAt, Local, Quiet, NoBoot
<1>12. SetupFine(bo, wire'[b], box'[b])
  BY <1>0, <1>2, <1>6, <1>11 DEF LocalAt, Local, SetupFine, Tells, Ran, all, st
<1>13. LocalAt(b)'
  <2>1. Local(bo, di, wire'[b], git'[b], box'[b], past'.cut)
    BY <1>6, <1>7, <1>8, <1>10, <1>11, <1>12 DEF Local, Quiet
  <2> QED
    BY <1>4, <2>1 DEF LocalAt, Local, SetupFine, Plan, Only
<1> QED
  BY <1>9, <1>13, BoxMoves

\* Only the git of a sandbox moves, and what it leaves.
LEMMA GitGood ==
  ASSUME TypeOK, Boots, NEW b \in Boxes, boot[b].pc = "up", UNCHANGED <<boot, box>>, Only(b), Onward,
         wire'[b] \in WireType, Tells(boot[b], wire'[b]) => Tells(boot[b], wire[b]),
         git'[b] \in GitType, disk'[b] \in DiskType, disk'[b].rc = disk[b].rc,
         CloneFine(boot[b], git'[b], disk'[b].repo, past'.cut)
  PROVE  BootsGood'
<1>1. LocalAt(b)
  BY DEF Boots, LocalAt
<1>2. TypesAt(b)'
  BY Sandbox DEF TypesAt
<1>3. box[b].there
  BY <1>1 DEF LocalAt, Local, Quiet, NoBoot
<1>4. Local(boot[b], disk'[b], wire'[b], git'[b], box[b], past'.cut)
  BY <1>1, <1>3 DEF LocalAt, Local, Quiet, SetupFine, Onward
<1>5. LocalAt(b)'
  BY <1>4 DEF LocalAt, Local, SetupFine, Plan, Only
<1> QED
  BY <1>2, <1>5, BoxMoves

\* What a stage that ends leaves on the volume.
LEMMA StageDisk ==
  ASSUME TypeOK, NEW b \in Boxes, NEW st, disk' = [disk EXCEPT ![b].rc[st] = "empty"]
  PROVE  /\ disk'[b] = [rc |-> [disk[b].rc EXCEPT ![st] = "empty"], repo |-> disk[b].repo]
         /\ disk' = [disk EXCEPT ![b] = disk'[b]] /\ disk[b].repo \in {None, "base", "branch", "partial"}
<1>1. disk \in [Boxes -> DiskType] /\ disk[b] \in DiskType
  BY Sandbox
<1> DEFINE old == disk[b]
<1>2. disk'[b] = [old EXCEPT !.rc = [old.rc EXCEPT ![st] = "empty"]] /\ disk' = [disk EXCEPT ![b] = disk'[b]]
  BY <1>1
<1>3. old \in DiskType
  BY <1>1
<1> HIDE DEF old
<1>4. [old EXCEPT !.rc = [old.rc EXCEPT ![st] = "empty"]] = [rc |-> [old.rc EXCEPT ![st] = "empty"], repo |-> old.repo]
      /\ old.repo \in {None, "base", "branch", "partial"}
  BY <1>3 DEF DiskType
<1> QED
  BY <1>2, <1>4 DEF old

\* A stage ends over the repository there is.
LEMMA StageGood ==
  ASSUME TypeOK, Boots, NEW b \in Boxes, NEW rc \in Codes, NEW tail \in SUBSET {"auth", "proxy"},
         boot[b].pc = "up", boot[b].step = "run", StageEnds(b, rc, tail),
         wire' = [wire EXCEPT ![b] = wire'[b]], git' = [git EXCEPT ![b] = git'[b]], box' = [box EXCEPT ![b] = box'[b]],
         UNCHANGED shape, Onward, git'[b] \in GitType, wire'[b] \in WireType,
         Tells(boot[b], wire'[b]) => Tells(boot[b], wire[b]),
         git'[b].by # "clone" /\ git'[b].pc # "cloned", git[b].pc # "cloned" \/ past'.cut,
         Stage(b) = "clone" /\ rc = "ok" => disk[b].repo # None,
         box'[b].there = box[b].there, box'[b].script = box[b].script, Elems(box[b].done) \subseteq Elems(box'[b].done),
         Stage(b) = "setup" /\ rc = "ok" /\ box[b].there => Ran(box'[b])
  PROVE  BootsGood'
<1>1. /\ disk'[b] = [rc |-> [disk[b].rc EXCEPT ![Stage(b)] = "empty"], repo |-> disk[b].repo]
      /\ disk' = [disk EXCEPT ![b] = disk'[b]] /\ disk[b].repo \in {None, "base", "branch", "partial"}
  BY StageDisk DEF StageEnds
<1>2. ShellHas(b, rc, tail) /\ Only(b)
  BY <1>1, ShellMoves DEF StageEnds, Only
<1>3. ~past'.cut => /\ disk[b].repo \in {None, "branch"}
                    /\ <<"clone", "ok">> \in boot[b].ended \/ (Stage(b) = "clone" /\ rc = "ok") => disk[b].repo = "branch"
  <2>1. CloneFine(boot[b], git[b], disk[b].repo, past.cut)
    BY DEF Boots, Local
  <2> QED
    BY <2>1 DEF CloneFine, Onward
<1> QED
  BY <1>1, <1>2, <1>3, StageEndsGood

\* What holds of a sandbox that does not move.
LEMMA Undisturbed ==
  ASSUME TypeOK, Boots, NEW b \in Boxes
  PROVE  /\ LocalAt(b) /\ TypesAt(b) /\ past.cut \in BOOLEAN
         /\ UNCHANGED past => Onward
         /\ UNCHANGED wire => /\ wire' = [wire EXCEPT ![b] = wire'[b]] /\ wire'[b] \in WireType
                              /\ Tells(boot[b], wire'[b]) => Tells(boot[b], wire[b])
         /\ UNCHANGED git => git' = [git EXCEPT ![b] = git'[b]] /\ git'[b] \in GitType
         /\ UNCHANGED box => box' = [box EXCEPT ![b] = box'[b]]
         /\ UNCHANGED boot => boot' = [boot EXCEPT ![b] = boot'[b]]
         /\ UNCHANGED disk => disk' = [disk EXCEPT ![b] = disk'[b]]
<1>1. LocalAt(b)
  BY DEF Boots, LocalAt
<1> QED
  BY <1>1, Sandbox DEF LocalAt, Local, TypesAt, Onward

LEMMA SecretsFailGood ==
  ASSUME TypeOK, Boots, NEW b \in Boxes, SecretsFail(b), UNCHANGED cacheVars
  PROVE  BootsGood'
<1>1. /\ boot[b].pc = "up" /\ boot[b].step = "run" /\ Stage(b) = "secrets" /\ StageEnds(b, "bad", {})
      /\ UNCHANGED <<wire, git, past, box, shape>>
  BY DEF SecretsFail, Running, cacheVars
<1>2. git[b].by # "clone" /\ git[b].pc # "cloned"
  BY <1>1, Undisturbed DEF LocalAt, Local, CloneFine, Stage
<1> QED
  BY <1>1, <1>2, Undisturbed, StageGood DEF Codes

\* The end of a stage of its own, which is neither the clone nor the setup.
LEMMA ScriptGood ==
  ASSUME TypeOK, Boots, NEW b \in Boxes, boot[b].pc = "up", boot[b].step = "run", Stage(b) \in {"agents", "init"},
         StageEnds(b, "ok", {}) \/ StageEnds(b, "bad", {}), UNCHANGED <<wire, git, past, box, shape>>
  PROVE  BootsGood'
<1>1. git[b].by # "clone" /\ git[b].pc # "cloned"
  BY Undisturbed DEF LocalAt, Local, CloneFine, Stage
<1>2. CASE StageEnds(b, "ok", {})
  BY <1>1, <1>2, Undisturbed, StageGood DEF Codes
<1>3. CASE StageEnds(b, "bad", {})
  BY <1>1, <1>3, Undisturbed, StageGood DEF Codes
<1> QED
  BY <1>2, <1>3

LEMMA ScriptEndsGood ==
  ASSUME TypeOK, Boots, NEW b \in Boxes, ScriptEnds(b) \/ AgentsWaited(b), UNCHANGED cacheVars
  PROVE  BootsGood'
<1>1. /\ boot[b].pc = "up" /\ boot[b].step = "run" /\ Stage(b) \in {"agents", "init"}
      /\ StageEnds(b, "ok", {}) \/ StageEnds(b, "bad", {})
      /\ UNCHANGED <<wire, git, past, box, shape>>
  BY DEF ScriptEnds, AgentsWaited, Running, cacheVars
<1> QED
  BY <1>1, ScriptGood

LEMMA SkipCloneGood ==
  ASSUME TypeOK, Boots, NEW b \in Boxes, SkipClone(b), UNCHANGED cacheVars
  PROVE  BootsGood'
<1>1. /\ boot[b].pc = "up" /\ boot[b].step = "run" /\ Stage(b) = "clone" /\ StageEnds(b, "ok", {})
      /\ git[b].pc = "idle" /\ disk[b].repo # None
      /\ UNCHANGED <<wire, git, past, box, shape>>
  BY DEF SkipClone, Running, cacheVars
<1>2. git[b].by # "clone" /\ git[b].pc # "cloned"
  BY <1>1, Undisturbed DEF LocalAt, Local, CloneFine, Stage
<1> QED
  BY <1>1, <1>2, Undisturbed, StageGood DEF Codes

LEMMA AskCredentialGood ==
  ASSUME TypeOK, Boots, NEW b \in Boxes, AskCredential(b), UNCHANGED cacheVars
  PROVE  BootsGood'
<1>1. UNCHANGED <<boot, disk, wire, vault, past, box, shape>> /\ git[b].pc = "idle"
  BY DEF AskCredential, cacheVars
<1>2. \/ /\ git' = [git EXCEPT ![b] = [pc |-> "asked", token |-> 0, by |-> "clone"]]
         /\ boot[b].pc = "up" /\ boot[b].step = "run" /\ Stage(b) = "clone" /\ disk[b].repo = None
      \/ /\ git' = [git EXCEPT ![b] = [pc |-> "asked", token |-> 0, by |-> "agent"]]
         /\ boot[b].pc = "up"
  BY DEF AskCredential, Running, AgentUp
<1>3. Only(b) /\ git'[b] \in GitType
  BY <1>1, <1>2, Sandbox DEF Only, GitType
<1>4. CloneFine(boot[b], git'[b], disk[b].repo, past.cut)
  BY <1>1, <1>2, Undisturbed, Sandbox DEF LocalAt, Local, CloneFine, Stage
<1> QED
  BY <1>1, <1>2, <1>3, <1>4, Undisturbed, GitGood DEF TypesAt

LEMMA MintedGood ==
  ASSUME TypeOK, Boots, NEW b \in Boxes, Minted(b), UNCHANGED cacheVars
  PROVE  BootsGood'
<1>1. /\ UNCHANGED <<boot, disk, wire, vault, past, box, shape>> /\ git[b].pc = "asked" /\ boot[b].pc = "up"
      /\ git' = [git EXCEPT ![b].pc = "has", ![b].token = vault.token]
  BY DEF Minted, Connected, cacheVars
<1>2. vault.token \in Nat
  BY DEF TypeOK, ChainTypeOK, VaultType
<1> DEFINE g == [git[b] EXCEPT !.pc = "has", !.token = vault.token]
<1>6. git' = [git EXCEPT ![b] = g]
  BY <1>1
<1>7. git'[b] = g
  BY <1>6, Sandbox
<1>8. git' = [git EXCEPT ![b] = git'[b]]
  BY <1>6, <1>7
<1>3. git'[b] \in GitType /\ git'[b].by = git[b].by /\ git'[b].pc = "has"
  BY <1>2, <1>7, Undisturbed DEF TypesAt, GitType
<1>4. Only(b)
  BY <1>1, <1>8, Undisturbed DEF Only
<1>5. CloneFine(boot[b], git'[b], disk[b].repo, past.cut)
  BY <1>1, <1>3, Undisturbed DEF LocalAt, Local, CloneFine
<1> QED
  BY <1>1, <1>3, <1>4, <1>5, Undisturbed, GitGood DEF TypesAt

--------------------
\* The queue.

LEMMA ElemsTail ==
  ASSUME NEW S, NEW q \in Seq(S), q # <<>>
  PROVE  Tail(q) \in Seq(S) /\ Elems(Tail(q)) \subseteq Elems(q) /\ Head(q) \in Elems(q)
<1>1. Tail(q) \in Seq(S) /\ Len(Tail(q)) = Len(q) - 1 /\ Len(q) \in Nat /\ Len(q) # 0
      /\ \A i \in 1..Len(q) - 1 : Tail(q)[i] = q[i + 1]
  OBVIOUS
<1>2. ASSUME NEW i \in 1..Len(Tail(q)) PROVE Tail(q)[i] \in Elems(q)
  <2>1. i + 1 \in 1..Len(q) /\ Tail(q)[i] = q[i + 1]
    BY <1>1
  <2> QED
    BY <2>1 DEF Elems
<1>3. Head(q) = q[1] /\ 1 \in 1..Len(q)
  BY <1>1
<1> QED
  BY <1>1, <1>2, <1>3 DEF Elems

LEMMA ElemsAppend ==
  ASSUME NEW S, NEW q \in Seq(S), NEW p \in S
  PROVE  /\ Append(q, p) \in Seq(S) /\ Append(q, p) # <<>> /\ Len(Append(q, p)) = Len(q) + 1
         /\ Elems(Append(q, p)) = Elems(q) \cup {p}
<1> DEFINE all == Append(q, p)
<1>1. /\ all \in Seq(S) /\ Len(all) = Len(q) + 1 /\ Len(q) \in Nat /\ all # <<>>
      /\ \A i \in 1..Len(q) + 1 : all[i] = IF i <= Len(q) THEN q[i] ELSE p
  OBVIOUS
<1> HIDE DEF all
<1>2. ASSUME NEW i \in 1..Len(all) PROVE all[i] \in Elems(q) \cup {p}
  BY <1>1 DEF Elems
<1>3. ASSUME NEW i \in 1..Len(q) PROVE q[i] \in Elems(all)
  <2>1. i \in 1..Len(all) /\ all[i] = q[i]
    BY <1>1
  <2> QED
    BY <2>1 DEF Elems
<1>4. p \in Elems(all)
  <2>1. Len(all) \in 1..Len(all) /\ all[Len(all)] = p
    BY <1>1
  <2> QED
    BY <2>1 DEF Elems
<1>5. Elems(all) \subseteq Elems(q) \cup {p}
  BY <1>2 DEF Elems
<1>6. Elems(q) \subseteq Elems(all)
  BY <1>3 DEF Elems
<1> QED
  BY <1>1, <1>4, <1>5, <1>6 DEF all

LEMMA ElemsAppendPending ==
  ASSUME NEW S, NEW q \in Seq(S), NEW p \in S
  PROVE  AppendPending(q, p) \in Seq(S) /\ Elems(AppendPending(q, p)) \subseteq Elems(q) \cup {p}
<1> DEFINE all == Append(q, p)
<1>1. all \in Seq(S) /\ all # <<>> /\ Elems(all) = Elems(q) \cup {p}
  BY ElemsAppend
<1>2. AppendPending(q, p) = IF Len(q) < PendingCap THEN all ELSE Tail(all)
  BY DEF AppendPending
<1> HIDE DEF all
<1>3. Tail(all) \in Seq(S) /\ Elems(Tail(all)) \subseteq Elems(all)
  BY <1>1, ElemsTail
<1> QED
  BY <1>1, <1>2, <1>3

\* the channel takes a payload, or loses it
LEMMA OfferIs ==
  ASSUME TypeOK, NEW b \in Boxes, NEW kind \in Kinds, Offer(b, kind)
  PROVE  /\ wire' = [wire EXCEPT ![b] = wire'[b]] /\ wire'[b] \in WireType
         /\ wire'[b].pending = wire[b].pending /\ Elems(wire'[b].events) \subseteq Elems(wire[b].events) \cup {kind}
<1> DEFINE q == wire[b].events
           r == IF Full(b) THEN q ELSE Append(q, kind)
           w == [wire[b] EXCEPT !.events = r]
<1>1. wire[b] \in WireType /\ wire \in [Boxes -> WireType]
  BY Sandbox
<1>2. q \in Seq(Kinds)
  BY <1>1 DEF WireType
<1>3. wire' = [wire EXCEPT ![b] = w]
  BY <1>1 DEF Offer
<1>4. wire'[b] = w /\ wire' = [wire EXCEPT ![b] = wire'[b]]
  BY <1>1, <1>3
<1>5. r \in Seq(Kinds) /\ Elems(r) \subseteq Elems(q) \cup {kind}
  <2> HIDE DEF q
  <2> QED
    BY <1>2, ElemsAppend
<1> HIDE DEF r
<1>6. w \in WireType /\ w.events = r /\ w.pending = wire[b].pending
  BY <1>1, <1>5 DEF WireType
<1> QED
  BY <1>4, <1>5, <1>6

\* A git that fails takes the clone stage with it.
LEMMA GitFailsGood ==
  ASSUME TypeOK, Boots, NEW b \in Boxes, NEW lines \in SUBSET {"auth", "proxy"}, GitFails(b, lines),
         boot[b].pc = "up", git[b].pc # "cloned", UNCHANGED <<box, shape>>, Onward,
         wire' = [wire EXCEPT ![b] = wire'[b]], wire'[b] \in WireType,
         Tells(boot[b], wire'[b]) => Tells(boot[b], wire[b])
  PROVE  BootsGood'
<1>1. git' = [git EXCEPT ![b] = NoGit]
  BY DEF GitFails
<1>2. git'[b] = NoGit /\ git' = [git EXCEPT ![b] = git'[b]]
  BY <1>1, Sandbox
<1>3. git'[b] \in GitType /\ git'[b].by # "clone" /\ git'[b].pc # "cloned"
  BY <1>2, NothingThere DEF NoGit, None
<1>4. CASE git[b].by = "clone"
  <2>1. PICK before \in SUBSET {"auth"} : StageEnds(b, "bad", lines \cup before)
    BY <1>4 DEF GitFails
  <2>2. boot[b].step = "run" /\ Stage(b) = "clone"
    BY <1>4, Undisturbed DEF LocalAt, Local, CloneFine, Stage
  <2> DEFINE tail == lines \cup before
  <2>3. tail \in SUBSET {"auth", "proxy"} /\ StageEnds(b, "bad", tail)
    BY <2>1
  <2> HIDE DEF tail
  <2> QED
    BY <1>2, <1>3, <2>3, <2>2, Undisturbed, StageGood DEF Codes
<1>5. CASE git[b].by # "clone"
  <2>1. UNCHANGED <<boot, disk>>
    BY <1>5 DEF GitFails
  <2>2. CloneFine(boot[b], git'[b], disk[b].repo, past'.cut)
    BY <1>3, Undisturbed DEF LocalAt, Local, CloneFine, Onward
  <2>3. Only(b)
    BY <1>2, <2>1, Undisturbed DEF Only
  <2>4. disk'[b] \in DiskType /\ disk'[b].rc = disk[b].rc /\ disk'[b].repo = disk[b].repo
    BY <2>1, Undisturbed DEF TypesAt
  <2> QED
    BY <1>3, <2>1, <2>2, <2>3, <2>4, GitGood
<1> QED
  BY <1>4, <1>5

LEMMA MintRefusedGood ==
  ASSUME TypeOK, Boots, NEW b \in Boxes, MintRefused(b), UNCHANGED cacheVars
  PROVE  BootsGood'
<1>1. /\ UNCHANGED <<wire, past, box, shape>> /\ git[b].pc = "asked" /\ boot[b].pc = "up" /\ GitFails(b, {})
  BY DEF MintRefused, cacheVars
<1> QED
  BY <1>1, Undisturbed, GitFailsGood

LEMMA ProxyRefusesGood ==
  ASSUME TypeOK, Boots, NEW b \in Boxes, ProxyRefuses(b), UNCHANGED cacheVars
  PROVE  BootsGood'
<1>1. /\ UNCHANGED <<wire, past, box, shape>> /\ git[b].pc = "has" /\ boot[b].pc = "up" /\ GitFails(b, {"proxy"})
  BY DEF ProxyRefuses, cacheVars
<1> QED
  BY <1>1, Undisturbed, GitFailsGood

\* A report of a rejected credential says nothing of a setup.
LEMMA Rejected ==
  ASSUME TypeOK, NEW b \in Boxes, Offer(b, "credential_rejected")
  PROVE  /\ wire' = [wire EXCEPT ![b] = wire'[b]] /\ wire'[b] \in WireType
         /\ Tells(boot[b], wire'[b]) => Tells(boot[b], wire[b])
<1>1. "credential_rejected" \in Kinds
  BY DEF Kinds
<1> QED
  BY <1>1, OfferIs DEF Tells

LEMMA GitHubRefusesGood ==
  ASSUME TypeOK, Boots, NEW b \in Boxes, GitHubRefuses(b), UNCHANGED cacheVars
  PROVE  BootsGood'
<1>1. /\ UNCHANGED <<past, box, shape>> /\ git[b].pc = "has" /\ boot[b].pc = "up" /\ GitFails(b, {"auth"})
      /\ UNCHANGED wire \/ Offer(b, "credential_rejected")
  BY DEF GitHubRefuses, cacheVars
<1>2. CASE UNCHANGED wire
  BY <1>1, <1>2, Undisturbed, GitFailsGood
<1>3. CASE Offer(b, "credential_rejected")
  BY <1>1, <1>3, Undisturbed, Rejected, GitFailsGood
<1> QED
  BY <1>1, <1>2, <1>3

LEMMA AccuseGood ==
  ASSUME TypeOK, Boots, NEW b \in Boxes, Accuse(b), UNCHANGED cacheVars
  PROVE  BootsGood'
<1>1. /\ UNCHANGED <<boot, disk, git, past, box, shape>> /\ boot[b].pc = "up" /\ Offer(b, "credential_rejected")
  BY DEF Accuse, cacheVars
<1>2. Only(b)
  BY <1>1, Rejected, Undisturbed DEF Only
<1> QED
  BY <1>1, <1>2, Rejected, Undisturbed, Sandbox, GitGood DEF LocalAt, Local

LEMMA GitSucceedsGood ==
  ASSUME TypeOK, Boots, NEW b \in Boxes, GitSucceeds(b), UNCHANGED cacheVars
  PROVE  BootsGood'
<1>1. /\ UNCHANGED <<boot, wire, vault, past, box, shape>> /\ git[b].pc = "has" /\ boot[b].pc = "up"
      /\ \/ /\ git[b].by = "clone"
            /\ disk' = [disk EXCEPT ![b].repo = "base"] /\ git' = [git EXCEPT ![b].pc = "cloned"]
         \/ git[b].by # "clone" /\ git' = [git EXCEPT ![b] = NoGit] /\ UNCHANGED disk
  BY DEF GitSucceeds, cacheVars
<1>2. CloneFine(boot[b], git[b], disk[b].repo, past.cut)
  BY Undisturbed DEF LocalAt, Local
<1>3. CASE git[b].by = "clone"
  <2> DEFINE g == [git[b] EXCEPT !.pc = "cloned"]
             di == [disk[b] EXCEPT !.repo = "base"]
  <2>1. git' = [git EXCEPT ![b] = g] /\ disk' = [disk EXCEPT ![b] = di]
    BY <1>1, <1>3
  <2>2. git'[b] = g /\ disk'[b] = di
    BY <2>1, Sandbox
  <2>3. Only(b)
    BY <1>1, <2>1, <2>2, Undisturbed DEF Only
  <2>4. g \in GitType /\ g.by = git[b].by /\ g.pc = "cloned"
    BY Sandbox DEF GitType
  <2>5. di \in DiskType /\ di.rc = disk[b].rc /\ di.repo = "base"
    BY Sandbox DEF DiskType
  <2> HIDE DEF g, di
  <2>6. CloneFine(boot[b], g, di.repo, past'.cut)
    BY <1>1, <1>2, <1>3, <2>4, <2>5 DEF CloneFine, None
  <2> QED
    BY <1>1, <2>2, <2>3, <2>4, <2>5, <2>6, Undisturbed, GitGood
<1>4. CASE git[b].by # "clone"
  <2>1. git' = [git EXCEPT ![b] = NoGit] /\ UNCHANGED disk
    BY <1>1, <1>4
  <2>2. git'[b] = NoGit /\ git' = [git EXCEPT ![b] = git'[b]]
    BY <2>1, Sandbox
  <2>3. git'[b] \in GitType /\ git'[b].by # "clone" /\ git'[b].pc # "cloned"
    BY <2>2, NothingThere DEF NoGit, None
  <2>4. CloneFine(boot[b], git'[b], disk'[b].repo, past'.cut)
    BY <1>1, <1>2, <2>1, <2>3 DEF CloneFine
  <2>5. Only(b)
    BY <1>1, <2>1, <2>2, Undisturbed DEF Only
  <2>6. disk'[b] \in DiskType /\ disk'[b].rc = disk[b].rc
    BY <2>1, Sandbox
  <2> QED
    BY <1>1, <2>3, <2>4, <2>5, <2>6, Undisturbed, GitGood
<1> QED
  BY <1>3, <1>4

LEMMA CheckOutGood ==
  ASSUME TypeOK, Boots, NEW b \in Boxes, CheckOut(b), UNCHANGED cacheVars
  PROVE  BootsGood'
<1>1. /\ UNCHANGED <<wire, vault, box, shape>> /\ git[b].pc = "cloned" /\ boot[b].pc = "up"
      /\ git' = [git EXCEPT ![b] = NoGit]
      /\ \/ /\ ShellHas(b, "ok", {}) /\ UNCHANGED past
            /\ disk' = [disk EXCEPT ![b].repo = "branch", ![b].rc["clone"] = "empty"]
         \/ StageEnds(b, "bad", {}) /\ past' = [past EXCEPT !.cut = TRUE]
  BY DEF CheckOut, cacheVars
<1>2. git'[b] = NoGit /\ git' = [git EXCEPT ![b] = git'[b]]
  BY <1>1, Sandbox
<1>3. git'[b] \in GitType /\ git'[b].by # "clone" /\ git'[b].pc # "cloned"
  BY <1>2, NothingThere DEF NoGit, None
<1>4. boot[b].step = "run" /\ Stage(b) = "clone"
  BY <1>1, Undisturbed DEF LocalAt, Local, CloneFine, Stage
<1>5. CASE /\ ShellHas(b, "ok", {}) /\ UNCHANGED past
           /\ disk' = [disk EXCEPT ![b].repo = "branch", ![b].rc["clone"] = "empty"]
  <2> DEFINE di == [rc |-> [disk[b].rc EXCEPT !["clone"] = "empty"], repo |-> "branch"]
  <2>1. disk' = [disk EXCEPT ![b] = di]
    <3>1. disk' = [disk EXCEPT ![b] = [disk[b] EXCEPT !.repo = "branch", !.rc = [disk[b].rc EXCEPT !["clone"] = "empty"]]]
      BY <1>5
    <3> DEFINE old == disk[b]
               codes == [old.rc EXCEPT !["clone"] = "empty"]
    <3>2. old \in DiskType
      BY Sandbox
    <3> HIDE DEF old, codes
    <3>3. [old EXCEPT !.repo = "branch", !.rc = codes] = [rc |-> codes, repo |-> "branch"]
      <4>1. [old EXCEPT !.repo = "branch"] = [rc |-> old.rc, repo |-> "branch"]
        BY <3>2 DEF DiskType
      <4>2. [[rc |-> old.rc, repo |-> "branch"] EXCEPT !.rc = codes] = [rc |-> codes, repo |-> "branch"]
        OBVIOUS
      <4> QED
        BY <4>1, <4>2
    <3> QED
      BY <3>1, <3>3 DEF old, codes
  <2>2. disk'[b] = di /\ disk' = [disk EXCEPT ![b] = disk'[b]]
    BY <2>1, Sandbox
  <2> DEFINE repo == "branch"
  <2>3. repo \in {None, "base", "branch", "partial"} /\ repo = "branch" /\ "ok" \in Codes
    BY DEF Codes
  <2>4. disk'[b] = [rc |-> [disk[b].rc EXCEPT ![Stage(b)] = "empty"], repo |-> repo]
    BY <1>4, <2>2
  <2>5. Only(b)
    BY <1>1, <1>2, <1>5, <2>2, ShellMoves, Undisturbed DEF Only
  <2>6. Onward
    BY <1>1, <1>5, Undisturbed
  <2> HIDE DEF repo
  <2> QED
    BY <1>1, <1>3, <1>4, <1>5, <2>3, <2>4, <2>5, <2>6, Undisturbed, StageEndsGood
<1>6. CASE StageEnds(b, "bad", {}) /\ past' = [past EXCEPT !.cut = TRUE]
  <2>1. past'.cut = TRUE
    BY <1>6 DEF TypeOK, ChainTypeOK, PastType
  <2>2. Onward
    BY <1>1, <2>1 DEF Onward
  <2> QED
    BY <1>1, <1>2, <1>3, <1>4, <1>6, <2>1, <2>2, Undisturbed, StageGood DEF Codes
<1> QED
  BY <1>1, <1>5, <1>6

\* Only the connection of a sandbox moves.
LEMMA WireGood ==
  ASSUME TypeOK, Boots, NEW b \in Boxes, boot[b].pc = "up", UNCHANGED <<boot, disk, git, box, shape>>, Onward,
         wire' = [wire EXCEPT ![b] = wire'[b]], wire'[b] \in WireType,
         Elems(wire'[b].events) \cup Elems(wire'[b].pending) \subseteq Elems(wire[b].events) \cup Elems(wire[b].pending)
  PROVE  BootsGood'
<1>1. Tells(boot[b], wire'[b]) => Tells(boot[b], wire[b])
  BY DEF Tells
<1>2. CloneFine(boot[b], git'[b], disk'[b].repo, past'.cut)
  BY Undisturbed DEF LocalAt, Local, CloneFine, Onward
<1>3. Only(b)
  BY Undisturbed DEF Only
<1> QED
  BY <1>1, <1>2, <1>3, Undisturbed, Sandbox, GitGood

\* What is not off is not disconnected.
LEMMA Connects ==
  ASSUME TypeOK, Boots, NEW b \in Boxes, wire[b].conn # "down"
  PROVE  boot[b].pc = "up"
  BY Undisturbed DEF LocalAt, Local, Quiet, NoWire, TypesAt, BootType

\* A history in which only the losses grow.
LEMMA LosesOn ==
  ASSUME TypeOK, NEW x \in BOOLEAN, past' = [past EXCEPT !.lost = @ \/ x]
  PROVE  Onward
<1>1. past \in PastType
  BY DEF TypeOK, ChainTypeOK
<1>2. past'.cut = past.cut /\ past.cut \in BOOLEAN
  BY <1>1 DEF PastType
<1> QED
  BY <1>2 DEF Onward

\* The state of the connection changes, and nothing of what waits for it.
LEMMA ConnGood ==
  ASSUME TypeOK, Boots, NEW b \in Boxes, boot[b].pc = "up", NEW conn \in {"down", "up", "dying"},
         wire' = [wire EXCEPT ![b].conn = conn], UNCHANGED <<boot, disk, git, box, shape, past>>
  PROVE  BootsGood'
<1> DEFINE w == [wire[b] EXCEPT !.conn = conn]
<1>1. wire' = [wire EXCEPT ![b] = w] /\ wire'[b] = w
  BY Sandbox
<1>2. w \in WireType /\ w.events = wire[b].events /\ w.pending = wire[b].pending
  BY Sandbox DEF WireType
<1> HIDE DEF w
<1> QED
  BY <1>1, <1>2, Undisturbed, WireGood

LEMMA ConnsGood ==
  ASSUME TypeOK, Boots, NEW b \in Boxes, Register(b) \/ ((Drop(b) \/ RelayEnds(b)) /\ UNCHANGED cacheVars)
  PROVE  BootsGood'
<1>1. CASE Register(b)
  <2>1. /\ boot[b].pc = "up" /\ wire' = [wire EXCEPT ![b].conn = "up"]
        /\ UNCHANGED <<boot, disk, git, box, shape, past>>
    BY <1>1 DEF Register, Dial, cacheVars
  <2> QED
    BY <2>1, ConnGood
<1>2. CASE Drop(b) /\ UNCHANGED cacheVars
  <2>1. /\ wire[b].conn # "down" /\ wire' = [wire EXCEPT ![b].conn = "dying"]
        /\ UNCHANGED <<boot, disk, git, box, shape, past>>
    BY <1>2 DEF Drop, cacheVars
  <2> QED
    BY <2>1, ConnGood, Connects
<1>3. CASE RelayEnds(b) /\ UNCHANGED cacheVars
  <2>1. /\ wire[b].conn # "down" /\ wire' = [wire EXCEPT ![b].conn = "down"]
        /\ UNCHANGED <<boot, disk, git, box, shape, past>>
    BY <1>3 DEF RelayEnds, cacheVars
  <2> QED
    BY <2>1, ConnGood, Connects
<1> QED
  BY <1>1, <1>2, <1>3

\* what the head of a queue leaves
LEMMA HeadGoes ==
  ASSUME TypeOK, NEW b \in Boxes, NEW q \in {wire[b].events, wire[b].pending, boot[b].owes}, q # <<>>
  PROVE  /\ q \in Seq(Kinds) /\ Tail(q) \in Seq(Kinds) /\ Head(q) \in Kinds
         /\ Elems(Tail(q)) \subseteq Elems(q) /\ Head(q) \in Elems(q)
<1>1. q \in Seq(Kinds)
  BY Sandbox DEF WireType, BootType
<1>2. Tail(q) \in Seq(Kinds) /\ Elems(Tail(q)) \subseteq Elems(q) /\ Head(q) \in Elems(q)
  BY <1>1, ElemsTail
<1>3. Elems(q) \subseteq Kinds
  BY <1>1 DEF Elems
<1> QED
  BY <1>1, <1>2, <1>3

\* The relay loses the head of its queue, or sends it.
LEMMA PendingGood ==
  ASSUME TypeOK, Boots, NEW b \in Boxes, wire[b].conn # "down", wire[b].pending # <<>>,
         wire' = [wire EXCEPT ![b].pending = Tail(@)], UNCHANGED <<boot, disk, git, box, shape>>, Onward
  PROVE  BootsGood'
<1> DEFINE q == Tail(wire[b].pending)
           w == [wire[b] EXCEPT !.pending = q]
<1>1. wire' = [wire EXCEPT ![b] = w] /\ wire'[b] = w
  BY Sandbox
<1>2. q \in Seq(Kinds) /\ Elems(q) \subseteq Elems(wire[b].pending)
  BY HeadGoes
<1> HIDE DEF q
<1>3. w \in WireType /\ w.pending = q /\ w.events = wire[b].events
  BY <1>2, Sandbox DEF WireType
<1> HIDE DEF w
<1> QED
  BY <1>1, <1>2, <1>3, Connects, WireGood

LEMMA SwallowGood ==
  ASSUME TypeOK, Boots, NEW b \in Boxes, Swallow(b), UNCHANGED cacheVars
  PROVE  BootsGood'
<1>1. /\ wire[b].conn # "down" /\ wire[b].pending # <<>> /\ wire' = [wire EXCEPT ![b].pending = Tail(@)]
      /\ UNCHANGED <<boot, disk, git, box, shape>>
      /\ past' = [past EXCEPT !.lost = @ \/ Head(wire[b].pending) = "failed"]
  BY DEF Swallow, cacheVars
<1>2. Onward
  BY <1>1, LosesOn
<1> QED
  BY <1>1, <1>2, PendingGood

LEMMA DeliverGood ==
  ASSUME TypeOK, Boots, NEW b \in Boxes, NEW gen, Deliver(b, gen), UNCHANGED cacheVars
  PROVE  BootsGood'
<1>1. /\ wire[b].conn # "down" /\ wire[b].pending # <<>> /\ wire' = [wire EXCEPT ![b].pending = Tail(@)]
      /\ UNCHANGED <<boot, disk, git, box, shape, past>>
  BY DEF Deliver, cacheVars
<1> QED
  BY <1>1, Undisturbed, PendingGood

LEMMA TakeGood ==
  ASSUME TypeOK, Boots, NEW b \in Boxes, Take(b), UNCHANGED cacheVars
  PROVE  BootsGood'
<1>1. /\ wire[b].conn # "down" /\ wire[b].events # <<>>
      /\ wire' = [wire EXCEPT ![b].events = Tail(@), ![b].pending = AppendPending(@, Head(wire[b].events))]
      /\ Onward
      /\ UNCHANGED <<boot, disk, git, box, shape>>
  <2>1. past' = [past EXCEPT !.lost = @ \/ (Len(wire[b].pending) >= PendingCap /\ Head(wire[b].pending) = "failed")]
    BY DEF Take
  <2>2. Onward
    BY <2>1, LosesOn
  <2> QED
    BY <2>2 DEF Take, cacheVars
<1> DEFINE h == Head(wire[b].events)
           q == Tail(wire[b].events)
           r == AppendPending(wire[b].pending, h)
           w == [wire[b] EXCEPT !.events = q, !.pending = r]
<1>2. wire' = [wire EXCEPT ![b] = w] /\ wire'[b] = w
  BY <1>1, Sandbox
<1>3. q \in Seq(Kinds) /\ h \in Kinds /\ Elems(q) \subseteq Elems(wire[b].events) /\ h \in Elems(wire[b].events)
  BY <1>1, HeadGoes
<1> HIDE DEF q, h
<1>4. r \in Seq(Kinds) /\ Elems(r) \subseteq Elems(wire[b].pending) \cup {h}
  <2>1. wire[b].pending \in Seq(Kinds)
    BY Sandbox DEF WireType
  <2> QED
    BY <1>3, <2>1, ElemsAppendPending
<1> HIDE DEF r
<1>5. w \in WireType /\ w.events = q /\ w.pending = r
  BY <1>3, <1>4, Sandbox DEF WireType
<1> HIDE DEF w
<1> QED
  BY <1>1, <1>2, <1>3, <1>4, <1>5, Connects, WireGood

\* The watcher moves, and what it owes or its connection with it.
LEMMA WatcherMoves ==
  ASSUME TypeOK, Boots, NEW b \in Boxes, boot[b].pc = "up", NEW bo \in BootType,
         boot' = [boot EXCEPT ![b] = bo], bo.pc = "up", bo.plan = boot[b].plan, bo.ended = boot[b].ended,
         ChainFine(bo, disk[b].rc), CloneFine(bo, git'[b], disk[b].repo, past'.cut),
         wire' = [wire EXCEPT ![b] = wire'[b]], wire'[b] \in WireType,
         git' = [git EXCEPT ![b] = git'[b]], git'[b] \in GitType,
         UNCHANGED <<disk, box, shape>>, Onward,
         Tells(bo, wire'[b]) => Tells(boot[b], wire[b]) \/ <<"setup", "ok">> \in boot[b].ended
  PROVE  BootsGood'
<1>1. LocalAt(b) /\ TypesAt(b)
  BY Undisturbed
<1>2. boot'[b] = bo /\ Only(b)
  BY Sandbox DEF Only
<1>3. box[b].there
  BY <1>1 DEF LocalAt, Local, Quiet, NoBoot
<1>4. Local(bo, disk[b], wire'[b], git'[b], box[b], past'.cut)
  BY <1>1, <1>3 DEF LocalAt, Local, Quiet, SetupFine
<1>5. LocalAt(b)'
  BY <1>2, <1>4 DEF LocalAt, Local, SetupFine, Plan
<1>6. TypesAt(b)'
  BY <1>1, <1>2 DEF TypesAt
<1> QED
  BY <1>2, <1>5, <1>6, BoxMoves

\* what a verdict has the watcher report
LEMMA ReportsAre ==
  ASSUME NEW st \in Stages, NEW rc \in Codes, NEW tail
  PROVE  /\ Reports(st, rc, tail) \in Seq(Kinds)
         /\ "setup_done" \in Elems(Reports(st, rc, tail)) => rc = "ok" /\ st = "setup"
<1>1. /\ <<>> \in Seq(Kinds) /\ <<"setup_done">> \in Seq(Kinds) /\ <<"failed">> \in Seq(Kinds)
      /\ <<"credential_rejected", "failed">> \in Seq(Kinds)
      /\ Elems(<<>>) = {} /\ Elems(<<"failed">>) = {"failed"}
      /\ Elems(<<"credential_rejected", "failed">>) = {"credential_rejected", "failed"}
  BY DEF Elems, Kinds
<1> QED
  BY <1>1 DEF Reports

LEMMA HearVerdictGood ==
  ASSUME TypeOK, Boots, NEW b \in Boxes, HearVerdict(b), UNCHANGED cacheVars
  PROVE  BootsGood'
<1> DEFINE old == boot[b]
           st == old.plan[old.watch]
           rc == disk[b].rc[st]
           watch == IF rc = "ok" THEN old.watch + 1 ELSE 0
           said == <<st, rc>>
           owes == Reports(st, rc, old.tail)
           bo == [old EXCEPT !.heard = said, !.watch = watch, !.owes = owes]
<1>1. LocalAt(b) /\ TypesAt(b) /\ ChainFine(old, disk[b].rc)
  BY Undisturbed DEF LocalAt, Local
<1>2. /\ old.pc = "up" /\ old.watch \in 1..Len(old.plan) /\ st \in Stages
      /\ UNCHANGED <<disk, wire, git, past, box, shape>>
  BY <1>1 DEF HearVerdict, Watching, cacheVars, TypesAt, BootType
<1>3. rc \in Codes
  <2>1. ReadRC(b, st) # None
    BY DEF HearVerdict
  <2>2. rc \in {None, "empty"} \cup Codes
    BY <1>2, Sandbox
  <2> QED
    BY <2>1, <2>2 DEF ReadRC
<1>4. ReadRC(b, st) = rc
  BY <1>3 DEF ReadRC, Codes
<1>5. boot' = [boot EXCEPT ![b] = bo]
  <2>1. boot' = [boot EXCEPT ![b].heard = said, ![b].watch = IF rc = "ok" THEN @ + 1 ELSE 0, ![b].owes = owes]
    BY <1>4, Zenon DEF HearVerdict
  <2> HIDE DEF owes, said
  <2> QED
    BY <2>1, Sandbox
<1>6. said \in Stages \X Codes /\ watch \in Nat /\ owes \in Seq(Kinds)
  <2>1. old.watch \in Nat
    BY <1>1 DEF TypesAt, BootType
  <2>2. owes \in Seq(Kinds)
    BY <1>2, <1>3, ReportsAre
  <2> HIDE DEF owes
  <2> QED
    BY <1>2, <1>3, <2>1, <2>2
<1>7. said \in old.ended
  BY <1>1, <1>2, <1>3 DEF ChainFine
<1> HIDE DEF watch, owes
<1>8. /\ bo \in BootType /\ bo.plan = old.plan /\ bo.ended = old.ended /\ bo.pc = old.pc /\ bo.owes = owes
      /\ bo.heard = said /\ bo.at = old.at /\ bo.step = old.step /\ bo.rc = old.rc
  <2> HIDE DEF said, st, rc
  <2> QED
    BY <1>1, <1>6 DEF TypesAt, BootType
<1> HIDE DEF bo
<1>9. ChainFine(bo, disk[b].rc)
  BY <1>1, <1>2, <1>3, <1>8, ChainHears DEF TypesAt
<1>10. CloneFine(bo, git[b], disk[b].repo, past.cut)
  BY <1>1, <1>8 DEF LocalAt, Local, CloneFine
<1>11. Tells(bo, wire[b]) => Tells(old, wire[b]) \/ <<"setup", "ok">> \in old.ended
  <2>1. "setup_done" \in Elems(owes) => rc = "ok" /\ st = "setup"
    BY <1>2, <1>3, ReportsAre DEF owes
  <2>2. "setup_done" \in Elems(owes) => <<"setup", "ok">> \in old.ended
    BY <1>7, <2>1
  <2> QED
    BY <1>8, <2>2 DEF Tells
<1> QED
  BY <1>2, <1>5, <1>8, <1>9, <1>10, <1>11, Undisturbed, WatcherMoves

LEMMA OfferReportGood ==
  ASSUME TypeOK, Boots, NEW b \in Boxes, OfferReport(b), UNCHANGED cacheVars
  PROVE  BootsGood'
<1> DEFINE old == boot[b]
           h == Head(old.owes)
           q == Tail(old.owes)
           bo == [old EXCEPT !.owes = q]
<1>1. LocalAt(b) /\ TypesAt(b)
  BY Undisturbed
<1>2. /\ old.pc = "up" /\ old.owes # <<>> /\ Offer(b, h) /\ boot' = [boot EXCEPT ![b] = bo]
      /\ UNCHANGED <<disk, git, box, shape>>
      /\ past' = [past EXCEPT !.lost = @ \/ (Full(b) /\ Head(boot[b].owes) = "failed")]
  BY Sandbox DEF OfferReport, cacheVars
<1>3. q \in Seq(Kinds) /\ h \in Kinds /\ Elems(q) \subseteq Elems(old.owes) /\ h \in Elems(old.owes)
  BY <1>2, HeadGoes
<1> HIDE DEF h, q
<1>4. /\ bo \in BootType /\ bo.plan = old.plan /\ bo.ended = old.ended /\ bo.pc = "up" /\ bo.owes = q
      /\ bo.heard = old.heard /\ bo.at = old.at /\ bo.step = old.step /\ bo.rc = old.rc
  BY <1>1, <1>2, <1>3 DEF TypesAt, BootType
<1> HIDE DEF bo
<1>5. ChainFine(bo, disk[b].rc)
  BY <1>1, <1>4 DEF LocalAt, Local, ChainFine
<1>6. Onward
  <2>1. (Full(b) /\ Head(boot[b].owes) = "failed") \in BOOLEAN
    OBVIOUS
  <2> QED
    BY <1>2, <2>1, LosesOn
<1>7. CloneFine(bo, git'[b], disk[b].repo, past'.cut)
  BY <1>1, <1>2, <1>4, <1>6 DEF LocalAt, Local, CloneFine, Onward
<1>8. /\ wire' = [wire EXCEPT ![b] = wire'[b]] /\ wire'[b] \in WireType
      /\ wire'[b].pending = wire[b].pending /\ Elems(wire'[b].events) \subseteq Elems(wire[b].events) \cup {h}
  BY <1>2, <1>3, OfferIs
<1>9. Tells(bo, wire'[b]) => Tells(old, wire[b])
  BY <1>3, <1>4, <1>8 DEF Tells
<1> QED
  BY <1>2, <1>4, <1>5, <1>6, <1>7, <1>8, <1>9, Undisturbed, WatcherMoves

LEMMA TimeOutGood ==
  ASSUME TypeOK, Boots, NEW b \in Boxes, TimeOut(b), UNCHANGED cacheVars
  PROVE  BootsGood'
<1> DEFINE old == boot[b]
           owes == <<"failed">>
           bo == [old EXCEPT !.watch = 0, !.step = "ended", !.owes = owes]
<1>1. LocalAt(b) /\ TypesAt(b) /\ ChainFine(old, disk[b].rc)
  BY Undisturbed DEF LocalAt, Local
<1>2. /\ old.pc = "up" /\ UNCHANGED <<disk, wire, box, shape>> /\ git' = [git EXCEPT ![b] = NoGit]
      /\ boot' = [boot EXCEPT ![b] = bo] /\ past' = [past EXCEPT !.cut = @ \/ git[b].by = "clone"]
  BY Sandbox DEF TimeOut, Watching, cacheVars
<1>3. git'[b] = NoGit /\ git' = [git EXCEPT ![b] = git'[b]]
  BY <1>2, Sandbox
<1>4. owes \in Seq(Kinds) /\ Elems(owes) = {"failed"}
  BY DEF Kinds, Elems
<1> HIDE DEF owes
<1>5. /\ bo \in BootType /\ bo.plan = old.plan /\ bo.ended = old.ended /\ bo.pc = "up" /\ bo.owes = owes
      /\ bo.heard = old.heard /\ bo.at = old.at /\ bo.step = "ended" /\ bo.rc = old.rc
  BY <1>1, <1>2, <1>4 DEF TypesAt, BootType
<1> HIDE DEF bo
<1>6. ChainFine(bo, disk[b].rc)
  BY <1>1, <1>5, ChainStops DEF TypesAt
<1>7. past'.cut = (past.cut \/ git[b].by = "clone") /\ past'.cut \in BOOLEAN
  <2>1. past \in PastType
    BY DEF TypeOK, ChainTypeOK
  <2> QED
    BY <1>2, <2>1 DEF PastType
<1>8. NoGit.by # "clone" /\ NoGit.pc = "idle" /\ NoGit \in GitType
  BY NothingThere DEF NoGit, None
<1>9. CloneFine(bo, NoGit, disk[b].repo, past'.cut)
  BY <1>1, <1>5, <1>7, <1>8 DEF LocalAt, Local, CloneFine
<1>10. Tells(bo, wire[b]) => Tells(old, wire[b])
  BY <1>4, <1>5 DEF Tells
<1>11. Onward
  BY <1>7 DEF Onward
<1> QED
  BY <1>2, <1>3, <1>5, <1>6, <1>8, <1>9, <1>10, <1>11, Undisturbed, WatcherMoves

--------------------
\* Containers that come and go.

LEMMA BoxIs ==
  /\ \A r \in Runners, s \in Sessions : <<r, s>> \in Boxes
  /\ \A b \in Boxes : b[1] \in Runners /\ b[2] \in Sessions /\ b = <<b[1], b[2]>>
  /\ None \notin Runners
  BY CacheAssumption

LEMMA BoxOf ==
  ASSUME NEW s \in Sessions, row[s].runner \in Runners
  PROVE  <<row[s].runner, s>> \in Boxes
  BY BoxIs

LEMMA BootedGood ==
  ASSUME TypeOK, Boots, NEW b \in Boxes, NEW plan \in Seq(Stages), Booted(b, plan),
         wire[b] = NoWire, git[b] = NoGit, UNCHANGED <<wire, git, past, shape>>,
         box' = [box EXCEPT ![b] = box'[b]], box'[b].there, plan = Plan(box'[b].script)
  PROVE  BootsGood'
<1> DEFINE step == IF plan = <<>> THEN "agent" ELSE "run"
           watch == IF plan = <<>> THEN 0 ELSE 1
           bo == [NoBoot EXCEPT !.pc = "up", !.plan = plan, !.at = 1, !.step = step, !.watch = watch]
           codes == Cleared(disk[b].rc, plan)
           di == [disk[b] EXCEPT !.rc = codes]
<1>1. LocalAt(b) /\ TypesAt(b) /\ disk[b].rc \in [Stages -> {None, "empty"} \cup Codes]
  BY Undisturbed, Sandbox
<1>2. boot' = [boot EXCEPT ![b] = bo] /\ disk' = [disk EXCEPT ![b] = di]
  BY DEF Booted
<1>3. boot'[b] = bo /\ disk'[b] = di
  BY <1>2, Sandbox
<1>4. step \in {"agent", "run"} /\ watch \in Nat
  OBVIOUS
<1>5. NoBoot \in BootType /\ NoBoot.owes = <<>> /\ NoBoot.ended = {} /\ NoBoot.heard = <<>>
  BY NothingThere DEF NoBoot
<1> HIDE DEF step, watch
<1>6. /\ bo \in BootType /\ bo.plan = plan /\ bo.ended = {} /\ bo.heard = <<>> /\ bo.at = 1 /\ bo.step = step
      /\ bo.pc = "up" /\ bo.owes = <<>>
  BY <1>4, <1>5 DEF BootType
<1> HIDE DEF bo, codes
<1>7. ChainFine(bo, codes) /\ codes \in [Stages -> {None, "empty"} \cup Codes]
  BY <1>1, <1>6, ChainBoots DEF step, codes
<1>8. di \in DiskType /\ di.rc = codes /\ di.repo = disk[b].repo
  BY <1>1, <1>7 DEF TypesAt, DiskType
<1> HIDE DEF di
<1>9. CloneFine(bo, git[b], di.repo, past.cut)
  BY <1>1, <1>6, <1>8 DEF LocalAt, Local, CloneFine, NoGit, None
<1>10. SetupFine(bo, wire[b], box'[b])
  BY <1>6 DEF SetupFine, Tells, Elems, NoWire
<1>11. Local(bo, di, wire[b], git[b], box'[b], past.cut)
  BY <1>1, <1>6, <1>7, <1>8, <1>9, <1>10 DEF LocalAt, Local, Quiet
<1>12. LocalAt(b)'
  BY <1>3, <1>11 DEF LocalAt, Local, SetupFine, Plan
<1>13. TypesAt(b)'
  BY <1>1, <1>3, <1>6, <1>8 DEF TypesAt
<1>14. Only(b) /\ Onward
  BY <1>2, <1>3, Undisturbed DEF Only
<1> QED
  BY <1>12, <1>13, <1>14, BoxMoves

LEMMA GoneGood ==
  ASSUME TypeOK, Boots, NEW b \in Boxes, Gone(b), UNCHANGED <<past, shape>>
  PROVE  BootsGood' /\ box' = [box EXCEPT ![b] = NoBox] /\ box'[b] = NoBox
<1>1. /\ boot' = [boot EXCEPT ![b] = NoBoot] /\ disk' = [disk EXCEPT ![b] = EmptyDisk]
      /\ wire' = [wire EXCEPT ![b] = NoWire] /\ git' = [git EXCEPT ![b] = NoGit]
      /\ box' = [box EXCEPT ![b] = NoBox]
  BY DEF Gone
<1>2. DOMAIN box = Boxes
  BY DEF TypeOK
<1>3. boot'[b] = NoBoot /\ disk'[b] = EmptyDisk /\ wire'[b] = NoWire /\ git'[b] = NoGit /\ box'[b] = NoBox
  BY <1>1, <1>2, Sandbox
<1>4. Only(b)
  BY <1>1, <1>3 DEF Only
<1>5. TypesAt(b)'
  BY <1>3, NothingThere DEF TypesAt
<1>6. ~NoBox.there
  BY DEF NoBox
<1>7. Local(NoBoot, EmptyDisk, NoWire, NoGit, NoBox, past'.cut)
  BY <1>6, NothingThere
<1>8. LocalAt(b)'
  BY <1>3, <1>7 DEF LocalAt, Local, SetupFine, Plan
<1> QED
  BY <1>1, <1>3, <1>4, <1>5, <1>8, Undisturbed, BoxMoves

LEMMA CutGood ==
  ASSUME TypeOK, Boots, NEW b \in Boxes, Cut(b), box[b].there, UNCHANGED <<box, shape>>
  PROVE  BootsGood' /\ boot'[b].pc = "off"
<1> DEFINE old == boot[b]
           owes == <<>>
           bo == [old EXCEPT !.pc = "off", !.step = "off", !.watch = 0, !.owes = owes]
<1>1. LocalAt(b) /\ TypesAt(b) /\ past \in PastType
  <2>1. past \in PastType
    BY DEF TypeOK, ChainTypeOK
  <2> QED
    BY <2>1, Undisturbed
<1>2. /\ boot' = [boot EXCEPT ![b] = bo] /\ wire' = [wire EXCEPT ![b] = NoWire] /\ git' = [git EXCEPT ![b] = NoGit]
      /\ boot'[b] = bo /\ wire'[b] = NoWire /\ git'[b] = NoGit
  <2>1. wire' = [wire EXCEPT ![b] = NoWire] /\ git' = [git EXCEPT ![b] = NoGit]
    BY DEF Cut
  <2>2. boot' = [boot EXCEPT ![b] = bo]
    BY Sandbox DEF Cut
  <2> HIDE DEF bo
  <2> QED
    BY <2>1, <2>2, Sandbox
<1>3. PICK repo \in {disk[b].repo} \cup (IF git[b].pc = "has" /\ git[b].by = "clone" THEN {"partial"} ELSE {}) :
        /\ disk' = [disk EXCEPT ![b].repo = repo]
        /\ past' = [past EXCEPT !.cut = @ \/ repo \in {"partial", "base"}]
  BY DEF Cut
<1> DEFINE di == [disk[b] EXCEPT !.repo = repo]
<1>4. disk' = [disk EXCEPT ![b] = di] /\ disk'[b] = di
  BY <1>3, Sandbox
<1>5. di \in DiskType /\ di.rc = disk[b].rc /\ di.repo = repo /\ repo \in {disk[b].repo, "partial"}
  BY <1>1, <1>3 DEF TypesAt, DiskType
<1> HIDE DEF di
<1>6. past'.cut = (past.cut \/ repo \in {"partial", "base"}) /\ past'.cut \in BOOLEAN
  BY <1>1, <1>3 DEF PastType
<1> HIDE DEF owes
<1>7. /\ bo \in BootType /\ bo.plan = old.plan /\ bo.ended = old.ended /\ bo.pc = "off" /\ bo.owes = <<>>
      /\ bo.heard = old.heard /\ bo.at = old.at /\ bo.step = "off" /\ bo.rc = old.rc
  <2>1. owes \in Seq(Kinds) /\ owes = <<>>
    BY DEF owes
  <2> QED
    BY <1>1, <2>1 DEF TypesAt, BootType
<1> HIDE DEF bo
<1>8. ChainFine(bo, di.rc)
  BY <1>1, <1>5, <1>7, ChainStops DEF LocalAt, Local, TypesAt
<1>9. CloneFine(bo, NoGit, di.repo, past'.cut)
  <2>1. disk[b].repo \in {None, "base", "branch", "partial"} /\ CloneFine(old, git[b], disk[b].repo, past.cut)
    BY <1>1 DEF LocalAt, Local, TypesAt, DiskType
  <2>2. NoGit.by = None /\ NoGit.pc = "idle"
    BY DEF NoGit
  <2> QED
    BY <1>5, <1>6, <1>7, <2>1, <2>2 DEF CloneFine, None
<1>10. Quiet(bo, NoWire, NoGit, box[b])
  BY DEF Quiet
<1>11. SetupFine(bo, NoWire, box[b])
  BY <1>1, <1>7 DEF LocalAt, Local, SetupFine, Tells, Elems, NoWire
<1>12. Local(bo, di, NoWire, NoGit, box[b], past'.cut)
  BY <1>8, <1>9, <1>10, <1>11 DEF Local
<1>13. LocalAt(b)'
  BY <1>2, <1>4, <1>12 DEF LocalAt, Local, SetupFine, Plan
<1>14. TypesAt(b)'
  BY <1>2, <1>4, <1>5, <1>7, NothingThere DEF TypesAt
<1>15. Only(b) /\ Onward
  BY <1>2, <1>4, <1>6, Undisturbed DEF Only, Onward
<1> QED
  BY <1>2, <1>7, <1>13, <1>14, <1>15, BoxMoves

LEMMA SetupEndsGood ==
  ASSUME TypeOK, Boots, NEW b \in Boxes, SetupEnds(b)
  PROVE  BootsGood'
<1>1. /\ boot[b].pc = "up" /\ boot[b].step = "run" /\ Stage(b) = "setup" /\ UNCHANGED <<wire, git, past, shape>>
      /\ \/ StageEnds(b, "ok", {}) /\ box' = [box EXCEPT ![b].done = Append(@, box[b].script)]
         \/ StageEnds(b, "bad", {}) /\ UNCHANGED box
  BY DEF SetupEnds, Running
<1>2. git[b].by # "clone" /\ git[b].pc # "cloned"
  BY <1>1, Undisturbed DEF LocalAt, Local, CloneFine, Stage
<1>3. box[b].there => box[b].script # None
  <2>1. SetupFine(boot[b], wire[b], box[b]) /\ boot[b].at \in 1..Len(boot[b].plan)
    BY <1>1, Undisturbed DEF LocalAt, Local, ChainFine
  <2>2. "setup" \in Elems(boot[b].plan)
    BY <1>1, <2>1 DEF Elems, Stage
  <2> QED
    BY <2>1, <2>2, PlanFits, Sandbox DEF SetupFine
<1>4. CASE StageEnds(b, "ok", {}) /\ box' = [box EXCEPT ![b].done = Append(@, box[b].script)]
  <2> DEFINE old == box[b]
             done == Append(old.done, old.script)
             bx == [old EXCEPT !.done = done]
  <2>1. box' = [box EXCEPT ![b] = bx]
    BY <1>4
  <2>2. box'[b] = bx
    BY <2>1 DEF TypeOK
  <2>3. old \in BoxType
    BY DEF TypeOK
  <2>4. Elems(done) = Elems(old.done) \cup {old.script}
    BY <2>3, ContainerHas, ElemsAppend
  <2> HIDE DEF done
  <2>5. bx.there = old.there /\ bx.script = old.script /\ bx.done = done
    BY <2>3, ContainerIs DEF Container, NoBox
  <2> HIDE DEF bx
  <2>6. box' = [box EXCEPT ![b] = box'[b]] /\ box'[b].there = box[b].there /\ box'[b].script = box[b].script
        /\ Elems(box[b].done) \subseteq Elems(box'[b].done) /\ (box[b].there => Ran(box'[b]))
    BY <1>3, <2>1, <2>2, <2>4, <2>5 DEF Ran
  <2> QED
    BY <1>1, <1>2, <1>4, <2>6, Undisturbed, StageGood DEF Codes
<1>5. CASE StageEnds(b, "bad", {}) /\ UNCHANGED box
  BY <1>1, <1>2, <1>5, Undisturbed, StageGood DEF Codes
<1> QED
  BY <1>1, <1>4, <1>5

\* An image carries no script of its own.
LEMMA CreateScript ==
  ASSUME TypeOK, NEW s \in Sessions, row[s].runner \in Runners, Holds(row[s].runner, row[s].image)
  PROVE  (IF job[s].setup # None THEN job[s].setup ELSE Contents(row[s].runner, row[s].image).script) = job[s].setup
<1> DEFINE r == row[s].runner
           image == row[s].image
<1>1. CASE Len(image) = 1
  BY <1>1 DEF Contents
<1>2. CASE Len(image) # 1
  <2>1. image \in DOMAIN images[r] /\ images[r] \in [DOMAIN images[r] -> ImageType]
    BY <1>2 DEF Holds, TypeOK
  <2>2. images[r][image] \in ImageType
    BY <2>1
  <2>3. images[r][image].script = None
    BY <2>2 DEF ImageType
  <2> QED
    BY <1>2, <2>3 DEF Contents
<1> QED
  BY <1>1, <1>2

LEMMA RunCreateIs ==
  ASSUME TypeOK, NEW s \in Sessions, row[s].runner \in Runners, RunCreate(s), ~box[<<row[s].runner, s>>].there
  PROVE  LET b == <<row[s].runner, s>>
             c == Contents(row[s].runner, row[s].image)
         IN  /\ box' = [box EXCEPT ![b] = [there |-> TRUE, gen |-> row[s].gen, base |-> c.base, done |-> c.done,
                                           held |-> Len(c.done), script |-> job[s].setup, env |-> job[s].env]]
             /\ Booted(b, Plan(job[s].setup)) /\ Holds(row[s].runner, row[s].image)
<1>1. Holds(row[s].runner, row[s].image)
  BY DEF RunCreate
<1>2. (IF job[s].setup # None THEN job[s].setup ELSE Contents(row[s].runner, row[s].image).script) = job[s].setup
  BY <1>1, CreateScript
<1> QED
  BY <1>1, <1>2, Zenon DEF RunCreate

LEMMA RunCreateGood ==
  ASSUME IInv, NEW s \in Sessions, RunCreate(s)
  PROVE  BootsGood'
<1> DEFINE b == <<row[s].runner, s>>
           c == Contents(row[s].runner, row[s].image)
           bx == [there |-> TRUE, gen |-> row[s].gen, base |-> c.base, done |-> c.done, held |-> Len(c.done),
                  script |-> job[s].setup, env |-> job[s].env]
<1>1. job[s].pc = "sent" /\ row[s].state = "creating" /\ UNCHANGED <<wire, git, past, shape>>
  BY DEF RunCreate
<1>2. TypeOK /\ Boots /\ b \in Boxes /\ row[s].runner \in Runners
  BY <1>1, BoxOf DEF IInv, Cache, SessionsFine, SessionFine, RowFine, RestsFine, Rests
<1>3. CASE box[b].there
  <2>1. UNCHANGED <<box, boot, disk>>
    BY <1>3 DEF RunCreate
  <2> QED
    BY <1>1, <1>2, <2>1, Undisturbed, NoBoxMoves
<1>4. CASE ~box[b].there
  <2>1. box' = [box EXCEPT ![b] = bx] /\ Booted(b, Plan(job[s].setup))
    BY <1>2, <1>4, RunCreateIs
  <2> HIDE DEF b
  <2>2. box'[b] = bx
    BY <1>2, <2>1 DEF TypeOK
  <2>3. bx.there /\ bx.script = job[s].setup
    OBVIOUS
  <2> HIDE DEF bx
  <2>4. box' = [box EXCEPT ![b] = box'[b]] /\ box'[b].there /\ box'[b].script = job[s].setup
    BY <2>1, <2>2, <2>3
  <2>5. wire[b] = NoWire /\ git[b] = NoGit
    BY <1>2, <1>4, Undisturbed DEF LocalAt, Local, Quiet, NoBoot
  <2>6. job[s].setup \in Setup
    BY <1>2 DEF TypeOK, JobType
  <2>7. Plan(job[s].setup) \in Seq(Stages)
    BY <1>2, <2>6, PlanFits
  <2> QED
    BY <1>1, <1>2, <2>1, <2>4, <2>5, <2>7, BootedGood
<1> QED
  BY <1>3, <1>4

LEMMA ResumeGood ==
  ASSUME IInv, NEW s \in Sessions, Resume(s)
  PROVE  BootsGood'
<1> DEFINE b == <<row[s].runner, s>>
           bx == [box[b] EXCEPT !.gen = row[s].gen + 1]
<1>1. /\ row[s].state = "suspended" /\ UNCHANGED <<wire, git, past, shape>>
      /\ box' = [box EXCEPT ![b].gen = row[s].gen + 1] /\ Booted(b, boot[b].plan)
  BY DEF Resume
<1>2. TypeOK /\ Boots /\ b \in Boxes /\ box[b].there /\ boot[b].pc = "off"
  BY <1>1, BoxOf DEF IInv, Cache, SessionsFine, SessionFine, RowFine, RestsFine, Rests
<1> HIDE DEF b
<1>3. box' = [box EXCEPT ![b] = bx]
  BY <1>1
<1>4. box'[b] = bx
  BY <1>2, <1>3 DEF TypeOK
<1>5. bx.there = box[b].there /\ bx.script = box[b].script
  <2>1. box[b] \in BoxType
    BY <1>2 DEF TypeOK
  <2> QED
    BY <2>1, ContainerIs DEF Container, NoBox
<1> HIDE DEF bx
<1>6. box' = [box EXCEPT ![b] = box'[b]] /\ box'[b].there /\ box'[b].script = box[b].script
  BY <1>2, <1>3, <1>4, <1>5
<1>7. wire[b] = NoWire /\ git[b] = NoGit /\ boot[b].plan = Plan(box[b].script)
  BY <1>2, Undisturbed DEF LocalAt, Local, Quiet, SetupFine
<1>8. boot[b].plan \in Seq(Stages)
  BY <1>2, Sandbox DEF BootType
<1> QED
  BY <1>1, <1>2, <1>6, <1>7, <1>8, BootedGood

LEMMA SuspendGood ==
  ASSUME IInv, NEW s \in Sessions, Suspend(s)
  PROVE  BootsGood' /\ boot'[<<row[s].runner, s>>].pc = "off"
<1>1. TypeOK /\ Boots /\ <<row[s].runner, s>> \in Boxes
  BY BoxOf DEF IInv, Cache, SessionsFine, SessionFine, RowFine, Suspend
<1> QED
  BY <1>1, CutGood DEF Suspend

LEMMA DeleteGood ==
  ASSUME TypeOK, Boots, NEW s \in Sessions, Delete(s)
  PROVE  LET b == <<row[s].runner, s>> IN BootsGood' /\ b \in Boxes /\ box' = [box EXCEPT ![b] = NoBox]
<1>1. row[s].runner \in Runners
  <2>1. row[s] \in RowType
    BY DEF TypeOK
  <2> QED
    BY <2>1 DEF RowType, Delete
<1>2. <<row[s].runner, s>> \in Boxes
  BY <1>1, BoxOf
<1> QED
  BY <1>2, GoneGood DEF Delete

LEMMA StaysPut ==
  ASSUME TypeOK, Boots, UNCHANGED <<boot, disk, wire, git, box, shape, past>>
  PROVE  BootsGood'
<1>1. past \in PastType
  BY DEF TypeOK, ChainTypeOK
<1>2. Onward
  BY <1>1 DEF Onward, PastType
<1> QED
  BY <1>2, NoBoxMoves

\* Every step, seen from the sandboxes.
LEMMA BootsKept ==
  ASSUME IInv, [Next]_vars
  PROVE  BootsGood'
<1> USE DEF IInv
<1>1. CASE UNCHANGED vars
  BY <1>1, StaysPut DEF vars, chainVars, cacheVars
<1>2. CASE SystemStep
  <2>1. ASSUME NEW b \in Boxes, UNCHANGED cacheVars,
               \/ WriteRC(b) \/ SecretsFail(b) \/ AgentsWaited(b) \/ HearVerdict(b) \/ OfferReport(b) \/ TimeOut(b)
               \/ Take(b) \/ RelayEnds(b) \/ Deliver(b, box[b].gen)
        PROVE  BootsGood'
    BY <2>1, WriteRCGood, SecretsFailGood, ScriptEndsGood, HearVerdictGood, OfferReportGood, TimeOutGood,
       TakeGood, ConnsGood, DeliverGood
  <2>2. ASSUME NEW n \in news, ApplyRunnerEvent(n) \/ SetupDone(n) \/ CredentialRejected(n) PROVE BootsGood'
    <3>1. UNCHANGED <<boot, disk, wire, git, box, shape, past>>
      BY <2>2 DEF ApplyRunnerEvent, SetupDone, CredentialRejected, cacheVars
    <3> QED
      BY <3>1, StaysPut
  <2> QED
    BY <1>2, <2>1, <2>2, ConnsGood DEF SystemStep
<1>3. CASE Programs
  <2>1. ASSUME NEW b \in Boxes, UNCHANGED cacheVars,
               \/ ScriptEnds(b) \/ SkipClone(b) \/ AskCredential(b) \/ Minted(b) \/ MintRefused(b)
               \/ GitSucceeds(b) \/ CheckOut(b) \/ GitHubRefuses(b) \/ Accuse(b) \/ ProxyRefuses(b)
               \/ Drop(b) \/ Swallow(b)
        PROVE  BootsGood'
    BY <2>1, ScriptEndsGood, SkipCloneGood, AskCredentialGood, MintedGood, MintRefusedGood,
       GitSucceedsGood, CheckOutGood, GitHubRefusesGood, AccuseGood, ProxyRefusesGood, ConnsGood, SwallowGood
  <2> QED
    BY <1>3, <2>1, SetupEndsGood DEF Programs
<1>4. CASE Fleet
  <2>1. ASSUME NEW s \in Sessions, Place(s) \/ Requeue(s) PROVE BootsGood'
    <3>1. /\ UNCHANGED <<boot, disk, wire, git, box, shape>>
          /\ \/ past' = [past EXCEPT !.kept = @ \/ Len(row[s].image) > 1]
             \/ \E r : past' = [past EXCEPT !.same = @ \/ box[<<r, s>>].there \/ \E x \in news \cup builds : x.box = <<r, s>>]
      BY <2>1 DEF Place, Requeue
    <3>2. past \in PastType
      BY DEF TypeOK, ChainTypeOK
    <3>3. past'.cut = past.cut /\ past.cut \in BOOLEAN
      BY <3>1, <3>2 DEF PastType
    <3> QED
      BY <3>1, <3>3, NoBoxMoves DEF Onward
  <2>2. ASSUME NEW s \in Sessions,
               \/ CreateSession(s) \/ SkipRow(s) \/ Pin(s) \/ FailSpec(s)
               \/ CreateFails(s) \/ CreateAnswered(s) \/ Cancel(s)
        PROVE  BootsGood'
    <3>1. UNCHANGED <<boot, disk, wire, git, box, shape, past>>
      BY <2>2 DEF CreateSession, SkipRow, Pin, FailSpec, CreateFails, CreateAnswered, Cancel, chainVars
    <3> QED
      BY <3>1, StaysPut
  <2>3. ASSUME NEW bu \in builds, Commit(bu) \/ DropBuild(bu) \/ Record(bu) PROVE BootsGood'
    <3>1. UNCHANGED <<boot, disk, wire, git, box, shape, past>>
      BY <2>3 DEF Commit, DropBuild, Record, chainVars
    <3> QED
      BY <3>1, StaysPut
  <2>4. ASSUME BeginPass \/ BeginEdit \/ EndEdit \/ BeginDelete \/ EndDelete PROVE BootsGood'
    <3>1. UNCHANGED <<boot, disk, wire, git, box, shape, past>>
      BY <2>4 DEF BeginPass, BeginEdit, EndEdit, BeginDelete, EndDelete, chainVars
    <3> QED
      BY <3>1, StaysPut
  <2>5. ASSUME NEW b \in Boxes, DestroyOrphan(b) PROVE BootsGood'
    BY <2>5, GoneGood DEF DestroyOrphan
  <2> QED
    BY <1>4, <2>1, <2>2, <2>3, <2>4, <2>5, RunCreateGood, SuspendGood, ResumeGood, DeleteGood DEF Fleet
<1>5. CASE World
  <2>1. /\ UNCHANGED <<boot, disk, wire, git, box, shape>>
        /\ UNCHANGED past \/ \E x \in BOOLEAN : past' = [past EXCEPT !.lost = @ \/ x]
    BY <1>5 DEF World, Refresh, Withdraw, LoseNews, cacheVars
  <2>2. Onward
    BY <2>1, LosesOn, StaysPut DEF TypeOK, ChainTypeOK, PastType, Onward
  <2> QED
    BY <2>1, <2>2, NoBoxMoves
<1> QED
  BY <1>1, <1>2, <1>3, <1>4, <1>5 DEF Next

--------------------
\* What a step does to the history, the vault and the news.

PastGrows == past' \in PastType /\ \A x \in {"cut", "lost", "same", "kept"} : past[x] => past'[x]

LEMMA PastMoves ==
  ASSUME TypeOK, [Next]_vars
  PROVE  PastGrows
<1>0. past \in PastType
  BY DEF TypeOK, ChainTypeOK
<1>1. CASE UNCHANGED past
  BY <1>0, <1>1 DEF PastGrows
<1>2. ASSUME NEW more \in BOOLEAN, past' = [past EXCEPT !.cut = @ \/ more] PROVE PastGrows
  BY <1>0, <1>2 DEF PastGrows, PastType
<1>3. ASSUME past' = [past EXCEPT !.cut = TRUE] PROVE PastGrows
  BY <1>0, <1>3 DEF PastGrows, PastType
<1>4. ASSUME NEW more \in BOOLEAN, past' = [past EXCEPT !.lost = @ \/ more] PROVE PastGrows
  BY <1>0, <1>4 DEF PastGrows, PastType
<1>5. ASSUME NEW b \in Boxes, OfferReport(b) \/ Take(b) \/ Swallow(b) PROVE PastGrows
  <2>1. CASE OfferReport(b)
    <3> DEFINE more == Full(b) /\ Head(boot[b].owes) = "failed"
    <3>1. past' = [past EXCEPT !.lost = @ \/ more] /\ more \in BOOLEAN
      BY <2>1 DEF OfferReport
    <3> HIDE DEF more
    <3> QED
      BY <1>4, <3>1
  <2>2. CASE Take(b)
    <3> DEFINE more == Len(wire[b].pending) >= PendingCap /\ Head(wire[b].pending) = "failed"
    <3>1. past' = [past EXCEPT !.lost = @ \/ more] /\ more \in BOOLEAN
      BY <2>2 DEF Take
    <3> HIDE DEF more
    <3> QED
      BY <1>4, <3>1
  <2>3. CASE Swallow(b)
    <3> DEFINE more == Head(wire[b].pending) = "failed"
    <3>1. past' = [past EXCEPT !.lost = @ \/ more] /\ more \in BOOLEAN
      BY <2>3 DEF Swallow
    <3> HIDE DEF more
    <3> QED
      BY <1>4, <3>1
  <2> QED
    BY <1>5, <2>1, <2>2, <2>3
<1>6. ASSUME NEW more \in BOOLEAN, past' = [past EXCEPT !.same = @ \/ more] PROVE PastGrows
  BY <1>0, <1>6 DEF PastGrows, PastType
<1>7. ASSUME NEW more \in BOOLEAN, past' = [past EXCEPT !.kept = @ \/ more] PROVE PastGrows
  BY <1>0, <1>7 DEF PastGrows, PastType
<1>8. CASE SystemStep
  <2>1. ASSUME NEW b \in Boxes,
               \/ WriteRC(b) \/ SecretsFail(b) \/ AgentsWaited(b) \/ HearVerdict(b)
               \/ RelayEnds(b) \/ Deliver(b, box[b].gen) \/ Register(b)
        PROVE  PastGrows
    BY <1>1, <2>1 DEF WriteRC, SecretsFail, AgentsWaited, HearVerdict, RelayEnds, Deliver, Register
  <2>2. ASSUME NEW b \in Boxes, TimeOut(b) PROVE PastGrows
    <3>1. past' = [past EXCEPT !.cut = @ \/ (git[b].by = "clone")]
      BY <2>2 DEF TimeOut
    <3> QED
      BY <1>2, <3>1
  <2>3. ASSUME NEW n \in news, ApplyRunnerEvent(n) \/ SetupDone(n) \/ CredentialRejected(n) PROVE PastGrows
    BY <1>1, <2>3 DEF ApplyRunnerEvent, SetupDone, CredentialRejected
  <2> QED
    BY <1>5, <1>8, <2>1, <2>2, <2>3 DEF SystemStep
<1>9. CASE Programs
  <2>1. ASSUME NEW b \in Boxes,
               \/ ScriptEnds(b) \/ SkipClone(b) \/ AskCredential(b) \/ Minted(b) \/ MintRefused(b)
               \/ GitSucceeds(b) \/ GitHubRefuses(b) \/ Accuse(b) \/ ProxyRefuses(b) \/ SetupEnds(b) \/ Drop(b)
        PROVE  PastGrows
    BY <1>1, <2>1 DEF ScriptEnds, SkipClone, AskCredential, Minted, MintRefused, GitSucceeds, GitHubRefuses,
                      Accuse, ProxyRefuses, SetupEnds, Drop
  <2>2. ASSUME NEW b \in Boxes, CheckOut(b) PROVE PastGrows
    BY <1>1, <1>3, <2>2 DEF CheckOut
  <2> QED
    BY <1>5, <1>9, <2>1, <2>2 DEF Programs
<1>10. CASE Fleet
  <2>1. ASSUME NEW s \in Sessions, Place(s) PROVE PastGrows
    <3>1. \E r : past' = [past EXCEPT !.same = @ \/ (box[<<r, s>>].there \/ \E x \in news \cup builds : x.box = <<r, s>>)]
      BY <2>1 DEF Place
    <3>2. PICK r : past' = [past EXCEPT !.same = @ \/ (box[<<r, s>>].there \/ \E x \in news \cup builds : x.box = <<r, s>>)]
      BY <3>1
    <3> DEFINE more == box[<<r, s>>].there \/ \E x \in news \cup builds : x.box = <<r, s>>
    <3>3. more \in BOOLEAN
      OBVIOUS
    <3>4. past' = [past EXCEPT !.same = @ \/ more]
      BY <3>2
    <3> HIDE DEF more
    <3> QED
      BY <1>6, <3>3, <3>4
  <2>2. ASSUME NEW s \in Sessions, Requeue(s) PROVE PastGrows
    <3>1. past' = [past EXCEPT !.kept = @ \/ (Len(row[s].image) > 1)]
      BY <2>2 DEF Requeue
    <3> QED
      BY <1>7, <3>1
  <2>3. ASSUME NEW s \in Sessions, Suspend(s) PROVE PastGrows
    <3>1. \E repo : past' = [past EXCEPT !.cut = @ \/ (repo \in {"partial", "base"})]
      BY <2>3 DEF Suspend, Cut
    <3>2. PICK repo : past' = [past EXCEPT !.cut = @ \/ (repo \in {"partial", "base"})]
      BY <3>1
    <3> QED
      BY <1>2, <3>2
  <2>4. ASSUME NEW s \in Sessions,
               \/ CreateSession(s) \/ SkipRow(s) \/ Pin(s) \/ FailSpec(s) \/ RunCreate(s) \/ CreateFails(s)
               \/ CreateAnswered(s) \/ Cancel(s) \/ Resume(s) \/ Delete(s)
        PROVE  PastGrows
    BY <1>1, <2>4 DEF CreateSession, SkipRow, Pin, FailSpec, RunCreate, CreateFails, CreateAnswered, Cancel, Resume,
                      Delete, chainVars
  <2>5. ASSUME NEW b \in Boxes, DestroyOrphan(b) PROVE PastGrows
    BY <1>1, <2>5 DEF DestroyOrphan
  <2>6. ASSUME NEW bu \in builds, Commit(bu) \/ DropBuild(bu) \/ Record(bu) PROVE PastGrows
    BY <1>1, <2>6 DEF Commit, DropBuild, Record, chainVars
  <2>7. ASSUME BeginPass \/ BeginEdit \/ EndEdit \/ BeginDelete \/ EndDelete PROVE PastGrows
    BY <1>1, <2>7 DEF BeginPass, BeginEdit, EndEdit, BeginDelete, EndDelete, chainVars
  <2> QED
    BY <1>10, <2>1, <2>2, <2>3, <2>4, <2>5, <2>6, <2>7 DEF Fleet
<1>11. CASE World
  <2>1. ASSUME NEW n \in news, LoseNews(n) PROVE PastGrows
    <3> DEFINE more == n.kind = "failed"
    <3>1. past' = [past EXCEPT !.lost = @ \/ more] /\ more \in BOOLEAN
      BY <2>1 DEF LoseNews
    <3> HIDE DEF more
    <3> QED
      BY <1>4, <3>1
  <2>2. ASSUME Refresh \/ (\E t \in vault.good : Withdraw(t)) PROVE PastGrows
    BY <1>1, <2>2 DEF Refresh, Withdraw
  <2> QED
    BY <1>11, <2>1, <2>2 DEF World
<1> QED
  BY <1>1, <1>8, <1>9, <1>10, <1>11 DEF Next, vars, chainVars

LEMMA VaultMoves ==
  ASSUME TypeOK, [Next]_vars
  PROVE  vault' \in VaultType
<1>0. vault \in VaultType
  BY DEF TypeOK, ChainTypeOK
<1>1. CASE UNCHANGED vault
  BY <1>0, <1>1
<1>2. ASSUME vault' = Flagged PROVE vault' \in VaultType
  BY <1>0, <1>2 DEF Flagged, VaultType
<1>3. CASE SystemStep
  <2>1. ASSUME NEW b \in Boxes,
               \/ WriteRC(b) \/ SecretsFail(b) \/ AgentsWaited(b) \/ HearVerdict(b) \/ OfferReport(b) \/ TimeOut(b)
               \/ Take(b) \/ RelayEnds(b) \/ Deliver(b, box[b].gen) \/ Register(b)
        PROVE  UNCHANGED vault
    BY <2>1 DEF WriteRC, SecretsFail, AgentsWaited, HearVerdict, OfferReport, TimeOut, Take, RelayEnds, Deliver, Register
  <2>2. ASSUME NEW n \in news, ApplyRunnerEvent(n) \/ SetupDone(n) \/ CredentialRejected(n)
        PROVE  UNCHANGED vault \/ vault' = Flagged
    BY <2>2 DEF ApplyRunnerEvent, SetupDone, CredentialRejected
  <2> QED
    BY <1>1, <1>2, <1>3, <2>1, <2>2 DEF SystemStep
<1>4. CASE Programs
  <2>1. ASSUME NEW b \in Boxes,
               \/ ScriptEnds(b) \/ SkipClone(b) \/ AskCredential(b) \/ Minted(b) \/ MintRefused(b)
               \/ GitSucceeds(b) \/ CheckOut(b) \/ GitHubRefuses(b) \/ Accuse(b) \/ ProxyRefuses(b)
               \/ SetupEnds(b) \/ Drop(b) \/ Swallow(b)
        PROVE  UNCHANGED vault
    BY <2>1 DEF ScriptEnds, SkipClone, AskCredential, Minted, MintRefused, GitSucceeds, CheckOut,
                GitHubRefuses, Accuse, ProxyRefuses, SetupEnds, Drop, Swallow
  <2> QED
    BY <1>1, <1>4, <2>1 DEF Programs
<1>5. CASE Fleet
  <2>1. ASSUME NEW s \in Sessions,
               \/ CreateSession(s) \/ Place(s) \/ SkipRow(s) \/ Pin(s) \/ FailSpec(s) \/ RunCreate(s) \/ CreateFails(s)
               \/ CreateAnswered(s) \/ Requeue(s) \/ Suspend(s) \/ Resume(s) \/ Delete(s) \/ Cancel(s)
        PROVE  UNCHANGED vault
    BY <2>1 DEF CreateSession, Place, SkipRow, Pin, FailSpec, RunCreate, CreateFails, CreateAnswered, Requeue,
                Suspend, Resume, Delete, Cancel, chainVars
  <2>2. (\E b \in Boxes : DestroyOrphan(b)) \/ (\E bu \in builds : Commit(bu) \/ DropBuild(bu) \/ Record(bu))
        \/ BeginPass \/ BeginEdit \/ EndEdit \/ BeginDelete \/ EndDelete => UNCHANGED vault
    BY DEF DestroyOrphan, Commit, DropBuild, Record, BeginPass, BeginEdit, EndEdit, BeginDelete, EndDelete, chainVars
  <2> QED
    BY <1>1, <1>5, <2>1, <2>2 DEF Fleet
<1>6. CASE World
  <2>1. ASSUME vault' = Stored(vault.token + 1) PROVE vault' \in VaultType
    <3> DEFINE token == vault.token + 1
               good == vault.good \cup {token}
    <3>1. vault.token \in Nat /\ vault.good \subseteq Nat
      BY <1>0 DEF VaultType
    <3>2. token \in Nat /\ good \in SUBSET Nat
      BY <3>1
    <3>3. vault' = [vault EXCEPT !.token = token, !.status = "valid", !.good = good]
      BY <2>1 DEF Stored
    <3> HIDE DEF token, good
    <3> QED
      BY <1>0, <3>2, <3>3 DEF VaultType
  <2>2. ASSUME NEW t, vault' = [vault EXCEPT !.good = @ \ {t}] PROVE vault' \in VaultType
    BY <1>0, <2>2 DEF VaultType
  <2> QED
    BY <1>1, <1>6, <2>1, <2>2 DEF World, Refresh, Withdraw, LoseNews
<1> QED
  BY <1>1, <1>3, <1>4, <1>5, <1>6 DEF Next, vars, chainVars

\* News that is new came out of a sandbox's queue, or says that it is up.
Says(b, kind) == [box |-> b, gen |-> box[b].gen, kind |-> kind]
Heard(b) == /\ wire[b].pending # <<>> /\ news' = news \cup {Says(b, Head(wire[b].pending))}
            /\ UNCHANGED <<past, cacheVars>>
IsUp(b) == news' = news \cup {Says(b, "running")} /\ UNCHANGED <<past, cacheVars>>

LEMMA NewsMoves ==
  ASSUME [Next]_vars
  PROVE  news' \subseteq news \/ \E b \in Boxes : (wire[b].conn # "down" /\ Heard(b)) \/ (boot[b].pc = "up" /\ IsUp(b))
<1>2. CASE SystemStep
  <2>1. ASSUME NEW b \in Boxes, UNCHANGED cacheVars, Deliver(b, box[b].gen) PROVE wire[b].conn # "down" /\ Heard(b)
    BY <2>1 DEF Deliver, Heard, Says
  <2>2. ASSUME NEW b \in Boxes, Register(b) PROVE boot[b].pc = "up" /\ IsUp(b)
    BY <2>2 DEF Register, Dial, IsUp, Says
  <2>3. ASSUME NEW b \in Boxes,
               \/ WriteRC(b) \/ SecretsFail(b) \/ AgentsWaited(b) \/ HearVerdict(b) \/ OfferReport(b) \/ TimeOut(b)
               \/ Take(b) \/ RelayEnds(b)
        PROVE  UNCHANGED news
    BY <2>3 DEF WriteRC, SecretsFail, AgentsWaited, HearVerdict, OfferReport, TimeOut, Take, RelayEnds
  <2>4. ASSUME NEW n \in news, ApplyRunnerEvent(n) \/ SetupDone(n) \/ CredentialRejected(n) PROVE news' \subseteq news
    BY <2>4 DEF ApplyRunnerEvent, SetupDone, CredentialRejected
  <2> QED
    BY <1>2, <2>1, <2>2, <2>3, <2>4 DEF SystemStep
<1>3. CASE Programs
  BY <1>3 DEF Programs, ScriptEnds, SkipClone, AskCredential, Minted, MintRefused, GitSucceeds, CheckOut, GitHubRefuses,
              Accuse, ProxyRefuses, SetupEnds, Drop, Swallow
<1>4. CASE Fleet
  <2>1. ASSUME NEW s \in Sessions,
               \/ CreateSession(s) \/ Place(s) \/ SkipRow(s) \/ Pin(s) \/ FailSpec(s) \/ RunCreate(s) \/ CreateFails(s)
               \/ CreateAnswered(s) \/ Requeue(s) \/ Suspend(s) \/ Resume(s) \/ Delete(s) \/ Cancel(s)
        PROVE  UNCHANGED news
    BY <2>1 DEF CreateSession, Place, SkipRow, Pin, FailSpec, RunCreate, CreateFails, CreateAnswered, Requeue,
                Suspend, Resume, Delete, Cancel, chainVars
  <2>2. (\E b \in Boxes : DestroyOrphan(b)) \/ (\E bu \in builds : Commit(bu) \/ DropBuild(bu) \/ Record(bu))
        \/ BeginPass \/ BeginEdit \/ EndEdit \/ BeginDelete \/ EndDelete => UNCHANGED news
    BY DEF DestroyOrphan, Commit, DropBuild, Record, BeginPass, BeginEdit, EndEdit, BeginDelete, EndDelete, chainVars
  <2> QED
    BY <1>4, <2>1, <2>2 DEF Fleet
<1>5. CASE World
  BY <1>5 DEF World, Refresh, Withdraw, LoseNews
<1> QED
  BY <1>2, <1>3, <1>4, <1>5 DEF Next, vars, chainVars

LEMMA NewsTypes ==
  ASSUME IInv, [Next]_vars
  PROVE  news' \subseteq NewsType
<1>1. TypeOK /\ news \subseteq NewsType
  BY DEF IInv, TypeOK, ChainTypeOK
<1>2. ASSUME NEW b \in Boxes, NEW kind \in Kinds PROVE Says(b, kind) \in NewsType
  <2>1. box[b].gen \in Nat
    <3>1. box[b] \in BoxType
      BY <1>1 DEF TypeOK
    <3> QED
      BY <3>1, ContainerHas
  <2> QED
    BY <2>1 DEF Says, NewsType
<1>3. ASSUME NEW b \in Boxes, Heard(b) PROVE news' \subseteq NewsType
  <2>1. Head(wire[b].pending) \in Kinds
    BY <1>1, <1>3, HeadGoes DEF Heard
  <2> QED
    BY <1>1, <1>2, <1>3, <2>1 DEF Heard
<1>4. ASSUME NEW b \in Boxes, IsUp(b) PROVE news' \subseteq NewsType
  BY <1>1, <1>2, <1>4 DEF IsUp, Kinds
<1> QED
  BY <1>1, <1>3, <1>4, NewsMoves

--------------------
\* Images and environments.

LEMMA Names ==
  /\ \A i \in Images : Base(i) \in Bases /\ Len(Base(i)) = 1
  /\ \A x \in Bases : Len(x) = 1 /\ x # <<>> /\ x = <<x[1]>> /\ x[1] \in Images
  /\ \A x \in Refs : Len(x) = 2 /\ x # <<>> /\ x = <<x[1], x[2]>> /\ x[1] \in Images /\ x[2] \in Scripts
  /\ \A x \in Bases, y \in Refs : x # y
  BY DEF Bases, Refs, Base, Ref

LEMMA Concat ==
  ASSUME NEW a, NEW c
  PROVE  <<a>> \o <<c>> = <<a, c>>
<1> DEFINE S == {a, c}
           x == <<a>>
           y == <<c>>
           z == <<a, c>>
<1>1. x \in Seq(S) /\ y \in Seq(S) /\ z \in Seq(S) /\ Len(x) = 1 /\ Len(y) = 1 /\ Len(z) = 2
      /\ x[1] = a /\ y[1] = c /\ z[1] = a /\ z[2] = c
  OBVIOUS
<1> HIDE DEF x, y, z, S
<1>2. x \o y \in Seq(S) /\ Len(x \o y) = 2 /\ \A i \in 1..2 : (x \o y)[i] = z[i]
  <2> DEFINE w == x \o y
  <2>1. w \in Seq(S) /\ Len(w) = Len(x) + Len(y)
        /\ \A i \in 1..Len(x) + Len(y) : w[i] = IF i <= Len(x) THEN x[i] ELSE y[i - Len(x)]
    BY <1>1, ConcatProperties, Zenon
  <2> HIDE DEF w
  <2>2. w[1] = x[1] /\ Len(w) = 2
    BY <1>1, <2>1
  <2>3. w[2] = y[1]
    BY <1>1, <2>1
  <2>4. \A i \in 1..2 : i = 1 \/ i = 2
    OBVIOUS
  <2> QED
    BY <1>1, <2>1, <2>2, <2>3, <2>4 DEF w
<1>3. x \o y = z
  BY <1>1, <1>2, SeqEqual
<1> QED
  BY <1>3 DEF x, y, z

LEMMA HashIs ==
  ASSUME NEW e \in EnvType, e.there
  PROVE  /\ e.image \in Bases /\ e.setup \in Setup /\ e.snap \in SnapType
         /\ Hash(e) = <<e.image[1], e.setup>> /\ Len(Hash(e)) = 2
         /\ Hash(e) \in Refs => e.setup \in Scripts
         /\ e.setup \in Scripts => Hash(e) \in Refs
<1>1. e.image \in Bases /\ e.setup \in Setup /\ e.snap \in SnapType
  <2>1. e = NoEnv \/ e \in [there : {TRUE}, image : Bases, setup : Setup, snap : SnapType]
    BY DEF EnvType
  <2>2. e # NoEnv
    BY DEF NoEnv
  <2> QED
    BY <2>1, <2>2
<1>2. e.image = <<e.image[1]>> /\ e.image[1] \in Images
  BY <1>1, Names
<1>3. Hash(e) = <<e.image[1]>> \o <<e.setup>>
  BY <1>2 DEF Hash
<1>4. Hash(e) = <<e.image[1], e.setup>>
  BY <1>3, Concat
<1>5. Hash(e) \in Refs => Hash(e)[2] \in Scripts
  BY Names
<1>6. e.setup \in Scripts => Hash(e) \in Refs
  BY <1>2, <1>4 DEF Refs, Ref
<1> QED
  BY <1>1, <1>4, <1>5, <1>6

LEMMA CachedIs ==
  ASSUME NEW e \in EnvType, RunsCachedSnapshot(e)
  PROVE  /\ e.there /\ e.snap.ref \in Refs /\ e.snap.ref = Hash(e) /\ e.setup \in Scripts
         /\ e.snap # NoSnap /\ e.snap.holder \in Runners
         /\ e.snap.ref[1] = e.image[1] /\ e.snap.ref[2] = e.setup /\ e.image \in Bases
<1>1. e.there
  <2>1. NoEnv.snap.ref = <<>>
    BY DEF NoEnv, NoSnap
  <2> QED
    BY <2>1 DEF EnvType, RunsCachedSnapshot
<1>2. e.snap \in SnapType /\ e.snap.ref # <<>>
  BY <1>1, HashIs DEF RunsCachedSnapshot
<1>3. e.snap.ref \in Refs /\ e.snap.hash = e.snap.ref /\ e.snap.holder \in Runners /\ e.snap # NoSnap
  BY <1>2 DEF SnapType, NoSnap
<1>4. e.snap.ref = Hash(e)
  BY <1>3 DEF RunsCachedSnapshot
<1>5. Hash(e)[1] = e.image[1] /\ Hash(e)[2] = e.setup
  BY <1>1, HashIs
<1> QED
  BY <1>1, <1>3, <1>4, <1>5, HashIs

\* what a row's pin may be
Longer(i, sc) == i \o <<sc>>
Longers == {Longer(i, sc) : i \in Refs, sc \in Scripts}
LEMMA PinsAre ==
  Pins = Refs \cup Longers \cup {<<>>}
  BY DEF Pins, Longers, Longer

LEMMA PinIs ==
  ASSUME NEW image \in Bases \cup Refs, NEW sc \in Scripts
  PROVE  /\ image \o <<sc>> \in Pins
         /\ image \in Bases => image \o <<sc>> = <<image[1], sc>>
<1> DEFINE w == image \o <<sc>>
<1>1. CASE image \in Bases
  <2>1. image = <<image[1]>> /\ image[1] \in Images
    BY <1>1, Names
  <2>2. w = <<image[1], sc>>
    BY <2>1, Concat
  <2>3. w \in Refs
    BY <2>1, <2>2 DEF Refs, Ref
  <2> HIDE DEF w
  <2>4. w \in Pins
    BY <2>3, PinsAre
  <2> QED
    BY <2>2, <2>4 DEF w
<1>2. CASE image \in Refs
  <2>1. w \in Longers
    <3>1. Longer(image, sc) \in Longers
      BY <1>2 DEF Longers
    <3> QED
      BY <3>1 DEF Longer
  <2> HIDE DEF w
  <2>2. w \in Pins /\ image \notin Bases
    BY <1>2, <2>1, PinsAre, Names
  <2> QED
    BY <2>2 DEF w
<1> QED
  BY <1>1, <1>2

\* a pin that is an environment's hash is a ref
LEMMA LongerIs ==
  ASSUME NEW x \in Longers
  PROVE  Len(x) = 3
<1>1. PICK i \in Refs, sc \in Scripts : x = Longer(i, sc)
  BY DEF Longers
<1> DEFINE S == {i[1], i[2], sc}
           z == <<i[1], i[2]>>
           y == <<sc>>
<1>2. i = z
  BY Names
<1>3. z \in Seq(S) /\ Len(z) = 2 /\ y \in Seq(S) /\ Len(y) = 1 /\ x = i \o y
  BY <1>1 DEF Longer
<1> HIDE DEF S, y, z
<1>4. z \o y \in Seq(S) /\ Len(z \o y) = Len(z) + Len(y)
  BY <1>3, ConcatProperties
<1> QED
  BY <1>2, <1>3, <1>4

LEMMA PinnedRef ==
  ASSUME NEW e \in EnvType, e.there, Hash(e) \in Pins
  PROVE  Hash(e) \in Refs
<1> DEFINE h == Hash(e)
<1>1. Len(h) = 2 /\ h \in Pins
  BY HashIs
<1>2. Len(<<>>) = 0
  OBVIOUS
<1> HIDE DEF h
<1>3. h \in Refs
  BY <1>1, <1>2, PinsAre, LongerIs
<1> QED
  BY <1>3 DEF h

--------------------
\* Rows, and the goroutines that create what they place.

SessionsGood == row \in [Sessions -> RowType] /\ job \in [Sessions -> JobType] /\ SessionsFine
Kept == past'.kept \in BOOLEAN /\ (past.kept => past'.kept)
OnlyRow(s) == row' = [row EXCEPT ![s] = row'[s]] /\ job' = [job EXCEPT ![s] = job'[s]]
SessionAt(s) == row[s] \in RowType /\ job[s] \in JobType /\ SessionFine(row[s], job[s], past.kept)

LEMMA FineKept ==
  ASSUME NEW ro, NEW jo, NEW kept \in BOOLEAN, NEW more \in BOOLEAN, kept => more, SessionFine(ro, jo, kept)
  PROVE  SessionFine(ro, jo, more)
  BY DEF SessionFine, RowFine, JobFine

LEMMA PastKept ==
  ASSUME TypeOK, PastGrows
  PROVE  /\ past'.kept \in BOOLEAN /\ past'.same \in BOOLEAN /\ past.kept \in BOOLEAN /\ past.same \in BOOLEAN
         /\ (past.kept => past'.kept) /\ (past.same => past'.same)
<1>1. past \in PastType /\ past' \in PastType
  BY DEF TypeOK, ChainTypeOK, PastGrows
<1> QED
  BY <1>1 DEF PastGrows, PastType

LEMMA Session ==
  ASSUME TypeOK, SessionsFine, NEW s \in Sessions
  PROVE  /\ SessionAt(s) /\ row = [row EXCEPT ![s] = row[s]] /\ job = [job EXCEPT ![s] = job[s]]
         /\ row \in [Sessions -> RowType] /\ job \in [Sessions -> JobType]
<1>1. row \in [Sessions -> RowType] /\ job \in [Sessions -> JobType]
  BY DEF TypeOK
<1> QED
  BY <1>1 DEF SessionsFine, SessionAt

LEMMA SessionMoves ==
  ASSUME TypeOK, SessionsFine, PastGrows, NEW s \in Sessions, OnlyRow(s), SessionAt(s)'
  PROVE  SessionsGood'
<1>1. row \in [Sessions -> RowType] /\ job \in [Sessions -> JobType]
  BY DEF TypeOK
<1>2. ASSUME NEW t \in Sessions PROVE SessionFine(row'[t], job'[t], past'.kept)
  <2>1. CASE t = s
    BY <2>1 DEF SessionAt
  <2>2. CASE t # s
    <3>1. row'[t] = row[t] /\ job'[t] = job[t]
      BY <1>1, <2>2 DEF OnlyRow
    <3> QED
      BY <3>1, Session, PastKept, FineKept DEF SessionAt
  <2> QED
    BY <2>1, <2>2
<1>3. row' \in [Sessions -> RowType] /\ job' \in [Sessions -> JobType]
  BY <1>1 DEF OnlyRow, SessionAt
<1> QED
  BY <1>2, <1>3 DEF SessionsGood, SessionsFine

LEMMA SessionsStay ==
  ASSUME TypeOK, SessionsFine, PastGrows, UNCHANGED <<row, job>>
  PROVE  SessionsGood'
<1>1. row \in [Sessions -> RowType] /\ job \in [Sessions -> JobType]
  BY DEF TypeOK
<1>2. ASSUME NEW t \in Sessions PROVE SessionFine(row'[t], job'[t], past'.kept)
  BY Session, PastKept, FineKept DEF SessionAt
<1> QED
  BY <1>1, <1>2 DEF SessionsGood, SessionsFine

NoJobIs == NoJob \in JobType /\ NoJob.pc = "idle" /\ NoJob.setup = None /\ NoEnv \in EnvType
LEMMA NoJobGood == NoJobIs
  BY DEF NoJobIs, NoJob, JobType, EnvType, Setup

\* a row that exists goes to another state, and its goroutine on or away
LEMMA StateChanges ==
  ASSUME TypeOK, SessionsFine, PastGrows, NEW s \in Sessions, OnlyRow(s),
         NEW state \in RowStates, NEW gen \in Nat,
         row'[s] = [row[s] EXCEPT !.state = state, !.gen = gen],
         state # None, state # "queued" \/ state = row[s].state,
         row[s].state # None \/ row[s].state = state,
         state \in {"creating", "running", "suspended", "resuming"} => row[s].runner \in Runners,
         job'[s] \in {job[s], NoJob}
  PROVE  SessionsGood'
<1> DEFINE ro == row[s]
           new == [ro EXCEPT !.state = state, !.gen = gen]
<1>1. SessionAt(s)
  BY Session
<1>2. /\ new \in RowType /\ new.state = state /\ new.runner = ro.runner /\ new.image = ro.image
      /\ new.asked = ro.asked /\ new.pin = ro.pin
  BY <1>1 DEF SessionAt, RowType, RowStates
<1>3. row'[s] = new /\ job'[s] \in JobType
  BY <1>1, NoJobGood DEF SessionAt, NoJobIs
<1> HIDE DEF new
<1>4. SessionFine(new, job[s], past.kept) /\ SessionFine(new, NoJob, past.kept)
  BY <1>1, <1>2, NoJobGood DEF SessionAt, SessionFine, RowFine, JobFine, NoJobIs
<1>5. SessionFine(row'[s], job'[s], past'.kept)
  BY <1>3, <1>4, PastKept, FineKept
<1> QED
  BY <1>2, <1>3, <1>5, SessionMoves DEF SessionAt

LEMMA RowSet ==
  ASSUME TypeOK, NEW s \in Sessions, NEW x, row' = [row EXCEPT ![s] = x]
  PROVE  row'[s] = x /\ row' = [row EXCEPT ![s] = row'[s]]
<1>1. row \in [Sessions -> RowType]
  BY DEF TypeOK
<1> QED
  BY <1>1

LEMMA JobSet ==
  ASSUME TypeOK, NEW s \in Sessions, NEW x, job' = [job EXCEPT ![s] = x]
  PROVE  job'[s] = x /\ job' = [job EXCEPT ![s] = job'[s]]
<1>1. job \in [Sessions -> JobType]
  BY DEF TypeOK
<1> QED
  BY <1>1

LEMMA RowState ==
  ASSUME TypeOK, NEW s \in Sessions, NEW state, row' = [row EXCEPT ![s].state = state]
  PROVE  /\ row'[s] = [row[s] EXCEPT !.state = state, !.gen = row[s].gen] /\ row' = [row EXCEPT ![s] = row'[s]]
         /\ row[s].gen \in Nat
<1>1. row \in [Sessions -> RowType] /\ row[s] \in RowType
  BY DEF TypeOK
<1>2. row' = [row EXCEPT ![s] = [row[s] EXCEPT !.state = state]]
  BY <1>1
<1>3. [row[s] EXCEPT !.state = state] = [row[s] EXCEPT !.state = state, !.gen = row[s].gen]
  BY <1>1 DEF RowType
<1> QED
  BY <1>1, <1>2, <1>3, RowSet DEF RowType

LEMMA CreateSessionGood ==
  ASSUME TypeOK, SessionsFine, PastGrows, NEW s \in Sessions, CreateSession(s)
  PROVE  SessionsGood' /\ OnlyRow(s)
<1> DEFINE image == IF s \in shape.own THEN Base("own") ELSE env.image
           ro == [NoRow EXCEPT !.state = "queued", !.image = image, !.asked = image]
<1>1. row[s].state = None /\ env.there /\ row' = [row EXCEPT ![s] = ro] /\ UNCHANGED job
  BY DEF CreateSession
<1>2. image \in Bases
  <2>1. env.image \in Bases
    BY <1>1, HashIs DEF TypeOK
  <2>2. Base("own") \in Bases
    BY DEF Bases, Images
  <2> QED
    BY <2>1, <2>2
<1> HIDE DEF image
<1>3. row'[s] = ro /\ OnlyRow(s) /\ SessionAt(s) /\ job'[s] = job[s]
  BY <1>1, RowSet, Session DEF OnlyRow
<1>4. /\ ro \in RowType /\ ro.state = "queued" /\ ro.runner = None /\ ro.image = image /\ ro.asked = image
  BY <1>2, PinsAre DEF NoRow, RowType, RowStates, Live
<1> HIDE DEF ro
<1>5. job[s].pc = "idle" /\ image # <<>>
  BY <1>1, <1>2, <1>3, Names DEF SessionAt, SessionFine, RowFine
<1>6. SessionFine(ro, job[s], past'.kept)
  BY <1>2, <1>4, <1>5 DEF SessionFine, RowFine, JobFine, None
<1>7. SessionAt(s)'
  BY <1>3, <1>4, <1>6 DEF SessionAt
<1> QED
  BY <1>3, <1>7, SessionMoves

\* where a row is placed, and with which image
LEMMA PlacementIs ==
  ASSUME TypeOK, SessionsFine, NEW s \in Sessions, NEW e \in EnvType, NEW room \in SUBSET shape.runners,
         row[s].state = "queued"
  PROVE  LET p == Placement(s, e, room)
         IN  /\ p.on \subseteq Runners /\ p.image \in Bases \cup Refs
             /\ ~past.kept => /\ p.image \in Bases => p.image = row[s].asked
                              /\ p.image \in Bases \/ Cached(e, p.image)
<1> DEFINE p == Placement(s, e, room)
<1>1. row[s] \in RowType /\ SessionAt(s) /\ shape.runners \subseteq Runners
  <2>1. shape.runners \subseteq Runners
    BY DEF TypeOK, Shape
  <2> QED
    BY <2>1, Session DEF SessionAt
<1>2. /\ row[s].image \in Bases \cup Refs /\ (~past.kept => row[s].image = row[s].asked /\ row[s].image \in Bases)
  BY <1>1, Names DEF SessionAt, SessionFine, RowFine, RowType, None
<1>3. CASE ~e.there \/ ~RunsCachedSnapshot(e) \/ Overrides(s, e)
  <2>1. p = [on |-> room, image |-> row[s].image]
    BY <1>3, Zenon DEF Placement
  <2> QED
    BY <1>1, <1>2, <2>1
<1>4. CASE ~(~e.there \/ ~RunsCachedSnapshot(e) \/ Overrides(s, e))
  <2>1. /\ e.there /\ e.snap.ref \in Refs /\ e.image \in Bases /\ RunsCachedSnapshot(e)
        /\ row[s].image = e.image \/ row[s].image = e.snap.ref
    BY <1>4, CachedIs DEF Overrides
  <2>2. CASE Locate(e.snap.ref) \cap room # {}
    <3>1. p = [on |-> Locate(e.snap.ref) \cap room, image |-> e.snap.ref]
      BY <1>4, <2>2, Zenon DEF Placement
    <3>2. e.snap.ref \notin Bases
      BY <2>1, Names
    <3> QED
      BY <1>1, <2>1, <3>1, <3>2 DEF Cached
  <2>3. CASE ~(Locate(e.snap.ref) \cap room # {})
    <3>1. p = [on |-> room, image |-> e.image]
      BY <1>4, <2>3, Zenon DEF Placement
    <3>2. ~past.kept => e.image = row[s].asked
      BY <1>2, <2>1, Names
    <3> QED
      BY <1>1, <2>1, <3>1, <3>2
  <2> QED
    BY <2>2, <2>3
<1> QED
  BY <1>3, <1>4

LEMMA PlaceGood ==
  ASSUME TypeOK, SessionsFine, PastGrows, NEW s \in Sessions, Place(s)
  PROVE  /\ SessionsGood' /\ OnlyRow(s)
         /\ row'[s].state = "creating" /\ row'[s].runner \in Runners /\ row'[s].asked = row[s].asked
         /\ job[s].pc = "idle" /\ row[s].state = "queued"
         /\ past'.same = (past.same \/ LET b == <<row'[s].runner, s>>
                                       IN  box[b].there \/ \E x \in news \cup builds : x.box = b)
<1>1. /\ job[s].pc = "idle" /\ row[s].state = "queued" /\ SessionAt(s) /\ sched.env \in EnvType
      /\ job' = [job EXCEPT ![s] = [NoJob EXCEPT !.pc = "spec", !.env = sched.env]]
  BY Session DEF Place, TypeOK
<1>0. PICK room \in (SUBSET shape.runners) \ {{}} : \E r \in Placement(s, sched.env, room).on :
         /\ row' = [row EXCEPT ![s] = [row[s] EXCEPT !.state = "creating", !.runner = r, !.gen = @ + 1,
                                                !.image = Placement(s, sched.env, room).image]]
         /\ past' = [past EXCEPT !.same = @ \/ box[<<r, s>>].there \/ \E x \in news \cup builds : x.box = <<r, s>>]
  BY DEF Place
<1>2. PICK r \in Placement(s, sched.env, room).on :
         /\ row' = [row EXCEPT ![s] = [row[s] EXCEPT !.state = "creating", !.runner = r, !.gen = @ + 1,
                                                !.image = Placement(s, sched.env, room).image]]
         /\ past' = [past EXCEPT !.same = @ \/ box[<<r, s>>].there \/ \E x \in news \cup builds : x.box = <<r, s>>]
  BY <1>0
<1> DEFINE image == Placement(s, sched.env, room).image
<1>3. /\ r \in Runners /\ image \in Bases \cup Refs
      /\ ~past.kept => /\ image \in Bases => image = row[s].asked
                       /\ image \in Bases \/ Cached(sched.env, image)
  BY <1>1, PlacementIs
<1> DEFINE ro == [row[s] EXCEPT !.state = "creating", !.runner = r, !.gen = row[s].gen + 1, !.image = image]
           jo == [NoJob EXCEPT !.pc = "spec", !.env = sched.env]
<1>4. row' = [row EXCEPT ![s] = ro]
  <2>1. row \in [Sessions -> RowType]
    BY Session
  <2>2. row' = [row EXCEPT ![s] = [row[s] EXCEPT !.state = "creating", !.runner = r, !.gen = @ + 1, !.image = image]]
    BY <1>2
  <2> HIDE DEF image
  <2> QED
    BY <2>1, <2>2
<1> HIDE DEF image
<1>5. /\ jo \in JobType /\ jo.pc = "spec" /\ jo.env = sched.env
  BY <1>1 DEF NoJob, JobType, Setup
<1>6. /\ ro \in RowType /\ ro.state = "creating" /\ ro.runner = r /\ ro.image = image /\ ro.asked = row[s].asked
  <2> DEFINE gen == row[s].gen + 1
  <2>1. row[s] \in RowType /\ gen \in Nat
    BY <1>1 DEF SessionAt, RowType
  <2> HIDE DEF gen
  <2>2. "creating" \in RowStates
    BY DEF RowStates, Live
  <2>3. ro = [row[s] EXCEPT !.state = "creating", !.runner = r, !.gen = gen, !.image = image]
    BY DEF gen
  <2> QED
    BY <1>3, <2>1, <2>2, <2>3 DEF RowType
<1>7. job'[s] = jo /\ job' = [job EXCEPT ![s] = job'[s]]
  BY <1>1, JobSet
<1> HIDE DEF ro, jo
<1>8. row'[s] = ro /\ OnlyRow(s)
  BY <1>4, <1>7, RowSet DEF OnlyRow
<1>9. image # <<>> /\ row[s].asked \in Bases
  BY <1>1, <1>3, Names DEF SessionAt, SessionFine, RowFine, None
<1>10. SessionFine(ro, jo, past.kept)
  BY <1>3, <1>5, <1>6, <1>9 DEF SessionFine, RowFine, JobFine, None
<1>11. SessionFine(ro, jo, past'.kept)
  BY <1>10, PastKept, FineKept
<1>12. SessionAt(s)'
  BY <1>5, <1>6, <1>7, <1>8, <1>11 DEF SessionAt
<1>13. past'.same = (past.same \/ box[<<r, s>>].there \/ \E x \in news \cup builds : x.box = <<r, s>>)
  <2>1. past \in PastType
    BY DEF TypeOK, ChainTypeOK
  <2> QED
    BY <1>2, <2>1 DEF PastType
<1> QED
  BY <1>1, <1>3, <1>6, <1>8, <1>12, <1>13, SessionMoves

LEMMA SetupForIs ==
  ASSUME TypeOK, SessionsFine, NEW s \in Sessions
  PROVE  SetupFor(s) = SetupOf(job[s].env, row[s].image) /\ SetupFor(s) \in Setup /\ job[s].env \in EnvType
<1>1. job[s].env \in EnvType
  BY Session DEF SessionAt, JobType
<1>2. job[s].env.there => job[s].env.setup \in Setup
  BY <1>1, HashIs
<1> QED
  BY <1>1, <1>2 DEF SetupFor, SetupOf, Setup

LEMMA PinGood ==
  ASSUME TypeOK, SessionsFine, PastGrows, NEW s \in Sessions, Pin(s)
  PROVE  /\ SessionsGood' /\ OnlyRow(s) /\ row'[s].runner = row[s].runner /\ row'[s].state = row[s].state
         /\ row'[s].asked = row[s].asked
<1> DEFINE setup == SetupFor(s)
           pin == IF setup = None THEN row[s].pin ELSE row[s].image \o <<setup>>
           ro == [row[s] EXCEPT !.pin = pin]
           jo == [job[s] EXCEPT !.pc = "sent", !.setup = setup]
<1>1. /\ job[s].pc = "spec" /\ SessionAt(s)
      /\ job' = [job EXCEPT ![s] = jo] /\ row' = [row EXCEPT ![s] = ro]
  BY Session DEF Pin
<1>2. /\ setup = SetupOf(job[s].env, row[s].image) /\ setup \in Setup
  BY SetupForIs
<1>3. row[s].image \in Bases \cup Refs
  BY <1>1 DEF SessionAt, SessionFine, RowFine, RowType
<1>4. pin \in Pins
  <2>1. CASE setup = None
    BY <1>1, <2>1 DEF SessionAt, RowType
  <2>2. CASE setup # None
    BY <1>2, <1>3, <2>2, PinIs DEF Setup
  <2> QED
    BY <2>1, <2>2
<1>5. setup # None => pin = row[s].image \o <<setup>>
  OBVIOUS
<1> HIDE DEF pin, setup
<1>6. /\ ro \in RowType /\ ro.state = row[s].state /\ ro.runner = row[s].runner /\ ro.image = row[s].image
      /\ ro.asked = row[s].asked /\ ro.pin = pin
  BY <1>1, <1>4 DEF SessionAt, RowType
<1>7. jo \in JobType /\ jo.pc = "sent" /\ jo.setup = setup /\ jo.env = job[s].env
  BY <1>1, <1>2 DEF SessionAt, JobType
<1> HIDE DEF ro, jo
<1>8. row'[s] = ro /\ job'[s] = jo /\ OnlyRow(s)
  BY <1>1, RowSet, JobSet DEF OnlyRow
<1>9. RowFine(ro, jo, past.kept)
  BY <1>1, <1>6 DEF SessionAt, SessionFine, RowFine
<1>11. JobFine(ro, jo, past.kept)
  BY <1>1, <1>2, <1>5, <1>6, <1>7 DEF SessionAt, SessionFine, JobFine
<1>12. SessionFine(ro, jo, past'.kept)
  BY <1>9, <1>11, PastKept, FineKept DEF SessionFine
<1> QED
  BY <1>6, <1>7, <1>8, <1>12, SessionMoves DEF SessionAt

LEMMA RequeueGood ==
  ASSUME TypeOK, SessionsFine, PastGrows, NEW s \in Sessions, Requeue(s)
  PROVE  /\ SessionsGood' /\ OnlyRow(s) /\ job'[s].pc = "idle" /\ row'[s].asked = row[s].asked
         /\ row'[s].image = row[s].image /\ row'[s].pin = row[s].pin /\ row'[s].runner \in {row[s].runner, None}
         /\ row[s].state # None /\ row'[s].state # None /\ (row'[s].state = "suspended" => row'[s] = row[s])
<1> DEFINE ro == IF row[s].state = "creating" THEN [row[s] EXCEPT !.state = "queued", !.runner = None] ELSE row[s]
<1>1. /\ job[s].pc \in {"sent", "made"} /\ SessionAt(s)
      /\ job' = [job EXCEPT ![s] = NoJob] /\ row' = [row EXCEPT ![s] = ro]
      /\ past' = [past EXCEPT !.kept = @ \/ (Len(row[s].image) > 1)]
  BY Session DEF Requeue
<1>2. past'.kept = (past.kept \/ Len(row[s].image) > 1)
  <2>1. past \in PastType
    BY DEF TypeOK, ChainTypeOK
  <2> QED
    BY <1>1, <2>1 DEF PastType
<1>3. /\ ro \in RowType /\ ro.asked = row[s].asked /\ ro.image = row[s].image /\ ro.pin = row[s].pin
      /\ ro.state = (IF row[s].state = "creating" THEN "queued" ELSE row[s].state)
      /\ ro.runner = (IF row[s].state = "creating" THEN None ELSE row[s].runner)
      /\ ro \in {row[s], [row[s] EXCEPT !.state = "queued", !.runner = None]}
  BY <1>1 DEF SessionAt, RowType, RowStates, Live
<1>4. ro.state = "suspended" => ro = row[s]
  OBVIOUS
<1> HIDE DEF ro
<1>5. row'[s] = ro /\ job'[s] = NoJob /\ OnlyRow(s)
  BY <1>1, RowSet, JobSet DEF OnlyRow
<1>6. row[s].state # None
  BY <1>1 DEF SessionAt, SessionFine, RowFine
<1>7. ~past'.kept => row[s].image \in Bases
  <2>1. row[s].image \in Bases \cup Refs
    BY <1>1, <1>6 DEF SessionAt, SessionFine, RowFine, RowType
  <2>2. row[s].image \in Refs => Len(row[s].image) > 1
    BY Names
  <2> QED
    BY <1>2, <2>1, <2>2
<1>8. RowFine(ro, NoJob, past'.kept)
  BY <1>1, <1>2, <1>3, <1>6, <1>7, NoJobGood DEF SessionAt, SessionFine, RowFine, NoJobIs, None
<1>9. JobFine(ro, NoJob, past'.kept)
  BY NoJobGood DEF JobFine, NoJobIs
<1>10. SessionAt(s)'
  BY <1>3, <1>5, <1>8, <1>9, NoJobGood DEF SessionAt, SessionFine, NoJobIs
<1> QED
  BY <1>3, <1>4, <1>5, <1>6, <1>10, SessionMoves, NoJobGood DEF NoJobIs, None

\* the goroutine goes on; the row is as it was
LEMMA JobEnds ==
  ASSUME TypeOK, SessionsFine, PastGrows, NEW s \in Sessions, UNCHANGED row, NEW jo \in JobType,
         job' = [job EXCEPT ![s] = jo], jo.pc \in {"idle", "made"}, job[s].pc # "idle"
  PROVE  SessionsGood' /\ OnlyRow(s) /\ job'[s] = jo
<1>1. SessionAt(s) /\ job'[s] = jo /\ OnlyRow(s) /\ row'[s] = row[s]
  BY Session, JobSet DEF OnlyRow
<1>2. SessionFine(row[s], jo, past.kept)
  BY <1>1 DEF SessionAt, SessionFine, RowFine, JobFine
<1>3. SessionAt(s)'
  BY <1>1, <1>2, PastKept, FineKept DEF SessionAt
<1> QED
  BY <1>1, <1>3, SessionMoves

LEMMA RunCreateRow ==
  ASSUME TypeOK, SessionsFine, PastGrows, NEW s \in Sessions, RunCreate(s)
  PROVE  SessionsGood' /\ OnlyRow(s) /\ UNCHANGED row /\ job'[s].pc = "made"
<1> DEFINE jo == [job[s] EXCEPT !.pc = "made"]
<1>1. job[s].pc = "sent" /\ UNCHANGED row /\ job' = [job EXCEPT ![s] = jo]
  BY Session DEF RunCreate
<1>2. jo \in JobType /\ jo.pc = "made"
  BY Session DEF SessionAt, JobType
<1> HIDE DEF jo
<1> QED
  BY <1>1, <1>2, JobEnds

LEMMA CreateAnsweredRow ==
  ASSUME TypeOK, SessionsFine, PastGrows, NEW s \in Sessions, CreateAnswered(s)
  PROVE  SessionsGood' /\ OnlyRow(s) /\ UNCHANGED row /\ job'[s].pc = "idle"
  BY JobEnds, NoJobGood DEF CreateAnswered, NoJobIs

\* The steps that leave a row's placement and image alone.
SameRow(s) == /\ OnlyRow(s) /\ job'[s] \in {job[s], NoJob}
              /\ row'[s].runner = row[s].runner /\ row'[s].image = row[s].image /\ row'[s].asked = row[s].asked
              /\ row'[s].pin = row[s].pin /\ (row[s].state # None => row'[s].state # None)

LEMMA StateOnly ==
  ASSUME TypeOK, SessionsFine, PastGrows, NEW s \in Sessions, NEW state \in RowStates,
         row' = [row EXCEPT ![s].state = state], job' = [job EXCEPT ![s] = job'[s]], job'[s] \in {job[s], NoJob},
         state # None, state # "queued" \/ state = row[s].state, row[s].state # None,
         state \in {"creating", "running", "suspended", "resuming"} => row[s].runner \in Runners
  PROVE  SessionsGood' /\ SameRow(s) /\ row'[s].state = state
<1>1. /\ row'[s] = [row[s] EXCEPT !.state = state, !.gen = row[s].gen] /\ row' = [row EXCEPT ![s] = row'[s]]
      /\ row[s].gen \in Nat
  BY RowState
<1>2. OnlyRow(s) /\ row[s] \in RowType
  BY <1>1, Session DEF OnlyRow, SessionAt
<1>3. SessionsGood'
  BY <1>1, <1>2, StateChanges
<1>4. /\ row'[s].runner = row[s].runner /\ row'[s].image = row[s].image /\ row'[s].asked = row[s].asked
      /\ row'[s].pin = row[s].pin /\ row'[s].state = state
  <2> DEFINE ro == row[s]
             gen == row[s].gen
  <2>1. ro \in RowType /\ row'[s] = [ro EXCEPT !.state = state, !.gen = gen]
    BY <1>1, <1>2
  <2> HIDE DEF ro, gen
  <2>2. /\ row'[s].runner = ro.runner /\ row'[s].image = ro.image /\ row'[s].asked = ro.asked
        /\ row'[s].pin = ro.pin /\ row'[s].state = state
    BY <2>1 DEF RowType
  <2> QED
    BY <2>2 DEF ro
<1> QED
  BY <1>2, <1>3, <1>4 DEF SameRow

LEMMA SameJob ==
  ASSUME TypeOK, NEW s \in Sessions, UNCHANGED job
  PROVE  job' = [job EXCEPT ![s] = job'[s]] /\ job'[s] \in {job[s], NoJob}
<1>1. job \in [Sessions -> JobType]
  BY DEF TypeOK
<1> QED
  BY <1>1

LEMMA StateSteps ==
  ASSUME TypeOK, SessionsFine, PastGrows, NEW s \in Sessions,
         Cancel(s) \/ FailSpec(s) \/ CreateFails(s) \/ Suspend(s) \/ Delete(s)
  PROVE  SessionsGood' /\ SameRow(s) /\ (row'[s].state = "suspended" => Suspend(s) \/ row[s].state = "suspended")
<1>1. SessionAt(s)
  BY Session
<1>2. CASE Cancel(s)
  <2>1. row' = [row EXCEPT ![s].state = "canceled"] /\ row[s].state = "queued" /\ UNCHANGED job
    BY <1>2 DEF Cancel
  <2> QED
    <3>1. "canceled" \in RowStates /\ "canceled" # None /\ row[s].state # None
      BY <2>1 DEF RowStates, None
    <3> QED
      BY <2>1, <3>1, SameJob, StateOnly
<1>3. CASE Suspend(s)
  <2>1. row' = [row EXCEPT ![s].state = "suspended"] /\ row[s].state = "running" /\ UNCHANGED job
    BY <1>3 DEF Suspend
  <2>2. row[s].runner \in Runners
    BY <1>1, <2>1 DEF SessionAt, SessionFine, RowFine
  <2> QED
    BY <1>3, <2>1, <2>2, SameJob, StateOnly DEF RowStates, Live, None
<1>4. CASE Delete(s)
  <2>1. row' = [row EXCEPT ![s].state = "destroyed"] /\ row[s].state \in {"running", "suspended", "failed"} /\ UNCHANGED job
    BY <1>4 DEF Delete
  <2> QED
    <3>1. "destroyed" \in RowStates /\ "destroyed" # None /\ row[s].state # None
      BY <2>1 DEF RowStates, None
    <3> QED
      BY <2>1, <3>1, SameJob, StateOnly
<1>5. CASE FailSpec(s) \/ CreateFails(s)
  <2> DEFINE state == IF row[s].state = "creating" THEN "failed" ELSE row[s].state
  <2>1. /\ row' = [row EXCEPT ![s].state = state] /\ job' = [job EXCEPT ![s] = NoJob] /\ job[s].pc # "idle"
    BY <1>5, Session DEF FailSpec, CreateFails
  <2>2. /\ row[s].state # None /\ row[s].runner \in Runners
    BY <1>1, <2>1 DEF SessionAt, SessionFine, RowFine
  <2>3. state \in RowStates /\ state # None /\ (state # "queued" \/ state = row[s].state)
        /\ (state = "suspended" => row[s].state = "suspended")
    BY <1>1, <2>2 DEF SessionAt, RowType, RowStates, None
  <2> HIDE DEF state
  <2>4. job'[s] \in {job[s], NoJob} /\ job' = [job EXCEPT ![s] = job'[s]]
    BY <2>1, JobSet
  <2> QED
    BY <2>1, <2>2, <2>3, <2>4, StateOnly
<1> QED
  BY <1>2, <1>3, <1>4, <1>5

LEMMA ResumeRow ==
  ASSUME TypeOK, SessionsFine, PastGrows, NEW s \in Sessions, Resume(s)
  PROVE  SessionsGood' /\ SameRow(s) /\ row'[s].state = "resuming"
<1> DEFINE gen == row[s].gen + 1
<1>1. SessionAt(s) /\ row[s].state = "suspended" /\ row' = [row EXCEPT ![s].state = "resuming", ![s].gen = @ + 1] /\ UNCHANGED job
  BY Session DEF Resume
<1>2. row' = [row EXCEPT ![s] = [row[s] EXCEPT !.state = "resuming", !.gen = gen]]
  BY <1>1, Session
<1>3. gen \in Nat /\ row[s].runner \in Runners
  BY <1>1 DEF SessionAt, SessionFine, RowFine, RowType
<1> HIDE DEF gen
<1>4. row'[s] = [row[s] EXCEPT !.state = "resuming", !.gen = gen] /\ OnlyRow(s)
  BY <1>1, <1>2, RowSet, SameJob DEF OnlyRow
<1>5. SessionsGood'
  <2> DEFINE state == "resuming"
  <2>1. state \in RowStates /\ state # None /\ state # "queued" /\ row[s].state # None
    BY <1>1 DEF RowStates, Live, None
  <2>2. row'[s] = [row[s] EXCEPT !.state = state, !.gen = gen] /\ job'[s] \in {job[s], NoJob}
    BY <1>1, <1>4, SameJob
  <2> HIDE DEF state
  <2> QED
    BY <1>3, <1>4, <2>1, <2>2, StateChanges
<1>6. /\ row'[s].runner = row[s].runner /\ row'[s].image = row[s].image /\ row'[s].asked = row[s].asked
      /\ row'[s].pin = row[s].pin /\ row'[s].state = "resuming"
  <2> DEFINE ro == row[s]
  <2>1. ro \in RowType /\ row'[s] = [ro EXCEPT !.state = "resuming", !.gen = gen]
    BY <1>1, <1>4 DEF SessionAt
  <2> HIDE DEF ro
  <2>2. /\ row'[s].runner = ro.runner /\ row'[s].image = ro.image /\ row'[s].asked = ro.asked
        /\ row'[s].pin = ro.pin /\ row'[s].state = "resuming"
    BY <2>1 DEF RowType
  <2> QED
    BY <2>2 DEF ro
<1> QED
  BY <1>1, <1>4, <1>5, <1>6, SameJob DEF SameRow, None

LEMMA EventGood ==
  ASSUME TypeOK, SessionsFine, PastGrows, NEW n \in news, ApplyRunnerEvent(n)
  PROVE  SessionsGood' /\ n.box[2] \in Sessions /\ SameRow(n.box[2])
         /\ (row'[n.box[2]].state = "suspended" => row[n.box[2]].state = "suspended")
         /\ UNCHANGED job
<1> DEFINE s == n.box[2]
           ro == row[s]
           current == ro.runner = n.box[1] /\ ro.gen = n.gen
           state == CASE current /\ n.kind = "running" /\ ro.state \in {"creating", "resuming"} -> "running"
                      [] current /\ n.kind = "failed" /\ ro.state \in {"creating", "resuming", "running"} -> "failed"
                      [] OTHER -> ro.state
<1>1. n.box \in Boxes
  BY DEF TypeOK, ChainTypeOK, NewsType
<1>2. n.box[1] \in Runners /\ s \in Sessions
  BY <1>1, BoxIs
<1>3. row' = [row EXCEPT ![s].state = state] /\ UNCHANGED job
  BY <1>2, Session DEF ApplyRunnerEvent
<1>4. SessionAt(s)
  BY <1>2, Session
<1>5. /\ state \in RowStates /\ (state = "suspended" => ro.state = "suspended")
      /\ state # ro.state => /\ state \in {"running", "failed"} /\ ro.runner = n.box[1]
                             /\ ro.state \in {"creating", "resuming", "running"}
  BY <1>4 DEF SessionAt, RowType, RowStates, Live
<1> HIDE DEF state, s
<1>6. CASE state = ro.state
  <2>1. UNCHANGED row
    <3>1. row \in [Sessions -> RowType] /\ s \in Sessions
      BY <1>2, Session DEF s
    <3>2. row' = [row EXCEPT ![s] = [row[s] EXCEPT !.state = row[s].state]]
      BY <1>3, <1>6, <3>1 DEF s
    <3>3. [row[s] EXCEPT !.state = row[s].state] = row[s]
      BY <3>1 DEF RowType
    <3> QED
      BY <3>1, <3>2, <3>3
  <2> QED
    BY <1>2, <1>3, <2>1, SessionsStay, Session, SameJob DEF SameRow, OnlyRow, s
<1>7. CASE state # ro.state
  <2>1. state # None /\ state # "queued" /\ ro.state # None
    BY <1>5, <1>7 DEF None
  <2>2. SessionsGood' /\ SameRow(s) /\ row'[s].state = state
    BY <1>2, <1>3, <1>5, <1>7, <2>1, SameJob, StateOnly
  <2> QED
    BY <1>2, <1>3, <1>5, <1>7, <2>2 DEF s
<1> QED
  BY <1>6, <1>7

--------------------
\* Which steps move what.

RowStep(s) == \/ CreateSession(s) \/ Place(s) \/ Pin(s) \/ FailSpec(s) \/ RunCreate(s) \/ CreateFails(s)
              \/ CreateAnswered(s) \/ Requeue(s) \/ Suspend(s) \/ Resume(s) \/ Delete(s) \/ Cancel(s)

LEMMA RowSteps ==
  ASSUME [Next]_vars
  PROVE  \/ UNCHANGED <<row, job>>
         \/ \E s \in Sessions : RowStep(s)
         \/ \E n \in news : ApplyRunnerEvent(n)
<1>1. CASE SystemStep
  BY <1>1 DEF SystemStep, WriteRC, SecretsFail, HearVerdict, TimeOut, Deliver, Register, SetupDone, CredentialRejected, cacheVars
<1>2. CASE Programs
  BY <1>2 DEF Programs, SetupEnds, cacheVars
<1>3. CASE Fleet
  BY <1>3 DEF Fleet, RowStep, SkipRow, DestroyOrphan, Commit, DropBuild, Record, BeginPass, BeginEdit, EndEdit, BeginDelete, EndDelete
<1>4. CASE World
  BY <1>4 DEF World, cacheVars
<1> QED
  BY <1>1, <1>2, <1>3, <1>4 DEF Next, vars, cacheVars

LEMMA BoxSteps ==
  ASSUME [Next]_vars
  PROVE  \/ UNCHANGED box
         \/ \E s \in Sessions : RunCreate(s) \/ Resume(s) \/ Delete(s)
         \/ \E b \in Boxes : DestroyOrphan(b) \/ SetupEnds(b)
<1>1. CASE SystemStep
  BY <1>1 DEF SystemStep, WriteRC, SecretsFail, HearVerdict, TimeOut, Deliver, Register, ApplyRunnerEvent, SetupDone,
              CredentialRejected, cacheVars
<1>2. CASE Programs
  BY <1>2 DEF Programs, cacheVars
<1>3. CASE Fleet
  BY <1>3 DEF Fleet, CreateSession, Place, SkipRow, Pin, FailSpec, CreateFails, CreateAnswered, Requeue, Suspend, Cancel,
              Commit, DropBuild, Record, BeginPass, BeginEdit, EndEdit, BeginDelete, EndDelete
<1>4. CASE World
  BY <1>4 DEF World, cacheVars
<1> QED
  BY <1>1, <1>2, <1>3, <1>4 DEF Next, vars, cacheVars

LEMMA BuildSteps ==
  ASSUME [Next]_vars
  PROVE  \/ UNCHANGED <<images, builds>>
         \/ \E n \in news : SetupDone(n)
         \/ \E bu \in builds : Commit(bu) \/ DropBuild(bu) \/ Record(bu)
<1>1. CASE SystemStep
  BY <1>1 DEF SystemStep, WriteRC, SecretsFail, HearVerdict, TimeOut, Deliver, Register, ApplyRunnerEvent,
              CredentialRejected, cacheVars
<1>2. CASE Programs
  BY <1>2 DEF Programs, SetupEnds, cacheVars
<1>3. CASE Fleet
  BY <1>3 DEF Fleet, CreateSession, Place, SkipRow, Pin, FailSpec, RunCreate, CreateFails, CreateAnswered, Requeue, Suspend,
              Resume, Delete, Cancel, DestroyOrphan, BeginPass, BeginEdit, EndEdit, BeginDelete, EndDelete
<1>4. CASE World
  BY <1>4 DEF World, cacheVars
<1> QED
  BY <1>1, <1>2, <1>3, <1>4 DEF Next, vars, cacheVars

LEMMA EnvSteps ==
  ASSUME [Next]_vars
  PROVE  /\ UNCHANGED shape
         /\ \/ UNCHANGED <<env, edit, sched>>
            \/ BeginPass \/ BeginEdit \/ EndEdit \/ BeginDelete \/ EndDelete
            \/ \E s \in Sessions : Place(s) \/ SkipRow(s)
            \/ \E bu \in builds : Record(bu)
<1>1. CASE SystemStep
  BY <1>1 DEF SystemStep, WriteRC, SecretsFail, HearVerdict, TimeOut, Deliver, Register, ApplyRunnerEvent, SetupDone,
              CredentialRejected, cacheVars
<1>2. CASE Programs
  BY <1>2 DEF Programs, SetupEnds, cacheVars
<1>3. CASE Fleet
  BY <1>3 DEF Fleet, CreateSession, Place, SkipRow, Pin, FailSpec, RunCreate, CreateFails, CreateAnswered, Requeue, Suspend,
              Resume, Delete, Cancel, DestroyOrphan, Commit, DropBuild, Record, BeginPass, BeginEdit, EndEdit, BeginDelete, EndDelete
<1>4. CASE World
  BY <1>4 DEF World, cacheVars
<1> QED
  BY <1>1, <1>2, <1>3, <1>4 DEF Next, vars, cacheVars

LEMMA SessionsKept ==
  ASSUME IInv, [Next]_vars
  PROVE  SessionsGood' /\ PastGrows
<1>1. TypeOK /\ SessionsFine /\ PastGrows
  BY PastMoves DEF IInv, Cache
<1>2. ASSUME NEW s \in Sessions, RowStep(s) PROVE SessionsGood'
  BY <1>1, <1>2, CreateSessionGood, PlaceGood, PinGood, RunCreateRow, CreateAnsweredRow, RequeueGood, StateSteps,
     ResumeRow DEF RowStep
<1> QED
  BY <1>1, <1>2, RowSteps, EventGood, SessionsStay

\* what becomes of one row
LEMMA RowGoes ==
  ASSUME TypeOK, SessionsFine, [Next]_vars, NEW t \in Sessions
  PROVE  \/ row'[t] = row[t] /\ job'[t] = job[t]
         \/ RowStep(t)
         \/ /\ row'[t].runner = row[t].runner /\ row'[t].image = row[t].image /\ row'[t].asked = row[t].asked
            /\ row'[t].pin = row[t].pin /\ (row[t].state # None => row'[t].state # None) /\ job'[t] = job[t]
            /\ (row'[t].state = "suspended" => row[t].state = "suspended")
<1>1. PastGrows
  BY PastMoves
<1>2. row \in [Sessions -> RowType] /\ job \in [Sessions -> JobType]
  BY DEF TypeOK
<1>3. ASSUME NEW s \in Sessions, OnlyRow(s), s # t PROVE row'[t] = row[t] /\ job'[t] = job[t]
  BY <1>2, <1>3 DEF OnlyRow
<1>4. ASSUME NEW s \in Sessions, RowStep(s) PROVE OnlyRow(s)
  BY <1>1, <1>4, CreateSessionGood, PlaceGood, PinGood, RunCreateRow, CreateAnsweredRow, RequeueGood, StateSteps,
     ResumeRow DEF RowStep, SameRow
<1>5. ASSUME NEW n \in news, ApplyRunnerEvent(n)
      PROVE  \/ row'[t] = row[t] /\ job'[t] = job[t]
             \/ /\ SameRow(t) /\ UNCHANGED job /\ (row'[t].state = "suspended" => row[t].state = "suspended")
  <2>1. n.box[2] \in Sessions /\ SameRow(n.box[2]) /\ OnlyRow(n.box[2])
        /\ (row'[n.box[2]].state = "suspended" => row[n.box[2]].state = "suspended") /\ UNCHANGED job
    BY <1>1, <1>5, EventGood DEF SameRow
  <2> QED
    BY <1>3, <2>1
<1> QED
  BY <1>3, <1>4, <1>5, RowSteps DEF SameRow

\* what becomes of one container
LEMMA BoxGoes ==
  ASSUME IInv, [Next]_vars, NEW b \in Boxes
  PROVE  LET s == b[2]
             mine == b = <<row[s].runner, s>>
         IN  \/ box'[b] = box[b]
             \/ ~box'[b].there /\ (row[s].runner # b[1] \/ Delete(s))
             \/ mine /\ RunCreate(s) /\ ~box[b].there
             \/ mine /\ Resume(s) /\ box'[b] = [box[b] EXCEPT !.gen = row[s].gen + 1]
             \/ SetupEnds(b) /\ box'[b] = [box[b] EXCEPT !.done = Append(@, box[b].script)]
<1>1. TypeOK /\ SessionsFine /\ RestsFine /\ box \in [Boxes -> BoxType] /\ Boots
  BY DEF IInv, Cache, TypeOK
<1>2. b = <<b[1], b[2]>> /\ b[1] \in Runners /\ b[2] \in Sessions
  BY BoxIs
<1>3. ASSUME NEW s \in Sessions, RunCreate(s), box'[b] # box[b]
      PROVE  s = b[2] /\ b = <<row[s].runner, s>> /\ ~box[b].there
  <2>1. PICK bx : UNCHANGED box \/ (box' = [box EXCEPT ![<<row[s].runner, s>>] = bx] /\ ~box[<<row[s].runner, s>>].there)
    BY <1>3 DEF RunCreate
  <2>2. b = <<row[s].runner, s>>
    BY <1>1, <1>3, <2>1
  <2> QED
    BY <1>2, <1>3, <2>1, <2>2
<1>4. ASSUME NEW s \in Sessions, Resume(s), box'[b] # box[b]
      PROVE  s = b[2] /\ b = <<row[s].runner, s>> /\ box'[b] = [box[b] EXCEPT !.gen = row[s].gen + 1]
  <2> DEFINE c == <<row[s].runner, s>>
  <2>1. box' = [box EXCEPT ![c] = [box[c] EXCEPT !.gen = row[s].gen + 1]]
    BY <1>4 DEF Resume
  <2>2. b = c
    BY <1>1, <1>4, <2>1
  <2>3. box'[b] = [box[b] EXCEPT !.gen = row[s].gen + 1]
    BY <1>1, <2>1, <2>2
  <2> QED
    BY <1>2, <2>2, <2>3
<1>5. ASSUME NEW s \in Sessions, Delete(s), box'[b] # box[b] PROVE ~box'[b].there /\ s = b[2]
  <2>1. box' = [box EXCEPT ![<<row[s].runner, s>>] = NoBox]
    BY <1>5 DEF Delete, Gone
  <2>2. b = <<row[s].runner, s>> /\ box'[b] = NoBox
    BY <1>1, <1>5, <2>1
  <2> QED
    BY <1>2, <2>2 DEF NoBox
<1>6. ASSUME NEW c \in Boxes, DestroyOrphan(c), box'[b] # box[b] PROVE ~box'[b].there /\ row[b[2]].runner # b[1]
  <2>1. box' = [box EXCEPT ![c] = NoBox] /\ row[c[2]].runner # c[1]
    BY <1>6 DEF DestroyOrphan, Gone
  <2>2. b = c /\ box'[b] = NoBox
    BY <1>1, <1>6, <2>1
  <2> QED
    BY <2>1, <2>2 DEF NoBox
<1>7. ASSUME NEW c \in Boxes, SetupEnds(c), box'[b] # box[b]
      PROVE  b = c /\ box'[b] = [box[b] EXCEPT !.done = Append(@, box[b].script)]
  <2>1. UNCHANGED box \/ box' = [box EXCEPT ![c] = [box[c] EXCEPT !.done = Append(@, box[c].script)]]
    BY <1>7 DEF SetupEnds
  <2>2. b = c
    BY <1>1, <1>7, <2>1
  <2> QED
    BY <1>1, <1>7, <2>1, <2>2
<1> QED
  BY <1>3, <1>4, <1>5, <1>6, <1>7, BoxSteps

--------------------
\* What is suspended stays as it was stopped.

\* a boot that is off is started by a create or a resume
LEMMA BootGoes ==
  ASSUME TypeOK, [Next]_vars, NEW b \in Boxes, boot[b].pc = "off", boot'[b] # boot[b]
  PROVE  boot'[b].pc = "off" \/ \E s \in Sessions : (RunCreate(s) \/ Resume(s)) /\ b = <<row[s].runner, s>>
<1>0. boot \in [Boxes -> BootType]
  BY Sandbox
<1> DEFINE Shell(c) == UNCHANGED boot \/ (boot[c].pc = "up" /\ boot' = [boot EXCEPT ![c] = boot'[c]])
<1>1. ASSUME NEW c \in Boxes, Shell(c) PROVE FALSE
  BY <1>0, <1>1
<1>2. ASSUME NEW c \in Boxes, NEW rc, NEW tail, boot[c].pc = "up", ShellHas(c, rc, tail) PROVE Shell(c)
  BY <1>2, ShellMoves
<1> HIDE DEF Shell
<1>3. ASSUME NEW c \in Boxes, UNCHANGED boot PROVE Shell(c)
  BY <1>3 DEF Shell
<1>4. CASE SystemStep
  <2>1. ASSUME NEW c \in Boxes, WriteRC(c) \/ HearVerdict(c) \/ OfferReport(c) \/ TimeOut(c) PROVE Shell(c)
    BY <1>0, <2>1 DEF WriteRC, HearVerdict, OfferReport, TimeOut, Watching, Shell
  <2>2. ASSUME NEW c \in Boxes, SecretsFail(c) \/ AgentsWaited(c) PROVE Shell(c)
    BY <1>2, <2>2 DEF SecretsFail, AgentsWaited, Running, StageEnds
  <2>3. ASSUME NEW c \in Boxes, Take(c) \/ RelayEnds(c) \/ Deliver(c, box[c].gen) \/ Register(c) PROVE Shell(c)
    BY <1>3, <2>3 DEF Take, RelayEnds, Deliver, Register
  <2>4. ASSUME NEW n \in news, ApplyRunnerEvent(n) \/ SetupDone(n) \/ CredentialRejected(n) PROVE FALSE
    BY <2>4 DEF ApplyRunnerEvent, SetupDone, CredentialRejected
  <2> QED
    BY <1>1, <1>4, <2>1, <2>2, <2>3, <2>4 DEF SystemStep
<1>5. CASE Programs
  <2>1. ASSUME NEW c \in Boxes,
               AskCredential(c) \/ Minted(c) \/ GitSucceeds(c) \/ Accuse(c) \/ Drop(c) \/ Swallow(c)
        PROVE  Shell(c)
    BY <1>3, <2>1 DEF AskCredential, Minted, GitSucceeds, Accuse, Drop, Swallow
  <2>2. ASSUME NEW c \in Boxes, SetupEnds(c) \/ ScriptEnds(c) \/ SkipClone(c) \/ CheckOut(c) PROVE Shell(c)
    BY <1>2, <2>2 DEF SetupEnds, ScriptEnds, SkipClone, CheckOut, Running, StageEnds
  <2>3. ASSUME NEW c \in Boxes, MintRefused(c) \/ GitHubRefuses(c) \/ ProxyRefuses(c) PROVE Shell(c)
    BY <1>2, <1>3, <2>3 DEF MintRefused, GitHubRefuses, ProxyRefuses, GitFails, StageEnds
  <2> QED
    BY <1>1, <1>5, <2>1, <2>2, <2>3 DEF Programs
<1>6. CASE Fleet
  <2>1. ASSUME NEW s \in Sessions,
               \/ CreateSession(s) \/ Place(s) \/ SkipRow(s) \/ Pin(s) \/ FailSpec(s) \/ CreateFails(s)
               \/ CreateAnswered(s) \/ Requeue(s) \/ Cancel(s)
        PROVE  FALSE
    BY <2>1 DEF CreateSession, Place, SkipRow, Pin, FailSpec, CreateFails, CreateAnswered, Requeue, Cancel, chainVars
  <2>2. (\E bu \in builds : Commit(bu) \/ DropBuild(bu) \/ Record(bu))
        \/ BeginPass \/ BeginEdit \/ EndEdit \/ BeginDelete \/ EndDelete => FALSE
    BY DEF Commit, DropBuild, Record, BeginPass, BeginEdit, EndEdit, BeginDelete, EndDelete, chainVars
  <2>3. NoBoot.pc = "off"
    BY DEF NoBoot
  <2>4. ASSUME NEW c \in Boxes, DestroyOrphan(c) PROVE boot'[b].pc = "off"
    BY <1>0, <2>3, <2>4 DEF DestroyOrphan, Gone
  <2>5. ASSUME NEW s \in Sessions, Delete(s) PROVE boot'[b].pc = "off"
    BY <1>0, <2>3, <2>5 DEF Delete, Gone
  <2>6. ASSUME NEW s \in Sessions, Suspend(s) PROVE FALSE
    BY <1>0, <2>6 DEF Suspend, Cut
  <2>7. ASSUME NEW s \in Sessions, RunCreate(s) \/ Resume(s) PROVE b = <<row[s].runner, s>>
    BY <1>0, <2>7 DEF RunCreate, Resume, Booted
  <2> QED
    BY <1>6, <2>1, <2>2, <2>4, <2>5, <2>6, <2>7 DEF Fleet
<1>7. CASE World
  BY <1>7 DEF World, Refresh, Withdraw, LoseNews
<1> QED
  BY <1>4, <1>5, <1>6, <1>7 DEF Next, vars, chainVars

LEMMA SuspendedFrom ==
  ASSUME IInv, [Next]_vars, NEW t \in Sessions, row'[t].state = "suspended"
  PROVE  \/ Suspend(t) /\ row'[t].runner = row[t].runner
         \/ /\ row[t].state = "suspended" /\ row'[t].runner = row[t].runner
            /\ ~Delete(t) /\ ~RunCreate(t) /\ ~Resume(t)
<1>1. TypeOK /\ SessionsFine /\ PastGrows
  BY PastMoves DEF IInv, Cache
<1>2. SessionAt(t) /\ row \in [Sessions -> RowType]
  BY <1>1, Session
<1>0. ASSUME NEW state, row' = [row EXCEPT ![t].state = state] PROVE state = "suspended"
  <2>1. row[t] \in RowType
    BY <1>2 DEF SessionAt
  <2>2. row'[t] = [row[t] EXCEPT !.state = state]
    BY <1>0, <1>2
  <2>3. row'[t].state = state
    BY <2>1, <2>2 DEF RowType
  <2> QED
    BY <2>3
<1>3. ~Delete(t)
  <2>1. Delete(t) => row' = [row EXCEPT ![t].state = "destroyed"]
    BY DEF Delete
  <2> QED
    BY <1>0, <2>1
<1>4. ~Resume(t)
  BY <1>1, ResumeRow
<1>5. ~RunCreate(t)
  BY DEF RunCreate
<1>6. CASE RowStep(t)
  <2>1. ~CreateSession(t) /\ ~Cancel(t)
    <3>1. Cancel(t) => row' = [row EXCEPT ![t].state = "canceled"]
      BY DEF Cancel
    <3>2. CreateSession(t) => row'[t].state = "queued"
      BY <1>2 DEF CreateSession, NoRow
    <3> QED
      BY <1>0, <3>1, <3>2
  <2>2. ~Place(t)
    BY <1>1, PlaceGood
  <2>3. Pin(t) \/ CreateAnswered(t) => row[t].state = "suspended" /\ row'[t].runner = row[t].runner
    BY <1>1, PinGood, CreateAnsweredRow
  <2>4. Requeue(t) => row[t].state = "suspended" /\ row'[t].runner = row[t].runner
    BY <1>1, RequeueGood
  <2>5. FailSpec(t) \/ CreateFails(t) \/ Suspend(t)
          => (Suspend(t) \/ row[t].state = "suspended") /\ row'[t].runner = row[t].runner
    BY <1>1, StateSteps DEF SameRow
  <2> QED
    BY <1>3, <1>4, <1>5, <1>6, <2>1, <2>2, <2>3, <2>4, <2>5 DEF RowStep
<1> QED
  BY <1>1, <1>3, <1>4, <1>5, <1>6, RowGoes

LEMMA RestsKept ==
  ASSUME IInv, [Next]_vars
  PROVE  RestsFine'
<1>1. TypeOK /\ Boots /\ SessionsFine /\ RestsFine /\ box \in [Boxes -> BoxType] /\ BootsGood'
  BY BootsKept DEF IInv, Cache, TypeOK
<1> SUFFICES ASSUME NEW t \in Sessions, row'[t].state = "suspended"
             PROVE  box'[<<row'[t].runner, t>>].there /\ boot'[<<row'[t].runner, t>>].pc = "off"
  BY DEF RestsFine, Rests
<1> DEFINE b == <<row[t].runner, t>>
<1>2. CASE Suspend(t)
  <2>1. row'[t].runner = row[t].runner /\ box'[b] = box[b] /\ box[b].there
    BY <1>2, SuspendedFrom DEF Suspend
  <2> QED
    BY <1>2, <2>1, SuspendGood
<1>3. CASE ~Suspend(t)
  <2>1. /\ row[t].state = "suspended" /\ row'[t].runner = row[t].runner
        /\ ~Delete(t) /\ ~RunCreate(t) /\ ~Resume(t)
    BY <1>3, SuspendedFrom
  <2>2. box[b].there /\ boot[b].pc = "off" /\ row[t].runner \in Runners
    BY <1>1, <2>1 DEF RestsFine, Rests, SessionsFine, SessionFine, RowFine
  <2>3. b \in Boxes /\ b[1] = row[t].runner /\ b[2] = t
    BY <2>2, BoxIs
  <2>4. ~SetupEnds(b)
    BY <2>2 DEF SetupEnds, Running
  <2> HIDE DEF b
  <2>5. box'[b] = box[b]
    BY <2>1, <2>3, <2>4, BoxGoes, <2>2
  <2>6. boot'[b].pc = "off"
    <3>1. \A s \in Sessions : b = <<row[s].runner, s>> => s = t
      BY DEF b
    <3> QED
      BY <1>1, <2>1, <2>2, <2>3, <3>1, BootGoes
  <2> QED
    BY <2>1, <2>2, <2>5, <2>6 DEF b
<1> QED
  BY <1>2, <1>3

--------------------
\* What is placed is created afresh.

LEMMA UpIsThere ==
  ASSUME TypeOK, Boots, NEW b \in Boxes, boot[b].pc = "up" \/ wire[b].pending # <<>>
  PROVE  box[b].there
<1>1. Quiet(boot[b], wire[b], git[b], box[b]) /\ boot[b] \in BootType
  BY Undisturbed DEF LocalAt, Local, TypesAt
<1>2. NoBoot.pc = "off" /\ NoWire.pending = <<>>
  BY DEF NoBoot, NoWire
<1> QED
  BY <1>1, <1>2 DEF Quiet, BootType

LEMMA SetupIsThere ==
  ASSUME TypeOK, Boots, NEW b \in Boxes, SetupEnds(b)
  PROVE  box[b].there
  BY UpIsThere DEF SetupEnds, Running

\* what is new in the news or among the builds is of a container that is
\* there, or that the news spoke of
LEMMA BuildsMove ==
  ASSUME TypeOK, [Next]_vars, NEW bu \in builds'
  PROVE  \/ bu \in builds
         \/ \E n \in news : /\ SetupDone(n) /\ PlacedExactlyOn(n) /\ SnapshotWanted(n.box[2])
                            /\ bu = [box |-> n.box, hash |-> Hash(env), pc |-> "asked"]
         \/ \E old \in builds : /\ Commit(old) /\ bu = [old EXCEPT !.pc = "made"]
                                /\ bu.box = old.box /\ bu.hash = old.hash /\ bu.pc = "made"
<1>1. ASSUME NEW n \in news, SetupDone(n), bu \notin builds
      PROVE  PlacedExactlyOn(n) /\ SnapshotWanted(n.box[2]) /\ bu = [box |-> n.box, hash |-> Hash(env), pc |-> "asked"]
  BY <1>1 DEF SetupDone
<1>2. ASSUME NEW old \in builds, Commit(old), bu \notin builds
      PROVE  bu = [old EXCEPT !.pc = "made"] /\ bu.box = old.box /\ bu.hash = old.hash /\ bu.pc = "made"
  <2>1. old \in BuildType
    BY DEF TypeOK
  <2> QED
    BY <1>2, <2>1 DEF Commit, BuildType
<1>3. ASSUME NEW old \in builds, DropBuild(old) \/ Record(old) PROVE bu \in builds
  BY <1>3 DEF DropBuild, Record
<1> QED
  BY <1>1, <1>2, <1>3, BuildSteps

LEMMA NewsFrom ==
  ASSUME TypeOK, Boots, [Next]_vars, NEW n \in news', n \notin news
  PROVE  n.box \in Boxes /\ box[n.box].there
<1>1. PICK b \in Boxes : (wire[b].conn # "down" /\ Heard(b)) \/ (boot[b].pc = "up" /\ IsUp(b))
  BY NewsMoves
<1>2. n.box = b
  BY <1>1 DEF Heard, IsUp, Says
<1> QED
  BY <1>1, <1>2, UpIsThere DEF Heard

LEMMA FreshFrom ==
  ASSUME IInv, [Next]_vars, NEW t \in Sessions, job'[t].pc \in {"spec", "sent"}
  PROVE  \/ Place(t) /\ row'[t].runner \in Runners /\ job[t].pc = "idle"
            /\ past'.same = (past.same \/ LET b == <<row'[t].runner, t>>
                                          IN  box[b].there \/ \E x \in news \cup builds : x.box = b)
         \/ job[t].pc \in {"spec", "sent"} /\ row'[t].runner = row[t].runner /\ row[t].runner \in Runners /\ ~RunCreate(t)
<1>1. TypeOK /\ SessionsFine /\ PastGrows /\ SessionAt(t)
  BY PastMoves, Session DEF IInv, Cache
<1>2. job[t].pc # "idle" => row[t].runner \in Runners
  BY <1>1 DEF SessionAt, SessionFine, RowFine
<1>3. ~RunCreate(t) /\ ~CreateAnswered(t) /\ ~Requeue(t)
  BY <1>1, RunCreateRow, CreateAnsweredRow, RequeueGood
<1>4. ~CreateSession(t)
  <2>1. CreateSession(t) => job[t].pc = "idle" /\ UNCHANGED job
    BY <1>1 DEF CreateSession, SessionAt, SessionFine, RowFine
  <2> QED
    BY <2>1
<1>5. Pin(t) => job[t].pc = "spec" /\ row'[t].runner = row[t].runner
  <2>1. Pin(t) => job[t].pc = "spec"
    BY DEF Pin
  <2> QED
    BY <1>1, <2>1, PinGood
<1>6. FailSpec(t) \/ CreateFails(t) \/ Suspend(t) \/ Resume(t) \/ Delete(t) \/ Cancel(t)
         => job'[t] = job[t] /\ row'[t].runner = row[t].runner
  <2>1. FailSpec(t) \/ CreateFails(t) \/ Suspend(t) \/ Resume(t) \/ Delete(t) \/ Cancel(t) => SameRow(t)
    BY <1>1, StateSteps, ResumeRow
  <2> QED
    BY <2>1, NoJobGood DEF SameRow, NoJobIs
<1>7. Place(t) => /\ row'[t].runner \in Runners /\ job[t].pc = "idle"
                  /\ past'.same = (past.same \/ LET b == <<row'[t].runner, t>>
                                                IN  box[b].there \/ \E x \in news \cup builds : x.box = b)
  BY <1>1, PlaceGood
<1>8. CASE RowStep(t)
  BY <1>2, <1>3, <1>4, <1>5, <1>6, <1>7, <1>8 DEF RowStep
<1> QED
  BY <1>1, <1>2, <1>3, <1>8, RowGoes

LEMMA FreshKept ==
  ASSUME IInv, [Next]_vars
  PROVE  FreshFine'
<1>1. TypeOK /\ Boots /\ SessionsFine /\ RestsFine /\ FreshFine /\ PastGrows
  BY PastMoves DEF IInv, Cache
<1>2. past.same => past'.same
  BY <1>1, PastKept
<1> SUFFICES ASSUME ~past'.same, NEW t \in Sessions, job'[t].pc \in {"spec", "sent"}
             PROVE  LET b == <<row'[t].runner, t>>
                    IN  ~box'[b].there /\ \A x \in news' \cup builds' : x.box # b
  BY DEF FreshFine, Fresh
<1> DEFINE b == <<row'[t].runner, t>>
<1>3. /\ b \in Boxes /\ b[2] = t /\ b[1] = row'[t].runner
      /\ ~box[b].there /\ \A x \in news \cup builds : x.box # b
      /\ ~RunCreate(t)
  <2>1. CASE Place(t) /\ row'[t].runner \in Runners /\ job[t].pc = "idle"
             /\ past'.same = (past.same \/ box[b].there \/ \E x \in news \cup builds : x.box = b)
    <3>1. ~RunCreate(t)
      BY <2>1 DEF RunCreate
    <3> QED
      BY <2>1, <3>1, BoxIs
  <2>2. CASE job[t].pc \in {"spec", "sent"} /\ row'[t].runner = row[t].runner /\ row[t].runner \in Runners /\ ~RunCreate(t)
    BY <1>1, <1>2, <2>2, BoxIs DEF FreshFine, Fresh
  <2> QED
    BY <2>1, <2>2, FreshFrom
<1> HIDE DEF b
<1>4. ~box'[b].there
  <2>1. ~SetupEnds(b)
    BY <1>1, <1>3, SetupIsThere
  <2>2. b = <<row[t].runner, t>> => ~Resume(t)
    BY <1>1, <1>3 DEF Resume, RestsFine, Rests
  <2> QED
    BY <1>3, <2>1, <2>2, BoxGoes
<1>5. \A n \in news' : n.box # b
  BY <1>1, <1>3, NewsFrom
<1>6. ASSUME NEW bu \in builds' PROVE bu.box # b
  <2>1. ASSUME NEW n \in news, bu = [box |-> n.box, hash |-> Hash(env), pc |-> "asked"] PROVE bu.box = n.box
    BY <2>1
  <2> QED
    BY <1>1, <1>3, <2>1, BuildsMove
<1> QED
  BY <1>4, <1>5, <1>6 DEF b

--------------------
\* What a container becomes, and what is said and built of it.

LEMMA SetupHasScript ==
  ASSUME TypeOK, Boots, NEW b \in Boxes, SetupEnds(b)
  PROVE  box[b].there /\ box[b].script # None
<1>1. box[b].there /\ boot[b].pc = "up" /\ boot[b].step = "run" /\ Stage(b) = "setup"
  BY SetupIsThere DEF SetupEnds, Running
<1>2. SetupFine(boot[b], wire[b], box[b]) /\ boot[b].at \in 1..Len(boot[b].plan)
  BY <1>1, Undisturbed DEF LocalAt, Local, ChainFine
<1>3. "setup" \in Elems(boot[b].plan)
  BY <1>1, <1>2 DEF Elems, Stage
<1> QED
  BY <1>1, <1>2, <1>3, PlanFits, Sandbox DEF SetupFine

Grown(bx, next) == /\ bx.there /\ next.there /\ next.base = bx.base /\ next.script = bx.script /\ next.env = bx.env
                   /\ next \in Container /\ next.held = bx.held
                   /\ next.done = bx.done \/ (bx.script # None /\ next.done = Append(bx.done, bx.script))
Created(s) == LET c == Contents(row[s].runner, row[s].image)
              IN  [there |-> TRUE, gen |-> row[s].gen, base |-> c.base, done |-> c.done, held |-> Len(c.done),
                   script |-> job[s].setup, env |-> job[s].env]

LEMMA BoxBecomes ==
  ASSUME IInv, [Next]_vars, NEW b \in Boxes, box'[b].there
  PROVE  \/ Grown(box[b], box'[b])
         \/ /\ RunCreate(b[2]) /\ b = <<row[b[2]].runner, b[2]>> /\ ~box[b].there
            /\ Holds(b[1], row[b[2]].image) /\ box'[b] = Created(b[2])
<1>1. TypeOK /\ Boots /\ RestsFine /\ box \in [Boxes -> BoxType] /\ b[2] \in Sessions
  BY BoxIs DEF IInv, Cache, TypeOK
<1>2. box[b] \in BoxType
  BY <1>1
<1> DEFINE old == box[b]
<1>3. old.there => old \in Container
  BY <1>2, ContainerHas
<1>4. CASE box'[b] = box[b]
  BY <1>3, <1>4 DEF Grown
<1>5. CASE RunCreate(b[2]) /\ b = <<row[b[2]].runner, b[2]>> /\ ~box[b].there
  <2> DEFINE c == <<row[b[2]].runner, b[2]>>
  <2>1. row[b[2]].runner \in Runners /\ c = b /\ b[1] = row[b[2]].runner
    BY <1>5, BoxIs
  <2>2. Holds(row[b[2]].runner, row[b[2]].image) /\ box' = [box EXCEPT ![c] = Created(b[2])]
    BY <1>1, <1>5, <2>1, RunCreateIs DEF Created
  <2> HIDE DEF c
  <2>3. box' = [box EXCEPT ![b] = Created(b[2])] /\ Holds(b[1], row[b[2]].image)
    BY <2>1, <2>2
  <2> QED
    BY <1>1, <1>5, <2>3
<1>6. CASE b = <<row[b[2]].runner, b[2]>> /\ Resume(b[2]) /\ box'[b] = [box[b] EXCEPT !.gen = row[b[2]].gen + 1]
  <2>1. old.there
    BY <1>1, <1>6 DEF Resume, RestsFine, Rests
  <2>2. old \in Container
    BY <1>3, <2>1
  <2>3. row[b[2]].gen + 1 \in Nat
    BY <1>1 DEF TypeOK, RowType
  <2> DEFINE gen == row[b[2]].gen + 1
  <2>4. box'[b] = [old EXCEPT !.gen = gen] /\ gen \in Nat
    BY <1>6, <2>3
  <2> HIDE DEF gen, old
  <2>5. Grown(old, box'[b])
    BY <2>1, <2>2, <2>4 DEF Container, Grown
  <2> QED
    BY <2>5 DEF old
<1>7. CASE SetupEnds(b) /\ box'[b] = [box[b] EXCEPT !.done = Append(@, box[b].script)]
  <2>1. old.there /\ old.script # None
    BY <1>1, <1>7, SetupHasScript
  <2>2. old \in Container
    BY <1>3, <2>1
  <2> DEFINE done == Append(old.done, old.script)
  <2>3. box'[b] = [old EXCEPT !.done = done]
    BY <1>7
  <2>4. done \in Seq(Setup)
    BY <2>2, ElemsAppend DEF Container
  <2> HIDE DEF old, done
  <2>5. Grown(old, box'[b]) \/ done # Append(old.done, old.script)
    BY <2>1, <2>2, <2>3, <2>4 DEF Container, Grown
  <2> QED
    BY <2>5 DEF old, done
<1> QED
  BY <1>4, <1>5, <1>6, <1>7, BoxGoes

\* a container that is created was not spoken of, nor being committed
LEMMA Unspoken ==
  ASSUME IInv, ~past.same, NEW b \in Boxes, RunCreate(b[2]), b = <<row[b[2]].runner, b[2]>>
  PROVE  \A x \in news \cup builds : x.box # b
<1>1. b[2] \in Sessions /\ FreshFine
  BY BoxIs DEF IInv, Cache
<1>2. Fresh(b[2]) /\ job[b[2]].pc = "sent"
  BY <1>1 DEF FreshFine, RunCreate
<1> QED
  BY <1>2 DEF Fresh

\* what was run is some one script
LEMMA RanOnlyElems ==
  ASSUME NEW done, NEW script
  PROVE  /\ RanOnly(done, script) <=> Elems(done) \subseteq {script}
         /\ Elems(done) # {} => done # <<>>
<1>1. Elems(<<>>) = {}
  BY DEF Elems
<1> QED
  BY <1>1 DEF RanOnly, Elems

LEMMA GrownElems ==
  ASSUME NEW bx \in Container, NEW next, Grown(bx, next)
  PROVE  /\ Elems(next.done) = Elems(bx.done) \/ (bx.script # None /\ Elems(next.done) = Elems(bx.done) \cup {bx.script})
         /\ bx.done # <<>> => next.done # <<>>
<1> DEFINE q == bx.done
           x == bx.script
<1>1. q \in Seq(Setup) /\ x \in Setup
  BY DEF Container
<1>2. next.done = q \/ (x # None /\ next.done = Append(q, x))
  BY DEF Grown
<1> HIDE DEF q, x
<1>3. Append(q, x) # <<>> /\ Elems(Append(q, x)) = Elems(q) \cup {x}
  BY <1>1, ElemsAppend
<1>4. /\ Elems(next.done) = Elems(q) \/ (x # None /\ Elems(next.done) = Elems(q) \cup {x})
      /\ q # <<>> => next.done # <<>>
  BY <1>2, <1>3
<1> QED
  BY <1>4 DEF q, x

LEMMA RanStays ==
  ASSUME NEW bx \in Container, NEW next, Grown(bx, next), Ran(bx)
  PROVE  /\ Ran(next) /\ next.base = bx.base
         /\ \A x : Named(x, bx.base, bx.done) => Named(x, next.base, next.done)
<1>1. Elems(next.done) = Elems(bx.done) \cup {bx.script} /\ next.done # <<>>
  BY GrownElems, RanOnlyElems DEF Ran
<1>2. Elems(next.done) = Elems(bx.done)
  BY <1>1 DEF Ran
<1> QED
  BY <1>1, <1>2, RanOnlyElems DEF Grown, Ran, Named

LEMMA NewsKept ==
  ASSUME IInv, [Next]_vars
  PROVE  NewsFine'
<1>1. TypeOK /\ Boots /\ NewsFine /\ PastGrows /\ news \subseteq NewsType
  <2>1. TypeOK /\ Boots /\ NewsFine
    BY DEF IInv, Cache
  <2>2. news \subseteq NewsType
    BY <2>1 DEF TypeOK, ChainTypeOK
  <2> QED
    BY <2>1, <2>2, PastMoves
<1> SUFFICES ASSUME ~past'.same, NEW n \in news', n.kind = "setup_done", box'[n.box].there
             PROVE  Ran(box'[n.box])
  BY DEF NewsFine
<1>2. ~past.same
  BY <1>1, PastKept
<1>3. CASE n \in news
  <2>1. n.box \in Boxes
    BY <1>1, <1>3 DEF NewsType
  <2>2. Grown(box[n.box], box'[n.box])
    BY <1>2, <1>3, <2>1, BoxBecomes, Unspoken
  <2>3. Ran(box[n.box])
    BY <1>1, <1>2, <1>3, <2>2 DEF NewsFine, Grown
  <2> QED
    BY <1>1, <2>1, <2>2, <2>3, ContainerHas, RanStays DEF Grown, TypeOK
<1>4. CASE n \notin news
  <2>1. PICK c \in Boxes : (wire[c].conn # "down" /\ Heard(c)) \/ (boot[c].pc = "up" /\ IsUp(c))
    BY <1>4, NewsMoves
  <2>2. n.box = c /\ UNCHANGED box /\ wire[c].pending # <<>> /\ Head(wire[c].pending) = "setup_done"
    BY <1>4, <2>1 DEF Heard, IsUp, Says, cacheVars
  <2>3. Head(wire[c].pending) \in Elems(wire[c].pending)
    BY <1>1, <2>2, HeadGoes
  <2>4. SetupFine(boot[c], wire[c], box[c])
    BY <1>1, Undisturbed DEF LocalAt, Local
  <2>5. box[c].there
    BY <2>2
  <2> QED
    BY <2>2, <2>3, <2>4, <2>5 DEF SetupFine, Tells
<1> QED
  BY <1>3, <1>4

\* the setup that was announced is the one the build is named after
LEMMA WantedIs ==
  ASSUME IInv, ~past.same, NEW n \in news, SetupDone(n), PlacedExactlyOn(n), SnapshotWanted(n.box[2]), box[n.box].there
  PROVE  Named(Hash(env), box[n.box].base, box[n.box].done) /\ Ran(box[n.box])
<1>1. TypeOK /\ NewsFine /\ BoxesFine /\ SessionsFine
  BY DEF IInv, Cache
<1>2. n.box \in Boxes
  BY <1>1 DEF TypeOK, ChainTypeOK, NewsType
<1> DEFINE s == n.box[2]
           bx == box[n.box]
<1>3. s \in Sessions /\ env \in EnvType /\ bx \in BoxType
  BY <1>1, <1>2, BoxIs DEF TypeOK
<1>4. Ran(bx)
  BY <1>1 DEF NewsFine, SetupDone
<1>5. Made(bx, row[s])
  BY <1>1, <1>2 DEF BoxesFine, BoxFine, PlacedExactlyOn
<1>6. env.there /\ row[s].image = env.image /\ row[s].pin = Hash(env)
  BY DEF SnapshotWanted
<1>7. env.image \in Bases /\ Hash(env) = <<env.image[1], env.setup>>
  BY <1>3, <1>6, HashIs
<1>8. bx.script # None /\ bx.done # <<>> /\ bx.script \in Scripts
  BY <1>3, <1>4, ContainerHas, RanOnlyElems DEF Ran, Setup
<1>9. bx.base = env.image /\ RanOnly(bx.done, bx.script) /\ Hash(env) = env.image \o <<bx.script>>
  BY <1>5, <1>6, <1>7, <1>8 DEF Made
<1>10. Hash(env) = <<env.image[1], bx.script>>
  BY <1>7, <1>8, <1>9, PinIs
<1>11. env.image = <<env.image[1]>>
  BY <1>7, Names
<1> DEFINE h == Hash(env)
<1>12. h[1] = env.image[1] /\ h[2] = bx.script
  BY <1>10
<1> HIDE DEF h, bx
<1>13. Named(h, bx.base, bx.done)
  BY <1>8, <1>9, <1>11, <1>12 DEF Named
<1> QED
  BY <1>4, <1>13 DEF h, bx

LEMMA BuildsKept ==
  ASSUME IInv, [Next]_vars
  PROVE  BuildsFine'
<1>1. TypeOK /\ BuildsFine /\ PastGrows
  BY PastMoves DEF IInv, Cache
<1> SUFFICES ASSUME ~past'.same, NEW bu \in builds', bu.pc = "asked", box'[bu.box].there
             PROVE  Named(bu.hash, box'[bu.box].base, box'[bu.box].done) /\ Ran(box'[bu.box])
  BY DEF BuildsFine
<1>2. ~past.same
  BY <1>1, PastKept
<1>3. CASE bu \in builds
  <2>1. bu.box \in Boxes
    BY <1>1, <1>3 DEF TypeOK, BuildType
  <2>2. Grown(box[bu.box], box'[bu.box])
    BY <1>2, <1>3, <2>1, BoxBecomes, Unspoken
  <2>3. Named(bu.hash, box[bu.box].base, box[bu.box].done) /\ Ran(box[bu.box])
    BY <1>1, <1>2, <1>3, <2>2 DEF BuildsFine, Grown
  <2> QED
    BY <1>1, <2>1, <2>2, <2>3, ContainerHas, RanStays DEF Grown, TypeOK
<1>4. ASSUME NEW n \in news, SetupDone(n), PlacedExactlyOn(n), SnapshotWanted(n.box[2]),
             bu = [box |-> n.box, hash |-> Hash(env), pc |-> "asked"]
      PROVE  Named(bu.hash, box'[bu.box].base, box'[bu.box].done) /\ Ran(box'[bu.box])
  <2>1. UNCHANGED box /\ bu.box = n.box /\ bu.hash = Hash(env)
    BY <1>4 DEF SetupDone
  <2>2. box[n.box].there
    BY <2>1
  <2>3. Named(Hash(env), box[n.box].base, box[n.box].done) /\ Ran(box[n.box])
    BY <1>2, <1>4, <2>2, WantedIs
  <2> QED
    BY <2>1, <2>3
<1> QED
  BY <1>1, <1>3, <1>4, BuildsMove

--------------------
\* What a container was made of, and what its agent finds.

LEMMA ContentsAre ==
  ASSUME IInv, NEW s \in Sessions, RunCreate(s), Holds(row[s].runner, row[s].image)
  PROVE  LET r == row[s].runner
             image == row[s].image
             c == Contents(r, image)
         IN  /\ r \in Runners /\ image \in Bases \cup Refs
             /\ image \in Bases => c = [base |-> image, done |-> <<>>, script |-> None]
             /\ image \in Refs => image \in DOMAIN images[r] /\ c = images[r][image] /\ c \in ImageType
<1>1. TypeOK /\ SessionsFine /\ SessionAt(s)
  BY Session DEF IInv, Cache
<1>2. row[s].runner \in Runners /\ row[s].image \in Bases \cup Refs
  BY <1>1 DEF SessionAt, SessionFine, RowFine, RowType, RunCreate, None
<1>3. row[s].image \in Bases => Len(row[s].image) = 1
  BY Names
<1>4. row[s].image \in Refs => Len(row[s].image) # 1
  BY Names
<1>5. \A r \in Runners : images[r] \in [DOMAIN images[r] -> ImageType]
  BY <1>1 DEF TypeOK
<1> QED
  BY <1>2, <1>3, <1>4, <1>5 DEF Contents, Holds

LEMMA CreatedIs ==
  ASSUME IInv, NEW s \in Sessions, RunCreate(s), Holds(row[s].runner, row[s].image)
  PROVE  Created(s) \in Container /\ Made(Created(s), row[s])
<1> DEFINE c == Contents(row[s].runner, row[s].image)
           image == row[s].image
<1>1. TypeOK /\ SessionAt(s)
  BY Session DEF IInv, Cache
<1>2. c.base \in Bases /\ c.done \in Seq(Setup) /\ (image \in Bases => c.base = image /\ c.done = <<>>)
  <2>1. CASE image \in Bases
    <3>1. c = [base |-> image, done |-> <<>>, script |-> None]
      BY <2>1, ContentsAre
    <3> HIDE DEF c
    <3> QED
      BY <2>1, <3>1
  <2>2. CASE image \in Refs
    <3>1. c \in ImageType /\ image \notin Bases
      BY <2>2, ContentsAre, Names
    <3> HIDE DEF c
    <3> QED
      BY <3>1 DEF ImageType
  <2> QED
    BY <2>1, <2>2, ContentsAre
<1>3. job[s].setup # None => row[s].pin = image \o <<job[s].setup>>
  BY <1>1 DEF SessionAt, SessionFine, JobFine, RunCreate
<1>4. row[s].gen \in Nat /\ job[s].setup \in Setup /\ job[s].env \in EnvType
  BY <1>1 DEF SessionAt, RowType, JobType
<1> DEFINE bx == Created(s)
           done == c.done
           held == Len(done)
<1>5. bx = [there |-> TRUE, gen |-> row[s].gen, base |-> c.base, done |-> done, held |-> held,
            script |-> job[s].setup, env |-> job[s].env]
  BY DEF Created
<1> HIDE DEF c, bx, done
<1>6. done \in Seq(Setup) /\ held \in Nat /\ (image \in Bases => Elems(done) = {} /\ held = 0)
  BY <1>2 DEF done, Elems
<1> HIDE DEF held
<1>7. bx \in Container
  BY <1>2, <1>4, <1>5, <1>6 DEF Container
<1>8. bx.base = c.base /\ bx.done = done /\ bx.held = held /\ bx.script = job[s].setup
  BY <1>5
<1>9. Made(bx, row[s])
  BY <1>2, <1>3, <1>6, <1>8, RanOnlyElems DEF Made
<1> QED
  BY <1>7, <1>9 DEF bx

LEMMA CreatedReady ==
  ASSUME IInv, ~past.same, ~past.kept, NEW s \in Sessions, RunCreate(s), Holds(row[s].runner, row[s].image)
  PROVE  Readied(Created(s), row[s])
<1> DEFINE e == job[s].env
           r == row[s].runner
           image == row[s].image
           c == Contents(r, image)
           bx == Created(s)
<1>1. TypeOK /\ SessionAt(s) /\ ImagesFine
  BY Session DEF IInv, Cache
<1>2. /\ e \in EnvType /\ job[s].setup = SetupOf(e, image)
      /\ image \in Bases => image = row[s].asked
      /\ image \in Bases \/ Cached(e, image)
  BY <1>1 DEF SessionAt, SessionFine, RowFine, JobFine, RunCreate, JobType
<1>3. /\ bx.base = c.base /\ bx.done = c.done /\ bx.held = Len(c.done)
      /\ bx.script = SetupOf(e, image) /\ bx.env = e
  BY <1>2 DEF Created
<1> SUFFICES ASSUME e.there PROVE Readied(bx, row[s])
  BY <1>3 DEF Readied
<1>4. e.snap \in SnapType /\ e.setup \in Setup /\ e.image \in Bases
  BY <1>2, HashIs
<1> HIDE DEF bx
<1>5. CASE image \in Bases
  <2>1. c = [base |-> image, done |-> <<>>, script |-> None] /\ image = row[s].asked
    BY <1>2, <1>5, ContentsAre
  <2>2. c.base = image /\ c.done = <<>> /\ Len(c.done) = 0 /\ Elems(c.done) = {}
    BY <2>1 DEF Elems
  <2>3. e.snap.ref = <<>> \/ image # e.snap.ref
    BY <1>4, <1>5, Names DEF SnapType, NoSnap
  <2>4. SetupOf(e, image) = e.setup
    BY <2>3 DEF SetupOf
  <2> HIDE DEF c, e, image
  <2>5. bx.base = row[s].asked /\ RanOnly(bx.done, e.setup) /\ bx.held = 0 /\ bx.script = e.setup /\ Len(bx.done) = bx.held
    BY <1>3, <2>1, <2>2, <2>4, RanOnlyElems
  <2> QED
    BY <1>3, <2>5 DEF Readied
<1>6. CASE Cached(e, image)
  <2>1. /\ image = e.snap.ref /\ image \in Refs /\ e.setup \in Scripts
        /\ image[1] = e.image[1] /\ image[2] = e.setup /\ image # <<>>
    BY <1>2, <1>6, CachedIs, Names DEF Cached
  <2>2. r \in Runners /\ image \in DOMAIN images[r] /\ c = images[r][image]
    BY <2>1, ContentsAre
  <2>3. Named(image, c.base, c.done)
    BY <1>1, <2>2 DEF ImagesFine
  <2>4. e.image = <<e.image[1]>>
    BY <1>4, Names
  <2>5. c.base = e.image /\ c.done # <<>> /\ RanOnly(c.done, e.setup)
    BY <2>1, <2>3, <2>4 DEF Named
  <2>6. SetupOf(e, image) = None
    BY <2>1 DEF SetupOf
  <2>7. e.setup # None
    BY <2>1, CacheAssumption
  <2> HIDE DEF c, e, image
  <2> QED
    BY <1>3, <2>5, <2>6, <2>7 DEF Readied
<1> QED
  BY <1>2, <1>5, <1>6

\* the row of a container that is there keeps what it asked for
LEMMA RowKeeps ==
  ASSUME IInv, [Next]_vars, ~past'.same, NEW b \in Boxes, box[b].there
  PROVE  LET s == b[2]
         IN  /\ row'[s].state # None /\ row'[s].asked = row[s].asked
             /\ row'[s].runner = b[1] => /\ row[s].runner = b[1] /\ row'[s].image = row[s].image
                                         /\ row'[s].pin = row[s].pin
<1>1. TypeOK /\ SessionsFine /\ PastGrows /\ BoxesFine /\ FreshFine
  BY PastMoves DEF IInv, Cache
<1>2. ~past.same
  BY <1>1, PastKept
<1> DEFINE s == b[2]
<1>3. s \in Sessions /\ b = <<b[1], s>> /\ b[1] \in Runners /\ b[1] # None
  BY BoxIs
<1>4. row[s].state # None
  BY <1>1, <1>2 DEF BoxesFine, BoxFine
<1> HIDE DEF s
<1>5. ~CreateSession(s)
  BY <1>4 DEF CreateSession
<1>6. ASSUME Place(s) PROVE row'[s].state # None /\ row'[s].asked = row[s].asked /\ row'[s].runner # b[1]
  <2>1. row'[s].state = "creating" /\ row'[s].asked = row[s].asked
        /\ past'.same = (past.same \/ LET c == <<row'[s].runner, s>>
                                      IN  box[c].there \/ \E x \in news \cup builds : x.box = c)
    BY <1>1, <1>3, <1>6, PlaceGood
  <2>2. row'[s].runner # b[1]
    BY <1>3, <2>1
  <2> QED
    BY <2>1, <2>2 DEF None
<1>7. ASSUME Pin(s) PROVE row'[s].state # None /\ row'[s].asked = row[s].asked /\ row'[s].runner # b[1]
  <2>1. row'[s].runner = row[s].runner /\ row'[s].state = row[s].state /\ row'[s].asked = row[s].asked /\ job[s].pc = "spec"
    <3>1. job[s].pc = "spec"
      BY <1>7 DEF Pin
    <3> QED
      BY <1>1, <1>3, <1>7, <3>1, PinGood
  <2>2. ~box[<<row[s].runner, s>>].there
    BY <1>1, <1>2, <1>3, <2>1 DEF FreshFine, Fresh
  <2> QED
    BY <1>3, <1>4, <2>1, <2>2
<1>8. RunCreate(s) \/ CreateAnswered(s) => UNCHANGED row
  BY <1>1, <1>3, RunCreateRow, CreateAnsweredRow
<1>9. Requeue(s) => /\ row'[s].state # None /\ row'[s].asked = row[s].asked /\ row'[s].image = row[s].image
                    /\ row'[s].pin = row[s].pin /\ row'[s].runner \in {row[s].runner, None}
  BY <1>1, <1>3, RequeueGood
<1>10. FailSpec(s) \/ CreateFails(s) \/ Suspend(s) \/ Resume(s) \/ Delete(s) \/ Cancel(s) => SameRow(s)
  BY <1>1, <1>3, StateSteps, ResumeRow
<1>11. CASE RowStep(s)
  BY <1>3, <1>4, <1>5, <1>6, <1>7, <1>8, <1>9, <1>10, <1>11 DEF RowStep, SameRow, s
<1>12. CASE ~RowStep(s)
  BY <1>1, <1>3, <1>4, <1>12, RowGoes DEF s
<1> QED
  BY <1>11, <1>12

LEMMA MadeStays ==
  ASSUME NEW bx \in Container, NEW next, NEW ro, NEW rp, Grown(bx, next)
  PROVE  /\ Made(bx, ro) /\ rp.image = ro.image /\ rp.pin = ro.pin => Made(next, rp)
         /\ Readied(bx, ro) /\ rp.asked = ro.asked => Readied(next, rp)
<1>1. /\ next.base = bx.base /\ next.script = bx.script /\ next.env = bx.env /\ next.held = bx.held
      /\ bx.script = None => next.done = bx.done
      /\ RanOnly(bx.done, bx.script) => RanOnly(next.done, bx.script)
  <2>1. /\ next.base = bx.base /\ next.script = bx.script /\ next.env = bx.env /\ next.held = bx.held
        /\ bx.script = None => next.done = bx.done
    BY DEF Grown
  <2>2. RanOnly(bx.done, bx.script) <=> Elems(bx.done) \subseteq {bx.script}
    BY RanOnlyElems
  <2>3. RanOnly(next.done, bx.script) <=> Elems(next.done) \subseteq {bx.script}
    BY RanOnlyElems
  <2>4. Elems(next.done) = Elems(bx.done) \/ Elems(next.done) = Elems(bx.done) \cup {bx.script}
    BY GrownElems
  <2> QED
    BY <2>1, <2>2, <2>3, <2>4
<1>2. Made(bx, ro) /\ rp.image = ro.image /\ rp.pin = ro.pin => Made(next, rp)
  BY <1>1 DEF Made
<1>3. Readied(bx, ro) /\ rp.asked = ro.asked => Readied(next, rp)
  BY <1>1 DEF Readied
<1> QED
  BY <1>2, <1>3

LEMMA BoxesKept ==
  ASSUME IInv, [Next]_vars
  PROVE  BoxesFine'
<1>1. TypeOK /\ SessionsFine /\ BoxesFine /\ PastGrows
  BY PastMoves DEF IInv, Cache
<1> SUFFICES ASSUME ~past'.same, NEW b \in Boxes, box'[b].there
             PROVE  BoxFine(box'[b], row'[b[2]], b[1], past'.kept)
  BY DEF BoxesFine, BoxFine
<1>2. ~past.same /\ (~past'.kept => ~past.kept)
  BY <1>1, PastKept
<1> DEFINE s == b[2]
<1>3. s \in Sessions
  BY BoxIs
<1>4. CASE Grown(box[b], box'[b])
  <2>1. box[b].there /\ BoxFine(box[b], row[s], b[1], past.kept)
    BY <1>1, <1>2, <1>4 DEF BoxesFine, Grown
  <2>2. /\ row'[s].state # None /\ row'[s].asked = row[s].asked
        /\ row'[s].runner = b[1] => /\ row[s].runner = b[1] /\ row'[s].image = row[s].image
                                    /\ row'[s].pin = row[s].pin
    BY <2>1, RowKeeps
  <2>3. box[b] \in Container
    BY <1>1, <2>1, <1>4, ContainerHas DEF Grown, TypeOK
  <2> DEFINE bx == box[b]
             next == box'[b]
             ro == row[s]
             rp == row'[s]
  <2>4. bx \in Container /\ Grown(bx, next) /\ bx.there /\ BoxFine(bx, ro, b[1], past.kept)
    BY <1>4, <2>1, <2>3
  <2> HIDE DEF bx, next, ro, rp
  <2>5. /\ Made(bx, ro) /\ rp.image = ro.image /\ rp.pin = ro.pin => Made(next, rp)
        /\ Readied(bx, ro) /\ rp.asked = ro.asked => Readied(next, rp)
    BY <2>4, MadeStays
  <2>6. BoxFine(next, rp, b[1], past'.kept)
    BY <1>2, <2>2, <2>4, <2>5 DEF BoxFine, ro, rp
  <2> QED
    BY <2>6 DEF next, rp
<1>5. CASE RunCreate(s) /\ b = <<row[s].runner, s>> /\ Holds(b[1], row[s].image) /\ box'[b] = Created(s)
  <2>1. Holds(row[s].runner, row[s].image) /\ row' = row /\ row[s].state # None
    <3>1. b[1] = row[s].runner
      BY <1>5
    <3> QED
      BY <1>1, <1>3, <1>5, <3>1, RunCreateRow DEF RunCreate, None
  <2>2. Made(Created(s), row[s]) /\ (~past.kept => Readied(Created(s), row[s]))
    BY <1>2, <1>3, <1>5, <2>1, CreatedIs, CreatedReady
  <2> QED
    BY <1>2, <1>5, <2>1, <2>2 DEF BoxFine
<1> QED
  BY <1>4, <1>5, BoxBecomes

--------------------
\* What an image holds.

\* images are only added to, by a commit
LEMMA ImagesMove ==
  ASSUME TypeOK, [Next]_vars
  PROVE  \/ UNCHANGED images
         \/ \E bu \in builds : Commit(bu) /\ bu.box \in Boxes /\ bu.box[1] \in Runners /\ bu.hash \in Refs
                               /\ images' = [images EXCEPT ![bu.box[1]] = Tagged(images[bu.box[1]], bu.hash, box[bu.box])]
<1>1. ASSUME NEW bu \in builds, Commit(bu)
      PROVE  bu.box \in Boxes /\ bu.box[1] \in Runners /\ bu.hash \in Refs
             /\ images' = [images EXCEPT ![bu.box[1]] = Tagged(images[bu.box[1]], bu.hash, box[bu.box])]
  <2>1. bu \in BuildType
    BY DEF TypeOK
  <2>2. bu.box \in Boxes /\ bu.hash \in Refs
    BY <2>1 DEF BuildType
  <2> QED
    BY <1>1, <2>2, BoxIs DEF Commit
<1>2. ASSUME NEW n \in news, SetupDone(n) PROVE UNCHANGED images
  BY <1>2 DEF SetupDone
<1>3. ASSUME NEW bu \in builds, DropBuild(bu) \/ Record(bu) PROVE UNCHANGED images
  BY <1>3 DEF DropBuild, Record
<1> QED
  BY <1>1, <1>2, <1>3, BuildSteps

LEMMA ImagesGrow ==
  ASSUME TypeOK, [Next]_vars, NEW r \in Runners
  PROVE  DOMAIN images[r] \subseteq DOMAIN images'[r]
<1>1. DOMAIN images = Runners
  BY DEF TypeOK
<1>2. ASSUME NEW bu, images' = [images EXCEPT ![bu.box[1]] = Tagged(images[bu.box[1]], bu.hash, box[bu.box])]
      PROVE  DOMAIN images[r] \subseteq DOMAIN images'[r]
  <2>1. CASE r = bu.box[1]
    <3>1. images'[r] = Tagged(images[r], bu.hash, box[bu.box])
      BY <1>1, <1>2, <2>1
    <3> QED
      BY <3>1 DEF Tagged
  <2>2. CASE r # bu.box[1]
    BY <1>1, <1>2, <2>2
  <2> QED
    BY <2>1, <2>2
<1> QED
  BY <1>2, ImagesMove

LEMMA EnvMoves ==
  ASSUME TypeOK, [Next]_vars
  PROVE  \/ env'.snap = env.snap \/ env'.snap = NoSnap
         \/ \E bu \in builds : bu.pc = "made" /\ env'.snap = [hash |-> bu.hash, ref |-> bu.hash, holder |-> bu.box[1]]
<1>0. env \in EnvType /\ edit \in EditType
  BY DEF TypeOK
<1>1. CASE UNCHANGED env
  BY <1>1
<1>2. ASSUME EndEdit PROVE env'.snap = env.snap
  <2>1. edit.env \in EnvType \ {NoEnv}
    BY <1>0, <1>2 DEF EditType, EndEdit, Idle
  <2>2. edit.env \in [there : {TRUE}, image : Bases, setup : Setup, snap : SnapType]
    BY <2>1 DEF EnvType
  <2> DEFINE e == edit.env
             snap == env.snap
  <2>3. env' = env \/ env' = [e EXCEPT !.snap = snap]
    BY <1>2 DEF EndEdit, Written
  <2>4. e \in [there : {TRUE}, image : Bases, setup : Setup, snap : SnapType]
    BY <2>2
  <2> HIDE DEF e
  <2>5. [e EXCEPT !.snap = snap].snap = snap
    BY <2>4
  <2> QED
    BY <2>3, <2>5
<1>3. EndDelete => env'.snap = NoSnap
  BY DEF EndDelete, NoEnv
<1>4. ASSUME NEW bu \in builds, Record(bu), env' # env
      PROVE  bu.pc = "made" /\ env'.snap = [hash |-> bu.hash, ref |-> bu.hash, holder |-> bu.box[1]]
  <2> DEFINE snap == [hash |-> bu.hash, ref |-> bu.hash, holder |-> bu.box[1]]
  <2>1. bu.pc = "made" /\ env.there /\ env' = [env EXCEPT !.snap = snap]
    BY <1>4 DEF Record
  <2>2. env \in [there : {TRUE}, image : Bases, setup : Setup, snap : SnapType]
    <3>1. env # NoEnv
      BY <2>1 DEF NoEnv
    <3> QED
      BY <1>0, <3>1 DEF EnvType
  <2> HIDE DEF snap
  <2>3. env'.snap = snap
    BY <2>1, <2>2
  <2> QED
    BY <2>1, <2>3 DEF snap
<1>5. BeginPass \/ BeginEdit \/ BeginDelete \/ (\E s \in Sessions : Place(s) \/ SkipRow(s)) => UNCHANGED env
  BY DEF BeginPass, BeginEdit, BeginDelete, Place, SkipRow
<1> QED
  BY <1>1, <1>2, <1>3, <1>4, <1>5, EnvSteps

LEMMA ImagesKept ==
  ASSUME IInv, [Next]_vars
  PROVE  ImagesFine'
<1>1. TypeOK /\ ImagesFine /\ BuildsFine /\ PastGrows /\ DOMAIN images = Runners /\ env \in EnvType
      /\ builds \subseteq BuildType
  BY PastMoves DEF IInv, Cache, TypeOK
<1>2. env.snap # NoSnap => env.snap.holder \in Runners
  <2>1. env.snap \in SnapType
    <3>1. NoEnv.snap \in SnapType
      BY DEF NoEnv, SnapType
    <3> QED
      BY <1>1, <3>1 DEF EnvType
  <2> QED
    BY <2>1 DEF SnapType
<1>3. ASSUME NEW bu \in builds PROVE bu.box[1] \in Runners
  <2>1. bu.box \in Boxes
    BY <1>1 DEF BuildType
  <2> QED
    BY <2>1, BoxIs
<1>4. env'.snap # NoSnap => env'.snap.ref \in DOMAIN images'[env'.snap.holder]
  <2>1. CASE env'.snap = env.snap
    BY <1>1, <1>2, <2>1, ImagesGrow DEF ImagesFine
  <2>2. ASSUME NEW bu \in builds, bu.pc = "made", env'.snap = [hash |-> bu.hash, ref |-> bu.hash, holder |-> bu.box[1]]
        PROVE  env'.snap.ref \in DOMAIN images'[env'.snap.holder]
    <3>1. env'.snap.ref = bu.hash /\ env'.snap.holder = bu.box[1]
      BY <2>2
    <3> QED
      BY <1>1, <1>3, <2>2, <3>1, ImagesGrow DEF ImagesFine
  <2> QED
    BY <1>1, <2>1, <2>2, EnvMoves
<1>5. ASSUME NEW bu \in builds', bu.pc = "made" PROVE bu.hash \in DOMAIN images'[bu.box[1]]
  <2>1. CASE bu \in builds
    BY <1>1, <1>3, <1>5, <2>1, ImagesGrow DEF ImagesFine
  <2>2. ASSUME NEW old \in builds, Commit(old), bu.box = old.box, bu.hash = old.hash
        PROVE  bu.hash \in DOMAIN images'[bu.box[1]]
    <3>1. images' = [images EXCEPT ![old.box[1]] = Tagged(images[old.box[1]], old.hash, box[old.box])]
      BY <2>2 DEF Commit
    <3>2. images'[old.box[1]] = Tagged(images[old.box[1]], old.hash, box[old.box])
      BY <1>1, <1>3, <3>1
    <3> QED
      BY <2>2, <3>2 DEF Tagged
  <2>3. ASSUME NEW n, bu = [box |-> n.box, hash |-> Hash(env), pc |-> "asked"] PROVE FALSE
    BY <1>5, <2>3
  <2> QED
    BY <1>1, <2>1, <2>2, <2>3, BuildsMove
<1>6. ASSUME ~past'.same, NEW r \in Runners, NEW x \in DOMAIN images'[r]
      PROVE  Named(x, images'[r][x].base, images'[r][x].done)
  <2>1. ~past.same
    BY <1>1, <1>6, PastKept
  <2>2. x \in DOMAIN images[r] => Named(x, images[r][x].base, images[r][x].done)
    BY <1>1, <2>1 DEF ImagesFine
  <2>3. CASE UNCHANGED images
    BY <2>2, <2>3
  <2>4. ASSUME NEW bu \in builds, Commit(bu),
               images' = [images EXCEPT ![bu.box[1]] = Tagged(images[bu.box[1]], bu.hash, box[bu.box])]
        PROVE  Named(x, images'[r][x].base, images'[r][x].done)
    <3>1. CASE r # bu.box[1] \/ x # bu.hash
      <4>1. x \in DOMAIN images[r] /\ images'[r][x] = images[r][x]
        <5>1. CASE r # bu.box[1]
          BY <1>1, <2>4, <5>1
        <5>2. CASE r = bu.box[1] /\ x # bu.hash
          <6>1. images'[r] = Tagged(images[r], bu.hash, box[bu.box])
            BY <1>1, <2>4, <5>2
          <6> QED
            BY <5>2, <6>1 DEF Tagged
        <5> QED
          BY <3>1, <5>1, <5>2
      <4> QED
        BY <2>2, <4>1
    <3>2. CASE r = bu.box[1] /\ x = bu.hash
      <4>1. images'[r] = Tagged(images[r], bu.hash, box[bu.box])
        BY <1>1, <2>4, <3>2
      <4>2. images'[r][x].base = box[bu.box].base /\ images'[r][x].done = box[bu.box].done
        BY <3>2, <4>1 DEF Tagged
      <4>3. Named(bu.hash, box[bu.box].base, box[bu.box].done)
        BY <1>1, <2>1, <2>4 DEF BuildsFine, Commit
      <4> QED
        BY <3>2, <4>2, <4>3
    <3> QED
      BY <3>1, <3>2
  <2> QED
    BY <1>1, <2>3, <2>4, ImagesMove
<1> QED
  BY <1>4, <1>5, <1>6 DEF ImagesFine

--------------------
\* Types.

LEMMA LeftMoves ==
  ASSUME [Next]_vars
  PROVE  UNCHANGED left \/ \E what \in Whats : Can(what) /\ Spend(what)
<1>1. CASE SystemStep
  BY <1>1 DEF SystemStep, WriteRC, SecretsFail, AgentsWaited, HearVerdict, OfferReport, TimeOut, Take, RelayEnds, Deliver,
              Register, ApplyRunnerEvent, SetupDone, CredentialRejected, Whats
<1>2. CASE Programs
  BY <1>2 DEF Programs, ScriptEnds, SkipClone, AskCredential, Minted, MintRefused, GitSucceeds, CheckOut, GitHubRefuses,
              Accuse, ProxyRefuses, SetupEnds, Drop, Swallow, Whats
<1>3. CASE Fleet
  <2>1. ASSUME NEW s \in Sessions,
               \/ CreateSession(s) \/ Place(s) \/ SkipRow(s) \/ Pin(s) \/ RunCreate(s) \/ CreateAnswered(s) \/ Resume(s)
        PROVE  UNCHANGED left
    BY <2>1 DEF CreateSession, Place, SkipRow, Pin, RunCreate, CreateAnswered, Resume, chainVars
  <2>2. ASSUME NEW s \in Sessions,
               \/ FailSpec(s) \/ CreateFails(s) \/ Requeue(s) \/ Suspend(s) \/ Delete(s) \/ Cancel(s)
        PROVE  UNCHANGED left \/ \E what \in Whats : Can(what) /\ Spend(what)
    BY <2>2 DEF FailSpec, CreateFails, Requeue, Suspend, Delete, Cancel, Whats
  <2>3. ASSUME NEW b \in Boxes, DestroyOrphan(b) PROVE UNCHANGED left
    BY <2>3 DEF DestroyOrphan
  <2>4. ASSUME NEW bu \in builds, Commit(bu) \/ DropBuild(bu) \/ Record(bu)
        PROVE  UNCHANGED left \/ \E what \in Whats : Can(what) /\ Spend(what)
    BY <2>4 DEF Commit, DropBuild, Record, chainVars, Whats
  <2>5. ASSUME BeginPass \/ BeginEdit \/ EndEdit \/ BeginDelete \/ EndDelete
        PROVE  UNCHANGED left \/ \E what \in Whats : Can(what) /\ Spend(what)
    BY <2>5 DEF BeginPass, BeginEdit, EndEdit, BeginDelete, EndDelete, chainVars, Whats
  <2> QED
    BY <1>3, <2>1, <2>2, <2>3, <2>4, <2>5 DEF Fleet
<1>4. CASE World
  BY <1>4 DEF World, Refresh, Withdraw, LoseNews, Whats
<1> QED
  BY <1>1, <1>2, <1>3, <1>4 DEF Next, vars, chainVars

LEMMA LeftKept ==
  ASSUME TypeOK, [Next]_vars
  PROVE  left' \in [Whats -> Nat]
<1>1. left \in [Whats -> Nat]
  BY DEF TypeOK
<1>2. ASSUME NEW what \in Whats, Can(what), Spend(what) PROVE left' \in [Whats -> Nat]
  <2>1. left[what] \in Nat /\ left[what] - 1 \in Nat
    BY <1>1, <1>2 DEF Can
  <2> QED
    BY <1>1, <1>2, <2>1 DEF Spend
<1> QED
  BY <1>1, <1>2, LeftMoves

LEMMA BoxTypes ==
  ASSUME IInv, [Next]_vars
  PROVE  box' \in [Boxes -> BoxType]
<1>1. TypeOK /\ Boots /\ RestsFine /\ SessionsFine /\ box \in [Boxes -> BoxType]
  BY DEF IInv, Cache, TypeOK
<1>2. ASSUME NEW c \in Boxes, NEW bx \in BoxType, box' = [box EXCEPT ![c] = bx] PROVE box' \in [Boxes -> BoxType]
  BY <1>1, <1>2
<1>3. NoBox \in BoxType /\ Container \subseteq BoxType
  BY DEF BoxType, Container
<1>4. ASSUME NEW s \in Sessions, RunCreate(s) PROVE box' \in [Boxes -> BoxType]
  <2>1. row[s].runner \in Runners
    BY <1>1, <1>4 DEF SessionsFine, SessionFine, RowFine, RunCreate
  <2>2. UNCHANGED box \/ (Holds(row[s].runner, row[s].image) /\ box' = [box EXCEPT ![<<row[s].runner, s>>] = Created(s)])
    <3>1. CASE box[<<row[s].runner, s>>].there
      BY <1>4, <3>1 DEF RunCreate
    <3>2. CASE ~box[<<row[s].runner, s>>].there
      BY <1>1, <1>4, <2>1, <3>2, RunCreateIs DEF Created
    <3> QED
      BY <3>1, <3>2
  <2>3. <<row[s].runner, s>> \in Boxes
    BY <2>1, BoxIs
  <2> QED
    BY <1>1, <1>2, <1>3, <1>4, <2>2, <2>3, CreatedIs
<1>5. ASSUME NEW s \in Sessions, Resume(s) PROVE box' \in [Boxes -> BoxType]
  <2> DEFINE c == <<row[s].runner, s>>
             gen == row[s].gen + 1
             old == box[c]
  <2>1. row[s].runner \in Runners /\ old.there /\ gen \in Nat
    <3>1. row[s] \in RowType
      BY <1>1 DEF TypeOK
    <3> QED
      BY <1>1, <1>5, <3>1 DEF SessionsFine, SessionFine, RowFine, RestsFine, Rests, Resume, RowType
  <2>2. c \in Boxes /\ old \in Container
    <3>1. c \in Boxes
      BY <2>1, BoxIs
    <3>2. old \in BoxType
      BY <1>1, <3>1
    <3> QED
      BY <2>1, <3>1, <3>2, ContainerHas
  <2>3. box' = [box EXCEPT ![c] = [old EXCEPT !.gen = gen]]
    BY <1>5 DEF Resume
  <2> HIDE DEF gen, old, c
  <2>4. [old EXCEPT !.gen = gen] \in Container
    BY <2>1, <2>2 DEF Container
  <2> QED
    BY <1>2, <1>3, <2>2, <2>3, <2>4
<1>6. ASSUME NEW s \in Sessions, Delete(s) PROVE box' \in [Boxes -> BoxType]
  BY <1>1, <1>2, <1>3, <1>6, DeleteGood
<1>7. ASSUME NEW c \in Boxes, DestroyOrphan(c) PROVE box' \in [Boxes -> BoxType]
  BY <1>2, <1>3, <1>7 DEF DestroyOrphan, Gone
<1>8. ASSUME NEW c \in Boxes, SetupEnds(c) PROVE box' \in [Boxes -> BoxType]
  <2> DEFINE old == box[c]
  <2>1. old \in Container
    BY <1>1, <1>8, SetupHasScript, ContainerHas
  <2> DEFINE done == Append(old.done, old.script)
  <2>2. UNCHANGED box \/ box' = [box EXCEPT ![c] = [old EXCEPT !.done = done]]
    BY <1>8 DEF SetupEnds
  <2>3. done \in Seq(Setup)
    BY <2>1, ElemsAppend DEF Container
  <2> HIDE DEF old, done
  <2>4. [old EXCEPT !.done = done] \in Container
    BY <2>1, <2>3 DEF Container
  <2> QED
    BY <1>1, <1>2, <1>3, <2>2, <2>4
<1> QED
  BY <1>1, <1>4, <1>5, <1>6, <1>7, <1>8, BoxSteps

LEMMA BuildTypes ==
  ASSUME IInv, [Next]_vars
  PROVE  builds' \subseteq BuildType
<1>1. TypeOK /\ builds \subseteq BuildType /\ env \in EnvType
  BY DEF IInv, TypeOK
<1>2. ASSUME NEW n \in news, SnapshotWanted(n.box[2])
      PROVE  [box |-> n.box, hash |-> Hash(env), pc |-> "asked"] \in BuildType
  <2>1. n.box \in Boxes
    BY <1>1 DEF TypeOK, ChainTypeOK, NewsType
  <2>2. row[n.box[2]] \in RowType
    BY <1>1, <2>1, BoxIs DEF TypeOK
  <2>3. env.there /\ Hash(env) \in Pins
    BY <1>2, <2>2 DEF SnapshotWanted, RowType
  <2>4. Hash(env) \in Refs
    BY <1>1, <2>3, PinnedRef
  <2> QED
    BY <2>1, <2>4 DEF BuildType
<1>3. ASSUME NEW old \in builds PROVE [old EXCEPT !.pc = "made"] \in BuildType
  <2>1. old \in BuildType
    BY <1>1
  <2> QED
    BY <2>1 DEF BuildType
<1> QED
  BY <1>1, <1>2, <1>3, BuildsMove

LEMMA ImageTypes ==
  ASSUME IInv, [Next]_vars
  PROVE  /\ DOMAIN images' = Runners
         /\ \A r \in Runners : images'[r] \in [DOMAIN images'[r] -> ImageType] /\ DOMAIN images'[r] \subseteq Refs
<1>1. /\ TypeOK /\ DOMAIN images = Runners /\ builds \subseteq BuildType /\ box \in [Boxes -> BoxType]
      /\ \A r \in Runners : images[r] \in [DOMAIN images[r] -> ImageType] /\ DOMAIN images[r] \subseteq Refs
  BY DEF IInv, TypeOK
<1>2. ASSUME NEW bu \in builds, Commit(bu), bu.box \in Boxes, bu.box[1] \in Runners, bu.hash \in Refs,
             images' = [images EXCEPT ![bu.box[1]] = Tagged(images[bu.box[1]], bu.hash, box[bu.box])]
      PROVE  /\ DOMAIN images' = Runners
             /\ \A r \in Runners : images'[r] \in [DOMAIN images'[r] -> ImageType] /\ DOMAIN images'[r] \subseteq Refs
  <2> DEFINE c == box[bu.box]
             held == [base |-> c.base, done |-> c.done, script |-> None]
             store == images[bu.box[1]]
  <2>1. c \in Container
    <3>1. c \in BoxType /\ c.there
      BY <1>1, <1>2 DEF Commit
    <3> QED
      BY <3>1, ContainerHas
  <2> HIDE DEF c
  <2>2. held \in ImageType
    BY <2>1 DEF Container, ImageType
  <2>3. Tagged(store, bu.hash, c) = [x \in DOMAIN store \cup {bu.hash} |-> IF x = bu.hash THEN held ELSE store[x]]
    BY DEF Tagged
  <2>4. store \in [DOMAIN store -> ImageType] /\ DOMAIN store \subseteq Refs
    BY <1>1, <1>2
  <2> DEFINE tagged == Tagged(store, bu.hash, c)
  <2>5. images' = [images EXCEPT ![bu.box[1]] = tagged]
    BY <1>2 DEF c
  <2> HIDE DEF held, store
  <2>6. tagged \in [DOMAIN tagged -> ImageType] /\ DOMAIN tagged \subseteq Refs
    BY <1>2, <2>2, <2>3, <2>4
  <2> HIDE DEF tagged
  <2> QED
    BY <1>1, <1>2, <2>5, <2>6
<1> QED
  BY <1>1, <1>2, ImagesMove

LEMMA EnvTypes ==
  ASSUME IInv, [Next]_vars
  PROVE  /\ env' \in EnvType /\ edit' \in EditType
         /\ sched' \in [pc : {"idle", "pass"}, env : EnvType, todo : SUBSET Sessions]
<1>1. /\ TypeOK /\ env \in EnvType /\ edit \in EditType /\ sched \in [pc : {"idle", "pass"}, env : EnvType, todo : SUBSET Sessions]
      /\ shape \in Shape /\ builds \subseteq BuildType
  BY DEF IInv, TypeOK
<1> DEFINE Env == [there : {TRUE}, image : Bases, setup : Setup, snap : SnapType]
           EnvGood == env' \in EnvType /\ edit' \in EditType
                      /\ sched' \in [pc : {"idle", "pass"}, env : EnvType, todo : SUBSET Sessions]
<1>2. NoEnv \in EnvType /\ Env \subseteq EnvType /\ NoEnv.there = FALSE /\ NoEnv.snap \in SnapType
  <2>1. NoEnv \in EnvType /\ Env \subseteq EnvType
    BY DEF EnvType
  <2>2. NoEnv.there = FALSE /\ NoEnv.snap = NoSnap
    BY DEF NoEnv
  <2>3. NoSnap \in SnapType
    BY DEF SnapType
  <2> QED
    BY <2>1, <2>2, <2>3
<1>3. ASSUME NEW e \in EnvType, e # NoEnv PROVE e \in Env
  BY <1>3 DEF EnvType
<1>4. env.there => env \in Env
  BY <1>1, <1>2, <1>3
<1>5. env.snap \in SnapType
  BY <1>1, <1>2 DEF EnvType
<1>6. Idle \in EditType /\ [Idle EXCEPT !.pc = "delete"] \in EditType
  BY DEF EditType
<1>7. CASE BeginPass
  BY <1>1, <1>7 DEF BeginPass
<1>8. CASE BeginEdit
  <2>1. PICK i \in shape.images, sc \in Scripts :
           edit' = [pc |-> "write", env |-> [env EXCEPT !.image = Base(i), !.setup = sc]]
    BY <1>8 DEF BeginEdit
  <2>2. Base(i) \in Bases /\ sc \in Setup
    BY <1>1, Names DEF Shape, Setup
  <2> DEFINE image == Base(i)
             e == [env EXCEPT !.image = image, !.setup = sc]
  <2>3. env \in Env /\ image \in Bases
    BY <1>4, <1>8, <2>2 DEF BeginEdit
  <2> HIDE DEF image
  <2>4. e \in Env /\ e.there
    BY <2>2, <2>3
  <2>5. edit' = [pc |-> "write", env |-> e]
    BY <2>1 DEF image
  <2> HIDE DEF e
  <2>6. e \in EnvType \ {NoEnv}
    BY <1>2, <2>4
  <2>7. edit' \in EditType
    BY <2>5, <2>6 DEF EditType
  <2> QED
    BY <1>1, <1>8, <2>7 DEF BeginEdit
<1>9. CASE EndEdit
  <2> DEFINE e == edit.env
             snap == env.snap
  <2>1. e \in EnvType \ {NoEnv}
    BY <1>1, <1>9 DEF EditType, EndEdit, Idle
  <2>2. e \in Env
    BY <1>3, <2>1
  <2>3. env' = env \/ env' = [e EXCEPT !.snap = snap]
    BY <1>9 DEF EndEdit, Written
  <2>4. snap \in SnapType
    BY <1>5
  <2> HIDE DEF e, snap
  <2>5. [e EXCEPT !.snap = snap] \in Env
    BY <2>2, <2>4
  <2> QED
    BY <1>1, <1>2, <1>6, <1>9, <2>3, <2>5 DEF EndEdit
<1>10. CASE BeginDelete \/ EndDelete
  BY <1>1, <1>2, <1>6, <1>10 DEF BeginDelete, EndDelete
<1>11. ASSUME NEW s \in Sessions, Place(s) \/ SkipRow(s) PROVE EnvGood
  <2> DEFINE todo == sched.todo \ {s}
  <2>1. sched' = EndOfPass(todo) /\ UNCHANGED <<env, edit>>
    BY <1>11 DEF Place, SkipRow
  <2>2. todo \in SUBSET Sessions
    BY <1>1
  <2> HIDE DEF todo
  <2> QED
    BY <1>1, <1>2, <2>1, <2>2 DEF EndOfPass
<1>12. ASSUME NEW bu \in builds, Record(bu) PROVE EnvGood
  <2> DEFINE snap == [hash |-> bu.hash, ref |-> bu.hash, holder |-> bu.box[1]]
  <2>1. env' = env \/ (env.there /\ env' = [env EXCEPT !.snap = snap])
    BY <1>12 DEF Record
  <2>2. bu.hash \in Refs /\ bu.box[1] \in Runners
    <3>1. bu.hash \in Refs /\ bu.box \in Boxes
      BY <1>1 DEF BuildType
    <3> QED
      BY <3>1, BoxIs
  <2>3. snap \in SnapType
    BY <2>2 DEF SnapType
  <2> HIDE DEF snap
  <2>4. env' \in EnvType
    BY <1>1, <1>2, <1>4, <2>1, <2>3
  <2> QED
    BY <1>1, <1>12, <2>4 DEF Record
<1> QED
  BY <1>1, <1>7, <1>8, <1>9, <1>10, <1>11, <1>12, EnvSteps

LEMMA TypesKept ==
  ASSUME IInv, [Next]_vars
  PROVE  TypeOK'
<1>1. TypeOK
  BY DEF IInv
<1>2. /\ boot' \in [Boxes -> BootType] /\ disk' \in [Boxes -> DiskType]
      /\ wire' \in [Boxes -> WireType] /\ git' \in [Boxes -> GitType]
  BY BootsKept DEF BootsGood
<1>3. news' \subseteq NewsType /\ vault' \in VaultType /\ past' \in PastType
  BY <1>1, NewsTypes, VaultMoves, PastMoves DEF PastGrows
<1>4. ChainTypeOK'
  BY <1>2, <1>3 DEF ChainTypeOK
<1>5. row' \in [Sessions -> RowType] /\ job' \in [Sessions -> JobType]
  BY SessionsKept DEF SessionsGood
<1>6. shape' \in Shape
  BY <1>1, EnvSteps DEF TypeOK
<1> QED
  BY <1>1, <1>4, <1>5, <1>6, LeftKept, BoxTypes, BuildTypes, ImageTypes, EnvTypes DEF TypeOK

LEMMA Inductive ==
  ASSUME IInv, [Next]_vars
  PROVE  IInv'
<1>1. Boots'
  BY BootsKept DEF BootsGood
<1>2. Cache'
  BY SessionsKept, RestsKept, FreshKept, BoxesKept, NewsKept, ImagesKept, BuildsKept DEF Cache, SessionsGood
<1> QED
  BY <1>1, <1>2, TypesKept DEF IInv

--------------------
\* The beginning.

LEMMA InitImages ==
  ASSUME Init
  PROVE  /\ env \in EnvType /\ shape \in Shape /\ left \in [Whats -> Nat] /\ DOMAIN images = Runners
         /\ \A r \in Runners : images[r] \in [DOMAIN images[r] -> ImageType] /\ DOMAIN images[r] \subseteq Refs
         /\ \A r \in Runners : \A x \in DOMAIN images[r] : Named(x, images[r][x].base, images[r][x].done)
         /\ env.snap # NoSnap => env.snap.ref \in DOMAIN images[env.snap.holder]
<1>1. PICK su \in Setups :
        /\ left = su.left /\ shape = su.shape
        /\ LET ref == Ref(su.image, su.script)
           IN  /\ env = [there |-> TRUE, image |-> Base(su.image), setup |-> su.script,
                         snap |-> IF su.cached = None THEN NoSnap ELSE [hash |-> ref, ref |-> ref, holder |-> su.cached]]
               /\ images = [r \in Runners |-> IF r # su.cached THEN <<>>
                                              ELSE [x \in {ref} |-> [base |-> Base(su.image), done |-> <<su.script>>, script |-> None]]]
  BY DEF Init
<1>2. /\ su.left \in [Whats -> Nat] /\ su.shape \in Shape /\ su.script \in Setup /\ su.cached \in Runners \cup {None}
      /\ su.cached # None => su.script \in Scripts
  BY CacheAssumption DEF Setup
<1>3. su.image \in Images /\ Base(su.image) \in Bases
  <2>1. su.image \in UNION {sv.shape.images \cup {sv.image} : sv \in Setups}
    OBVIOUS
  <2> QED
    BY <2>1, Names DEF Images
<1> DEFINE ref == Ref(su.image, su.script)
           base == Base(su.image)
           done == <<su.script>>
           held == [base |-> base, done |-> done, script |-> None]
           snap == IF su.cached = None THEN NoSnap ELSE [hash |-> ref, ref |-> ref, holder |-> su.cached]
<1>4. /\ env = [there |-> TRUE, image |-> base, setup |-> su.script, snap |-> snap]
      /\ images = [r \in Runners |-> IF r # su.cached THEN <<>> ELSE [x \in {ref} |-> held]]
  BY <1>1
<1>5. su.cached # None => ref \in Refs /\ su.cached \in Runners
  BY <1>2, <1>3 DEF Refs
<1>6. ref[1] = su.image /\ ref[2] = su.script /\ base = <<su.image>>
  BY DEF Ref, Base
<1> HIDE DEF ref, base
<1>7. snap \in SnapType /\ (su.cached = None => snap = NoSnap)
      /\ (su.cached # None => snap.ref = ref /\ snap.holder = su.cached)
  BY <1>5 DEF SnapType
<1>8. done \in Seq(Setup) /\ done # <<>> /\ RanOnly(done, su.script)
  BY <1>2 DEF RanOnly
<1> HIDE DEF done
<1>9. held \in ImageType /\ held.base = base /\ held.done = done /\ Named(ref, held.base, held.done)
  <2>1. held \in ImageType /\ held.base = base /\ held.done = done
    BY <1>3, <1>8 DEF ImageType, base
  <2> QED
    BY <1>6, <1>8, <2>1 DEF Named
<1> HIDE DEF snap, held
<1>10. env \in EnvType /\ env.snap = snap
  BY <1>2, <1>3, <1>4, <1>7 DEF EnvType, base
<1>11. DOMAIN <<>> = {} /\ <<>> \in [{} -> ImageType]
  OBVIOUS
<1>12. ASSUME NEW r \in Runners
       PROVE  \/ images[r] = <<>> /\ DOMAIN images[r] = {} /\ r # su.cached
              \/ images[r] = [x \in {ref} |-> held] /\ r = su.cached /\ su.cached # None
  BY <1>4, <1>11, BoxIs
<1>13. [x \in {ref} |-> held] \in [{ref} -> ImageType] /\ DOMAIN [x \in {ref} |-> held] = {ref}
       /\ [x \in {ref} |-> held][ref] = held
  BY <1>9
<1>14. ASSUME NEW r \in Runners
       PROVE  /\ images[r] \in [DOMAIN images[r] -> ImageType] /\ DOMAIN images[r] \subseteq Refs
              /\ \A x \in DOMAIN images[r] : Named(x, images[r][x].base, images[r][x].done)
  <2>1. CASE images[r] = <<>> /\ DOMAIN images[r] = {}
    BY <1>11, <2>1
  <2>2. CASE images[r] = [x \in {ref} |-> held] /\ su.cached # None
    BY <1>5, <1>9, <1>13, <2>2
  <2> QED
    BY <1>12, <2>1, <2>2
<1>15. env.snap # NoSnap => env.snap.ref \in DOMAIN images[env.snap.holder]
  BY <1>5, <1>7, <1>10, <1>12, <1>13
<1> QED
  BY <1>1, <1>2, <1>4, <1>10, <1>14, <1>15

LEMMA InitInvariant ==
  ASSUME Init
  PROVE  IInv
<1>1. /\ boot = [b \in Boxes |-> NoBoot] /\ disk = [b \in Boxes |-> EmptyDisk]
      /\ wire = [b \in Boxes |-> NoWire] /\ git = [b \in Boxes |-> NoGit] /\ box = [b \in Boxes |-> NoBox]
      /\ row = [s \in Sessions |-> NoRow] /\ job = [s \in Sessions |-> NoJob]
      /\ news = {} /\ builds = {} /\ edit = Idle /\ sched = [pc |-> "idle", env |-> NoEnv, todo |-> {}]
      /\ vault = [token |-> 1, status |-> "valid", good |-> {1}]
      /\ past = [cut |-> FALSE, lost |-> FALSE, same |-> FALSE, kept |-> FALSE]
  BY DEF Init
<1>2. vault \in VaultType /\ past \in PastType
  BY <1>1 DEF VaultType, PastType
<1>3. ChainTypeOK
  BY <1>1, <1>2, NothingThere DEF ChainTypeOK
<1>4. NoRow \in RowType /\ NoRow.state = None /\ NoRow.runner = None /\ NoRow.image = NoRow.asked
  BY PinsAre DEF NoRow, RowType, RowStates
<1>5. NoBox \in BoxType /\ NoBox.there = FALSE /\ Idle \in EditType
  BY DEF BoxType, NoBox, EditType
<1>6. row \in [Sessions -> RowType] /\ job \in [Sessions -> JobType] /\ box \in [Boxes -> BoxType]
  BY <1>1, <1>4, <1>5, NoJobGood DEF NoJobIs
<1>7. edit \in EditType /\ sched \in [pc : {"idle", "pass"}, env : EnvType, todo : SUBSET Sessions] /\ builds \subseteq BuildType
  BY <1>1, <1>5, NoJobGood DEF NoJobIs
<1>8. TypeOK
  BY <1>3, <1>6, <1>7, InitImages DEF TypeOK
<1>9. Boots
  BY <1>1, <1>5, NothingThere DEF Boots
<1>10. SessionFine(NoRow, NoJob, past.kept)
  BY <1>4, NoJobGood DEF SessionFine, RowFine, JobFine, NoJobIs, None
<1>11. SessionsFine /\ RestsFine /\ FreshFine
  BY <1>1, <1>4, <1>10, NoJobGood DEF SessionsFine, RestsFine, Rests, FreshFine, Fresh, NoJobIs, None
<1>12. BoxesFine /\ NewsFine /\ BuildsFine
  BY <1>1, <1>5 DEF BoxesFine, BoxFine, NewsFine, BuildsFine
<1>13. ImagesFine
  BY <1>1, InitImages DEF ImagesFine
<1> QED
  BY <1>8, <1>9, <1>11, <1>12, <1>13 DEF IInv, Cache

THEOREM Invariant == Spec => []IInv
<1>1. Init => IInv
  BY InitInvariant
<1>2. IInv /\ [Next]_vars => IInv'
  BY Inductive
<1> QED
  BY <1>1, <1>2, PTL DEF Spec

--------------------
\* The theorems.

\* Every variable has its type: a row, a container and an image name
\* nothing that is not an image, a setup or a runner of the fleet.
THEOREM TypeCorrect == Spec => []TypeOK
<1>1. IInv => TypeOK
  BY DEF IInv
<1> QED
  BY <1>1, Invariant, PTL

\* watchStage reports what its own stage ended with in this boot: the code
\* an earlier boot left on the volume is cleared before the chain starts,
\* and a file caught between its truncation and its write is no verdict.
THEOREM VerdictsAreOwn == Spec => []NoStaleVerdict
<1>1. IInv => NoStaleVerdict
  BY DEF IInv, Boots, Local, ChainFine, NoStaleVerdict
<1> QED
  BY <1>1, Invariant, PTL

LEMMA CacheHolds ==
  ASSUME IInv, env.there, RunsCachedSnapshot(env), ~past.same
  PROVE  /\ env.snap.ref \in DOMAIN images[env.snap.holder]
         /\ LET image == images[env.snap.holder][env.snap.ref]
            IN  image.base = env.image /\ image.done # <<>> /\ RanOnly(image.done, env.setup)
<1> DEFINE r == env.snap.holder
           ref == env.snap.ref
           image == images[r][ref]
<1>1. ImagesFine /\ env \in EnvType
  BY DEF IInv, Cache, TypeOK
<1>2. /\ r \in Runners /\ env.snap # NoSnap /\ ref[1] = env.image[1] /\ ref[2] = env.setup /\ env.image \in Bases
  BY <1>1, CachedIs
<1>3. ref \in DOMAIN images[r] /\ Named(ref, image.base, image.done)
  BY <1>1, <1>2 DEF ImagesFine
<1>4. env.image = <<env.image[1]>>
  BY <1>2, Names
<1> QED
  BY <1>2, <1>3, <1>4 DEF Named

\* In the image an environment's cache names that environment's script, and
\* no other, was run to its end over its image: SetEnvironmentSnapshot, snapshotWanted and the pinned
\* hash between them let no other build be recorded.
THEOREM CachesAreBuilt == Spec => []CacheIsBuilt
<1>1. IInv => CacheIsBuilt
  BY CacheHolds DEF CacheIsBuilt
<1> QED
  BY <1>1, Invariant, PTL

LEMMA Ready ==
  ASSUME IInv, NEW b \in Boxes, AgentUp(b), box[b].there, box[b].env.there, ~past.same
  PROVE  /\ ~past.kept => /\ RanOnly(box[b].done, box[b].env.setup)
                          /\ box[b].env.setup # None => box[b].done # <<>>
                          /\ box[b].held # 0 => Len(box[b].done) = box[b].held
                          /\ box[b].base \in {row[b[2]].asked, box[b].env.image}
         /\ ~past.cut /\ "clone" \in {boot[b].plan[i] : i \in 1..Len(boot[b].plan)} => disk[b].repo = "branch"
<1> DEFINE bo == boot[b]
           bx == box[b]
<1>1. TypeOK /\ Boots /\ BoxesFine
  BY DEF IInv, Cache
<1>2. /\ ChainFine(bo, disk[b].rc) /\ CloneFine(bo, git[b], disk[b].repo, past.cut)
      /\ SetupFine(bo, wire[b], bx) /\ bx.script \in Setup /\ disk[b].repo \in {None, "base", "branch", "partial"}
  <2>1. disk[b].repo \in {None, "base", "branch", "partial"}
    BY <1>1, Sandbox DEF DiskType
  <2> QED
    BY <1>1, <2>1, Undisturbed, Sandbox DEF LocalAt, Local
<1>3. \A i \in 1..Len(bo.plan) : <<bo.plan[i], "ok">> \in bo.ended
  BY <1>2 DEF ChainFine, AgentUp
<1>4. bx.script # None => bx.done # <<>>
  <2>1. bo.plan = Plan(bx.script)
    BY <1>2 DEF SetupFine
  <2>2. bx.script # None => "setup" \in Elems(bo.plan)
    BY <1>1, <1>2, <2>1, PlanFits
  <2>3. bx.script # None => <<"setup", "ok">> \in bo.ended
    BY <1>3, <2>2 DEF Elems
  <2> QED
    BY <1>2, <2>3, RanOnlyElems DEF SetupFine, Ran
<1>5. ~past.kept => Readied(bx, row[b[2]])
  BY <1>1 DEF BoxesFine, BoxFine
<1>6. ~past.kept => /\ RanOnly(bx.done, bx.env.setup)
                    /\ bx.env.setup # None => bx.done # <<>>
                    /\ bx.held # 0 => Len(bx.done) = bx.held
                    /\ bx.base \in {row[b[2]].asked, bx.env.image}
  BY <1>4, <1>5 DEF Readied
<1>7. ~past.cut /\ "clone" \in {bo.plan[i] : i \in 1..Len(bo.plan)} => disk[b].repo = "branch"
  BY <1>2, <1>3 DEF CloneFine
<1> QED
  BY <1>6, <1>7

\* No agent starts over an image on which the environment's setup has not
\* run, or has run together with another's, or has been run once more by a
\* boot from the cache, nor in a repository that is not on the session's
\* branch.
THEOREM AgentsAreReady == Spec => []AgentIsReady
<1>1. IInv => AgentIsReady
  BY Ready DEF AgentIsReady
<1> QED
  BY <1>1, Invariant, PTL

=============================================================================
