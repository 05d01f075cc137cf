-------------------------- MODULE EnvironmentCache --------------------------
(***************************************************************************)
(* An environment and the image cached for it: editing and deleting it,    *)
(* placing a queued session on a runner that holds the image or sending    *)
(* the setup script along, pinning what was sent, and turning a finished   *)
(* setup into the image later sessions boot from.  The sandboxes boot as   *)
(* in BootChain.                                                           *)
(*                                                                         *)
(* A hash is the pair it is taken of; an image ref is the pair it names.   *)
(* What an image or a container holds is the base image under it and each  *)
(* run of a setup script over it that came to its end, in order; an image  *)
(* has besides what the container's environment left in it.  A base image  *)
(* can be pulled anywhere, a committed one is only where it was committed. *)
(*                                                                         *)
(* Simplified: one environment, always read successfully; capacity is any  *)
(* set of runners with room; a row and its environment are read together;  *)
(* a suspend is cold and settles at once.                                  *)
(***************************************************************************)
EXTENDS BootChain

CONSTANTS
    Runners,
    Sessions,
    Scripts,        \* setup scripts
    MaxGen,         \* bound on placement generations
    Setups          \* which of it happens together

Images == {"own"} \cup UNION {su.shape.images \cup {su.image} : su \in Setups}
Whats == {"edit", "delete", "fail", "requeue", "restart", "destroy", "drop", "lose", "git", "proxy", "login", "revoke"}
Shape == [tail : Seq({"clone", "agents", "init"}), own : SUBSET Sessions, secrets : BOOLEAN,
          sessions : SUBSET Sessions, runners : SUBSET Runners, images : SUBSET Images]

ASSUME CacheAssumption ==
    /\ Boxes = Runners \X Sessions /\ MaxGen \in Nat
    /\ None \notin Runners /\ None \notin Scripts
    /\ \A su \in Setups : /\ su.left \in [Whats -> Nat] /\ su.shape \in Shape
                          /\ su.script \in Scripts \cup {None} /\ su.cached \in Runners \cup {None}
                          /\ su.cached # None => su.script # None     \* a snapshot is one of a finished setup

VARIABLES
    env,        \* the environment's row, with its cached snapshot
    row,        \* row[s]: the session's row
    sched,      \* the scheduler's pass: its copy of the environment, the rows it listed
    job,        \* job[s]: dispatchCreate
    box,        \* box[b]: the container of session b[2] on runner b[1]
    images,     \* images[r]: committed images on r, by ref
    builds,     \* snapshots being built, a goroutine each
    edit,       \* the update or delete of the environment in flight
    shape       \* the fleet, the sessions and their stages besides setup

cacheVars == <<env, row, sched, job, box, images, builds, edit, shape>>
vars == <<chainVars, cacheVars>>

Base(i) == <<i>>
Ref(i, sc) == <<i, sc>>     \* snapshotRef, and SetupHash
NoSnap == [hash |-> <<>>, ref |-> <<>>, holder |-> None]
NoEnv == [there |-> FALSE, image |-> <<>>, setup |-> None, snap |-> NoSnap]
Hash(e) == e.image \o <<e.setup>>
NoRow == [state |-> None, runner |-> None, gen |-> 0, image |-> <<>>, asked |-> <<>>, pin |-> <<>>]
NoJob == [pc |-> "idle", env |-> NoEnv, setup |-> None]
NoBox == [there |-> FALSE, gen |-> 0, base |-> <<>>, done |-> <<>>, held |-> 0, script |-> None, env |-> NoEnv]
Idle == [pc |-> "idle", env |-> NoEnv]

Live == {"queued", "creating", "running", "suspended", "resuming"}

Init ==
    /\ boot = [b \in Boxes |-> NoBoot]
    /\ disk = [b \in Boxes |-> EmptyDisk]
    /\ wire = [b \in Boxes |-> NoWire]
    /\ git = [b \in Boxes |-> NoGit]
    /\ news = {}
    /\ vault = [token |-> 1, status |-> "valid", good |-> {1}]
    /\ past = [cut |-> FALSE, lost |-> FALSE, same |-> FALSE, kept |-> FALSE]
    /\ \E su \in Setups :
        /\ left = su.left
        /\ shape = su.shape
        /\ LET ref == Ref(su.image, su.script)
           IN  /\ env = [there |-> TRUE, image |-> Base(su.image), setup |-> su.script,
                         snap |-> IF su.cached = None THEN NoSnap ELSE [hash |-> ref, ref |-> ref, holder |-> su.cached]]
               /\ images = [r \in Runners |-> IF r # su.cached THEN <<>>
                                              ELSE [x \in {ref} |-> [base |-> Base(su.image), done |-> <<su.script>>, script |-> None]]]
    /\ row = [s \in Sessions |-> NoRow]
    /\ sched = [pc |-> "idle", env |-> NoEnv, todo |-> {}]
    /\ job = [s \in Sessions |-> NoJob]
    /\ box = [b \in Boxes |-> NoBox]
    /\ builds = {}
    /\ edit = Idle

(* The environment                                                         *)

\* UpdateEnvironment reads the row ...
BeginEdit ==
    /\ edit.pc = "idle" /\ env.there /\ Can("edit")
    /\ Spend("edit")
    /\ \E i \in shape.images, sc \in Scripts :
        /\ <<Base(i), sc>> # <<env.image, env.setup>>
        /\ edit' = [pc |-> "write", env |-> [env EXCEPT !.image = Base(i), !.setup = sc]]
    /\ UNCHANGED <<boot, disk, wire, git, news, vault, past, env, row, sched, job, box, images, builds, shape>>

\* ... and writes it whole, the snapshot columns aside
Written(e, next) == [next EXCEPT !.snap = e.snap]

EndEdit ==
    /\ edit.pc = "write"
    /\ env' = IF env.there THEN Written(env, edit.env) ELSE env
    /\ edit' = Idle
    /\ UNCHANGED <<chainVars, row, sched, job, box, images, builds, shape>>

\* CountSessionsByEnvironment, over the non-terminal states
InUse == \E s \in Sessions : row[s].state \in Live

\* DeleteEnvironment counts the sessions, then deletes
BeginDelete ==
    /\ edit.pc = "idle" /\ env.there /\ Can("delete") /\ Spend("delete")
    /\ ~InUse
    /\ edit' = [Idle EXCEPT !.pc = "delete"]
    /\ UNCHANGED <<boot, disk, wire, git, news, vault, past, env, row, sched, job, box, images, builds, shape>>

EndDelete ==
    /\ edit.pc = "delete"
    /\ env' = NoEnv
    /\ edit' = Idle
    /\ UNCHANGED <<chainVars, row, sched, job, box, images, builds, shape>>

(* Sessions, and where they are placed                                     *)

\* portableSpecFor: the caller's own image, else the environment's
CreateSession(s) ==
    /\ row[s].state = None /\ env.there /\ s \in shape.sessions
    /\ LET image == IF s \in shape.own THEN Base("own") ELSE env.image
       IN  row' = [row EXCEPT ![s] = [NoRow EXCEPT !.state = "queued", !.image = image, !.asked = image]]
    /\ UNCHANGED <<chainVars, env, sched, job, box, images, builds, edit, shape>>

\* drainPool: the queued rows, and the environment once for all of them
BeginPass ==
    /\ sched.pc = "idle"
    /\ LET queued == {s \in Sessions : row[s].state = "queued"}
       IN  queued # {} /\ sched' = [pc |-> "pass", env |-> env, todo |-> queued]
    /\ UNCHANGED <<chainVars, env, row, job, box, images, builds, edit, shape>>

RunsCachedSnapshot(e) == e.snap.ref # <<>> /\ e.snap.hash = Hash(e)
Overrides(s, e) == row[s].image # e.image /\ row[s].image # e.snap.ref
\* SnapshotHolder: who holds the ref, while it is an environment's current one
Locate(ref) == IF env.there /\ env.snap.ref = ref /\ env.snap.hash = Hash(env) THEN {env.snap.holder} ELSE {}

\* placeQueued: on a holder of the current cache, else anywhere from scratch
Placement(s, e, room) ==
    LET holders == Locate(e.snap.ref) \cap room
    IN  IF ~e.there \/ ~RunsCachedSnapshot(e) \/ Overrides(s, e) THEN [on |-> room, image |-> row[s].image]
        ELSE IF holders # {} THEN [on |-> holders, image |-> e.snap.ref]
        ELSE [on |-> room, image |-> e.image]

EndOfPass(todo) == IF todo = {} THEN [pc |-> "idle", env |-> NoEnv, todo |-> {}] ELSE [sched EXCEPT !.todo = todo]

Place(s) ==
    /\ sched.pc = "pass" /\ s \in sched.todo /\ job[s].pc = "idle" /\ row[s].gen < MaxGen
    /\ row[s].state = "queued"
    /\ \E room \in (SUBSET shape.runners) \ {{}} :
         LET p == Placement(s, sched.env, room)
         IN  \E r \in p.on :
                /\ row' = [row EXCEPT ![s] = [row[s] EXCEPT !.state = "creating", !.runner = r, !.gen = @ + 1, !.image = p.image]]
                /\ past' = [past EXCEPT !.same = @ \/ box[<<r, s>>].there \/ \E x \in news \cup builds : x.box = <<r, s>>]
    /\ job' = [job EXCEPT ![s] = [NoJob EXCEPT !.pc = "spec", !.env = sched.env]]
    /\ sched' = EndOfPass(sched.todo \ {s})
    /\ UNCHANGED <<boot, disk, wire, git, news, vault, left, env, box, images, builds, edit, shape>>

\* a queued session is canceled ...
Cancel(s) ==
    /\ row[s].state = "queued" /\ Can("destroy") /\ Spend("destroy")
    /\ row' = [row EXCEPT ![s].state = "canceled"]
    /\ UNCHANGED <<boot, disk, wire, git, news, vault, past, env, sched, job, box, images, builds, edit, shape>>

\* ... and the pass finds that the row moved on
SkipRow(s) ==
    /\ sched.pc = "pass" /\ s \in sched.todo /\ row[s].state # "queued"
    /\ sched' = EndOfPass(sched.todo \ {s})
    /\ UNCHANGED <<chainVars, env, row, job, box, images, builds, edit, shape>>

(* The create                                                              *)

SendsAlong(s) == job[s].env.setup
\* launchSpec: the script goes along unless the row boots the snapshot
SetupFor(s) ==
    LET e == job[s].env
    IN  IF e.there /\ e.setup # None /\ (e.snap.ref = <<>> \/ row[s].image # e.snap.ref) THEN e.setup ELSE None

\* createSpec, then pinSetupHash: what is sent is recorded before it is sent
Pin(s) ==
    /\ job[s].pc = "spec"
    /\ job' = [job EXCEPT ![s].pc = "sent", ![s].setup = SetupFor(s)]
    /\ row' = [row EXCEPT ![s].pin = IF SetupFor(s) = None THEN @ ELSE row[s].image \o <<SetupFor(s)>>]
    /\ UNCHANGED <<chainVars, env, sched, box, images, builds, edit, shape>>

\* the launch material cannot be resolved, or the pin not written
FailSpec(s) ==
    /\ job[s].pc = "spec" /\ Can("fail") /\ Spend("fail")
    /\ job' = [job EXCEPT ![s] = NoJob]
    /\ row' = [row EXCEPT ![s].state = IF @ = "creating" THEN "failed" ELSE @]
    /\ UNCHANGED <<boot, disk, wire, git, news, vault, past, env, sched, box, images, builds, edit, shape>>

Holds(r, image) == Len(image) = 1 \/ image \in DOMAIN images[r]
Contents(r, image) == IF Len(image) = 1 THEN [base |-> image, done |-> <<>>, script |-> None] ELSE images[r][image]
Plan(setup) ==
    (IF shape.secrets THEN <<"secrets">> ELSE <<>>) \o (IF setup = None THEN <<>> ELSE <<"setup">>) \o shape.tail

(* The runner executes the create: a container from the image, booting.    *)
(* A session it already has is success and starts nothing.                 *)
RunCreate(s) ==
    LET r == row[s].runner
        b == <<r, s>>
        c == Contents(r, row[s].image)
        script == IF job[s].setup # None THEN job[s].setup ELSE c.script
    IN  /\ job[s].pc = "sent" /\ row[s].state = "creating"
        /\ job' = [job EXCEPT ![s].pc = "made"]
        /\ IF box[b].there
           THEN UNCHANGED <<box, boot, disk, row>>
           ELSE /\ Holds(r, row[s].image)
                /\ box' = [box EXCEPT ![b] = [there |-> TRUE, gen |-> row[s].gen, base |-> c.base, done |-> c.done,
                                               held |-> Len(c.done), script |-> script, env |-> job[s].env]]
                /\ Booted(b, Plan(script))
                /\ UNCHANGED row
        /\ UNCHANGED <<wire, git, news, vault, left, past, env, sched, images, builds, edit, shape>>

\* the driver cannot start it, for want of the image or otherwise
CreateFails(s) ==
    /\ job[s].pc = "sent" /\ ~box[<<row[s].runner, s>>].there
    /\ \/ ~Holds(row[s].runner, row[s].image) /\ UNCHANGED left
       \/ Can("fail") /\ Spend("fail")
    /\ job' = [job EXCEPT ![s] = NoJob]
    /\ row' = [row EXCEPT ![s].state = IF @ = "creating" THEN "failed" ELSE @]
    /\ UNCHANGED <<boot, disk, wire, git, news, vault, past, env, sched, box, images, builds, edit, shape>>

CreateAnswered(s) ==
    /\ job[s].pc = "made"
    /\ job' = [job EXCEPT ![s] = NoJob]
    /\ UNCHANGED <<chainVars, env, row, sched, box, images, builds, edit, shape>>

(* dispatchCreate finds the runner disconnected: the row is queued again   *)
(* with its placement cleared and its image kept, delivered or not.        *)
Requeue(s) ==
    /\ job[s].pc \in {"sent", "made"} /\ Can("requeue") /\ Spend("requeue")
    /\ job' = [job EXCEPT ![s] = NoJob]
    /\ row' = [row EXCEPT ![s] = IF @.state = "creating" THEN [@ EXCEPT !.state = "queued", !.runner = None] ELSE @]
    /\ past' = [past EXCEPT !.kept = @ \/ Len(row[s].image) > 1]
    /\ UNCHANGED <<boot, disk, wire, git, news, vault, env, sched, box, images, builds, edit, shape>>

(* The sandboxes                                                           *)

Gone(b) ==
    /\ box' = [box EXCEPT ![b] = NoBox]
    /\ boot' = [boot EXCEPT ![b] = NoBoot]
    /\ wire' = [wire EXCEPT ![b] = NoWire]
    /\ git' = [git EXCEPT ![b] = NoGit]
    /\ disk' = [disk EXCEPT ![b] = EmptyDisk]

\* a runner that comes back is told to destroy what is placed elsewhere
DestroyOrphan(b) ==
    /\ box[b].there /\ row[b[2]].runner # b[1]
    /\ Gone(b)
    /\ UNCHANGED <<news, vault, left, past, env, row, sched, job, images, builds, edit, shape>>

\* the setup script runs to its end, over what the container holds already
SetupEnds(b) ==
    /\ Running(b, "setup")
    /\ \/ StageEnds(b, "ok", {}) /\ box' = [box EXCEPT ![b].done = Append(@, box[b].script)] /\ UNCHANGED left
       \/ Can("fail") /\ Spend("fail") /\ StageEnds(b, "bad", {}) /\ UNCHANGED box
    /\ UNCHANGED <<wire, git, news, vault, past, env, row, sched, job, images, builds, edit, shape>>

\* a stopped sandbox is started again: the same container, the chain anew
Suspend(s) ==
    LET b == <<row[s].runner, s>>
    IN  /\ row[s].state = "running" /\ box[b].there /\ boot[b].pc = "up" /\ Can("restart") /\ Spend("restart")
        /\ Cut(b)
        /\ row' = [row EXCEPT ![s].state = "suspended"]
        /\ UNCHANGED <<news, vault, env, sched, job, box, images, builds, edit, shape>>

Resume(s) ==
    LET b == <<row[s].runner, s>>
    IN  /\ row[s].state = "suspended" /\ row[s].gen < MaxGen
        /\ row' = [row EXCEPT ![s].state = "resuming", ![s].gen = @ + 1]
        /\ box' = [box EXCEPT ![b].gen = row[s].gen + 1]
        /\ Booted(b, boot[b].plan)
        /\ UNCHANGED <<wire, git, news, vault, left, past, env, sched, job, images, builds, edit, shape>>

Delete(s) ==
    LET b == <<row[s].runner, s>>
    IN  /\ row[s].state \in {"running", "suspended", "failed"} /\ row[s].runner # None /\ Can("destroy") /\ Spend("destroy")
        /\ Gone(b)
        /\ row' = [row EXCEPT ![s].state = "destroyed"]
        /\ UNCHANGED <<news, vault, past, env, sched, job, images, builds, edit, shape>>

\* sessiond's connection is up: the runner reports the session running
Register(b) ==
    /\ Dial(b)
    /\ news' = news \cup {[box |-> b, gen |-> box[b].gen, kind |-> "running"]}
    /\ UNCHANGED <<boot, disk, git, vault, left, past, cacheVars>>

(* What the control plane makes of the news                                *)

\* ApplyRunnerEvent: of this runner and this placement, or stale
ApplyRunnerEvent(n) ==
    LET s == n.box[2]
        current == row[s].runner = n.box[1] /\ row[s].gen = n.gen
    IN  /\ n \in news /\ n.kind \in {"running", "failed"}
        /\ news' = news \ {n}
        /\ row' = [row EXCEPT ![s].state =
                     CASE current /\ n.kind = "running" /\ @ \in {"creating", "resuming"} -> "running"
                       [] current /\ n.kind = "failed" /\ @ \in {"creating", "resuming", "running"} -> "failed"
                       [] OTHER -> @]
        /\ UNCHANGED <<boot, disk, wire, git, vault, left, past, env, sched, job, box, images, builds, edit, shape>>

FromAnywhere(n) == TRUE
PlacedExactlyOn(n) == row[n.box[2]].runner = n.box[1]

\* snapshotWanted: not cached yet, built over this image, by this script
SnapshotWanted(s) ==
    /\ env.there /\ env.snap.hash # Hash(env)
    /\ row[s].image = env.image
    /\ row[s].pin = Hash(env)

\* applyAdapterArm: setup_done is about the environment, not the session
SetupDone(n) ==
    /\ n \in news /\ n.kind = "setup_done"
    /\ news' = news \ {n}
    /\ builds' = IF PlacedExactlyOn(n) /\ SnapshotWanted(n.box[2])
                 THEN builds \cup {[box |-> n.box, hash |-> Hash(env), pc |-> "asked"]} ELSE builds
    /\ UNCHANGED <<boot, disk, wire, git, vault, left, past, env, row, sched, job, box, images, edit, shape>>

\* ... and credential_rejected about its owner
CredentialRejected(n) ==
    /\ n \in news /\ n.kind = "credential_rejected"
    /\ news' = news \ {n}
    /\ vault' = IF PlacedExactlyOn(n) THEN Flagged ELSE vault
    /\ UNCHANGED <<boot, disk, wire, git, left, past, cacheVars>>

TaggedAsItIs(store, ref, container) ==
    [x \in DOMAIN store \cup {ref} |->
        IF x = ref THEN [base |-> container.base, done |-> container.done, script |-> container.script] ELSE store[x]]

\* docker commit, under the ref it was given, with the driver's variables
\* emptied (stripEnvFor), the one that carries the script among them
Tagged(store, ref, container) ==
    [x \in DOMAIN store \cup {ref} |->
        IF x = ref THEN [base |-> container.base, done |-> container.done, script |-> None] ELSE store[x]]

\* buildSnapshot: the runner commits the container it now has of that name
Commit(bu) ==
    LET b == bu.box
        r == b[1]
    IN  /\ bu \in builds /\ bu.pc = "asked" /\ box[b].there
        /\ images' = [images EXCEPT ![r] = Tagged(images[r], bu.hash, box[b])]
        /\ builds' = (builds \ {bu}) \cup {[bu EXCEPT !.pc = "made"]}
        /\ UNCHANGED <<chainVars, env, row, sched, job, box, edit, shape>>

\* the container is gone, or the answer does not come
DropBuild(bu) ==
    /\ bu \in builds
    /\ \/ bu.pc = "asked" /\ ~box[bu.box].there /\ UNCHANGED left
       \/ Can("fail") /\ Spend("fail")
    /\ builds' = builds \ {bu}
    /\ UNCHANGED <<boot, disk, wire, git, news, vault, past, env, row, sched, job, box, images, edit, shape>>

StillThatSetup(bu) == Hash(env) = bu.hash

\* SetEnvironmentSnapshot: only if the setup has not moved on
Record(bu) ==
    /\ bu \in builds /\ bu.pc = "made"
    /\ env' = IF env.there /\ StillThatSetup(bu)
              THEN [env EXCEPT !.snap = [hash |-> bu.hash, ref |-> bu.hash, holder |-> bu.box[1]]] ELSE env
    /\ builds' = builds \ {bu}
    /\ UNCHANGED <<chainVars, row, sched, job, box, images, edit, shape>>

-----------------------------------------------------------------------------

\* steps that are somebody's next thing to do, whatever scripts and git do
SystemStep ==
    \/ \E b \in Boxes :
        \/ /\ \/ WriteRC(b) \/ SecretsFail(b) \/ AgentsWaited(b) \/ HearVerdict(b) \/ OfferReport(b) \/ TimeOut(b)
              \/ Take(b) \/ RelayEnds(b) \/ Deliver(b, box[b].gen)
           /\ UNCHANGED cacheVars
        \/ Register(b)
    \/ \E n \in news : ApplyRunnerEvent(n) \/ SetupDone(n) \/ CredentialRejected(n)

Programs ==
    \E b \in Boxes :
        \/ SetupEnds(b)
        \/ /\ \/ ScriptEnds(b) \/ SkipClone(b) \/ AskCredential(b) \/ Minted(b) \/ MintRefused(b)
              \/ GitSucceeds(b) \/ CheckOut(b) \/ GitHubRefuses(b) \/ Accuse(b) \/ ProxyRefuses(b)
              \/ Drop(b) \/ Swallow(b)
           /\ UNCHANGED cacheVars

Fleet ==
    \/ \E s \in Sessions :
        \/ CreateSession(s) \/ Place(s) \/ SkipRow(s) \/ Pin(s) \/ FailSpec(s) \/ RunCreate(s)
        \/ CreateFails(s) \/ CreateAnswered(s) \/ Requeue(s) \/ Suspend(s) \/ Resume(s) \/ Delete(s) \/ Cancel(s)
    \/ \E b \in Boxes : DestroyOrphan(b)
    \/ \E bu \in builds : Commit(bu) \/ DropBuild(bu) \/ Record(bu)
    \/ BeginPass \/ BeginEdit \/ EndEdit \/ BeginDelete \/ EndDelete

World ==
    /\ Refresh \/ (\E t \in vault.good : Withdraw(t)) \/ (\E n \in news : LoseNews(n))
    /\ UNCHANGED cacheVars

Next == SystemStep \/ Programs \/ Fleet \/ World

Spec == Init /\ [][Next]_vars /\ WF_vars(SystemStep)

-----------------------------------------------------------------------------

Bases == {Base(i) : i \in Images}
Refs == {Ref(i, sc) : i \in Images, sc \in Scripts}
Setup == Scripts \cup {None}
SnapType == {NoSnap} \cup {[hash |-> ref, ref |-> ref, holder |-> r] : ref \in Refs, r \in Runners}
EnvType == {NoEnv} \cup [there : {TRUE}, image : Bases, setup : Setup, snap : SnapType]
Pins == Refs \cup {i \o <<sc>> : i \in Refs, sc \in Scripts} \cup {<<>>}
RowStates == Live \cup {None, "failed", "canceled", "destroyed"}
RowType == [state : RowStates, runner : Runners \cup {None}, gen : Nat,
            image : Bases \cup Refs \cup {<<>>}, asked : Bases \cup {<<>>},
            pin : Pins]
JobType == [pc : {"idle", "spec", "sent", "made"}, env : EnvType, setup : Setup]
BoxType == {NoBox} \cup [there : {TRUE}, gen : Nat, base : Bases, done : Seq(Setup), held : Nat, script : Setup, env : EnvType]
ImageType == [base : Bases, done : Seq(Setup), script : {None}]
BuildType == [box : Boxes, hash : Refs, pc : {"asked", "made"}]
EditType == {Idle, [Idle EXCEPT !.pc = "delete"]} \cup [pc : {"write"}, env : EnvType \ {NoEnv}]

TypeOK ==
    /\ ChainTypeOK
    /\ env \in EnvType
    /\ row \in [Sessions -> RowType]
    /\ sched \in [pc : {"idle", "pass"}, env : EnvType, todo : SUBSET Sessions]
    /\ job \in [Sessions -> JobType]
    /\ box \in [Boxes -> BoxType]
    /\ DOMAIN images = Runners
    /\ \A r \in Runners : images[r] \in [DOMAIN images[r] -> ImageType] /\ DOMAIN images[r] \subseteq Refs
    /\ builds \subseteq BuildType
    /\ edit \in EditType
    /\ shape \in Shape /\ left \in [Whats -> Nat]

\* what was run is script, and nothing else
RanOnly(done, script) == \A i \in 1..Len(done) : done[i] = script

(* The image an environment's current cache names is on the runner the     *)
(* cache names, and was committed from a container in which exactly that   *)
(* script had run to its end over exactly that image (twice, if a resume   *)
(* came before the commit): whatever edits, requeues, restarts and slow    *)
(* snapshots came between.  Set apart: a session placed again on a runner  *)
(* that had an earlier placement of it.                                    *)
CacheIsBuilt ==
    env.there /\ RunsCachedSnapshot(env) /\ ~past.same =>
        /\ env.snap.ref \in DOMAIN images[env.snap.holder]
        /\ LET image == images[env.snap.holder][env.snap.ref]
           IN  image.base = env.image /\ image.done # <<>> /\ RanOnly(image.done, env.setup)

(* An agent runs where its environment's setup has run to its end and no   *)
(* other has, over the image asked for; over an image that holds it        *)
(* already it has not been run again, by the first boot nor by a resume;   *)
(* and its repository is on the session's branch.  Set apart: a row        *)
(* requeued with the ref of a cache, a clone cut off half way, a placement *)
(* over an old one.                                                        *)
AgentIsReady ==
    \A b \in Boxes : AgentUp(b) /\ box[b].there /\ box[b].env.there /\ ~past.same =>
        /\ ~past.kept => /\ RanOnly(box[b].done, box[b].env.setup)
                         /\ box[b].env.setup # None => box[b].done # <<>>
                         /\ box[b].held # 0 => Len(box[b].done) = box[b].held
                         /\ box[b].base \in {row[b[2]].asked, box[b].env.image}
        /\ ~past.cut /\ "clone" \in {boot[b].plan[i] : i \in 1..Len(boot[b].plan)} => disk[b].repo = "branch"

\* the boot of b has neither reached its agent nor been told of as failed
Booting(b) ==
    /\ box[b].there /\ boot[b].pc = "up" /\ ~AgentUp(b)
    /\ row[b[2]].runner = b[1] /\ row[b[2]].gen = box[b].gen /\ row[b[2]].state \in {"creating", "resuming", "running"}

(* Every boot ends: a stage that fails or does not end is reported until   *)
(* the row says so, across any number of connections; the agents stage     *)
(* ends by its own script, the others by the watcher's bound (there are    *)
(* finitely many boots, so in the end none is going on).  Set apart: the   *)
(* report of the failure is dropped from a queue that is full, or lost     *)
(* after it was written.                                                   *)
BootEnds == []<>(past.lost \/ \A b \in Boxes : ~Booting(b))
=============================================================================
