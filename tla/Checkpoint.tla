----------------------------- MODULE Checkpoint -----------------------------
(***************************************************************************)
(* The checkpoint of one session's workspace: what a cold suspend does     *)
(* between asking the sandbox for its tree and stopping the VM, and what a *)
(* resume does when the workspace image is gone.  Four actors meet in it:  *)
(* the sandbox that walks its tree twice and sends what it finds, the      *)
(* runner's StreamWorkspace that takes the frames off the connection, the  *)
(* driver that writes a checkpoint out of them through a pipe, and the     *)
(* programs that still run in the sandbox and write its files.             *)
(*                                                                         *)
(* A step is one frame, one file system call of a walk, one object of the  *)
(* store or one file of the host.  A chunk of the stream carries one index *)
(* record or one entry; the pipe has no room, so a chunk nobody reads      *)
(* holds up the frames behind it.                                          *)
(*                                                                         *)
(* Simplified: one instance, whose guest configuration survives; sealing   *)
(* a checkpoint is abstracted to whether its manifest can be opened and    *)
(* its object is intact; the stop of the VM succeeds (MicroVM has the      *)
(* rest of the driver); a link's target is followed one link deep.         *)
(***************************************************************************)
EXTENDS WorkspaceTree, FiniteSetsExt

CONSTANTS
    Names,          \* the paths a workspace may have
    MaxSuspends,    \* bound on cold suspends; each is one nonce and one attempt
    MaxGen,         \* bound on checkpoint generations
    Probe,          \* maxGenerationProbe
    MaxConns,       \* bound on connections of the sandbox
    Window,         \* frames the connection holds before a sender waits
    MaxIndex,       \* bound on the index of a stream nobody vouches for
    Setups          \* which of it happens together

ASSUME CheckpointAssumption ==
    /\ {MaxSuspends, MaxGen, MaxConns, MaxIndex} \subseteq Nat
    /\ {Probe, Window} \subseteq Nat \ {0}
    /\ \A n \in Names : n # Root

VARIABLES
    setup,      \* the member of Setups this behaviour is about
    ws,         \* the workspace: its entries, with the size of each file
    guest,      \* guest[k]: quiesceCold of the suspend whose nonce is k
    net,        \* the sandbox's connection: its number (0 for none) and the frames on it
    host,       \* StreamWorkspace
    drv,        \* checkpointWorkspace, and the restore of a resume
    store,      \* the checkpoint store: objects, and manifests that name them
    rec,        \* the generation the instance's record names: in memory, and saved
    image,      \* the workspace image's file
    vm,         \* the VM: running, stopped, or booted and not yet written to or suspended
    budget,     \* faults, and writes of the sandbox's programs, that may still happen
    past        \* history: what each stream was about, what was there at the stop

vars == <<setup, ws, guest, net, host, drv, store, rec, image, vm, budget, past>>

Nonces == 1 .. MaxSuspends
Gens == 1 .. MaxGen

Can(o) == o \in setup.ops

\* the driver reads the pipe in these states; it has closed its end in those
Reading == drv.st \in {"index", "body", "drain"}
PipeClosed == drv.st \in {"idle", "failing"}

-----------------------------------------------------------------------------
(* What is sent.                                                           *)

Record(e) == [t |-> "idx", name |-> e.name, kind |-> e.kind]
IndexEnd == [t |-> "idxend"]
Entry(e) == [t |-> "ent", name |-> e.name, kind |-> e.kind, to |-> e.to, v |-> e.v, size |-> e.size]
TarEnd == [t |-> "tarend"]

Chunk(k, item) == [c |-> "chunk", n |-> k, item |-> item]
Ack(k) == [c |-> "ack", n |-> k]
End(k, ok, entries, bytes) == [c |-> "end", n |-> k, ok |-> ok, entries |-> entries, bytes |-> bytes]
Ready(k) == [c |-> "ready", n |-> k]

NoGuest == [st |-> "none", pend |-> <<>>, index |-> <<>>, body |-> <<>>, size |-> 0, sent |-> 0, ok |-> FALSE]
NoHost == [st |-> "off", n |-> 0, hub |-> 0, sink |-> FALSE, recv |-> 0, ack |-> FALSE, end |-> <<>>, ready |-> FALSE,
           failed |-> FALSE, ok |-> FALSE]
NoDriver == [st |-> "idle", n |-> 0, gen |-> 0, order |-> <<>>, todo |-> <<>>, pos |-> 0, content |-> <<>>,
             walk |-> NoWalk, res |-> "none"]
NoHistory == [had |-> {}, always |-> {}, named |-> {}, sent |-> {}]

Init ==
    /\ setup \in Setups
    /\ ws = setup.tree
    /\ guest = [k \in Nonces |-> NoGuest]
    /\ net = [conn |-> 1, last |-> 1, asked |-> {}, wire |-> <<>>]
    /\ host = NoHost
    /\ drv = NoDriver
    /\ \E content \in setup.stored :
           /\ store = [objs |-> [k \in Nonces |-> IF k = 1 THEN content ELSE <<>>],
                       man |-> [g \in Gens |-> IF g = 1 /\ content # <<>> THEN 1 ELSE 0], bad |-> {}, locked |-> {}]
           /\ rec = [mem |-> IF content = <<>> THEN 0 ELSE 1, disk |-> IF content = <<>> THEN 0 ELSE 1]
           /\ vm = IF content = <<>> THEN "running" ELSE "stopped"
           /\ image = IF content = <<>> THEN "whole" ELSE "absent"
    /\ budget = [faults |-> setup.faults, writes |-> setup.writes, ops |-> IF vm = "running" THEN 0 ELSE MaxSuspends]
    /\ past = [streams |-> [k \in Nonces |-> NoHistory], dirty |-> FALSE,
               kept |-> {[name |-> e.name, kind |-> e.kind, to |-> e.to, v |-> e.v, size |-> e.size] : e \in Range(store.objs[1])}]

-----------------------------------------------------------------------------
(* The sandbox.                                                            *)

\* the entry at n, if there is one
NodeAt(n) == {x \in ws : x.name = n}

\* ReadDir of d, in lexical order, less what the walk prunes and skips
Listed(d) == InWalkOrder({x \in ws : Dir(x.name) = d /\ ~Excluded(x.name) /\ x.kind # "sock"})

\* SendStream and Notify use whatever connection is live
Sent(f) == [net EXCEPT !.wire = IF net.conn = 0 THEN @ ELSE Append(@, f)]
Online == net.conn # 0

\* a sender is not held up by frames the runner has yet to take
Room == Len(net.wire) < Window
Arrived == net.wire # <<>>

Fails(k) == [guest EXCEPT ![k].st = "end", ![k].ok = FALSE]

(* The notice arrives: quiesceCold acknowledges, then flushes, ends the    *)
(* execs, unmounts the agent home and starts the stream.                   *)
QuiesceCold(k) ==
    /\ k \in net.asked /\ vm # "stopped" /\ Room
    /\ net' = [Sent(Ack(k)) EXCEPT !.asked = @ \ {k}]
    /\ guest' = [guest EXCEPT ![k] = [NoGuest EXCEPT !.st = "index", !.pend = Listed(Root)]]
    /\ vm' = "running"
    /\ past' = [past EXCEPT !.streams[k] = [NoHistory EXCEPT !.had = ws, !.always = Named(ws)], !.dirty = FALSE]
    /\ UNCHANGED <<setup, ws, host, drv, store, rec, image, budget>>

Streaming(k, st) == guest[k].st = st /\ vm # "stopped" /\ Room /\ ~setup.unvouched

(* The first walk: one record, or the end of the index.                    *)
WalkIndex(k) ==
    /\ Streaming(k, "index")
    /\ LET g == guest[k]
       IN  IF ~Online THEN guest' = Fails(k) /\ UNCHANGED net
           ELSE IF g.pend = <<>>
           THEN /\ net' = Sent(Chunk(k, IndexEnd))
                /\ guest' = [guest EXCEPT ![k] = [g EXCEPT !.st = "body", !.pend = Listed(Root), !.sent = @ + 1]]
           ELSE LET e == Head(g.pend)
                IN  /\ net' = Sent(Chunk(k, Record(e)))
                    /\ guest' = [guest EXCEPT ![k] = [g EXCEPT !.index = Append(@, Record(e)), !.sent = @ + 1,
                                     !.pend = (IF e.kind = "dir" THEN Listed(e.name) ELSE <<>>) \o Tail(@)]]
    /\ UNCHANGED <<setup, ws, host, drv, store, rec, image, vm, budget, past>>

(* The second walk: a directory or a link is one header.  A file has its   *)
(* size read first; what has gone since it was listed ends the stream.     *)
WalkBody(k) ==
    /\ Streaming(k, "body") /\ guest[k].pend # <<>>
    /\ LET g == guest[k]
           e == Head(g.pend)
           now == NodeAt(e.name)
       IN  IF now = {} \/ (e.kind # "file" /\ ~Online) \/ (e.kind = "link" /\ \E x \in now : ~ValidLink(x.name, x.to))
           THEN guest' = Fails(k) /\ UNCHANGED net
           ELSE LET x == CHOOSE x \in now : TRUE
                IN  IF e.kind = "file"
                    THEN guest' = [guest EXCEPT ![k].st = "copy", ![k].size = x.size] /\ UNCHANGED net
                    ELSE /\ net' = Sent(Chunk(k, Entry(x)))
                         /\ guest' = [guest EXCEPT ![k] = [g EXCEPT !.body = Append(@, Record(x)), !.sent = @ + 1,
                                          !.pend = (IF e.kind = "dir" THEN Listed(e.name) ELSE <<>>) \o Tail(@)]]
    /\ UNCHANGED <<setup, ws, host, drv, store, rec, image, vm, budget, past>>

(* copyFile: exactly the bytes the header promised, or the stream ends.    *)
CopyFile(k) ==
    /\ Streaming(k, "copy")
    /\ LET g == guest[k]
           now == {x \in NodeAt(Head(g.pend).name) : x.size = g.size}
       IN  IF now = {} \/ ~Online THEN guest' = Fails(k) /\ UNCHANGED net
           ELSE LET x == CHOOSE x \in now : TRUE
                IN  /\ net' = Sent(Chunk(k, Entry(x)))
                    /\ guest' = [guest EXCEPT ![k] = [g EXCEPT !.st = "body", !.body = Append(@, Record(x)),
                                     !.pend = Tail(@), !.sent = @ + 1]]
    /\ UNCHANGED <<setup, ws, host, drv, store, rec, image, vm, budget, past>>

(* The tar ends, and the two walks are compared.                           *)
CloseStream(k) ==
    /\ Streaming(k, "body") /\ guest[k].pend = <<>>
    /\ LET g == guest[k]
       IN  IF Online
           THEN /\ net' = Sent(Chunk(k, TarEnd))
                /\ guest' = [guest EXCEPT ![k] = [g EXCEPT !.st = "end", !.sent = @ + 1, !.ok = g.index = g.body]]
           ELSE guest' = Fails(k) /\ UNCHANGED net
    /\ UNCHANGED <<setup, ws, host, drv, store, rec, image, vm, budget, past>>

(* The end marker, whatever became of the stream, then suspend_ready.      *)
ReportEnd(k) ==
    /\ guest[k].st = "end" /\ vm # "stopped" /\ Room
    /\ net' = Sent(End(k, guest[k].ok, Len(guest[k].index), guest[k].sent))
    /\ guest' = [guest EXCEPT ![k].st = "ready"]
    /\ UNCHANGED <<setup, ws, host, drv, store, rec, image, vm, budget, past>>

ReportReady(k) ==
    /\ guest[k].st = "ready" /\ vm # "stopped" /\ Room
    /\ net' = Sent(Ready(k))
    /\ guest' = [guest EXCEPT ![k].st = "done"]
    /\ UNCHANGED <<setup, ws, host, drv, store, rec, image, vm, budget, past>>

-----------------------------------------------------------------------------
(* A sandbox nobody vouches for: any records, any entries, any counts.     *)

Anything(k) ==
    LET g == guest[k]
        Says(item, st, g2) ==
            /\ Online /\ ~Arrived
            /\ net' = Sent(Chunk(k, item))
            /\ guest' = [guest EXCEPT ![k] = [g2 EXCEPT !.st = st, !.sent = @ + 1]]
    IN  /\ setup.unvouched /\ host.n = k /\ host.st = "stream" /\ ~PipeClosed
        /\ \/ /\ g.st = "index" /\ Len(g.index) < MaxIndex
              /\ \E e \in setup.entries :
                     /\ Says(Record(e), "index", [g EXCEPT !.index = Append(@, Record(e))])
                     /\ past' = [past EXCEPT !.streams[k].named = @ \cup {e.name}]
           \/ /\ g.st = "index" /\ Says(IndexEnd, "body", g)
              /\ UNCHANGED past
           \/ /\ g.st = "body" /\ drv.st = "body" /\ Len(g.body) < Len(g.index)
              /\ \E e \in setup.entries :
                     /\ Says(Entry(e), "body", [g EXCEPT !.body = Append(@, Record(e))])
                     /\ past' = [past EXCEPT !.streams[k].sent = @ \cup {Entry(e)}]
           \/ /\ g.st = "body" /\ Says(TarEnd, "end", [g EXCEPT !.ok = TRUE])
              /\ UNCHANGED past
        /\ UNCHANGED <<setup, ws, host, drv, store, rec, image, vm, budget>>

-----------------------------------------------------------------------------
(* What else happens to the sandbox: its programs write, its connection    *)
(* drops and comes back.                                                   *)

Written(tree) ==
    LET live == {k \in Nonces : guest[k].st \notin {"none", "done"}}
    IN  [past EXCEPT !.dirty = TRUE,
             !.streams = [k \in Nonces |->
                 IF k \in live THEN [@[k] EXCEPT !.had = @ \cup tree, !.always = @ \cap Named(tree)] ELSE @[k]]]

\* a file gets other bytes, as many as before or not, or goes, or appears
Write ==
    /\ vm # "stopped" /\ budget.writes > 0
    /\ \E n \in Names :
           \/ \E x \in NodeAt(n), s \in {1, 2} :
                  x.kind = "file" /\ x.v < 2 /\ ws' = (ws \ {x}) \cup {[x EXCEPT !.v = @ + 1, !.size = s]}
           \/ \E x \in NodeAt(n) : x.kind = "file" /\ ws' = ws \ {x}
           \/ /\ NodeAt(n) = {} /\ (Dir(n) = Root \/ \E d \in NodeAt(Dir(n)) : d.kind = "dir")
              /\ ws' = ws \cup {[name |-> n, kind |-> "file", to |-> <<>>, v |-> 1, size |-> 1]}
    /\ vm' = "running"
    /\ past' = Written(ws')
    /\ budget' = [budget EXCEPT !.writes = @ - 1]
    /\ UNCHANGED <<setup, guest, net, host, drv, store, rec, image>>

Fault(o) == Can(o) /\ budget.faults > 0 /\ budget' = [budget EXCEPT !.faults = @ - 1]
NoFault == UNCHANGED budget

\* the frames on the connection are lost with it
Drop ==
    /\ Online /\ Fault("drop")
    /\ net' = [net EXCEPT !.conn = 0, !.asked = {}, !.wire = <<>>]
    /\ UNCHANGED <<setup, ws, guest, host, drv, store, rec, image, vm, past>>

Reconnect ==
    /\ ~Online /\ net.last < MaxConns /\ vm # "stopped"
    /\ net' = [net EXCEPT !.conn = net.last + 1, !.last = @ + 1]
    /\ UNCHANGED <<setup, ws, guest, host, drv, store, rec, image, vm, budget, past>>

-----------------------------------------------------------------------------
(* The runner: StreamWorkspace.                                            *)

HubDone == host.hub # net.conn
Taken == [net EXCEPT !.wire = Tail(@)]

\* the first marker of the stream in flight counts
DeliverEnd(f) == [host EXCEPT !.end = IF @ = <<>> /\ f.n = host.n THEN <<f>> ELSE @]

(* A control frame goes to whoever waits for its nonce, or nowhere.        *)
ReceiveControl ==
    /\ Arrived
    /\ LET f == Head(net.wire)
       IN  /\ f.c # "chunk"
           /\ host' = IF host.st \in {"off", "done"} THEN host
                      ELSE IF f.c = "end" THEN DeliverEnd(f)
                      ELSE IF f.n # host.n THEN host
                      ELSE IF f.c = "ack" THEN [host EXCEPT !.ack = TRUE] ELSE [host EXCEPT !.ready = TRUE]
    /\ net' = Taken
    /\ UNCHANGED <<setup, ws, guest, drv, store, rec, image, vm, budget, past>>

\* deliverStream: a chunk nobody reads is dropped; a sink that errs is removed
DropChunk ==
    /\ Arrived /\ Head(net.wire).c = "chunk"
    /\ LET mine == host.sink /\ ~HubDone /\ Head(net.wire).n = host.n
       IN  /\ mine => PipeClosed
           /\ host' = IF mine THEN [host EXCEPT !.sink = FALSE, !.failed = TRUE] ELSE host
    /\ net' = Taken
    /\ UNCHANGED <<setup, ws, guest, drv, store, rec, image, vm, budget, past>>

Answers(ok) == [host EXCEPT !.st = "done", !.ok = ok, !.sink = FALSE]

\* nothing more will come: the wait's timer is all that is left to fire
Silent == ~Arrived /\ (HubDone \/ guest[host.n].st \in {"none", "done"} \/ setup.unvouched) /\ host.n \notin net.asked

GivesUp(heard) == host.failed \/ HubDone \/ (Silent /\ ~heard) \/ Can("slow")

\* mutant: only the acknowledgement is waited for
AwaitAckOnly ==
    /\ host.st = "ack" /\ host.ack
    /\ host' = [host EXCEPT !.st = "stream"]
    /\ UNCHANGED <<setup, ws, guest, net, drv, store, rec, image, vm, budget, past>>

AwaitAck ==
    /\ host.st = "ack"
    /\ \/ host.ack /\ host' = [host EXCEPT !.st = "stream"]
       \/ GivesUp(host.ack) /\ host' = Answers(FALSE)
    /\ UNCHANGED <<setup, ws, guest, net, drv, store, rec, image, vm, budget, past>>

(* readStream, then what the marker says: that the sandbox sent its whole  *)
(* tree, and that as much arrived.                                         *)
ReadStream ==
    /\ host.st = "stream"
    /\ \/ /\ host.end # <<>>
          /\ LET f == host.end[1]
             IN  host' = IF f.ok /\ f.bytes = host.recv THEN [host EXCEPT !.st = "ready"] ELSE Answers(FALSE)
       \/ GivesUp(host.end # <<>>) /\ host' = Answers(FALSE)
    /\ UNCHANGED <<setup, ws, guest, net, drv, store, rec, image, vm, budget, past>>

\* the tree is here: neither silence nor the end of the connection undoes that
AwaitReady ==
    /\ host.st = "ready"
    /\ host.ready \/ HubDone \/ Silent \/ Can("slow")
    /\ host' = Answers(TRUE)
    /\ UNCHANGED <<setup, ws, guest, net, drv, store, rec, image, vm, budget, past>>

-----------------------------------------------------------------------------
(* The driver: checkpointWorkspace.                                        *)

\* the instance is free again; the runner's call, if there was one, is over
Over(res) == drv' = [NoDriver EXCEPT !.res = res] /\ host' = NoHost
Failing == [drv EXCEPT !.st = "failing"]
Goes(st) == [drv EXCEPT !.st = st]

\* freeGeneration: of the next few, those nothing is found for; what cannot be opened is taken
FreeGenerations(g) == {h \in (g + 1) .. (g + Probe) : h \in Gens /\ store.man[h] = 0}

(* A cold suspend: the generation is chosen, and the stream is asked for   *)
(* on the connection there is.                                             *)
Suspend ==
    LET k == budget.ops + 1
        free == FreeGenerations(rec.mem)
    IN  /\ drv.st = "idle" /\ vm # "stopped" /\ k <= setup.suspends
        /\ budget' = [budget EXCEPT !.ops = k]
        /\ IF Online /\ free # {}
           THEN /\ drv' = [NoDriver EXCEPT !.st = "index", !.n = k, !.gen = Min(free)]
                /\ host' = [NoHost EXCEPT !.st = "ack", !.n = k, !.hub = net.conn, !.sink = TRUE]
                /\ net' = [net EXCEPT !.asked = @ \cup {k}]
           ELSE Over("failed") /\ UNCHANGED net
        /\ UNCHANGED <<setup, ws, guest, store, rec, image, vm, past>>

\* the writer asks for what its walk reaches next: the stream never goes back
Asks(d) ==
    IF d.todo = <<>> THEN [d EXCEPT !.st = "put"]
    ELSE IF Head(d.todo) <= d.pos THEN [d EXCEPT !.st = "failing"] ELSE d

TakeRecord(item) ==
    IF item.t = "idx"
    THEN IF IndexAdmits(drv.order, item) THEN [drv EXCEPT !.order = Append(@, item)] ELSE Failing
    ELSE IF item.t = "idxend" THEN Asks([drv EXCEPT !.st = "body", !.todo = Visits(drv.order)])
    ELSE Failing

\* mutant: the body is believed to be in the order of the index
TakeAnyEntry(item) ==
    LET i == drv.pos + 1
    IN  IF item.t # "ent" THEN Failing
        ELSE Asks(IF Head(drv.todo) = i
                  THEN [drv EXCEPT !.pos = i, !.todo = Tail(@), !.content = Append(@, [item EXCEPT !.name = drv.order[i].name])]
                  ELSE [drv EXCEPT !.pos = i])

(* next and checkHeader: the entry the index has here, and a link that     *)
(* stays inside.  What is excluded is checked, and passed over.            *)
TakeEntry(item) ==
    LET i == drv.pos + 1
    IN  IF \/ item.t # "ent"
           \/ item.name # drv.order[i].name \/ item.kind # drv.order[i].kind
           \/ item.kind = "link" /\ ~ValidLink(item.name, item.to)
        THEN Failing
        ELSE Asks(IF Head(drv.todo) = i
                  THEN [drv EXCEPT !.pos = i, !.todo = Tail(@), !.content = Append(@, item)]
                  ELSE [drv EXCEPT !.pos = i])

(* One chunk, off the connection and through the pipe.                     *)
TakeChunk ==
    /\ Arrived /\ Reading /\ host.sink /\ ~HubDone
    /\ LET f == Head(net.wire)
       IN  /\ f.c = "chunk" /\ f.n = host.n
           /\ drv' = CASE drv.st = "index" -> TakeRecord(f.item)
                       [] drv.st = "body" -> TakeEntry(f.item)
                       [] OTHER -> drv
    /\ net' = Taken
    /\ host' = [host EXCEPT !.recv = @ + 1]
    /\ UNCHANGED <<setup, ws, guest, store, rec, image, vm, budget, past>>

(* The pipe's other end is closed: before the tree was whole that is the   *)
(* end of the attempt; after it, the outcome and the counts decide.        *)
PipeEnds ==
    /\ Reading /\ host.st = "done"
    /\ IF drv.st # "drain" THEN drv' = Failing /\ UNCHANGED host
       ELSE IF host.ok /\ host.end[1].entries = Len(drv.order) THEN drv' = Goes("verify") /\ UNCHANGED host
       ELSE Over("failed")
    /\ UNCHANGED <<setup, ws, guest, net, store, rec, image, vm, budget, past>>

\* fail: the pipe is closed, and the runner's call waited for
FailureEnds ==
    /\ drv.st = "failing" /\ host.st = "done"
    /\ Over("failed")
    /\ UNCHANGED <<setup, ws, guest, net, store, rec, image, vm, budget, past>>

\* one content object per attempt, whole or not there
PutContent ==
    /\ drv.st = "put"
    /\ \/ NoFault /\ store' = [store EXCEPT !.objs[drv.n] = drv.content] /\ drv' = Goes("manifest")
       \/ Fault("store") /\ drv' = Failing /\ UNCHANGED store
    /\ UNCHANGED <<setup, ws, guest, net, host, rec, image, vm, past>>

\* the commit: the manifest of the generation, unless there is one
PutManifest ==
    /\ drv.st = "manifest"
    /\ \/ /\ NoFault
          /\ IF store.man[drv.gen] = 0
             THEN store' = [store EXCEPT !.man[drv.gen] = drv.n] /\ drv' = Goes("record")
             ELSE drv' = Failing /\ UNCHANGED store
       \/ Fault("store") /\ drv' = Failing /\ UNCHANGED store
    /\ UNCHANGED <<setup, ws, guest, net, host, rec, image, vm, past>>

\* recordCheckpoint: in memory, then on disk
RecordCheckpoint ==
    /\ drv.st = "record"
    /\ rec' = [rec EXCEPT !.mem = drv.gen] /\ drv' = Goes("save")
    /\ UNCHANGED <<setup, ws, guest, net, host, store, image, vm, budget, past>>

SaveRecord ==
    /\ drv.st = "save"
    /\ \/ NoFault /\ rec' = [rec EXCEPT !.disk = rec.mem] /\ drv' = Goes("drain")
       \/ Fault("save") /\ drv' = Failing /\ UNCHANGED rec
    /\ UNCHANGED <<setup, ws, guest, net, host, store, image, vm, past>>

ReadsManifest(g) == g \in Gens /\ store.man[g] # 0

\* the runner holds the key the data key was wrapped under
Unwraps(g) == g \notin store.locked

\* a manifest, authorised, its key unwrapped, its fields and its context authenticated
Opens(g) == ReadsManifest(g) /\ Unwraps(g)

\* every frame opens in its place, and what was read is as long and has the digest the manifest says
Intact(g) == g \notin store.bad
ContentOf(g) == store.objs[store.man[g]]

\* the checkpoint is read back from the store before anything depends on it
Verify ==
    /\ drv.st = "verify"
    /\ IF Opens(drv.gen) /\ Intact(drv.gen) /\ Verifies(ContentOf(drv.gen))
       THEN drv' = Goes("stop") /\ UNCHANGED host
       ELSE Over("failed")
    /\ UNCHANGED <<setup, ws, guest, net, store, rec, image, vm, budget, past>>

\* what a checkpoint keeps of a tree
Kept(tree) == {x \in tree : ~Excluded(x.name) /\ x.kind # "sock"}

StopVM ==
    /\ drv.st = "stop"
    /\ Over("stopped")
    /\ vm' = "stopped"
    /\ guest' = [k \in Nonces |-> IF guest[k].st = "none" THEN NoGuest ELSE [NoGuest EXCEPT !.st = "done"]]
    /\ net' = [net EXCEPT !.conn = 0, !.asked = {}, !.wire = <<>>]
    /\ past' = [past EXCEPT !.kept = Kept(ws)]
    /\ UNCHANGED <<setup, ws, store, rec, image, budget>>

-----------------------------------------------------------------------------
(* The driver: the workspace of a resume.                                  *)

\* RemoveWorkspace: nothing owns the image of a session that is parked cold
RemoveWorkspace ==
    /\ Can("remove") /\ drv.st = "idle" /\ vm = "stopped" /\ image = "whole"
    /\ image' = "absent"
    /\ UNCHANGED <<setup, ws, guest, net, host, drv, store, rec, vm, budget, past>>

(* ensureWorkspaceForResume: an image that is there is booted on, whatever *)
(* is in it; one that is not is restored from the recorded generation.     *)
Resume ==
    /\ drv.st = "idle" /\ vm = "stopped" /\ Can("resume")
    /\ \/ image # "absent" /\ vm' = "booted" /\ UNCHANGED drv
       \/ /\ image = "absent" /\ Opens(rec.mem)
          /\ drv' = [NoDriver EXCEPT !.st = "restore", !.gen = rec.mem, !.pos = 1]
          /\ UNCHANGED vm
    /\ UNCHANGED <<setup, ws, guest, net, host, store, rec, image, budget, past>>

\* the scratch directory is empty at first and gone after a failure
RestoreFails == drv' = [NoDriver EXCEPT !.res = "failed"]

RestoreEntry ==
    /\ drv.st = "restore" /\ drv.pos <= Len(ContentOf(drv.gen))
    /\ \/ /\ NoFault
          /\ LET w == Consume(drv.walk, ContentOf(drv.gen)[drv.pos], TRUE)
             IN  IF w.ok THEN drv' = [drv EXCEPT !.walk = w, !.pos = @ + 1] ELSE RestoreFails
       \/ Fault("disk") /\ RestoreFails
    /\ UNCHANGED <<setup, ws, guest, net, host, store, rec, image, vm, past>>

\* the object's digest is known only at its end
RestoreEnds ==
    /\ drv.st = "restore" /\ drv.pos > Len(ContentOf(drv.gen))
    /\ IF Intact(drv.gen) THEN drv' = Goes("format") ELSE RestoreFails
    /\ UNCHANGED <<setup, ws, guest, net, host, store, rec, image, vm, budget, past>>

Restored == {[name |-> x.at, kind |-> x.kind, to |-> x.to, v |-> x.v, size |-> x.size] : x \in drv.walk.made}

\* mutant: the image is formatted where it belongs
FormatInPlace ==
    /\ drv.st = "format"
    /\ image' = "half" /\ ws' = {} /\ drv' = Goes("rename")
    /\ UNCHANGED <<setup, guest, net, host, store, rec, vm, budget, past>>

\* beside the image: what an earlier attempt left there is removed first
FormatRestored ==
    /\ drv.st = "format"
    /\ \/ NoFault /\ drv' = Goes("rename")
       \/ Fault("disk") /\ RestoreFails
    /\ UNCHANGED <<setup, ws, guest, net, host, store, rec, image, vm, past>>

RenameRestored ==
    /\ drv.st = "rename"
    /\ image' = "whole" /\ ws' = Restored /\ drv' = NoDriver
    /\ UNCHANGED <<setup, guest, net, host, store, rec, vm, budget, past>>

-----------------------------------------------------------------------------
(* The runner's process dies and starts again; the VM does not notice.     *)
Crash ==
    /\ Fault("crash")
    /\ drv' = NoDriver /\ host' = NoHost
    /\ rec' = [rec EXCEPT !.mem = rec.disk]
    /\ net' = [net EXCEPT !.conn = 0, !.asked = {}, !.wire = <<>>]
    /\ UNCHANGED <<setup, ws, guest, store, image, vm, past>>

\* an object is damaged, or the key file is replaced
Rot ==
    /\ Fault("rot")
    /\ \/ \E g \in Gens : store.man[g] # 0 /\ store' = [store EXCEPT !.bad = @ \cup {g}]
       \/ store' = [store EXCEPT !.locked = {g \in Gens : store.man[g] # 0}]
    /\ UNCHANGED <<setup, ws, guest, net, host, drv, rec, image, vm, past>>

-----------------------------------------------------------------------------
GuestStep ==
    \E k \in Nonces :
        \/ QuiesceCold(k) \/ WalkIndex(k) \/ WalkBody(k) \/ CopyFile(k) \/ CloseStream(k)
        \/ ReportEnd(k) \/ ReportReady(k)

HostStep == ReceiveControl \/ DropChunk \/ AwaitAck \/ ReadStream \/ AwaitReady

DriverStep ==
    \/ TakeChunk \/ PipeEnds \/ FailureEnds
    \/ PutContent \/ PutManifest \/ RecordCheckpoint \/ SaveRecord \/ Verify \/ StopVM
    \/ RestoreEntry \/ RestoreEnds \/ FormatRestored \/ RenameRestored

Next ==
    \/ GuestStep \/ HostStep \/ DriverStep
    \/ Suspend \/ Resume \/ RemoveWorkspace
    \/ Write \/ Drop \/ Reconnect \/ Crash \/ Rot
    \/ \E k \in Nonces : Anything(k)

(* The sandbox and the runner keep running, and the timers fire.           *)
Spec == Init /\ [][Next]_vars /\ WF_vars(GuestStep \/ HostStep \/ DriverStep)

-----------------------------------------------------------------------------
(* Properties.                                                             *)

(* Whatever a checkpoint holds, an entry restored from it is made at its   *)
(* own path below the target, never through a link an earlier entry made   *)
(* (consumeStream).  This holds of a restore that fails half way too.      *)
LandsWhereNamed == \A x \in drv.walk.made : x.at = x.name

(* A manifest in the store (Writer.Write over wstream.FS) names a whole    *)
(* object that reads back.  It holds, of a sandbox that walks a tree, each *)
(* name that was there throughout and only bytes that name had meanwhile;  *)
(* of one that says anything, each name its index gave outside the         *)
(* excluded paths, with what was sent under that name.                     *)
CommittedWasThere ==
    \A g \in Gens : (store.man[g] # 0 /\ setup.stored = {<<>>}) =>
        LET k == store.man[g]
            content == Range(store.objs[k])
            h == past.streams[k]
        IN  /\ Verifies(store.objs[k])
            /\ setup.unvouched => /\ content \subseteq h.sent
                                /\ Named(content) = {n \in h.named : ~Excluded(n)}
            /\ ~setup.unvouched => /\ content \subseteq {Entry(x) : x \in Kept(h.had)}
                                 /\ (h.always \cap Named(Kept(h.had))) \subseteq Named(content)

(* A session whose workspace nobody wrote to while it was being streamed   *)
(* comes back from a cold suspend with exactly that workspace, less what   *)
(* is excluded, whether its image survived or was restored, and whatever   *)
(* failed in between (Microvm.Suspend, ensureWorkspaceForResume).          *)
ResumesWithItsWork == (vm = "booted" /\ ~past.dirty) => Kept(ws) = past.kept

(* A cold suspend ends, whatever the sandbox, the connection and the store *)
(* do; where nothing goes wrong it ends with the VM stopped.               *)
SuspendEnds ==
    /\ (drv.st # "idle") ~> (drv.st = "idle")
    /\ (setup.clean /\ drv.st = "index") ~> (vm = "stopped")
=============================================================================
